------------------------------- MODULE MCChat -------------------------------
(* Instances of Chat for TLC. *)
EXTENDS Chat

\* A third party as the host of the model, with each authorisation that lets it
\* answer; with one of them answers are compared on that host too.
MCSettings == {[host |-> "third_party", policy |-> "questions", embedder |-> "hash"],
               [host |-> "third_party", policy |-> "passages", embedder |-> "server"]}

\* The same, and answers are compared in this process.
HashSettings == [host : {"third_party"}, policy : {"questions", "passages"}, embedder : {"hash"}]
=============================================================================
