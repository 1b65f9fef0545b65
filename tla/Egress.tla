------------------------------- MODULE Egress -------------------------------
(***************************************************************************)
(* What may leave this computer, and what is recorded of it (egress.py).   *)
(*                                                                         *)
(* A destination is a class: this computer, the user's own network, a      *)
(* third party, or the peers of the swarm.  The policy is what the user    *)
(* has authorised the host of the model for: nothing, questions, or        *)
(* passages of documents too.  Host names, addresses and byte counts are   *)
(* left out.                                                               *)
(***************************************************************************)
HostClasses == {"local", "own_network", "third_party"}
Policies == {"nothing", "questions", "passages"}

\* What may leave; the answers of tasks go to a server of embeddings only.
Kinds == {"question", "passages", "public_query", "fragment", "answers"}

\* What left, for where, and for passages the policy of that moment.
Exits == [kind : Kinds, to : HostClasses \union {"peers"}, under : Policies \union {"any"}]

\* A public query goes to a public source, wherever the model runs.
Destination(host, kind) == IF kind = "public_query" THEN "third_party" ELSE host

\* Policy.allows.
Allows(policy, host, kind) ==
    \/ host \in {"local", "own_network"}
    \/ kind = "public_query"
    \/ kind = "question" /\ policy \in {"questions", "passages"}
    \/ kind = "passages" /\ policy = "passages"

\* check_call lets a call out of this computer and records it.
Leaves(policy, host, kind) ==
    Destination(host, kind) # "local" /\ Allows(policy, host, kind)

\* build_receipt: the recorded events and the sends that the ledger never saw.
Receipt(route, events, extra) == [route |-> route, sends |-> events \union extra]

\* _attach_receipt: with the metadata of a distributed answer the fragments
\* that went to peers are added; a public query shows in the route.
AttachReceipt(distributed, toPeers, events) ==
    Receipt(CASE distributed -> "fragmented"
              [] ~distributed /\ "public_query" \in events -> "local+public"
              [] OTHER -> "local",
            events,
            IF distributed /\ toPeers THEN {"fragment"} ELSE {})

=============================================================================
