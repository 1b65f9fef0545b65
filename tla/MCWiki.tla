------------------------------- MODULE MCWiki -------------------------------
EXTENDS Wiki, TLC
CONSTANTS style, fact
LearnRule == [authored_by_user |-> TRUE, wiki |-> TRUE, learn_style |-> TRUE, learn_procedure |-> FALSE, retain_episodic |-> FALSE, reference_only |-> FALSE]
ReferRule == [authored_by_user |-> FALSE, wiki |-> TRUE, learn_style |-> FALSE, learn_procedure |-> FALSE, retain_episodic |-> FALSE, reference_only |-> TRUE]
MCRules == {LearnRule, ReferRule}
MCPolicies == {[s \in Sources |-> LearnRule], [s \in Sources |-> IF s = 1 THEN LearnRule ELSE ReferRule]}
MCTypeOf == style :> "style" @@ fact :> "fact"
=============================================================================
