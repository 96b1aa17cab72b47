---------------------------- MODULE MCPolicyStore ---------------------------
EXTENDS PolicyStore

CONSTANTS pol_default, pol_other

Limited(n) == [limits |-> [l \in {"max_rpm"} |-> n], lists |-> Defaults.lists,
               actions |-> Defaults.actions]
MCPayloads == {Defaults, Limited(1), Limited(0)}
MCSubmitted == {Release, Version(<<"2", ".", "0", ".">>, 0)}
=============================================================================
