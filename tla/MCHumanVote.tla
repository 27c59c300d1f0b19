---------------------------- MODULE MCHumanVote ----------------------------
EXTENDS HumanVote

CONSTANTS d1, d2, a1, a2

OneHuman == [d \in Dids |-> IF d = d1 THEN a1 ELSE NoAccount]

Routable == [p \in Proposals |-> {"upgrade"}]
Tables == {{}, {"upgrade"}}

Weighted == {{"YES"}, {"YES", "NO"}}
=============================================================================
