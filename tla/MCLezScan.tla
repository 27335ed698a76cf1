----------------------------- MODULE MCLezScan -----------------------------
(* The chains, gateway lists and hints of the instances of LezScan.          *)
EXTENDS LezScan

CONSTANTS news, music, near, far

(* An early inscription, one that a later page inscribes again, and one near *)
(* the tip.                                                                  *)
OneChannelChain ==
    {[channel |-> news, slot |-> 2, id |-> "a"], [channel |-> news, slot |-> 3, id |-> "b"],
     [channel |-> news, slot |-> 5, id |-> "a"]}

TwoChannelChain ==
    {[channel |-> news, slot |-> 2, id |-> "a"], [channel |-> music, slot |-> 3, id |-> "b"]}

Both == <<near, far>>
OnlyNear == <<near>>
OnlyFar == <<far>>
Lists == {OnlyFar}
NoLists == {}
=============================================================================
