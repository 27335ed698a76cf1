-------------------------------- MODULE Keeper --------------------------------
(***************************************************************************)
(* What preserving promises the user: a table of rows and, behind it, what *)
(* is really kept.  A row becomes "mirrored" only when its whole content   *)
(* is kept, one item is worked on at a time, and what is kept is given up  *)
(* only by releasing its own row.  Manifests, files, uploads, sources and  *)
(* the queue do not show.                                                  *)
(***************************************************************************)
CONSTANTS Item, Nobody

VARIABLES
  shown,                \* the state each row is shown in
  current,              \* the item being worked on
  kept                  \* the items whose whole content is stored

vars == <<shown, current, kept>>

\* What a row of this state becomes when it is shown as s; a row that is gone stays so.
Show(rows, i, s) == IF rows[i] = "gone" THEN rows ELSE [rows EXCEPT ![i] = s]

Init ==
  /\ shown = [i \in Item |-> "gone"]
  /\ current = Nobody
  /\ kept = {}

(***************************************************************************)
(* Rows are discovered and work may start, on the user's call or by itself.*)
(* What the network still provides is kept at once; for the rest the work  *)
(* begins, or there is nobody to get it from.                              *)
(***************************************************************************)
Take(rows, i) ==
  /\ rows[i] # "gone"
  /\ \/ shown' = [rows EXCEPT ![i] = "mirroring"] /\ current' = i /\ UNCHANGED kept
     \/ shown' = [rows EXCEPT ![i] = "mirrored"] /\ kept' = kept \cup {i} /\ UNCHANGED current
     \/ shown' = [rows EXCEPT ![i] = "error"] /\ UNCHANGED <<current, kept>>

Discover(S) ==
  /\ \A i \in S : shown[i] = "gone"
  /\ LET rows == [i \in Item |-> IF i \in S THEN "available" ELSE shown[i]]
     IN \/ shown' = rows /\ UNCHANGED <<current, kept>>
        \/ current = Nobody /\ \E i \in Item : Take(rows, i)

(***************************************************************************)
(* The work: parts are stored until the item is complete, or it fails.     *)
(***************************************************************************)
Work ==
  /\ current # Nobody
  /\ kept' \in {kept, kept \cup {current}}
  /\ shown' \in {shown, Show(shown, current, "mirroring")}
  /\ UNCHANGED current

Complete ==
  /\ current # Nobody
  /\ kept' = kept \cup {current}
  /\ shown' = Show(shown, current, "mirrored")
  /\ current' = Nobody

Fail ==
  /\ current # Nobody
  /\ \E s \in {"error", "pending"} : shown' = Show(shown, current, s)
  /\ current' = Nobody
  /\ UNCHANGED kept

Abort(i) ==
  /\ shown[i] \in {"mirroring", "pending"}
  /\ shown' = [shown EXCEPT ![i] = "available"]
  /\ current' \in {current, IF current = i THEN Nobody ELSE current}
  /\ UNCHANGED kept

\* Unpreserve one row: nothing but its own content goes.
Release(i) ==
  /\ shown[i] = "mirrored"
  /\ \E s \in {"available", "error"} : shown' = [shown EXCEPT ![i] = s]
  /\ kept' \in {kept, kept \ {i}}
  /\ UNCHANGED current

Forget(S) ==
  /\ shown' = [i \in Item |-> IF i \in S THEN "gone" ELSE shown[i]]
  /\ UNCHANGED <<current, kept>>

\* What was mirrored still is, nothing else became so, and what was gone stays gone;
\* work and failures do not survive.
Restart ==
  /\ shown' \in [Item -> {"gone", "available", "mirrored", "pending"}]
  /\ \A i \in Item : shown'[i] = "mirrored" <=> shown[i] = "mirrored"
  /\ \A i \in Item : shown[i] = "gone" => shown'[i] = "gone"
  /\ current' = Nobody
  /\ UNCHANGED kept

Next ==
  \/ \E S \in SUBSET Item : Discover(S) \/ Forget(S)
  \/ Work \/ Complete \/ Fail
  \/ \E i \in Item : Abort(i) \/ Release(i)
  \/ Restart

Spec == Init /\ [][Next]_vars
==============================================================================
