------------------------------ MODULE MCPreserve ------------------------------
(***************************************************************************)
(* Instances of Preserve for TLC: a two-file item whose second file has no *)
(* published checksum, a one-file item, and a CID row with two IA sources. *)
(***************************************************************************)
EXTENDS Preserve, TLC

CONSTANTS album, page, pin

MCFileCount == [i \in IaItem |-> IF i = album THEN 2 ELSE 1]
MCPublished == {<<i, 1>> : i \in IaItem}
MCCandidates == [i \in CidItem |-> 2]
MCOneCandidate == [i \in CidItem |-> 1]
==============================================================================
