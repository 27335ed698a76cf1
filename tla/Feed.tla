--------------------------------- MODULE Feed ---------------------------------
(* What following a channel promises: a list that is at every moment exactly *)
(* what the channel inscribed from the slot the user asked for up to some    *)
(* slot, less the rows the user removed; it is read onwards slot by slot,    *)
(* and a crash takes list and position back together, to a moment when both  *)
(* were saved.  Nodes, pages, heights, failures and rotations do not show.   *)
EXTENDS Naturals, Functions

CONSTANTS
    Channel,        \* channel ids
    Inscription,    \* the chain: [channel, slot, id] records
    MaxSlot,        \* bound: the last slot
    Hints           \* the slots a user asks from

VARIABLES
    feed,           \* by followed channel: asked from, read up to, listed ids
    backup          \* what a crash goes back to

vars == <<feed, backup>>

Empty(since) == [since |-> since, upTo |-> 0, ids |-> {}]

(* What reading on to this slot brings. *)
Inscribed(c, f, to) ==
    {i.id : i \in {j \in Inscription : /\ j.channel = c
                                       /\ j.slot >= f.since
                                       /\ j.slot \in f.upTo + 1 .. to}}

Init == feed = <<>> /\ backup = <<>>

MaySave == backup' \in {backup, feed'}

Follow(c, since) ==
    /\ c \notin DOMAIN feed
    /\ feed' = [d \in DOMAIN feed \cup {c} |-> IF d = c THEN Empty(since) ELSE feed[d]]
    /\ backup' = feed'

Unfollow(cs) ==
    /\ feed' = Restrict(feed, DOMAIN feed \ cs)
    /\ backup' = feed'

Read(c, to) ==
    /\ to > feed[c].upTo
    /\ feed' = [feed EXCEPT ![c].upTo = to, ![c].ids = @ \cup Inscribed(c, feed[c], to)]
    /\ MaySave

Remove(c, id) ==
    /\ feed' = [feed EXCEPT ![c].ids = @ \ {id}]
    /\ backup' = feed'

Save == backup' = feed /\ UNCHANGED feed

Crash == feed' = backup /\ UNCHANGED backup

Next ==
    \/ \E c \in Channel, since \in Hints : Follow(c, since)
    \/ \E cs \in SUBSET DOMAIN feed : Unfollow(cs)
    \/ \E c \in DOMAIN feed, to \in 1..MaxSlot : Read(c, to)
    \/ \E c \in DOMAIN feed : \E id \in feed[c].ids : Remove(c, id)
    \/ Save \/ Crash

Spec == Init /\ [][Next]_vars
===============================================================================
