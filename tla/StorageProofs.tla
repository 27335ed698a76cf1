---------------------------- MODULE StorageProofs ----------------------------
(***************************************************************************)
(* What StorageClient promises its caller, for any files, on a node of its *)
(* own or a shared or slow one: the invariants of StorageSession, and that the     *)
(* session implements the upload service.                                  *)
(***************************************************************************)
EXTENDS StorageSession, FiniteSetTheorems, TLAPS

(***************************************************************************)
(* The slot, the caller and the node say the same: the slot is taken while *)
(* the caller waits, and on a node of our own the upload the node works on *)
(* is the one the caller waits for.                                        *)
(***************************************************************************)
SlotIsAwaited == uploading <=> awaiting # NoBlob
NodeIsAwaited == OwnNode => nodeUploads = IF awaiting = NoBlob THEN {} ELSE {awaiting}

IInv ==
  /\ TypeOK
  /\ ReadyMeansBootstrapped
  /\ SlotIsAwaited
  /\ NodeIsAwaited
  /\ CreditedIsHeld

\* Nothing is awaited, taken or held at the start.
LEMMA InitHolds == Init => IInv
  BY SessionAssumption
     DEF SessionAssumption, Init, StorageInit, IInv, TypeOK, StorageTypeOK, StorageState,
         InitAnswer, ReadyMeansBootstrapped, SlotIsAwaited, NodeIsAwaited, CreditedIsHeld

\* Nothing that concerns the light touches the slot, and no light goes green early.
LEMMA HealthKeeps ==
  ASSUME IInv, Health \/ \E ok \in BOOLEAN : Probe(ok)
  PROVE  IInv'
<1> USE DEF IInv, TypeOK, StorageTypeOK, StorageState, InitAnswer, ReadyMeansBootstrapped
<1>1. UNCHANGED <<slotVars, callerVars, nodeVars, held>>
  BY DEF Health, Probe
<1>2. SlotIsAwaited' /\ NodeIsAwaited' /\ CreditedIsHeld'
  BY <1>1 DEF SlotIsAwaited, NodeIsAwaited, CreditedIsHeld, OwnNode, slotVars, callerVars,
              nodeVars
<1>3. TypeOK' /\ ReadyMeansBootstrapped'
  <2>1. CASE InitStorage
    BY <1>1, <2>1 DEF InitStorage, slotVars, callerVars, nodeVars
  <2>2. CASE InitReply
    BY <1>1, <2>2 DEF InitReply, InitInFlight, slotVars, callerVars, nodeVars
  <2>3. CASE \E ok \in BOOLEAN : StorageStart(ok)
    BY <1>1, <2>3 DEF StorageStart, slotVars, callerVars, nodeVars
  <2>4. CASE \E ok \in BOOLEAN : PollHealth(ok)
    BY <1>1, <2>4 DEF PollHealth, Pinged, slotVars, callerVars, nodeVars
  <2>5. QED
    BY <2>1, <2>2, <2>3, <2>4 DEF Health, Probe
<1>4. QED
  BY <1>2, <1>3

\* An upload that is accepted takes the slot of a node that has nothing of ours; one
\* that times out, on a node that is not prompt, leaves the slot free.
LEMMA UploadKeeps ==
  ASSUME IInv, NEW b \in Blob, Upload(b)
  PROVE  IInv'
<1> USE DEF IInv, TypeOK, StorageTypeOK, ReadyMeansBootstrapped, healthVars, nodeVars, OwnNode
<1>1. CASE UploadAccepted(b) /\ awaiting' = b
  BY <1>1, SessionAssumption
     DEF Upload, UploadAccepted, SessionAssumption, SlotIsAwaited, NodeIsAwaited, CreditedIsHeld
<1>2. CASE UploadRefused /\ UNCHANGED awaiting
  BY <1>2 DEF Upload, UploadRefused, UploadBusy, UploadRejected, slotVars,
              SlotIsAwaited, NodeIsAwaited, CreditedIsHeld
<1>3. CASE slow /\ UploadTimedOut(b) /\ UNCHANGED awaiting
  BY <1>3 DEF Upload, UploadTimedOut, SlotIsAwaited, NodeIsAwaited, CreditedIsHeld
<1>4. QED
  BY <1>1, <1>2, <1>3 DEF Upload

(***************************************************************************)
(* An event of ours.  On a node of our own its file is the awaited one, so *)
(* what the caller is credited is what the node now holds.                 *)
(***************************************************************************)
LEMMA EventIsAwaited ==
  ASSUME IInv, NEW b \in Blob, b \in nodeUploads, OwnNode
  PROVE  b = awaiting /\ nodeUploads = {b} /\ uploading
  BY DEF IInv, NodeIsAwaited, SlotIsAwaited

\* The node ends the awaited upload: the slot and the caller are free again.
LEMMA UploadDoneKeeps ==
  ASSUME IInv, NEW b \in Blob, NEW ok \in BOOLEAN, UploadDone(b, ok)
  PROVE  IInv'
<1> USE DEF IInv, TypeOK, StorageTypeOK, UploadDone, UploadDoneEvent, UploadFinished
<1>1. ReadyMeansBootstrapped'
  BY DEF ReadyMeansBootstrapped, healthVars
<1>2. awaiting' = NoBlob /\ ~uploading'
  BY DEF SlotIsAwaited, callerVars
<1>3. awaiting # NoBlob => awaiting \in Blob
  OBVIOUS
<1>4. TypeOK'
  BY <1>2, <1>3 DEF healthVars, callerVars, nodeVars, SlotIsAwaited
<1>5. OwnNode => nodeUploads' = {} /\ credited' \subseteq held'
  BY EventIsAwaited DEF CreditedIsHeld
<1>6. OwnNode' = OwnNode /\ nodeVars' = nodeVars
  BY DEF OwnNode, nodeVars
<1>7. QED
  BY <1>1, <1>2, <1>4, <1>5, <1>6 DEF SlotIsAwaited, NodeIsAwaited, CreditedIsHeld

\* Another consumer's event frees the slot and answers the caller; only on a shared node.
LEMMA ForeignDoneKeeps ==
  ASSUME IInv, NEW ok \in BOOLEAN, ForeignDone(ok)
  PROVE  IInv'
<1> USE DEF IInv, TypeOK, StorageTypeOK, ForeignDone, ForeignUploadDone, UploadFinished
<1>1. ~OwnNode' /\ awaiting' = NoBlob /\ ~uploading'
  BY DEF SlotIsAwaited, callerVars, nodeVars, OwnNode
<1>2. TypeOK' /\ ReadyMeansBootstrapped'
  BY <1>1 DEF healthVars, callerVars, nodeVars, SlotIsAwaited, ReadyMeansBootstrapped
<1>3. QED
  BY <1>1, <1>2 DEF SlotIsAwaited, NodeIsAwaited, CreditedIsHeld

\* The invariant is about variables of the session only.
LEMMA StutterKeeps ==
  ASSUME IInv, UNCHANGED vars
  PROVE  IInv'
  BY DEF IInv, TypeOK, StorageTypeOK, ReadyMeansBootstrapped, SlotIsAwaited, NodeIsAwaited,
         CreditedIsHeld, OwnNode, vars, storageVars, callerVars, nodeVars

\* Every step keeps the invariant.
LEMMA StepKeeps == IInv /\ [Next]_vars => IInv'
<1> SUFFICES ASSUME IInv, [Next]_vars PROVE IInv'
  OBVIOUS
<1>1. QED
  BY HealthKeeps, UploadKeeps, UploadDoneKeeps, ForeignDoneKeeps, StutterKeeps DEF Next

\* The inductive invariant of the session (StorageClient::upload and the
\* storageUploadDone subscription against ArchivePlugin's one waiting caller).
THEOREM SessionInvariance == Spec => []IInv
  BY InitHolds, StepKeeps, PTL DEF Spec

\* Every variable keeps its type; in particular uploadFinished only ever comes to a
\* caller that waits for one.
THEOREM SessionTypeCorrect == Spec => []TypeOK
<1>1. IInv => TypeOK
  BY DEF IInv
<1>2. QED
  BY <1>1, SessionInvariance, PTL

\* The light is green only after a bootstrap (pollHealth, storageStart, init's answer).
THEOREM GreenIsBootstrapped == Spec => []ReadyMeansBootstrapped
<1>1. IInv => ReadyMeansBootstrapped
  BY DEF IInv
<1>2. QED
  BY <1>1, SessionInvariance, PTL

\* The node never works on two of our uploads, and the one it works on is awaited.
THEOREM OneInFlightAlways == Spec => []OneUploadInFlight
<1>1. IInv => OneUploadInFlight
  <2>1. SUFFICES ASSUME IInv, OwnNode
                 PROVE  /\ Cardinality(nodeUploads) <= 1
                        /\ awaiting # NoBlob => nodeUploads = {awaiting} /\ uploading
    BY DEF OneUploadInFlight
  <2>2. Cardinality({}) = 0 /\ Cardinality({awaiting}) = 1
    BY FS_EmptySet, FS_Singleton
  <2>3. Cardinality(nodeUploads) <= 1
    BY <2>1, <2>2 DEF IInv, NodeIsAwaited
  <2>4. QED
    BY <2>1, <2>3 DEF IInv, NodeIsAwaited, SlotIsAwaited
<1>2. QED
  BY <1>1, SessionInvariance, PTL

\* On a node of our own, and prompt, the caller is told "stored" only of files the node holds.
THEOREM CreditIsDue == Spec => []CreditedIsHeld
<1>1. IInv => CreditedIsHeld
  BY DEF IInv
<1>2. QED
  BY <1>1, SessionInvariance, PTL

-----------------------------------------------------------------------------
(***************************************************************************)
(* The refinement: an accepted upload is a request, an event that finds    *)
(* the slot taken is the answer, an event that finds it free is a late     *)
(* store, and everything else is invisible.                                *)
(***************************************************************************)
LEMMA InitServes == Init => Service!Init
  BY SessionAssumption DEF SessionAssumption, OwnNode, Init, Service!Init

\* A call is a request of the service, or is refused and shows nothing.
LEMMA UploadServes ==
  ASSUME NEW b \in Blob, Upload(b)
  PROVE  [Service!Next]_Service!vars
<1>1. CASE UploadAccepted(b) /\ awaiting' = b
  <2>1. Service!Request(b)
    BY <1>1 DEF Upload, OwnNode, nodeVars, Service!Request
  <2>2. QED
    BY <2>1 DEF Service!Next
<1>2. CASE UNCHANGED awaiting
  BY <1>2 DEF Upload, OwnNode, nodeVars, Service!vars
<1>3. QED
  BY <1>1, <1>2 DEF Upload

\* The event of the node's own upload is the answer to the request.
LEMMA UploadDoneServes ==
  ASSUME IInv, NEW b \in Blob, NEW ok \in BOOLEAN, UploadDone(b, ok)
  PROVE  [Service!Next]_Service!vars
<1> USE DEF UploadDone, UploadDoneEvent, UploadFinished
<1>0. OwnNode' = OwnNode
  BY DEF OwnNode, nodeVars
<1>1. CASE uploading
  <2>1. awaiting # NoBlob
    BY <1>1 DEF IInv, SlotIsAwaited
  <2>2. OwnNode => b = awaiting
    BY EventIsAwaited
  <2>3. Service!Answer(ok)
    BY <1>0, <1>1, <2>1, <2>2 DEF Service!Answer
  <2>4. QED
    BY <2>3 DEF Service!Next
<1>2. CASE ~uploading
  <2>1. ~OwnNode
    BY <1>2, EventIsAwaited
  <2>2. UNCHANGED <<awaiting, credited, OwnNode>>
    BY <1>0, <1>2 DEF callerVars
  <2>3. CASE ok
    BY <2>1, <2>2, <2>3 DEF Service!StoredLate, Service!Next
  <2>4. CASE ~ok
    BY <2>2, <2>4 DEF Service!vars
  <2>5. QED
    BY <2>3, <2>4
<1>3. QED
  BY <1>1, <1>2

\* An event of another consumer answers the request, or shows nothing.
LEMMA ForeignDoneServes ==
  ASSUME IInv, NEW ok \in BOOLEAN, ForeignDone(ok)
  PROVE  [Service!Next]_Service!vars
<1> USE DEF ForeignDone, ForeignUploadDone, UploadFinished
<1>0. ~OwnNode /\ OwnNode' = OwnNode
  BY DEF OwnNode, nodeVars
<1>1. CASE uploading
  <2>1. awaiting \in Blob /\ awaiting # NoBlob
    BY <1>1 DEF IInv, SlotIsAwaited, TypeOK
  <2>2. Service!Answer(ok)
    BY <1>0, <1>1, <2>1 DEF Service!Answer
  <2>3. QED
    BY <2>2 DEF Service!Next
<1>2. CASE ~uploading
  BY <1>0, <1>2 DEF callerVars, Service!vars
<1>3. QED
  BY <1>1, <1>2

\* Every step of the session is a step of the service, or shows nothing.
LEMMA StepServes == IInv /\ [Next]_vars => [Service!Next]_Service!vars
<1> SUFFICES ASSUME IInv, [Next]_vars PROVE [Service!Next]_Service!vars
  OBVIOUS
<1>1. CASE Health \/ \E ok \in BOOLEAN : Probe(ok)
  BY <1>1 DEF Health, Probe, callerVars, nodeVars, OwnNode, Service!vars
<1>2. CASE UNCHANGED vars
  BY <1>2 DEF vars, callerVars, nodeVars, OwnNode, Service!vars
<1>3. QED
  BY <1>1, <1>2, UploadServes, UploadDoneServes, ForeignDoneServes DEF Next

\* The safety half of ServesUploads: one file requested at a time, every answer to an
\* open request, and true on a node of our own that answers in time.
THEOREM SessionServes == Spec => Service!Safe
  BY InitServes, StepServes, SessionInvariance, PTL DEF Spec, Service!Safe
==============================================================================
