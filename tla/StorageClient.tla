---------------------------- MODULE StorageClient ----------------------------
(***************************************************************************)
(* StorageClient over LogosStorageTransport: the bring-up of the platform  *)
(* storage_module, the three-valued health light, and the single upload    *)
(* slot whose completion is an event, not a reply.                         *)
(*                                                                         *)
(* The transport's calls are synchronous, so pin, unpin and the queries    *)
(* leave no state behind and are part of the caller's handlers (module     *)
(* Preserve).  What survives a handler is modelled here: the answer of     *)
(* init, the storageStart event and the storageUploadDone event arrive in  *)
(* steps of their own.                                                     *)
(***************************************************************************)

VARIABLES
  storageState,         \* m_storageState
  everReady,            \* m_everReady: bootstrap seen once
  bringUp,              \* m_initInFlight, with the answer on its way
  booting,              \* (node) a storageStart event is still to come
  uploading,            \* m_uploading
  nodeUploads           \* (node) our uploads it has accepted and not finished

healthVars == <<storageState, everReady, bringUp, booting>>
slotVars == <<uploading, nodeUploads>>
storageVars == <<storageState, everReady, bringUp, booting, uploading, nodeUploads>>

StorageState == {"offline", "starting", "ready"}

\* What initAndStart reports: start accepted, someone else runs the node, or neither.
InitAnswer == {"started", "already_running", "failed"}

\* Blob: the contents that may be handed to upload().
StorageTypeOK(Blob) ==
  /\ storageState \in StorageState
  /\ everReady \in BOOLEAN
  /\ bringUp \in InitAnswer \cup {"none", "done"}
  /\ booting \in BOOLEAN
  /\ uploading \in BOOLEAN
  /\ nodeUploads \in SUBSET Blob

StorageInit ==
  /\ storageState = "offline"
  /\ everReady = FALSE
  /\ bringUp = "none"
  /\ booting = FALSE
  /\ uploading = FALSE
  /\ nodeUploads = {}

InitInFlight == bringUp \in InitAnswer

(***************************************************************************)
(* Bring-up.  Both events are subscribed before init is called, so a       *)
(* storageStart may overtake init's own answer; and one may follow any     *)
(* answer: another module may start the node, or a call of ours that timed *)
(* out may have.                                                           *)
(***************************************************************************)
InitStorage ==
  /\ bringUp = "none"
  /\ bringUp' \in InitAnswer
  /\ booting' = TRUE
  /\ UNCHANGED <<storageState, everReady>>

InitReply ==
  /\ InitInFlight
  /\ bringUp' = "done"
  /\ everReady' = (everReady \/ bringUp = "already_running")
  /\ storageState' = CASE bringUp = "failed" -> "offline"
                       [] bringUp = "already_running" -> "ready"
                       [] bringUp = "started" -> "starting"
  /\ UNCHANGED booting

StorageStart(ok) ==
  /\ booting
  /\ booting' = FALSE
  /\ everReady' = (everReady \/ ok)
  /\ storageState' = IF ok THEN "ready" ELSE "offline"
  /\ UNCHANGED bringUp

\* Faulty variants of Pinged: any answer is "ready"; a blip forgets the bootstrap.
PingedPromotes(ok) == IF InitInFlight THEN storageState ELSE IF ok THEN "ready" ELSE "offline"
PingedForgets(ok) ==
  IF InitInFlight THEN storageState
  ELSE IF ~ok THEN "offline"
  ELSE IF storageState = "offline" THEN "starting"
  ELSE storageState

\* pollHealth: the state a ping with this answer leaves behind.
Pinged(ok) ==
  IF InitInFlight THEN storageState
  ELSE IF ~ok THEN "offline"
  ELSE IF everReady THEN "ready"
  ELSE IF storageState = "offline" THEN "starting"
  ELSE storageState

PollHealth(ok) ==
  /\ storageState' = Pinged(ok)
  /\ UNCHANGED <<everReady, bringUp, booting>>

(***************************************************************************)
(* The upload slot.  upload() ends in one of four ways before it returns;  *)
(* all but an accepted one emit uploadFinished(false) at once, so the      *)
(* caller's handler for it is conjoined by the caller.  Two uploads of the *)
(* same file count as one in nodeUploads.                                  *)
(***************************************************************************)
UploadBusy ==
  /\ uploading
  /\ UNCHANGED slotVars

UploadRejected ==
  /\ ~uploading
  /\ UNCHANGED slotVars

UploadRefused == UploadBusy \/ UploadRejected

\* The call hits the IPC cap, and is a failure for the client, but the node has
\* taken the file and will report its end.
UploadTimedOut(b) ==
  /\ ~uploading
  /\ nodeUploads' = nodeUploads \cup {b}
  /\ UNCHANGED uploading

\* Faulty variant: the slot is not marked as taken.
UploadAcceptedUnmarked(b) == UploadTimedOut(b)

UploadAccepted(b) ==
  /\ ~uploading
  /\ uploading' = TRUE
  /\ nodeUploads' = nodeUploads \cup {b}

\* Faulty variant: the slot is never given back.
UploadDoneEventLeaks(b) ==
  /\ b \in nodeUploads
  /\ nodeUploads' = nodeUploads \ {b}
  /\ UNCHANGED uploading

\* storageUploadDone for one of our uploads; it is forwarded to the caller as
\* uploadFinished only when the client still has an upload in flight.
UploadDoneEvent(b) ==
  /\ b \in nodeUploads
  /\ nodeUploads' = nodeUploads \ {b}
  /\ uploading' = FALSE

\* storage_module is shared: the event of another consumer's upload.
ForeignUploadDone ==
  /\ uploading' = FALSE
  /\ UNCHANGED nodeUploads

\* A restart of the host drops the client and the node's unfinished work.
StorageRestart ==
  /\ storageState' = "offline"
  /\ everReady' = FALSE
  /\ bringUp' = "none"
  /\ booting' = FALSE
  /\ uploading' = FALSE
  /\ nodeUploads' = {}
==============================================================================
