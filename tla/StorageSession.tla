---------------------------- MODULE StorageSession ----------------------------
(***************************************************************************)
(* One caller of StorageClient that keeps the upload contract: it hands    *)
(* over a file, waits for uploadFinished, and probes the node's health     *)
(* only in between, as ArchivePlugin does.  uploadFinished carries no      *)
(* request id, so the caller credits it to the upload it is waiting for.   *)
(***************************************************************************)
EXTENDS StorageClient, FiniteSets, Naturals

CONSTANTS
  Blob,                 \* files the caller may upload
  NoBlob,               \* "waiting for nothing"
  Sharing,              \* may another consumer upload to the same node?
  Slowness              \* may an upload call time out after the node took the file?

ASSUME SessionAssumption ==
  /\ NoBlob \notin Blob
  /\ Sharing \subseteq BOOLEAN
  /\ Slowness \subseteq BOOLEAN

VARIABLES
  awaiting,             \* the upload whose uploadFinished the caller expects
  credited,             \* what the caller was told is stored
  shared,               \* (node) does another consumer upload to it?
  slow,                 \* (node) may its answer to an upload call come too late?
  held                  \* (node) what is stored

callerVars == <<awaiting, credited>>
nodeVars == <<shared, slow>>
vars == <<storageVars, callerVars, nodeVars, held>>

\* A node that nobody else uploads to, and that answers calls in time.
OwnNode == ~shared /\ ~slow

\* The type invariant; it also says that an uploadFinished only ever comes to a
\* caller that waits for one (credited never holds NoBlob).
TypeOK ==
  /\ StorageTypeOK(Blob)
  /\ awaiting \in Blob \cup {NoBlob}
  /\ credited \in SUBSET Blob
  /\ shared \in BOOLEAN
  /\ slow \in BOOLEAN
  /\ held \in SUBSET Blob

Init ==
  /\ StorageInit
  /\ awaiting = NoBlob
  /\ credited = {}
  /\ shared \in Sharing
  /\ slow \in Slowness
  /\ held = {}

Health ==
  /\ \/ InitStorage
     \/ InitReply
     \/ \E ok \in BOOLEAN : StorageStart(ok)
  /\ UNCHANGED <<slotVars, callerVars, nodeVars, held>>

Probe(ok) ==
  /\ awaiting = NoBlob
  /\ PollHealth(ok)
  /\ UNCHANGED <<slotVars, callerVars, nodeVars, held>>

Upload(b) ==
  /\ awaiting = NoBlob
  /\ storageState = "ready"
  /\ \/ UploadAccepted(b) /\ awaiting' = b
     \/ (UploadRefused \/ (slow /\ UploadTimedOut(b))) /\ UNCHANGED awaiting
  /\ UNCHANGED <<healthVars, credited, nodeVars, held>>

\* Faulty variant: a failed upload is taken for a stored one.
UploadFinishedAnyway(ok) == awaiting' = NoBlob /\ credited' = credited \cup {awaiting}

\* The uploadFinished handler of the caller.
UploadFinished(ok) ==
  /\ awaiting' = NoBlob
  /\ credited' = IF ok THEN credited \cup {awaiting} ELSE credited

\* Faulty variants: a stray event is forwarded; a failure is not.
UploadDoneForwarded(b, ok) ==
  /\ UploadDoneEvent(b)
  /\ held' = IF ok THEN held \cup {b} ELSE held
  /\ UploadFinished(ok)
  /\ UNCHANGED <<healthVars, nodeVars>>

UploadDoneSwallowed(b, ok) ==
  /\ UploadDoneEvent(b)
  /\ held' = IF ok THEN held \cup {b} ELSE held
  /\ IF uploading /\ ok THEN UploadFinished(ok) ELSE UNCHANGED callerVars
  /\ UNCHANGED <<healthVars, nodeVars>>

UploadDone(b, ok) ==
  /\ UploadDoneEvent(b)
  /\ held' = IF ok THEN held \cup {b} ELSE held
  /\ IF uploading THEN UploadFinished(ok) ELSE UNCHANGED callerVars
  /\ UNCHANGED <<healthVars, nodeVars>>

ForeignDone(ok) ==
  /\ shared
  /\ ForeignUploadDone
  /\ IF uploading THEN UploadFinished(ok) ELSE UNCHANGED callerVars
  /\ UNCHANGED <<healthVars, nodeVars, held>>

Next ==
  \/ Health
  \/ \E ok \in BOOLEAN : Probe(ok) \/ ForeignDone(ok)
  \/ \E b \in Blob : Upload(b)
  \/ \E b \in Blob, ok \in BOOLEAN : UploadDone(b, ok)

(***************************************************************************)
(* The event loop delivers init's answer and the node's events, and the    *)
(* 10 s timer keeps probing a node that answers again and again.           *)
(***************************************************************************)
Fairness ==
  /\ WF_vars(InitReply /\ UNCHANGED <<slotVars, callerVars, nodeVars, held>>)
  /\ SF_vars(Probe(TRUE))
  /\ WF_vars(\E b \in Blob, ok \in BOOLEAN : UploadDone(b, ok))

Spec == Init /\ [][Next]_vars /\ Fairness

-----------------------------------------------------------------------------
\* The light is green only after the node has completed a bootstrap: a ping
\* that answers never turns a node green that was never up (pollHealth,
\* test health_pingNeverPromotesToReady).
ReadyMeansBootstrapped == storageState = "ready" => everReady

\* One upload in flight: the node never works on two of our uploads, and while
\* the caller waits, the one it waits for is the one the node works on
\* (storage_client.h: "storage contract: one upload in flight").  It takes a node
\* that nobody else uploads to and that answers in time: the event carries no
\* owner, and a call that timed out is a failed one.
OneUploadInFlight ==
  OwnNode =>
    /\ Cardinality(nodeUploads) <= 1
    /\ awaiting # NoBlob => nodeUploads = {awaiting} /\ uploading

\* The caller is told "stored" only of files the node holds: an event is never
\* taken for the completion of another upload (the stray-event guard in the
\* storageUploadDone subscription), on a node of our own that answers in time.
CreditedIsHeld == OwnNode => credited \subseteq held

\* Once the node has been up, a blip is only a blip: the light goes green
\* again whatever order the failed pings, a late storageStart and init's
\* answer come in (test health_blipRestoresReadyAfterEverStarted).
BlipRecovers == everReady ~> storageState = "ready"

\* The caller sees an upload service: whatever the slot, the light, stray events
\* and the node's order do, every accepted file is answered once, and truly so on a
\* node of our own that answers in time (StorageClient's header: upload, then uploadFinished).
Service == INSTANCE UploadService WITH request <- awaiting, crossed <- ~OwnNode
ServesUploads == Service!Spec

\* Every accepted upload is answered and the slot is free again.
UploadAnswered == awaiting # NoBlob ~> awaiting = NoBlob /\ ~uploading
==============================================================================
