SPECIFICATION Spec
CONSTANTS
  album = album
  page = page
  pin = pin
  Nobody = Nobody
  IaItem = {album}
  CidItem = {pin}
  Collections = {}
  FileCount <- MCFileCount
  Published <- MCPublished
  Candidates <- MCOneCandidate
  Oversize = {}
  UserOps = {"mirror", "abort", "unmirror", "remove", "unfollow", "removeAll", "auto"}
  AbortPhases = {"none", "manifest", "download"}
  StaleView = FALSE
  Overlap = FALSE
  Restarts = TRUE
  LostEvents = FALSE
  SharedNode = FALSE
  SlowCalls = FALSE
INVARIANTS
  IInv MirroredIsStored SavedMirroredIsStored UploadIsOwn OneInFlight IdleSlotIsFree
  MirroringIsOwned UnverifiedIsCounted
PROPERTIES KeepsItems
CHECK_DEADLOCK FALSE
