SPECIFICATION Spec
CONSTANTS
  album = album
  page = page
  pin = pin
  Nobody = Nobody
  IaItem = {album, page}
  CidItem = {}
  Collections = {}
  FileCount <- MCFileCount
  Published <- MCPublished
  Candidates <- MCCandidates
  Oversize = {}
  UserOps = {"mirror", "abort"}
  AbortPhases = {"none", "manifest", "download", "upload"}
  StaleView = FALSE
  Overlap = FALSE
  Restarts = FALSE
  LostEvents = FALSE
  SharedNode = FALSE
  SlowCalls = FALSE
INVARIANT MirroredIsStored
CHECK_DEADLOCK FALSE
