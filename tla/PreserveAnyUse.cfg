SPECIFICATION Spec
CONSTANTS
  album = album
  page = page
  pin = pin
  Nobody = Nobody
  IaItem = {page}
  CidItem = {pin}
  Collections = {}
  FileCount <- MCFileCount
  Published <- MCPublished
  Candidates <- MCOneCandidate
  Oversize = {pin}
  UserOps = {"mirror", "abort"}
  AbortPhases = {"none", "manifest", "download", "upload"}
  StaleView = FALSE
  Overlap = TRUE
  Restarts = TRUE
  LostEvents = TRUE
  SharedNode = TRUE
  SlowCalls = TRUE
INVARIANTS TypeOK OnlyVerifiedUploads
PROPERTY AbortCancelsIa
CHECK_DEADLOCK FALSE
