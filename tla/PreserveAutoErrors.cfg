SPECIFICATION Spec
CONSTANTS
  album = album
  page = page
  pin = pin
  Nobody = Nobody
  IaItem = {album}
  CidItem = {}
  Collections = {}
  FileCount <- MCFileCount
  Published <- MCPublished
  Candidates <- MCCandidates
  Oversize = {}
  UserOps = {"mirror", "auto"}
  AbortPhases = {"none", "manifest", "download"}
  StaleView = FALSE
  Overlap = FALSE
  Restarts = FALSE
  LostEvents = FALSE
  SharedNode = FALSE
  SlowCalls = FALSE
PROPERTY AutoOnTakesErrors
CHECK_DEADLOCK FALSE
