SPECIFICATION FairSpec
CONSTANTS
  album = album
  page = page
  pin = pin
  Nobody = Nobody
  IaItem = {album}
  CidItem = {pin}
  Collections = {}
  FileCount <- MCFileCount
  Published <- MCPublished
  Candidates <- MCCandidates
  Oversize = {}
  UserOps = {"mirror", "abort", "auto"}
  AbortPhases = {"none", "manifest", "download"}
  StaleView = FALSE
  Overlap = FALSE
  Restarts = FALSE
  LostEvents = FALSE
  SharedNode = FALSE
  SlowCalls = FALSE
INVARIANTS PendingIsQueued
PROPERTIES AutoOnTakesAvailable PreserveEnds QueueIsServed
CHECK_DEADLOCK FALSE
