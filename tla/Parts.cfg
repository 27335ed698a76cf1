SPECIFICATION Spec
CONSTANTS
  FileName = {"", "f"}
  Sum = {"", "s"}
  MaxElements = 6
  IdLength = 2
  MaxDigits = 2
  MaxText = 6
  MaxCandidates = 2
  TitleLength = 5
  MaxLabel = 6
  Id = {"", "x"}
  TxHash = {"t", "u"}
  MaxOps = 3
  MaxPages = 2
  Channel <- Channels
  Official = 1
  OnChain <- Chain
  Content <- Files
  WithCid = {"book"}
  None = None
INVARIANTS
  ManifestIsRead
  HintIsAnchored
  SourcesAgree
  SkipsAreCounted
  UnfollowSticks
  PreservedIsHeld
  FreedIsGone
  FileKeepsMirrored
CHECK_DEADLOCK FALSE
