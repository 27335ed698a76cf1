SPECIFICATION Spec
CONSTANTS
  Blob = {b1, b2, b3}
  NoBlob = NoBlob
  Sharing = {TRUE, FALSE}
  Slowness = {TRUE, FALSE}
INVARIANTS TypeOK ReadyMeansBootstrapped OneUploadInFlight CreditedIsHeld
PROPERTIES ServesUploads BlipRecovers UploadAnswered
