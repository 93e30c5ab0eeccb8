SPECIFICATION Spec
CONSTANTS
    Urls <- MCUrls
    Cameras <- MCCameras
    Room <- MCRoom
    MaxCSeq = 7
    None = None
INVARIANTS
    TypeOK
    UrlSaysItsParts
    RequestsAreWhole
    AnswerIsAsMeant
PROPERTY CameraGetsItsOutcome
CHECK_DEADLOCK FALSE
