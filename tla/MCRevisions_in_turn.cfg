SPECIFICATION Spec
CONSTANTS
    Writers = {w1}
    MaxVersion = 4
    NoRow = NoRow
    Requests = {"revise", "update", "publish", "unpublish", "deleteRevision", "delete", "bin", "restore"}
    OneAtATime = TRUE
INVARIANTS
    TypeOK
    AtMostOneLatest
    AtMostOnePublished
    FlagsAgree
    NewestIsLatest
    LiveIsKeptUp
CHECK_DEADLOCK FALSE
