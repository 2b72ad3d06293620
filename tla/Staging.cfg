SPECIFICATION StagingSpec
CONSTANTS
    Uploads = {u1, u2}
    MaxDrafts = 2
    Requests = {r1, r2}
    TTL = 0
    MaxHeld = 1
    MaxPerPost = 2
    MaxRaces = 1
    MaxFailures = 1
    Nothing = Nothing
INVARIANTS WordsAndPicturesInStep ShortfallIsSpoken
PROPERTIES BytesDoNotLinger
CHECK_DEADLOCK FALSE
