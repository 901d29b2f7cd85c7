SPECIFICATION FairSpec
CONSTANTS
    Uploads = {u1, u2}
    Starting = {u1}
    NoOne = NoOne
    Chunks = 2
    MaxReloads = 1
    MaxJobs = 2
INVARIANTS PrintsOwnFile JobShowsItsFile
PROPERTIES UploadsReturn
CHECK_DEADLOCK FALSE
