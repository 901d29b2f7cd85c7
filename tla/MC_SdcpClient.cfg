SPECIFICATION FairSpec
CONSTANTS
    image = image
    coordinator = coordinator
    Callers = {image, coordinator}
    Nobody = Nobody
    AskedBy <- Asked
    MaxJobs = 2
INVARIANTS ConnectedIsHeard AnswerIsStored NobodyWaitsUnheard
PROPERTIES RepliesAreOwn CommandsReturn StaleFilamentGoes
CHECK_DEADLOCK FALSE
