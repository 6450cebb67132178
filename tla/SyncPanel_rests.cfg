SPECIFICATION FairSpec
CONSTANTS
    Panels = {p1, p2}
    MaxJobs = 3
    MaxFailures = 3
INVARIANT TypeOK OneChain NeverStuck OutcomeIsTrue
PROPERTY ComesToRest
CHECK_DEADLOCK FALSE
