SPECIFICATION FairSpec
CONSTANTS
    p1 = p1 p2 = p2 p3 = p3
    job = job debug = debug
    Guid = {job, debug}
    Reserved = debug
    NoTask = NoTask
    MaxPolls = 2
    CancelTimeout = 2
    Proc = {p1, p2, p3}
    Command <- Everything
CHECK_DEADLOCK FALSE
INVARIANT TaskExitCodeAccounts
PROPERTY EveryTaskCommandEnds
