SPECIFICATION FairSpec
CONSTANTS
    p1 = p1 p2 = p2 p3 = p3
    web = web db = db debug = debug
    Proc = {p1, p2}
    Name = {web, db, debug}
    Reserved = debug
    Port = {2222, 8080, 9999}
    SshPort = 2222
    DefaultPort = 0
    MaxInst = 2
    MaxPolls = 2
    NoLRP = NoLRP
    Command <- Everything
CHECK_DEADLOCK FALSE
INVARIANTS TypeOK DomainBeforeApp ExitCodeAccounts RemovedInOrder
PROPERTIES ImplementsRegistry EveryCommandEnds
