SPECIFICATION DropletsSpec
CONSTANTS
    p1 = p1 p2 = p2 u1 = u1 u2 = u2
    web = web webAdmin = webAdmin debug = debug shop = shop
    Guid = {web, webAdmin, debug}
    Reserved = debug
    NoTask = NoTask
    Absent = Absent
    MaxPolls = 1
    CancelTimeout = 1
    User = {u1, u2}
    App = {shop}
    Proc = {p1}
    Command <- OneBuild
    Work <- ImportsAndRemoves
    StartsWith <- Dashed
CHECK_DEADLOCK FALSE
INVARIANT RemoveLeavesOtherDroplets
