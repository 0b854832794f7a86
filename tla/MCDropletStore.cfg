SPECIFICATION Spec
CONSTANTS
    c1 = c1
    c2 = c2
    c3 = c3
    d1 = d1
    d2 = d2
    Absent = Absent
    Client = {c1, c2, c3}
    Droplet = {d1, d2}
    Name <- MCName
    Kinds <- MCKinds
    Jobs <- MCJobs
    Page = 4
    MaxTasks = 2
INVARIANTS
    BuilderSeesTheApp
    DropletsArrive
PROPERTY
    CompletedIsDone
CHECK_DEADLOCK FALSE
