SPECIFICATION Spec
CONSTANTS
    Junk = Junk
    Absent = Absent
    NoTag = NoTag
    Nil = Nil
    Own = Own
    Part <- MCPart
    Dotted <- MCDotted
    SshPort = 2222
    ReservedPorts = {22, 80, 2222, 8080, 65535}
    Lines <- AllLines
    Images <- SomeImages
CHECK_DEADLOCK FALSE
INVARIANTS NoPanic OwnNameIsMonitored SshIsNotRouted RunsTheImageNamed RoutesAreShown ShownAsOften
