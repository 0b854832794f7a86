SPECIFICATION Spec
CONSTANTS
    p1 = p1 p2 = p2
    v1 = v1 v2 = v2
    Proc = {p1, p2}
    Version = {v1, v2}
    Old = v1
CHECK_DEADLOCK FALSE
INVARIANTS WholeLtc AloneKeepsMode
