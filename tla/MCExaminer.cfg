SPECIFICATION ExaminerSpec
CONSTANTS
    App = {a1, a2}
    Cell = {c1, c2}
    Index = {0}
    NoCell = NoCell
SYMMETRY Symmetry
CHECK_DEADLOCK FALSE
INVARIANTS EveryInstanceHasACell AppsArePlausible
