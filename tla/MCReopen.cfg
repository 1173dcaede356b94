SPECIFICATION Spec
CONSTANTS
    Tasks = {p1, p2}
    INos = {1, 2}
    Blocks = {11, 12}
    Handles = {1}
    NIL = NIL
INVARIANT
    OpensTheFile
