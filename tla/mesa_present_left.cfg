SPECIFICATION Spec
CONSTANTS
    c1 = c1
    c2 = c2
    a1 = a1
    a2 = a2
    Nobody = nobody
    Contexts = {c1}
    Arrays = {a1}
    Sizes = {1}
    Width = 2
    MaxBrackets = 4
INVARIANT EqualAfterMirror
CHECK_DEADLOCK FALSE
