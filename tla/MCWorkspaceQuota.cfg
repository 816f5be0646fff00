\* Two names, paths of two components, two open files.
CONSTANTS
    Name = {a, b}
    Handle = {h1, h2}
    MaxFiles = 3
    MaxBytes = 3
    MaxFileBytes = 2
    MaxDepth = 2
    DirSize = 1
    StatMayFail = FALSE
    MaxLen = 2
SPECIFICATION Spec
SYMMETRY Symmetry
INVARIANTS WithinLimits AccountExact
CHECK_DEADLOCK FALSE
