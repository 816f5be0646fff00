\* Two paths and two edits of the Host directory at any moment.
CONSTANTS
    Paths <- TwoPaths
    Data <- Texts
    MaxFiles = 2
    MaxBytes = 1
    MaxEdits = 2
SPECIFICATION Spec
INVARIANTS ReadsAreMoments ConflictsAreReal
CHECK_DEADLOCK FALSE
