\* Three processes, and a run of two calls with room for five bytes.
CONSTANTS
    p1 = p1  p2 = p2  p3 = p3
    Process = {p1, p2, p3}
    Nobody = Nobody
    Table = {"runs", "calls", "waits"}
    MaxPayload = 5
    Length = {0, 1, 3}
    MaxCalls = 2
SPECIFICATION StoreSpec
SYMMETRY Processes
INVARIANTS OpenedIsWhole PayloadBounded
CHECK_DEADLOCK FALSE
