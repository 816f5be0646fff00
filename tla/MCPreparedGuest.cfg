SPECIFICATION Spec
CONSTANTS
  Runs = {r1, r2}
  Seeds = {s1, s2}
  None = None
  Modules <- MCModules
INVARIANTS
  GuestIsFresh
  MemoryHeldExactly
CHECK_DEADLOCK FALSE
