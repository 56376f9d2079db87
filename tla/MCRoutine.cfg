SPECIFICATION Spec
CONSTANTS
  r1 = r1  r2 = r2  r3 = r3
  Def = {r1, r2, r3}
  New = New
  None = None
  Starts <- Households
INVARIANTS TypeOK SavedWholly AppliedInOrder NewOnceUnlessOverwritten
CHECK_DEADLOCK FALSE
