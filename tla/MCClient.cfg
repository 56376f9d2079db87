SPECIFICATION Spec
CONSTANTS
  User = User  Partner = Partner  Nobody = Nobody
  b1 = b1  b2 = b2  x1 = x1  x2 = x2
  Box = {b1, b2}  Text = {x1, x2}
  Scenes <- Panels
  MaxPresses = 3
SYMMETRY Sym
INVARIANTS TypeOK SuccessIsYours SameWishOnce
PROPERTIES UndoHitsOwnRecord SuccessIsFresh
CHECK_DEADLOCK FALSE
