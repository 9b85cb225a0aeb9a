SPECIFICATION Spec
CONSTANTS
  t = t
  tx = tx
  Empty = none
  Texts = {none, t, tx}
  Longer <- MCLonger
  Ids = {id}
  MaxLine = 2
  MaxMarkers = 3
  MaxErrors = 2
INVARIANTS TypeOK RunVerdict ErrVerdict NoSilentPass
CHECK_DEADLOCK FALSE
