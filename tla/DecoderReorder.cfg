SPECIFICATION Spec
CONSTANTS
  BLOCK_SIZE = 3
  Reorder = TRUE
  MaxFlight = 2
  MaxSent = 3
INVARIANTS DeliveredTrue
CHECK_DEADLOCK FALSE
