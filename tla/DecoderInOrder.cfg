SPECIFICATION Spec
CONSTANTS
  BLOCK_SIZE = 3
  Reorder = FALSE
  MaxFlight = 1
  MaxSent = 5
INVARIANTS RowsTrue DeliveredTrue 
CHECK_DEADLOCK FALSE
