\* One path with data, or two without, with small windows.
SPECIFICATION FairSpec
CONSTANTS
  MAX_CWND = 6
  initsegs = 5
  maxidle = 1
  valpha = 1
  vbeta = 2
  a1 = a1
  a2 = a2
  a3 = a3
  Addrs = {a1, a2, a3}
  MAX_CONNECT = 2
  Setups <- SetupsTwo
  NULL = NULL
  
PROPERTIES BackoffOncePerWindow 
CHECK_DEADLOCK FALSE
