\* Every protocol and command, against a child of proxy_remote and against other proxies.
SPECIFICATION UpFairSpec
CONSTANTS
  Types = {"SOCKS5", "SOCKS4", "HTTPCONNECT", "HTTP"}
  Cmds = {"CONNECT", "BIND", "UDP"}
  Creds <- CredsTried
  Peers = {"child", "other"}
  Pieces = TRUE
  Unset = {"in", "out", "none"}
INVARIANTS Granted AskedFor CredentialsRead
PROPERTIES Settled
CHECK_DEADLOCK FALSE
