\* Environments that vary one setting or one list of sources at a time.
CONSTANTS
  t1 = t1 t2 = t2 c1 = c1 c2 = c2
  None = None
  Garbled = Garbled
  Tokens = {t1, t2}
  Clients = {c1, c2}
  Devices = {1, 2}
  Environments <- MCEnvironments
SPECIFICATION GatewaySpec
INVARIANTS RunsAsConfigured BridgeOutlivesRequests NoDoubleCount
PROPERTY ShutdownCompletes
CHECK_DEADLOCK FALSE
