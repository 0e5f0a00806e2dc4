\* A packet left over from a broken connection.
CONSTANTS
  soc = soc mode = mode plugged = plugged v1 = v1 v2 = v2 s1 = s1 s2 = s2 a1 = a1
  c1 = c1 k1 = k1 k2 = k2 k3 = k3 k4 = k4
  Null = Null
  Absent = Absent
  Garbage = Garbage
  Leaves <- PumpModeOnly
  EnergyLeaves = {}
  Values = {v1}
  States = {s1}
  Acks = {}
  Clients = {}
  Commands = {}
  Kind <- NoCommand
  Selectable = {}
  Writable = {}
  PumpMode <- PumpModeLeaf
  PumpConnected <- PumpConnectedLeaf
  ValidModes = {v1}
  One = v1
  InverterTTL = 0
  MaxAge = 0
  Capacity = 1
  MaxGeneration = 2
  CommandTTL = 0
  QueueCap = 1
  MaxInflight = 1
  MaxBatch = 1
SPECIFICATION BridgeSpec
PROPERTIES AppliesOnlyCurrentSession
