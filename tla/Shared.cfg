\* One stream on a two-slot channel, fed by one energy leaf and a controller
\* state that expires.
CONSTANTS
  soc = soc v1 = v1 s1 = s1 c1 = c1
  Null = Null
  Absent = Absent
  Leaves <- EnergyOnly
  EnergyLeaves <- EnergyOnly
  Values = {v1}
  States = {s1}
  Acks = {}
  Clients = {c1}
  InverterTTL = 1
  MaxAge = 0
  Capacity = 2
  MaxGeneration = 2
SPECIFICATION FairSharedSpec
INVARIANTS ReadingsAgree OutageServesNothing NoLostUpdate AtMostOneLateItem
PROPERTIES StreamsEnd ExpiryIsReported
