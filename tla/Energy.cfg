\* Four configurations of sources, one session and the next one's start.
CONSTANTS
  Null = Null
  Absent = Absent
  Text = Text
  Leaves <- MCLeaves
  EnergyLeaves <- MCLeaves
  Values <- MCValues
  Offered <- MCOffered
  Configs <- MCConfigs
  States = {}
  Acks = {}
  Clients = {}
  InverterTTL = 0
  MaxAge = 1
  Capacity = 1
  MaxGeneration = 1
  MaxFinite = 4000000
  SpokenLimit = 2
SPECIFICATION EnergySpec
INVARIANTS WholeOrNothing AlarmsAreTold TextsAgree
