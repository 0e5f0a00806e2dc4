CONSTANTS
  n1 = n1 n2 = n2
  MaxDepth = 2
  Expected <- Plan
  Nothing = Nothing
  Probes = {n1}
  Jobs = {n1}
  Files = {manifest, lock}
  Rewritten = {lock}
  Absent = Absent
  BuiltFrom <- MCBuiltFrom
  Archives <- MCArchives
  Content <- MCContent
  Other = Other
  None = None
  Mapping <- MCMapping
  Version = v
  Publishers = {1, 2}
  Latest = {1}
  Resolvers = {1}
  Unset = Unset
  Popular = {"replaced"}
  Bytes <- MCBytes
  Held = {n1, n2}
  Foreign = Foreign
SPECIFICATION FairSpec
INVARIANTS LeftoversAreKnown PublishedWasRun LatestIsComplete ResolvedIsServed
PROPERTIES OthersKeepTheirs VersionTagNeverMoves ProbesReport
CHECK_DEADLOCK FALSE
