SPECIFICATION LoadSpec
CONSTANTS
  level = level uri = uri a = a b = b v = v w = w
  Timeout = Timeout DefaultCluster = DefaultCluster Auth = Auth
  Absent = Absent Unreadable = Unreadable Malformed = Malformed Empty = Empty
  Options = {level, Timeout, DefaultCluster} Keys = {uri}
  Values = {v, w, a, b} ClusterNames = {a, b}
  DefaultConfig <- MCDefaultConfig Files <- MCFiles
INVARIANT UserFileWins
