SPECIFICATION Spec
CONSTANTS
  a = a b = b va = va vb = vb ua = ua ub = ub uf = uf odd = odd opaque = opaque
  path = path bad = bad v1 = v1 good = good stale = stale
  NoURI = NoURI NoVersion = NoVersion NoToken = NoToken NoName = NoName
  DefaultPath = DefaultPath
  Absolute = {ua, ub, uf} Hostless = {odd} Opaque = {opaque}
  Relative = {path, DefaultPath} Unusable = {bad}
  Versions = {v1} Tokens = {good, stale} Valid = {good} Vars = {va, vb}
  EnvVar <- MCEnvVar Configs <- MCConfigs FlagSets <- MCFlagSets Envs <- MCEnvs
INVARIANTS TypeOK TokenMatchesCluster AuthIsEnforced VersionMatchesBase
