CONSTANTS
  s1 = s1
  s2 = s2
  t1 = t1
  t2 = t2
  a1 = a1
  a2 = a2
  NoAlias = NoAlias
  NoCred = NoCred
  Foreign = Foreign
  Scrapers = {s1, s2}
  Targets = {t1}
  TargetOf <- SameTarget
  AliasOf <- NoAliases
  Configs <- AnySource
  Disable404Retry = TRUE
  MaxCred = 2
  Partial = TRUE
  Operator = TRUE
  MaxTasks = 1
SPECIFICATION FairSpec
INVARIANTS InvalidOnlyAfterRefresh ScriptCredentialUsed
PROPERTIES ScriptConverges
