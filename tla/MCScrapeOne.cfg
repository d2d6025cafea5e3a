CONSTANTS
  s1 = s1
  s2 = s2
  t1 = t1
  t2 = t2
  a1 = a1
  a2 = a2
  NoAlias = NoAlias
  NoCred = NoCred
  Foreign = Foreign
  Scrapers = {s1}
  Targets = {t1}
  TargetOf <- SameTarget
  AliasOf <- NoAliases
  Configs <- VaultOnly
  Disable404Retry = FALSE
  MaxCred = 3
  Partial = TRUE
  Operator = FALSE
  MaxTasks = 2
SPECIFICATION FairSpec
PROPERTIES ScrapeEnds CredentialsConverge
