SPECIFICATION Spec

CONSTANTS
  Scrapers = {s1, s2}
  Limit = 2
  Attempts = 3
  MaxRetries = 3
  MaxSessions = 4
INVARIANTS SessionsAccounted
PROPERTIES OnlyOwnLogout PluginEnds
