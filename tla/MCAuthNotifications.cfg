SPECIFICATION Spec
CONSTANTS
  t1 = t1
  t2 = t2
  NULL = NULL
  h1 = h1
  v1 = v1
  v2 = v2
  bad = bad
  Slots <- MCSlots
  Channels = {"email", "sms"}
  Names = {"hello", "reset"}
  InvalidNames = {}
  Sources = {v1, v2, bad}
  Hosts <- MCHosts
  Broken = {bad}
  HasProjectDir = TRUE
  MaxCacheSize = 1
  MaxEdits = 1
  HostKeys <- MCHostKeys
  Events <- MCEvents
  TemplateOf <- MCTemplateOf
INVARIANTS TypeOK CacheBounded ResolvedMeansMailed MailFromOwnTemplate
PROPERTIES ResolutionOrder EveryEventSettles
CHECK_DEADLOCK FALSE
