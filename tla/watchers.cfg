\* Each init with a config center spawns one more polling task.
CONSTANTS
  WorkspaceKeys <- MCWorkspaceKeys
  FwUrlKeys <- MCFwUrlKeys
  FwStrKeys <- MCFwStrKeys
  PlainVals <- MCPlainVals
  QuotedVals <- MCQuotedVals
  EncOf <- MCEncOf
  PaddedTokens <- MCPaddedTokens
  AppIds = {"app"}
  Salt16 <- MCSalt16
  SaltOther <- MCSaltOther
  Missing = Missing
  Malformed = Malformed
  Corrupt = Corrupt
  NoConfig = NoConfig
  DefaultCands <- MCDefaultCandsSmall
  ProfileCands <- MCProfileCandsSmall
  EnvCands <- MCEnvCandsSmall
  RemoteCands <- MCRemoteCandsSmall
  Profiles <- MCProfiles
  NetOutcomes = {"ok"}
  RelativePath = TRUE
  Crypto = TRUE
  MaxInits = 2
  MaxPublish = 1

SPECIFICATION Spec

INVARIANT AtMostOneWatcher

CHECK_DEADLOCK FALSE
