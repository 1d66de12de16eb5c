\* A remote change is never applied while the process runs.
CONSTANTS
  WorkspaceKeys <- MCWorkspaceKeys
  FwUrlKeys <- MCFwUrlKeys
  FwStrKeys <- MCFwStrKeys
  PlainVals <- MCPlainVals
  QuotedVals <- MCQuotedVals
  EncOf <- MCEncOf
  PaddedTokens <- MCPaddedTokens
  AppIds = {"app"}
  Salt16 <- MCSalt16
  SaltOther <- MCSaltOther
  Missing = Missing
  Malformed = Malformed
  Corrupt = Corrupt
  NoConfig = NoConfig
  DefaultCands <- MCDefaultCandsSmall
  ProfileCands <- MCProfileCandsSmall
  EnvCands <- MCEnvCandsSmall
  RemoteCands <- MCRemoteCandsSmall
  Profiles <- MCProfiles
  NetOutcomes = {"ok"}
  RelativePath = TRUE
  Crypto = TRUE
  MaxInits = 1
  MaxPublish = 1

SPECIFICATION Spec

PROPERTY RemoteChangeApplied

CHECK_DEADLOCK FALSE
