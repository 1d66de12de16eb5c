\* A decrypted plaintext holding a quote breaks the re-parsed JSON.
CONSTANTS
  WorkspaceKeys <- MCWorkspaceKeys
  FwUrlKeys <- MCFwUrlKeys
  FwStrKeys <- MCFwStrKeys
  PlainVals <- MCPlainVals
  QuotedVals <- MCQuotedVals
  EncOf <- MCEncOf
  PaddedTokens <- MCPaddedTokens
  AppIds = {"app"}
  Salt16 <- MCSalt16
  SaltOther <- MCSaltOther
  Missing = Missing
  Malformed = Malformed
  Corrupt = Corrupt
  NoConfig = NoConfig
  DefaultCands <- MCDefaultCands
  ProfileCands <- MCProfileCands
  EnvCands <- MCEnvCands
  RemoteCands <- MCRemoteCandsNoTyped
  Profiles <- MCProfiles
  NetOutcomes = {"ok", "status", "transport"}
  RelativePath = TRUE
  Crypto = TRUE
  MaxInits = 2
  MaxPublish = 1

SPECIFICATION Spec

INVARIANT DecryptRoundTrip

CHECK_DEADLOCK FALSE
