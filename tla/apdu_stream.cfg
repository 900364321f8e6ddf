\* Chunks in every order; the host stops after MaxApdus of them.
SPECIFICATION Spec
CONSTANTS
  Units <- MCUnits
  ZeroHash = "zeros"
  MaxMessageLength = 4
  Paths <- MCPaths
  NoPath = "nopath"
  Infos <- MCInfos
  NoInfo = "noinfo"
  Descriptors <- MCDescriptors
  HeaderParses <- Anything
  BlockhashAt <- Start
  IsSigner <- Anything2
  BodyProcessed <- Anything2
  SummaryFinalizes <- Anything2
  TokenWarning <- Anything2
  OffchainValid <- Anything2
  IsAscii <- Anything
  TrustedNameValid <- Anything
  TrustedNameChallenge <- Start
  TrustedNameInfo <- OneInfo
  DynamicTokenValid <- Anything
  DynamicTokenInfo <- OneInfo
  DescriptorValid <- Anything2
  DescriptorOf <- OneDescriptor
  SameSeries <- Anything2
  DescriptorsAccept <- Anything3
  SwapAccepts <- Anything3
  Apdus <- StreamApdus
  MaxApdus = 4
CHECK_DEADLOCK FALSE
INVARIANT
  PayloadIsOneRun
