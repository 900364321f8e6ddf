\* Everything the host and the user can do from the dashboard.
SPECIFICATION Spec
CONSTANTS
  Units <- MCUnits
  ZeroHash = "zeros"
  MaxMessageLength = 4
  Paths <- MCPaths
  NoPath = "nopath"
  Infos <- MCInfos
  NoInfo = "noinfo"
  Descriptors <- MCDescriptors
  HeaderParses <- MCHeaderParses
  BlockhashAt <- MCBlockhashAt
  IsSigner <- MCIsSigner
  BodyProcessed <- MCBodyProcessed
  SummaryFinalizes <- MCSummaryFinalizes
  TokenWarning <- MCTokenWarning
  OffchainValid <- MCOffchainValid
  IsAscii <- MCIsAscii
  TrustedNameValid <- MCTrustedNameValid
  TrustedNameChallenge <- MCTrustedNameChallenge
  TrustedNameInfo <- MCTrustedNameInfo
  DynamicTokenValid <- MCDynamicTokenValid
  DynamicTokenInfo <- MCDynamicTokenInfo
  DescriptorValid <- MCDescriptorValid
  DescriptorOf <- MCDescriptorOf
  SameSeries <- MCSameSeries
  DescriptorsAccept <- MCDescriptorsAccept
  SwapAccepts <- MCSwapAccepts
  Apdus <- DashboardApdus
  Settings <- AllSettings
  Swaps <- NoSwaps
  NoSwap = "noswap"
  MaxDescriptors = 2
  MaxChallenge = 3
INVARIANTS
  TypeOK
  AnsweredOnce
  SummaryStillTrue
  PreviewUnderSpinner
  TrustedInfoUsedUp
  SwitchesShowSettings
  BlindReviewAllowed
PROPERTIES
  PreviewForNextCommandOnly
