\* The signatures, from the dashboard and in swaps, and the answers.
SPECIFICATION FairSpec
CONSTANTS
  Units <- MCUnits
  ZeroHash = "zeros"
  MaxMessageLength = 4
  Paths <- MCPaths
  NoPath = "nopath"
  Infos <- MCInfos
  NoInfo = "noinfo"
  Descriptors <- MCDescriptors
  HeaderParses <- MCHeaderParses
  BlockhashAt <- MCBlockhashAt
  IsSigner <- MCIsSigner
  BodyProcessed <- MCBodyProcessed
  SummaryFinalizes <- MCSummaryFinalizes
  TokenWarning <- MCTokenWarning
  OffchainValid <- MCOffchainValid
  IsAscii <- MCIsAscii
  TrustedNameValid <- MCTrustedNameValid
  TrustedNameChallenge <- MCTrustedNameChallenge
  TrustedNameInfo <- MCTrustedNameInfo
  DynamicTokenValid <- MCDynamicTokenValid
  DynamicTokenInfo <- MCDynamicTokenInfo
  DescriptorValid <- MCDescriptorValid
  DescriptorOf <- MCDescriptorOf
  SameSeries <- MCSameSeries
  DescriptorsAccept <- MCDescriptorsAccept
  SwapAccepts <- MCSwapAccepts
  Apdus <- AllApdus
  Settings <- OnlyBlindSign
  Swaps <- AllSwaps
  NoSwap = "noswap"
  MaxDescriptors = 2
  MaxChallenge = 2
INVARIANT
  GuardsUnreachable
PROPERTIES
  SignsOnlyWithConsent
  CommandAnswered
