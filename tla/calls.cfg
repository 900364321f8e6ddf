\* Every function without a state over small sets of arguments.
SPECIFICATION Spec
CONSTANTS
  Width = 8
  Radix = 5
  Base = 3
  PublicKeyOf <- MCPublicKeyOf
  MaxPathLength = 3
  AddressLength = 5
  Null = Null
  o1 = o1
  o2 = o2
  MintA = MintA
  MintB = MintB
  MintC = MintC
  Nothing = Nothing
  LastNonce = 2
  Derive <- MCDerive
  OnCurve <- MCOnCurve
  Registry <- MCRegistry
  KeySize = 2
  HashSize = 2
  ResultSize = 5
  MaxSigners = 11
  ProgramKeys <- MCProgramKeys
  ArtifactPrefix <- MCArtifactPrefix
  Alphabet <- MCAlphabet
  SigningDomain <- MCSigningDomain
  DomainSize = 2
  MaxOffchainLength = 14
INVARIANTS
  TextMeansAmount
  AnyOrderIsNumeric
  TextWholeOrRefused
  KeyTextIdentifies
  DatesAreCalendar
  TickerMeansMint
  AccountHasOneOwner
  ParsersInvertEncodings
  DecodedAsDocumented
  OffchainShownAsSigned
\* A run is one call.
CHECK_DEADLOCK FALSE
