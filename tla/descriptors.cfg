\* One descriptor with every way of reading and capping an amount, and series of
\* descriptors with the tokens and the messages around them.
SPECIFICATION MCSpec
CONSTANTS
  ProgramP = ProgramP
  ProgramQ = ProgramQ
  KeySigner = KeySigner
  KeyRecipient = KeyRecipient
  KeyOther = KeyOther
  MintA = MintA
  MintB = MintB
  Nothing = Nothing
  Signer = KeySigner
  Half = 8
  BpsLimit = 5
  Whole = 3
  ByteValues = 8
  AmountBytes = 2
  MaxDiscriminator = 2
  MaxDescriptors = 2
  LastNonce = 1
  Derive <- MCDerive
  OnCurve <- MCOnCurve
  Registry <- MCRegistry
  Swaps <- MCSwaps
  Tlvs <- MCTlvs
  Tokens <- SeriesTokens
  Messages <- MCMessages
INVARIANTS
  OneSeries
  FeesWithinCap
  SignedAsDescribed
  RefusedForCause
\* The app ends with the swap.
CHECK_DEADLOCK FALSE
