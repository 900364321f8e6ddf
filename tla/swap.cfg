\* Every message against every swap.
SPECIFICATION SwapSpec
CONSTANTS
  Items <- MCItems
  NoItem <- NoField
  NumGeneralItems = 11
  Messages <- MCMessages
  NoMessage = NoMessage
  BodyRequests <- SwapBodyRequests
  BlindRequests <- MCBlindRequests
  InSwap <- MCInSwap
  BlindSigningAllowed <- MCBlindSigningAllowed
  Displays <- SwapDisplays
  SolDecimals = 2
  TextLength = 9
  PrintableLength = 12
  Swaps <- MCSwaps
  Leftovers <- MCLeftovers
  None = None
INVARIANTS
  NativeSwapSigned
  TokenSwapSigned
  AmountWasDisplayed
  UnprintableNotSigned
