\* Funds of a new split account that are not displayed.
SPECIFICATION MCSpec
CONSTANTS
  Items <- MCItems
  NoItem <- NoField
  NumGeneralItems = 11
  Messages <- MCAllMessages
  NoMessage = NoMessage
  BodyRequests <- ProcessMessageBody
  BlindRequests <- BlindItems
  InSwap <- MCInSwap
  BlindSigningAllowed <- MCBlindSigningAllowed
  Displays <- ValueDisplays
INVARIANT
  UnshownCreateIsFree
