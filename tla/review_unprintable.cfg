\* A finalised item that cannot be displayed.
SPECIFICATION MCSpec
CONSTANTS
  Items <- MCItems
  NoItem <- NoField
  NumGeneralItems = 11
  Messages <- MCAllMessages
  NoMessage = NoMessage
  BodyRequests <- ProcessMessageBody
  BlindRequests <- BlindItems
  InSwap <- MCInSwap
  BlindSigningAllowed <- MCBlindSigningAllowed
  Displays <- ValueDisplays
INVARIANT
  ReviewedItemsDisplay
