\* An item that needs a general slot and finds none.
SPECIFICATION MCSpec
CONSTANTS
  Items <- MCItems
  NoItem <- NoField
  NumGeneralItems = 11
  Messages <- MCAllMessages
  NoMessage = NoMessage
  BodyRequests <- ProcessMessageBody
  BlindRequests <- BlindItems
  InSwap <- MCInSwap
  BlindSigningAllowed <- MCBlindSigningAllowed
  Displays <- ValueDisplays
INVARIANT
  GeneralItemsFit
