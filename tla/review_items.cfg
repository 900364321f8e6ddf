\* The items of every message, from the printers to the display, and messages
\* one after the other.
SPECIFICATION MCSpec
CONSTANTS
  Items <- MCItems
  NoItem <- NoField
  NumGeneralItems = 11
  Messages <- MCAllMessages
  NoMessage = NoMessage
  BodyRequests <- ProcessMessageBody
  BlindRequests <- BlindItems
  InSwap <- MCInSwap
  BlindSigningAllowed <- MCBlindSigningAllowed
  Displays <- ValueDisplays
INVARIANTS
  TypeOK
  EveryRequestKept
  DisplayOrder
  DisplayMatchesFinalize
  FinalizeSucceeds
  NothingHidden
  BlindReviewShowsHash
  OverflowOnlyWithExtras
