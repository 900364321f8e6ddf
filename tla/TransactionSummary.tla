-------------------------- MODULE TransactionSummary --------------------------
(***************************************************************************)
(* The items of G_transaction_summary (libsol/transaction_summary.c): four *)
(* slots with a name and NumGeneralItems general ones.  A printer asks for *)
(* a slot and writes an item into it; finalisation lists the items, and    *)
(* the review displays them by their index.                                *)
(*                                                                         *)
(* What an item displays is left out: an item stands for itself.  The      *)
(* token warnings and the transaction type, which select a title and a     *)
(* warning page, are in SolanaApp.                                         *)
(***************************************************************************)
EXTENDS FiniteSets, Selections

CONSTANTS
  Items,            \* what the slots can hold
  NoItem,           \* a slot of kind SummaryItemNone
  NumGeneralItems   \* NUM_GENERAL_ITEMS

ASSUME SummaryAssumption ==
  /\ NoItem \notin Items
  /\ NumGeneralItems \in Nat

NamedSlots == {"primary", "nonce_account", "nonce_authority", "fee_payer"}
GeneralSlots == 1..NumGeneralItems
Slots == NamedSlots \union {"general"}

\* struct TransactionSummary.
Summaries ==
  [named : [NamedSlots -> Items \union {NoItem}],
   general : [GeneralSlots -> Items \union {NoItem}]]

\* transaction_summary_reset.
EmptySummary ==
  [named |-> [s \in NamedSlots |-> NoItem],
   general |-> [i \in GeneralSlots |-> NoItem]]

\* Mutant: when all are used, the last one is given out again.
UnusedGeneralOrLast(s) ==
  LET unused == {i \in GeneralSlots : s.general[i] = NoItem}
  IN IF unused = {} THEN {NumGeneralItems} ELSE unused

\* The general slots transaction_summary_general_item chooses from.
UnusedGeneral(s) == {i \in GeneralSlots : s.general[i] = NoItem}

\* Whether transaction_summary_*_item returns an item and not NULL.
SlotFree(s, slot) ==
  IF slot = "general" THEN UnusedGeneral(s) # {} ELSE s.named[slot] = NoItem

\* The first of them.
FirstUnused(s) ==
  CHOOSE i \in UnusedGeneral(s) : \A j \in UnusedGeneral(s) : i <= j

\* summary_item_set_* on the item returned for a free slot.
SetItem(s, slot, item) ==
  IF slot = "general"
  THEN [s EXCEPT !.general[FirstUnused(s)] = item]
  ELSE [s EXCEPT !.named[slot] = item]

\* The item is in the slot, or in one of the general slots.
Holds(s, slot, item) ==
  IF slot = "general" THEN \E i \in GeneralSlots : s.general[i] = item
                      ELSE s.named[slot] = item

\* transaction_summary_finalize fails.
Unfinished(s) == s.named["primary"] = NoItem

Used(items) == InOrder(items, Items)
GeneralItems(s) == [i \in GeneralSlots |-> s.general[i]]

\* The steps transaction_summary_finalize counts, in their order.
Finalized(s) ==
  Used(<<s.named["primary"]>> \o GeneralItems(s)
         \o <<s.named["nonce_account"], s.named["nonce_authority"],
              s.named["fee_payer"]>>)

\* Mutant: the index does not move past the nonce account.
FindItemAtNonce(s, index) ==
  LET optional == Used(GeneralItems(s) \o <<s.named["nonce_account"]>>)
  IN CASE index = 0 -> s.named["primary"]
       [] index \in 1..Len(optional) -> optional[index]
       [] index = Len(optional) + 1 -> s.named["fee_payer"]
       [] OTHER -> NoItem

\* transaction_summary_find_item: the item displayed at an index from 0.  The
\* first index is the primary slot and the last one the fee payer's, whether
\* they are used or not; NoItem is also what no index finds.
FindItem(s, index) ==
  LET optional == Used(GeneralItems(s) \o <<s.named["nonce_account"],
                                            s.named["nonce_authority"]>>)
  IN CASE index = 0 -> s.named["primary"]
       [] index \in 1..Len(optional) -> optional[index]
       [] index = Len(optional) + 1 -> s.named["fee_payer"]
       [] OTHER -> NoItem

===============================================================================
