---------------------------- MODULE MessageReview -----------------------------
(***************************************************************************)
(* How a message becomes the items of a review: the printers ask for slots *)
(* of the transaction summary one after the other, give up or not, the     *)
(* summary is finalised, and the review displays its items by their index  *)
(* (src/handle_sign_message.c, libsol/transaction_summary.c,               *)
(* src/ui/sign_message_nbgl.c).                                            *)
(*                                                                         *)
(* What the printers ask for is a parameter: TransactionPrinters computes  *)
(* it.  A request is for a slot, or a "bail"; it is checked when the code  *)
(* tests the slot before it writes.  Writing to a slot that was not tested *)
(* and is NULL crashes the app.                                            *)
(***************************************************************************)
EXTENDS TransactionSummary

CONSTANTS
  Messages,               \* the messages the host sends, with their settings
  NoMessage,              \* none was sent since the start
  BodyRequests(_),        \* what process_message_body asks of the summary
  BlindRequests(_),       \* what the blind review adds
  InSwap(_),              \* G_called_from_swap
  BlindSigningAllowed(_), \* the setting
  Displays(_, _)          \* the value of an item of the message can be printed

Requests ==
  [slot : Slots, item : Items, checked : BOOLEAN]
    \union [slot : {"bail"}, item : {NoItem}, checked : {TRUE}]

ASSUME ReviewAssumption ==
  /\ NoMessage \notin Messages
  /\ \A m \in Messages :
       /\ BodyRequests(m) \in Seq(Requests)
       /\ BlindRequests(m) \in Seq([slot : Slots, item : Items, checked : BOOLEAN])
       \* The fee payer is the last item of a blind review, and of no other.
       /\ \A n \in DOMAIN BodyRequests(m) : BodyRequests(m)[n].slot # "fee_payer"
       /\ \A n \in DOMAIN BlindRequests(m) :
            LET r == BlindRequests(m)[n]
            IN /\ r.slot = "fee_payer" => n = Len(BlindRequests(m))
               /\ r.checked => r.slot = "fee_payer"
       /\ InSwap(m) \in BOOLEAN
       /\ BlindSigningAllowed(m) \in BOOLEAN

VARIABLES
  message,   \* the message of the last command
  stage,     \* what the app is doing with it
  requests,  \* what is asked of the summary at this stage
  served,    \* how much of it was served
  summary,   \* G_transaction_summary
  steps,     \* summary_step_kinds and num_summary_steps
  page       \* how many items the review has displayed

vars == <<message, stage, requests, served, summary, steps, page>>

Stages == {"idle", "printing", "blind", "reviewing", "crashed", "exited"}

Init ==
  /\ message = NoMessage
  /\ stage = "idle"
  /\ requests = <<>>
  /\ served = 0
  /\ summary = EmptySummary
  /\ steps = <<>>
  /\ page = 0

-------------------------------------------------------------------------------
(* The handler. *)

\* Mutant: the summary is not reset.
HandleSignMessageKeepsSummary(m) ==
  /\ stage = "idle"
  /\ message' = m
  /\ stage' = "printing"
  /\ requests' = BodyRequests(m)
  /\ served' = 0
  /\ UNCHANGED <<summary, steps, page>>

HandleSignMessage(m) ==
  /\ stage = "idle"
  /\ message' = m
  /\ stage' = "printing"
  /\ requests' = BodyRequests(m)
  /\ served' = 0
  /\ summary' = EmptySummary
  /\ UNCHANGED <<steps, page>>

Pending == stage \in {"printing", "blind"} /\ served < Len(requests)
Current == requests[served + 1]

\* A request is served.  The blind review ignores that the fee payer is set.
ServeRequest ==
  /\ Pending
  /\ Current.slot # "bail"
  /\ \/ SlotFree(summary, Current.slot)
     \/ stage = "blind" /\ Current.checked
  /\ summary' = IF SlotFree(summary, Current.slot)
                THEN SetItem(summary, Current.slot, Current.item)
                ELSE summary
  /\ served' = served + 1
  /\ UNCHANGED <<message, stage, requests, steps, page>>

\* process_message_body fails: exit to Exchange, refusal, or a blind review
\* that adds its items to those already there.
GiveUp ==
  /\ stage = "printing"
  /\ Pending
  /\ Current.slot # "bail" =>
       Current.checked /\ ~ SlotFree(summary, Current.slot)
  /\ stage' = IF InSwap(message) THEN "exited"
              ELSE IF BlindSigningAllowed(message) THEN "blind" ELSE "idle"
  /\ requests' = BlindRequests(message)
  /\ served' = 0
  /\ UNCHANGED <<message, summary, steps, page>>

\* An item is written through a NULL pointer.
Crash ==
  /\ Pending
  /\ Current.slot # "bail"
  /\ ~ Current.checked
  /\ ~ SlotFree(summary, Current.slot)
  /\ stage' = "crashed"
  /\ UNCHANGED <<message, requests, served, summary, steps, page>>

\* Mutant: the next review starts at the page where the last one ended.
FinalizeKeepsPage ==
  /\ stage \in {"printing", "blind"}
  /\ served = Len(requests)
  /\ stage' = IF Unfinished(summary) THEN "idle" ELSE "reviewing"
  /\ steps' = Finalized(summary)
  /\ UNCHANGED <<message, requests, served, summary, page>>

\* handle_sign_message_ui; the command is refused without a primary item.
Finalize ==
  /\ stage \in {"printing", "blind"}
  /\ served = Len(requests)
  /\ stage' = IF Unfinished(summary) THEN "idle" ELSE "reviewing"
  /\ steps' = Finalized(summary)
  /\ page' = 0
  /\ UNCHANGED <<message, requests, served, summary>>

-------------------------------------------------------------------------------
(* The review, or the comparison with the swap. *)

ItemDisplays ==
  LET item == FindItem(summary, page)
  IN item # NoItem /\ Displays(message, item)

DisplayItem ==
  /\ stage = "reviewing"
  /\ page < Len(steps)
  /\ ItemDisplays
  /\ page' = page + 1
  /\ UNCHANGED <<message, stage, requests, served, summary, steps>>

DisplayFails ==
  /\ stage = "reviewing"
  /\ page < Len(steps)
  /\ ~ ItemDisplays
  /\ stage' = "exited"
  /\ UNCHANGED <<message, requests, served, summary, steps, page>>

\* The user decides, or the comparison with the swap does, which ends the app.
\* A refusal may come before the last item.
Decide ==
  /\ stage = "reviewing"
  /\ stage' = IF InSwap(message) THEN "exited" ELSE "idle"
  /\ UNCHANGED <<message, requests, served, summary, steps, page>>

\* The app is started again.
Restart ==
  /\ stage \in {"crashed", "exited"}
  /\ message' = NoMessage
  /\ stage' = "idle"
  /\ requests' = <<>>
  /\ served' = 0
  /\ summary' = EmptySummary
  /\ steps' = <<>>
  /\ page' = 0

Work ==
  \/ ServeRequest
  \/ GiveUp
  \/ Crash
  \/ Finalize
  \/ DisplayItem
  \/ DisplayFails
  \/ Decide
  \/ Restart

Next == (\E m \in Messages : HandleSignMessage(m)) \/ Work

Spec == Init /\ [][Next]_vars

-------------------------------------------------------------------------------
(* Properties. *)

\* The state is well formed.
TypeOK ==
  /\ message \in Messages \union {NoMessage}
  /\ stage \in Stages
  /\ requests \in Seq(Requests)
  /\ served \in 0..Len(requests)
  /\ summary \in Summaries
  /\ steps \in Seq(Items)
  /\ page \in 0..Len(steps)

\* Everything the printers asked for is still in the summary when the review
\* begins: no item was written over another (transaction_summary_*_item return
\* unused slots only), and none was dropped.
EveryRequestKept ==
  stage = "reviewing" =>
    \A n \in DOMAIN requests :
      Holds(summary, requests[n].slot, requests[n].item)

\* A clear review displays exactly what the printers asked for, nothing of an
\* earlier message among it, in the order of transaction_summary.h: the primary
\* item, the general ones as they came, the nonce and the fee payer.
DisplayOrder ==
  LET Asked(slot) ==
        LET rs == InOrder(requests, {r \in Requests : r.slot = slot})
        IN [n \in DOMAIN rs |-> rs[n].item]
  IN stage = "reviewing" /\ requests = BodyRequests(message) =>
       steps = Asked("primary") \o Asked("general") \o Asked("nonce_account")
                 \o Asked("nonce_authority") \o Asked("fee_payer")

\* The two enumerations of the items agree: transaction_summary_find_item finds
\* at every index the item that transaction_summary_finalize counted there.
DisplayMatchesFinalize ==
  stage = "reviewing" =>
    \A n \in DOMAIN steps : FindItem(summary, n - 1) = steps[n]

\* A message whose printing succeeded has its primary item: the error of
\* finalisation in handle_sign_message_ui is never sent.
FinalizeSucceeds ==
  stage \in {"printing", "blind"} /\ served = Len(requests) =>
    ~ Unfinished(summary)

===============================================================================
