------------------------- MODULE MessageReviewProofs --------------------------
(***************************************************************************)
(* What is proved of MessageReview, for every set of messages, number of   *)
(* general slots and sequences of requests the assumptions allow: no item  *)
(* of a review is lost between the printers and the summary, and they are  *)
(* displayed in their order.                                               *)
(***************************************************************************)
EXTENDS MessageReview, CommonLemmas

(* The slots. *)

\* The slot transaction_summary_general_item returns is the first of the unused ones.
LEMMA FirstUnusedIsFirst ==
  ASSUME NEW s, UnusedGeneral(s) # {}
  PROVE  /\ FirstUnused(s) \in UnusedGeneral(s)
         /\ \A j \in UnusedGeneral(s) : FirstUnused(s) <= j
  <1>1. UnusedGeneral(s) \subseteq Nat
    BY SummaryAssumption DEF UnusedGeneral, GeneralSlots
  <1>2. PICK i \in UnusedGeneral(s) :
          \A j \in UnusedGeneral(s) : <<j, i>> \notin OpToRel(<, Nat)
    BY <1>1, NatLessThanWellFounded, WFMin
  <1>3. \A j \in UnusedGeneral(s) : i <= j
    <2> SUFFICES ASSUME NEW j \in UnusedGeneral(s), ~ i <= j
                 PROVE  FALSE
      OBVIOUS
    <2>1. j < i
      BY <1>1
    <2>2. <<j, i>> \in OpToRel(<, Nat)
      BY <1>1, <2>1, SMT DEF OpToRel
    <2> QED
      BY <1>2, <2>2
  <1> QED
    BY <1>3 DEF FirstUnused

\* Writing to a free slot makes a summary that holds the new item.
LEMMA SetItemHolds ==
  ASSUME NEW s \in Summaries, NEW slot \in Slots, NEW item \in Items,
         SlotFree(s, slot)
  PROVE  /\ SetItem(s, slot, item) \in Summaries
         /\ Holds(SetItem(s, slot, item), slot, item)
  <1>1. CASE slot = "general"
    <2>1. FirstUnused(s) \in GeneralSlots
      BY <1>1, FirstUnusedIsFirst DEF SlotFree, UnusedGeneral
    <2> QED
      BY <1>1, <2>1 DEF SetItem, Holds, Summaries
  <1>2. CASE slot # "general"
    <2>1. slot \in NamedSlots
      BY <1>2 DEF Slots
    <2> QED
      BY <1>2, <2>1 DEF SetItem, Holds, Summaries
  <1> QED
    BY <1>1, <1>2

\* Writing to a free slot keeps every item the summary holds.
LEMMA SetItemKeeps ==
  ASSUME NEW s \in Summaries, NEW slot \in Slots, NEW item \in Items,
         SlotFree(s, slot),
         NEW other \in Slots, NEW kept \in Items, Holds(s, other, kept)
  PROVE  Holds(SetItem(s, slot, item), other, kept)
  <1>1. kept # NoItem
    BY SummaryAssumption
  <1>2. CASE slot = "general"
    <2>1. FirstUnused(s) \in GeneralSlots /\ s.general[FirstUnused(s)] = NoItem
      BY <1>2, FirstUnusedIsFirst DEF SlotFree, UnusedGeneral
    <2>2. CASE other = "general"
      <3>1. PICK i \in GeneralSlots : s.general[i] = kept
        BY <2>2 DEF Holds
      <3>2. SetItem(s, slot, item).general[i] = kept
        BY <1>1, <1>2, <2>1, <3>1 DEF SetItem, Summaries
      <3> QED
        BY <2>2, <3>2 DEF Holds
    <2>3. CASE other # "general"
      BY <1>2, <2>3 DEF Holds, SetItem, Summaries
    <2> QED
      BY <2>2, <2>3
  <1>3. CASE slot # "general"
    <2>1. slot \in NamedSlots /\ s.named[slot] = NoItem
      BY <1>3 DEF Slots, SlotFree
    <2>2. CASE other = "general"
      BY <1>3, <2>1, <2>2 DEF Holds, SetItem, Summaries
    <2>3. CASE other # "general"
      BY <1>1, <1>3, <2>1, <2>3 DEF Holds, SetItem, Summaries, Slots
    <2> QED
      BY <2>2, <2>3
  <1> QED
    BY <1>2, <1>3

\* The fee payer's slot is written by requests for it only.
LEMMA SetItemKeepsFeePayer ==
  ASSUME NEW s \in Summaries, NEW slot \in Slots, NEW item \in Items,
         slot # "fee_payer"
  PROVE  SetItem(s, slot, item).named["fee_payer"] = s.named["fee_payer"]
  BY DEF SetItem, Summaries, Slots, NamedSlots

-------------------------------------------------------------------------------
(* The handler. *)

\* Whatever is being served was asked for this message, the fee payer is not
\* set before it is asked for, and every request served is kept.
Serving ==
  /\ message \in Messages
  /\ requests = IF stage = "printing" THEN BodyRequests(message)
                                      ELSE BlindRequests(message)
  /\ served \in 0..Len(requests)
  /\ stage = "printing" \/ served < Len(requests) =>
       summary.named["fee_payer"] = NoItem
  /\ \A n \in 1..served : /\ requests[n].slot \in Slots
                          /\ Holds(summary, requests[n].slot, requests[n].item)

ReviewInv ==
  /\ summary \in Summaries
  /\ stage \in {"printing", "blind"} => Serving
  /\ EveryRequestKept

\* A request being served is one the assumptions speak of.
LEMMA RequestsTyped ==
  ASSUME NEW m \in Messages
  PROVE  /\ BodyRequests(m) \in Seq(Requests)
         /\ BlindRequests(m) \in Seq(Requests)
  <1>1. /\ BodyRequests(m) \in Seq(Requests)
        /\ BlindRequests(m) \in Seq([slot : Slots, item : Items, checked : BOOLEAN])
    BY ReviewAssumption
  <1>2. [slot : Slots, item : Items, checked : BOOLEAN] \subseteq Requests
    BY DEF Requests
  <1>3. \A S, T : S \subseteq T => Seq(S) \subseteq Seq(T)
    OBVIOUS
  <1>4. BlindRequests(m) \in Seq(Requests)
    BY <1>1, <1>2, <1>3
  <1> QED
    BY <1>1, <1>4

\* The summary starts empty.
LEMMA ReviewStart == Init => ReviewInv
  <1> SUFFICES ASSUME Init PROVE ReviewInv
    OBVIOUS
  <1>1. EmptySummary \in Summaries
    BY DEF EmptySummary, Summaries
  <1> QED
    BY <1>1 DEF Init, ReviewInv, EveryRequestKept

\* A new message is served from an empty summary.
LEMMA HandleStep ==
  ASSUME ReviewInv, NEW m \in Messages, HandleSignMessage(m)
  PROVE  ReviewInv'
  <1>1. EmptySummary \in Summaries /\ EmptySummary.named["fee_payer"] = NoItem
    BY DEF EmptySummary, Summaries, NamedSlots
  <1>2. Len(BodyRequests(m)) \in Nat
    BY RequestsTyped
  <1>3. Serving'
    BY <1>1, <1>2 DEF HandleSignMessage, Serving
  <1> QED
    BY <1>1, <1>3 DEF HandleSignMessage, ReviewInv, EveryRequestKept

\* What is served is a request for a slot that is free: a blind review asks
\* for the fee payer last, and nothing before it sets it.
LEMMA ServedSlotFree ==
  ASSUME ReviewInv, ServeRequest
  PROVE  /\ Serving
         /\ served + 1 \in 1..Len(requests)
         /\ Current.slot \in Slots
         /\ Current.item \in Items
         /\ SlotFree(summary, Current.slot)
         /\ Current.slot = "fee_payer" => stage = "blind" /\ served + 1 = Len(requests)
  <1>1. Serving /\ stage \in {"printing", "blind"} /\ served < Len(requests)
    BY DEF ReviewInv, ServeRequest, Pending
  <1>2. requests \in Seq(Requests)
    BY <1>1, RequestsTyped DEF Serving
  <1>3. served + 1 \in 1..Len(requests) /\ Len(requests) \in Nat
    BY <1>1, <1>2 DEF Serving
  <1>4. Current \in Requests
    BY <1>2, <1>3 DEF Current
  <1>5. Current.slot \in Slots /\ Current.item \in Items
    BY <1>4 DEF Requests, ServeRequest
  <1>6. CASE stage = "printing"
    <2>1. Current.slot # "fee_payer"
      BY <1>1, <1>3, <1>6, ReviewAssumption DEF Serving, Current
    <2> QED
      BY <1>1, <1>3, <1>5, <1>6, <2>1 DEF ServeRequest
  <1>7. CASE stage = "blind"
    <2>1. /\ Current.slot = "fee_payer" => served + 1 = Len(requests)
          /\ Current.checked => Current.slot = "fee_payer"
      BY <1>1, <1>3, <1>7, ReviewAssumption DEF Serving, Current
    <2>2. summary.named["fee_payer"] = NoItem
      BY <1>1 DEF Serving
    <2>3. SlotFree(summary, Current.slot)
      BY <1>7, <2>1, <2>2 DEF ServeRequest, SlotFree
    <2> QED
      BY <1>1, <1>3, <1>5, <1>7, <2>1, <2>3
  <1> QED
    BY <1>1, <1>6, <1>7

\* Serving a request keeps what was served before.
LEMMA ServeStep ==
  ASSUME ReviewInv, ServeRequest
  PROVE  ReviewInv'
  <1> DEFINE slot == Current.slot
             item == Current.item
  <1>1. /\ Serving /\ summary \in Summaries
        /\ served + 1 \in 1..Len(requests)
        /\ slot \in Slots /\ item \in Items /\ SlotFree(summary, slot)
        /\ slot = "fee_payer" => stage = "blind" /\ served + 1 = Len(requests)
    BY ServedSlotFree DEF ReviewInv
  <1>2. /\ summary' = SetItem(summary, slot, item)
        /\ served' = served + 1
        /\ UNCHANGED <<message, stage, requests>>
        /\ stage \in {"printing", "blind"}
    BY <1>1 DEF ServeRequest, Pending
  <1> HIDE DEF slot, item
  <1>3. summary' \in Summaries /\ Holds(summary', slot, item)
    BY <1>1, <1>2, SetItemHolds
  <1>4. \A n \in 1..served : Holds(summary', requests[n].slot, requests[n].item)
    <2> SUFFICES ASSUME NEW n \in 1..served
                 PROVE  Holds(summary', requests[n].slot, requests[n].item)
      OBVIOUS
    <2>1. requests \in Seq(Requests) /\ n \in 1..Len(requests)
      BY <1>1, RequestsTyped DEF Serving
    <2>2. requests[n] \in Requests /\ requests[n].slot \in Slots
      BY <1>1, <2>1 DEF Serving
    <2>3. requests[n].item \in Items
      BY <2>2 DEF Requests, Slots, NamedSlots
    <2>4. Holds(summary, requests[n].slot, requests[n].item)
      BY <1>1 DEF Serving
    <2> QED
      BY <1>1, <1>2, <2>2, <2>3, <2>4, SetItemKeeps
  <1>5. requests[served + 1].slot = slot /\ requests[served + 1].item = item
    BY DEF slot, item, Current
  <1>6. slot # "fee_payer" => summary'.named["fee_payer"] = summary.named["fee_payer"]
    BY <1>1, <1>2, SetItemKeepsFeePayer
  <1>7. Serving'
    <2>1. \A n \in 1..served' : /\ requests[n].slot \in Slots
                                /\ Holds(summary', requests[n].slot, requests[n].item)
      <3> SUFFICES ASSUME NEW n \in 1..served'
                   PROVE  /\ requests[n].slot \in Slots
                          /\ Holds(summary', requests[n].slot, requests[n].item)
        OBVIOUS
      <3>1. n \in 1..served \/ n = served + 1
        BY <1>1, <1>2 DEF Serving
      <3>2. CASE n \in 1..served
        BY <1>1, <1>4, <3>2 DEF Serving
      <3>3. CASE n = served + 1
        BY <1>1, <1>3, <1>5, <3>3
      <3> QED
        BY <3>1, <3>2, <3>3
    <2>2. served' \in 0..Len(requests)
      BY <1>1, <1>2 DEF Serving
    <2>3. stage = "printing" \/ served' < Len(requests) =>
            summary'.named["fee_payer"] = NoItem
      BY <1>1, <1>2, <1>6 DEF Serving
    <2> QED
      BY <1>1, <1>2, <2>1, <2>2, <2>3 DEF Serving
  <1> QED
    BY <1>2, <1>3, <1>7 DEF ReviewInv, EveryRequestKept

\* The blind review adds to the summary as it is.
LEMMA GiveUpStep ==
  ASSUME ReviewInv, GiveUp
  PROVE  ReviewInv'
  <1>1. /\ Serving /\ summary.named["fee_payer"] = NoItem
        /\ summary \in Summaries /\ UNCHANGED <<message, summary>>
        /\ stage' \in {"exited", "blind", "idle"}
        /\ requests' = BlindRequests(message) /\ served' = 0
    BY DEF GiveUp, ReviewInv, Serving
  <1>2. Len(BlindRequests(message)) \in Nat
    BY <1>1, RequestsTyped DEF Serving
  <1>3. stage' = "blind" => Serving'
    BY <1>1, <1>2 DEF Serving
  <1> QED
    BY <1>1, <1>3 DEF ReviewInv, EveryRequestKept

\* When all are served, all are kept.
LEMMA FinalizeStep ==
  ASSUME ReviewInv, Finalize
  PROVE  ReviewInv'
  <1>1. /\ Serving /\ served = Len(requests) /\ summary \in Summaries
        /\ UNCHANGED <<requests, summary>> /\ stage' \in {"idle", "reviewing"}
    BY DEF Finalize, ReviewInv
  <1>2. requests \in Seq(Requests)
    BY <1>1, RequestsTyped DEF Serving
  <1>3. \A n \in DOMAIN requests : Holds(summary, requests[n].slot, requests[n].item)
    BY <1>1, <1>2 DEF Serving
  <1>4. EveryRequestKept'
    BY <1>1, <1>3 DEF EveryRequestKept
  <1> QED
    BY <1>1, <1>4 DEF ReviewInv

\* Nothing else touches the summary of a review.
LEMMA OtherStep ==
  ASSUME ReviewInv,
         Crash \/ DisplayItem \/ DisplayFails \/ Decide \/ Restart \/ UNCHANGED vars
  PROVE  ReviewInv'
  <1>1. CASE Restart
    <2>1. EmptySummary \in Summaries
      BY DEF EmptySummary, Summaries
    <2> QED
      BY <1>1, <2>1 DEF Restart, ReviewInv, EveryRequestKept
  <1>2. CASE Crash
    BY <1>2 DEF Crash, ReviewInv, EveryRequestKept
  <1>3. CASE DisplayItem
    BY <1>3 DEF DisplayItem, ReviewInv, EveryRequestKept
  <1>4. CASE DisplayFails
    BY <1>4 DEF DisplayFails, ReviewInv, EveryRequestKept
  <1>5. CASE Decide
    BY <1>5 DEF Decide, ReviewInv, EveryRequestKept
  <1>6. CASE UNCHANGED vars
    BY <1>6 DEF vars, ReviewInv, EveryRequestKept, Serving
  <1> QED
    BY <1>1, <1>2, <1>3, <1>4, <1>5, <1>6

\* The invariant is inductive.
LEMMA ReviewStep == ReviewInv /\ [Next]_vars => ReviewInv'
  <1> SUFFICES ASSUME ReviewInv, [Next]_vars PROVE ReviewInv'
    OBVIOUS
  <1>1. ASSUME NEW m \in Messages, HandleSignMessage(m) PROVE ReviewInv'
    BY <1>1, HandleStep
  <1>2. CASE ServeRequest
    BY <1>2, ServeStep
  <1>3. CASE GiveUp
    BY <1>3, GiveUpStep
  <1>4. CASE Finalize
    BY <1>4, FinalizeStep
  <1>5. CASE Crash \/ DisplayItem \/ DisplayFails \/ Decide \/ Restart
    BY <1>5, OtherStep
  <1>6. CASE UNCHANGED vars
    BY <1>6, OtherStep
  <1> QED
    BY <1>1, <1>2, <1>3, <1>4, <1>5, <1>6 DEF Next, Work

\* Every item the printers of a reviewed message asked for is in its summary
\* (EveryRequestKept), whatever the messages, their items and the number of
\* general slots: none was dropped, and none was written over by a later one,
\* by the blind review or by the next message.
THEOREM RequestsAreKept == Spec => []EveryRequestKept
  <1>1. ReviewInv => EveryRequestKept
    BY DEF ReviewInv
  <1> QED
    BY ReviewStart, ReviewStep, <1>1, PTL DEF Spec

-------------------------------------------------------------------------------
(* Types. *)

\* What a slot can hold.
Written == Items \union {NoItem}

\* Only items are finalised.
LEMMA FinalizedTyped ==
  ASSUME NEW s \in Summaries
  PROVE  Finalized(s) \in Seq(Items)
  <1> DEFINE all == <<s.named["primary"]>> \o GeneralItems(s)
                     \o <<s.named["nonce_account"], s.named["nonce_authority"],
                          s.named["fee_payer"]>>
  <1>1. GeneralItems(s) \in Seq(Written)
    BY SummaryAssumption DEF GeneralItems, Summaries, GeneralSlots, Written
  <1>2. \A slot \in NamedSlots : s.named[slot] \in Written
    BY DEF Summaries, Written
  <1>3. all \in Seq(Written)
    BY <1>1, <1>2 DEF NamedSlots
  <1>4. Finalized(s) = InOrder(all, Items)
    BY DEF Finalized, Used
  <1> HIDE DEF all
  <1>5. InOrder(all, Items) \in Seq(Written \intersect Items)
    BY <1>3, InOrderHolds
  <1>6. Written \intersect Items = Items
    BY DEF Written
  <1> QED
    BY <1>4, <1>5, <1>6

\* The types hold at the start.
LEMMA TypedStart == Init => TypeOK
  <1> SUFFICES ASSUME Init PROVE TypeOK
    OBVIOUS
  <1>1. EmptySummary \in Summaries
    BY DEF EmptySummary, Summaries
  <1> QED
    BY <1>1 DEF Init, TypeOK, Stages

\* Every step keeps them; that a blind review is of a message is ReviewInv.
LEMMA TypedStep == ReviewInv /\ TypeOK /\ [Next]_vars => TypeOK'
  <1> SUFFICES ASSUME ReviewInv, TypeOK, [Next]_vars PROVE TypeOK'
    OBVIOUS
  <1>1. EmptySummary \in Summaries
    BY DEF EmptySummary, Summaries
  <1>2. ASSUME NEW m \in Messages, HandleSignMessage(m) PROVE TypeOK'
    <2>1. BodyRequests(m) \in Seq(Requests) /\ Len(BodyRequests(m)) \in Nat
      BY RequestsTyped
    <2> QED
      BY <1>1, <1>2, <2>1 DEF HandleSignMessage, TypeOK, Stages
  <1>3. CASE ServeRequest
    <2>1. served + 1 \in 1..Len(requests) /\ Current \in Requests
      BY <1>3 DEF TypeOK, ServeRequest, Pending, Current
    <2>2. Current.slot \in Slots /\ Current.item \in Items
      BY <1>3, <2>1 DEF ServeRequest, Requests
    <2> DEFINE slot == Current.slot
               item == Current.item
    <2>3. /\ slot \in Slots /\ item \in Items
          /\ summary' = IF SlotFree(summary, slot) THEN SetItem(summary, slot, item)
                                                   ELSE summary
          /\ served' = served + 1
          /\ UNCHANGED <<message, stage, requests, steps, page>>
      BY <1>3, <2>2 DEF ServeRequest
    <2> HIDE DEF slot, item
    <2>4. summary' \in Summaries
      BY <2>3, SetItemHolds DEF TypeOK
    <2> QED
      BY <2>1, <2>3, <2>4 DEF TypeOK
  <1>4. CASE GiveUp
    <2>1. message \in Messages
      BY <1>4 DEF GiveUp, ReviewInv, Serving
    <2>2. BlindRequests(message) \in Seq(Requests) /\ Len(BlindRequests(message)) \in Nat
      BY <2>1, RequestsTyped
    <2> QED
      BY <1>4, <2>2 DEF GiveUp, TypeOK, Stages
  <1>5. CASE Finalize
    <2>1. Finalized(summary) \in Seq(Items) /\ Len(Finalized(summary)) \in Nat
      BY FinalizedTyped DEF TypeOK
    <2> QED
      BY <1>5, <2>1 DEF Finalize, TypeOK, Stages
  <1>6. CASE Restart
    BY <1>1, <1>6 DEF Restart, TypeOK, Stages
  <1>7. CASE Crash \/ DisplayFails \/ Decide
    BY <1>7 DEF Crash, DisplayFails, Decide, TypeOK, Stages
  <1>8. CASE DisplayItem
    BY <1>8 DEF DisplayItem, TypeOK
  <1>9. CASE UNCHANGED vars
    BY <1>9 DEF vars, TypeOK
  <1> QED
    BY <1>2, <1>3, <1>4, <1>5, <1>6, <1>7, <1>8, <1>9 DEF Next, Work

-------------------------------------------------------------------------------
(* What is finalised and what is found. *)

\* The steps of a review are those of its summary, which has a primary item.
FinalizedInv ==
  stage = "reviewing" => steps = Finalized(summary) /\ ~ Unfinished(summary)

\* The summary of a review and its steps are written before it, and together.
LEMMA FinalizedStep == FinalizedInv /\ [Next]_vars => FinalizedInv'
  <1> SUFFICES ASSUME FinalizedInv, [Next]_vars PROVE FinalizedInv'
    OBVIOUS
  <1>1. CASE \E m \in Messages : HandleSignMessage(m)
    BY <1>1 DEF HandleSignMessage, FinalizedInv
  <1>2. CASE ServeRequest \/ Crash
    BY <1>2 DEF ServeRequest, Crash, Pending, FinalizedInv
  <1>3. CASE GiveUp
    BY <1>3 DEF GiveUp, FinalizedInv
  <1>4. CASE Finalize
    BY <1>4 DEF Finalize, FinalizedInv
  <1>5. CASE DisplayItem \/ DisplayFails \/ Decide \/ Restart
    BY <1>5 DEF DisplayItem, DisplayFails, Decide, Restart, FinalizedInv
  <1>6. CASE UNCHANGED vars
    BY <1>6 DEF vars, FinalizedInv
  <1> QED
    BY <1>1, <1>2, <1>3, <1>4, <1>5, <1>6 DEF Next, Work

\* One slot is used or is not.
LEMMA UsedOne ==
  ASSUME NEW x \in Written
  PROVE  Used(<<x>>) = IF x = NoItem THEN <<>> ELSE <<x>>
  <1>1. <<x>> = Append(<<>>, x) /\ <<>> \in Seq(Written)
    OBVIOUS
  <1>2. InOrder(Append(<<>>, x), Items) =
          IF x \in Items THEN Append(InOrder(<<>>, Items), x) ELSE InOrder(<<>>, Items)
    BY <1>1, InOrderAppend
  <1>3. InOrder(<<>>, Items) = <<>>
    BY InOrderEmpty
  <1>4. x \in Items <=> x # NoItem
    BY SummaryAssumption DEF Written
  <1> QED
    BY <1>1, <1>2, <1>3, <1>4 DEF Used

\* What is finalised: the primary item, the optional ones, the fee payer.
LEMMA FinalizedParts ==
  ASSUME NEW s \in Summaries
  PROVE  /\ Finalized(s) =
              Used(<<s.named["primary"]>>)
                \o Used(GeneralItems(s) \o <<s.named["nonce_account"],
                                            s.named["nonce_authority"]>>)
                \o Used(<<s.named["fee_payer"]>>)
         /\ Used(GeneralItems(s) \o <<s.named["nonce_account"],
                                    s.named["nonce_authority"]>>) =
              Used(GeneralItems(s)) \o Used(<<s.named["nonce_account"]>>)
                \o Used(<<s.named["nonce_authority"]>>)
         /\ Used(GeneralItems(s) \o <<s.named["nonce_account"],
                                    s.named["nonce_authority"]>>) \in Seq(Items)
  <1> DEFINE G == GeneralItems(s)
             p == s.named["primary"]
             a == s.named["nonce_account"]
             b == s.named["nonce_authority"]
             f == s.named["fee_payer"]
             optional == G \o <<a, b>>
  <1>1. p \in Written /\ a \in Written /\ b \in Written /\ f \in Written
    BY DEF Summaries, Written, NamedSlots
  <1>2. G \in Seq(Written)
    BY SummaryAssumption DEF GeneralItems, Summaries, GeneralSlots, Written
  <1>3. Finalized(s) = InOrder(<<p>> \o G \o <<a, b, f>>, Items)
    BY DEF Finalized, Used
  <1> HIDE DEF G, p, a, b, f
  <1>4. /\ <<p>> \in Seq(Written) /\ <<a>> \in Seq(Written) /\ <<b>> \in Seq(Written)
        /\ <<f>> \in Seq(Written) /\ <<a, b>> \in Seq(Written)
        /\ <<a, b>> = <<a>> \o <<b>> /\ <<a, b, f>> = <<a, b>> \o <<f>>
    <2>1. /\ <<p>> \in Seq(Written) /\ <<a>> \in Seq(Written) /\ <<b>> \in Seq(Written)
          /\ <<f>> \in Seq(Written) /\ <<a, b>> \in Seq(Written)
      BY <1>1
    <2>2. <<a, b>> = <<a>> \o <<b>>
      BY <1>1, Pair
    <2>3. <<a, b, f>> = <<a, b>> \o <<f>>
      OBVIOUS
    <2> QED
      BY <2>1, <2>2, <2>3
  <1>c. \A u, v \in Seq(Written) :
          /\ InOrder(u \o v, Items) = InOrder(u, Items) \o InOrder(v, Items)
          /\ InOrder(u, Items) \in Seq(Written)
    <2>1. ASSUME NEW u \in Seq(Written), NEW v \in Seq(Written)
          PROVE  /\ InOrder(u \o v, Items) = InOrder(u, Items) \o InOrder(v, Items)
                 /\ InOrder(u, Items) \in Seq(Written)
      <3>1. InOrder(u \o v, Items) = InOrder(u, Items) \o InOrder(v, Items)
        BY InOrderConcat
      <3>2. InOrder(u, Items) \in Seq(Written)
        BY InOrderTyped
      <3> QED
        BY <3>1, <3>2
    <2> QED
      BY <2>1
  <1>d. \A u, v, w \in Seq(Written) : (u \o v) \o w = u \o (v \o w)
    BY ConcatAssociative
  <1>5. optional \in Seq(Written) /\ <<p>> \o G \in Seq(Written)
    BY <1>2, <1>4, ConcatProperties
  <1>6. <<p>> \o G \o <<a, b, f>> = (<<p>> \o optional) \o <<f>>
    <2>1. (<<p>> \o G) \o (<<a, b>> \o <<f>>) = ((<<p>> \o G) \o <<a, b>>) \o <<f>>
      BY <1>4, <1>5, ConcatAssociative
    <2>2. (<<p>> \o G) \o <<a, b>> = <<p>> \o (G \o <<a, b>>)
      BY <1>2, <1>4, ConcatAssociative
    <2> QED
      BY <1>4, <2>1, <2>2
  <1>7. InOrder(optional, Items) = InOrder(G, Items) \o InOrder(<<a, b>>, Items)
    BY <1>2, <1>4, <1>c, Zenon
  <1>8. InOrder(<<a, b>>, Items) = InOrder(<<a>>, Items) \o InOrder(<<b>>, Items)
    BY <1>4, <1>c, Zenon
  <1>9. /\ InOrder(G, Items) \in Seq(Written) /\ InOrder(<<a>>, Items) \in Seq(Written)
        /\ InOrder(<<b>>, Items) \in Seq(Written)
    BY <1>2, <1>4, InOrderTyped
  <1>10. InOrder(optional, Items) = (InOrder(G, Items) \o InOrder(<<a>>, Items))
                                      \o InOrder(<<b>>, Items)
    <2>1. (InOrder(G, Items) \o InOrder(<<a>>, Items)) \o InOrder(<<b>>, Items)
            = InOrder(G, Items) \o (InOrder(<<a>>, Items) \o InOrder(<<b>>, Items))
      BY <1>9, <1>d, Zenon
    <2> QED
      BY <1>7, <1>8, <2>1
  <1>11. InOrder(optional, Items) \in Seq(Written \intersect Items)
    BY <1>5, InOrderHolds
  <1> HIDE DEF optional
  <1>12. <<p>> \o optional \in Seq(Written)
    BY <1>4, <1>5, ConcatProperties
  <1>13. InOrder((<<p>> \o optional) \o <<f>>, Items) =
           InOrder(<<p>> \o optional, Items) \o InOrder(<<f>>, Items)
    BY <1>4, <1>12, <1>c, Zenon
  <1>14. InOrder(<<p>> \o optional, Items) = InOrder(<<p>>, Items) \o InOrder(optional, Items)
    BY <1>4, <1>5, <1>c, Zenon
  <1>15. Written \intersect Items = Items
    BY DEF Written
  <1>16. Used(optional) \in Seq(Items)
    BY <1>11, <1>15 DEF Used
  <1>17. Finalized(s) = Used(<<p>>) \o Used(optional) \o Used(<<f>>)
    BY <1>3, <1>6, <1>13, <1>14 DEF Used
  <1>18. Used(optional) = Used(G) \o Used(<<a>>) \o Used(<<b>>)
    BY <1>10 DEF Used
  <1> QED
    BY <1>16, <1>17, <1>18 DEF optional, G, p, a, b, f

\* An index finds the step counted there: the enumeration of
\* transaction_summary_find_item is that of transaction_summary_finalize when the
\* primary slot is used.
LEMMA FoundWhereCounted ==
  ASSUME NEW s \in Summaries, ~ Unfinished(s)
  PROVE  \A n \in DOMAIN Finalized(s) : FindItem(s, n - 1) = Finalized(s)[n]
  <1> DEFINE p == s.named["primary"]
             f == s.named["fee_payer"]
             optional == Used(GeneralItems(s) \o <<s.named["nonce_account"],
                                                  s.named["nonce_authority"]>>)
             last == IF f = NoItem THEN <<>> ELSE <<f>>
  <1>1. p \in Written /\ f \in Written /\ p # NoItem
    BY DEF Summaries, Written, NamedSlots, Unfinished
  <1>2. optional \in Seq(Items)
    BY FinalizedParts
  <1>3. Finalized(s) = <<p>> \o optional \o last
    BY <1>1, UsedOne, FinalizedParts
  <1>4. \A i : FindItem(s, i) =
               (CASE i = 0 -> p
                  [] i \in 1..Len(optional) -> optional[i]
                  [] i = Len(optional) + 1 -> f
                  [] OTHER -> NoItem)
    BY DEF FindItem
  <1> HIDE DEF p, f, optional
  <1>5. Len(optional) \in Nat
    BY <1>2
  <1> DEFINE k == Len(optional)
             all == <<p>> \o optional \o last
  <1>6. /\ last \in Seq(Written) /\ optional \in Seq(Written) /\ <<p>> \in Seq(Written)
        /\ Len(last) \in 0..1
        /\ Len(last) = 1 => last[1] = f
    <2>1. Items \subseteq Written
      BY DEF Written
    <2>2. last \in Seq(Written) /\ Len(last) \in 0..1 /\ (Len(last) = 1 => last[1] = f)
      BY <1>1
    <2>3. <<p>> \in Seq(Written)
      BY <1>1
    <2> HIDE DEF last
    <2>4. optional \in Seq(Written)
      BY <1>2, <2>1
    <2> QED
      BY <2>2, <2>3, <2>4
  <1> HIDE DEF last
  <1>7. <<p>> \o optional \in Seq(Written) /\ Len(<<p>> \o optional) = k + 1
    BY <1>6, ConcatProperties
  <1>8. /\ all \in Seq(Written)
        /\ Len(all) = k + 1 + Len(last)
        /\ \A i \in 1..Len(all) : all[i] = IF i <= k + 1 THEN (<<p>> \o optional)[i]
                                                       ELSE last[i - (k + 1)]
    BY <1>6, <1>7, ConcatProperties
  <1>9. \A i \in 1..(k + 1) : (<<p>> \o optional)[i] = IF i = 1 THEN p ELSE optional[i - 1]
    BY <1>6
  <1> HIDE DEF all
  <1> SUFFICES ASSUME NEW n \in 1..Len(all)
               PROVE  FindItem(s, n - 1) = all[n]
    BY <1>3, <1>8 DEF all
  <1>10. CASE n = 1
    BY <1>4, <1>5, <1>8, <1>9, <1>10
  <1>11. CASE n \in 2..(k + 1)
    <2>1. n - 1 \in 1..k /\ n - 1 # 0 /\ n # 1
      BY <1>5, <1>11
    <2>2. FindItem(s, n - 1) = optional[n - 1]
      BY <1>4, <2>1
    <2> QED
      BY <1>5, <1>8, <1>9, <1>11, <2>1, <2>2
  <1>12. CASE n = k + 2
    <2>1. Len(last) = 1 /\ n - 1 = k + 1 /\ n - (k + 1) = 1
      BY <1>5, <1>6, <1>8, <1>12
    <2>2. FindItem(s, n - 1) = f
      BY <1>4, <1>5, <2>1
    <2>3. all[n] = last[1]
      BY <1>5, <1>8, <1>12, <2>1
    <2> QED
      BY <1>6, <2>1, <2>2, <2>3
  <1> QED
    BY <1>5, <1>6, <1>8, <1>10, <1>11, <1>12

-------------------------------------------------------------------------------
(* The order of the items. *)

\* The items that the requests rs are for in a slot.
Chosen(rs, slot) ==
  LET picked == InOrder(rs, {r \in Requests : r.slot = slot})
  IN [n \in DOMAIN picked |-> picked[n].item]

\* The summary s holds what was asked for by rs: in a slot with a name the item
\* asked for, and in the first general slots the items asked for, in their order.
OrderOf(s, rs) ==
  /\ \A slot \in NamedSlots : Used(<<s.named[slot]>>) = Chosen(rs, slot)
  /\ LET general == Chosen(rs, "general")
     IN /\ Len(general) <= NumGeneralItems
        /\ \A i \in GeneralSlots :
             s.general[i] = IF i <= Len(general) THEN general[i] ELSE NoItem

\* What a slot is asked for is items: a bail is for no slot.
LEMMA ChosenTyped ==
  ASSUME NEW rs \in Seq(Requests), NEW slot \in Slots
  PROVE  Chosen(rs, slot) \in Seq(Items)
  <1> DEFINE T == {r \in Requests : r.slot = slot}
             picked == InOrder(rs, T)
  <1>1. picked \in Seq(Requests \intersect T)
    BY InOrderHolds
  <1>2. \A r \in Requests \intersect T : r.item \in Items
    BY DEF Requests, Slots, NamedSlots
  <1>3. Chosen(rs, slot) = [n \in DOMAIN picked |-> picked[n].item]
    BY DEF Chosen
  <1> HIDE DEF picked, T
  <1>4. \A n \in 1..Len(picked) : picked[n].item \in Items
    BY <1>1, <1>2
  <1> QED
    BY <1>1, <1>3, <1>4

\* One more request.
LEMMA ChosenAppend ==
  ASSUME NEW rs \in Seq(Requests), NEW r \in Requests, NEW slot \in Slots
  PROVE  Chosen(Append(rs, r), slot) =
           IF r.slot = slot THEN Append(Chosen(rs, slot), r.item)
                            ELSE Chosen(rs, slot)
  <1> DEFINE T == {q \in Requests : q.slot = slot}
             picked == InOrder(rs, T)
             next == InOrder(Append(rs, r), T)
  <1>1. next = IF r \in T THEN Append(picked, r) ELSE picked
    BY InOrderAppend
  <1>2. picked \in Seq(Requests)
    BY InOrderTyped
  <1>3. /\ Chosen(rs, slot) = [n \in DOMAIN picked |-> picked[n].item]
        /\ Chosen(Append(rs, r), slot) = [n \in DOMAIN next |-> next[n].item]
    BY DEF Chosen
  <1>4. r \in T <=> r.slot = slot
    OBVIOUS
  <1> HIDE DEF picked, T, next
  <1>5. CASE r.slot # slot
    BY <1>1, <1>3, <1>4, <1>5
  <1>6. CASE r.slot = slot
    <2> DEFINE k == Len(picked)
               a == Chosen(rs, slot)
    <2>1. next = Append(picked, r)
      BY <1>1, <1>4, <1>6
    <2>2. /\ next \in Seq(Requests) /\ Len(next) = k + 1 /\ next[k + 1] = r
          /\ \A n \in 1..k : next[n] = picked[n]
          /\ DOMAIN next = 1..(k + 1) /\ DOMAIN picked = 1..k /\ k \in Nat
      BY <1>2, <2>1, AppendProperties, LenProperties
    <2>3. a \in Seq(Items)
      BY ChosenTyped
    <2>4. Len(a) = k /\ \A n \in 1..k : a[n] = picked[n].item
      BY <1>3, <2>2
    <2>5. r.item \in Items
      BY <1>6 DEF Requests, Slots, NamedSlots
    <2>6. /\ Append(a, r.item) \in Seq(Items) /\ Len(Append(a, r.item)) = k + 1
          /\ Append(a, r.item)[k + 1] = r.item
          /\ \A n \in 1..k : Append(a, r.item)[n] = a[n]
      BY <2>3, <2>4, <2>5, AppendProperties
    <2> DEFINE b == Append(a, r.item)
    <2>7. Append(rs, r) \in Seq(Requests)
      OBVIOUS
    <2>8. Chosen(Append(rs, r), slot) \in Seq(Items)
      BY <2>7, ChosenTyped
    <2> DEFINE c == Chosen(Append(rs, r), slot)
    <2> HIDE DEF a, b, k
    <2>9. Len(c) = k + 1 /\ \A n \in 1..(k + 1) : c[n] = next[n].item
      BY <1>3, <2>2
    <2> HIDE DEF c
    <2>10. \A n \in 1..Len(b) : b[n] = c[n]
      <3> SUFFICES ASSUME NEW n \in 1..(k + 1) PROVE b[n] = c[n]
        BY <2>6 DEF b
      <3>1. CASE n = k + 1
        BY <2>2, <2>6, <2>9, <3>1 DEF b
      <3>2. CASE n # k + 1
        <4>1. n \in 1..k
          BY <2>2, <3>2
        <4> QED
          BY <2>2, <2>4, <2>6, <2>9, <4>1 DEF b, a
      <3> QED
        BY <3>1, <3>2
    <2>11. b = c
      <3>1. b \in Seq(Items) /\ c \in Seq(Items) /\ Len(b) = Len(c)
        BY <2>6, <2>8, <2>9 DEF b, c
      <3> QED
        BY <2>10, <3>1, SeqEqual
    <2> QED
      BY <1>6, <2>11 DEF a, b, c
  <1> QED
    BY <1>5, <1>6

\* No request.
LEMMA ChosenEmpty ==
  ASSUME NEW slot \in Slots
  PROVE  Chosen(<<>>, slot) = <<>>
  <1>1. InOrder(<<>>, {r \in Requests : r.slot = slot}) = <<>>
    BY InOrderEmpty
  <1>2. Chosen(<<>>, slot) \in Seq(Items)
    <2>1. <<>> \in Seq(Requests)
      OBVIOUS
    <2> QED
      BY <2>1, ChosenTyped
  <1>3. DOMAIN Chosen(<<>>, slot) = {}
    BY <1>1 DEF Chosen
  <1> QED
    BY <1>2, <1>3

\* An empty summary is what no request asks for.
LEMMA OrderStart == OrderOf(EmptySummary, <<>>)
  <1>1. \A slot \in Slots : Chosen(<<>>, slot) = <<>>
    BY ChosenEmpty
  <1>2. \A slot \in NamedSlots : Used(<<EmptySummary.named[slot]>>) = <<>>
    BY UsedOne DEF EmptySummary, Written
  <1>3. \A i \in GeneralSlots : EmptySummary.general[i] = NoItem
    BY DEF EmptySummary
  <1>4. NamedSlots \subseteq Slots /\ "general" \in Slots
    BY DEF Slots
  <1>5. \A i \in GeneralSlots : ~ i <= 0
    BY SummaryAssumption DEF GeneralSlots
  <1>6. Len(<<>>) = 0 /\ 0 <= NumGeneralItems
    BY SummaryAssumption
  <1> QED
    BY <1>1, <1>2, <1>3, <1>4, <1>5, <1>6 DEF OrderOf

\* A request served is written after those served before: the general slot it
\* gets is the one after the last used.
LEMMA OrderServe ==
  ASSUME NEW s \in Summaries, NEW rs \in Seq(Requests), NEW r \in Requests,
         r.slot \in Slots, SlotFree(s, r.slot), OrderOf(s, rs)
  PROVE  OrderOf(SetItem(s, r.slot, r.item), Append(rs, r))
  <1> DEFINE t == SetItem(s, r.slot, r.item)
             qs == Append(rs, r)
             g == Chosen(rs, "general")
  <1>1. r.item \in Items
    BY DEF Requests, Slots, NamedSlots
  <1>2. \A slot \in Slots : Chosen(qs, slot) = IF r.slot = slot
                                               THEN Append(Chosen(rs, slot), r.item)
                                               ELSE Chosen(rs, slot)
    BY ChosenAppend
  <1>3. g \in Seq(Items) /\ Len(g) \in Nat
    BY ChosenTyped DEF Slots
  <1>4. /\ Len(g) <= NumGeneralItems
        /\ \A i \in GeneralSlots : s.general[i] = IF i <= Len(g) THEN g[i] ELSE NoItem
        /\ \A slot \in NamedSlots : Used(<<s.named[slot]>>) = Chosen(rs, slot)
    BY DEF OrderOf
  <1> HIDE DEF qs, g
  <1>5. CASE r.slot = "general"
    <2> DEFINE f == FirstUnused(s)
    <2>1. Chosen(qs, "general") = Append(g, r.item)
      BY <1>2, <1>5 DEF Slots, g
    <2>2. \A slot \in NamedSlots : Chosen(qs, slot) = Chosen(rs, slot) /\ t.named[slot] = s.named[slot]
      BY <1>2, <1>5 DEF Slots, NamedSlots, SetItem, Summaries
    <2>3. \A i \in GeneralSlots : i \in UnusedGeneral(s) <=> i > Len(g)
      <3> SUFFICES ASSUME NEW i \in GeneralSlots
                   PROVE  s.general[i] = NoItem <=> i > Len(g)
        BY DEF UnusedGeneral
      <3>1. i \in Nat \ {0}
        BY SummaryAssumption DEF GeneralSlots
      <3>2. i <= Len(g) => g[i] \in Items
        BY <1>3, <3>1
      <3> QED
        BY <1>3, <1>4, <3>1, <3>2, SummaryAssumption
    <2>4. f \in UnusedGeneral(s) /\ \A j \in UnusedGeneral(s) : f <= j
      BY <1>5, FirstUnusedIsFirst DEF SlotFree
    <2>5. f \in GeneralSlots /\ f > Len(g)
      BY <2>3, <2>4 DEF UnusedGeneral
    <2>6. f = Len(g) + 1
      <3>1. f \in Nat /\ f <= NumGeneralItems /\ f > Len(g)
        BY <2>5, SummaryAssumption DEF GeneralSlots
      <3>2. Len(g) + 1 \in GeneralSlots
        BY <1>3, <3>1, SummaryAssumption DEF GeneralSlots
      <3>3. f <= Len(g) + 1
        BY <1>3, <2>3, <2>4, <3>2 DEF GeneralSlots
      <3> QED
        BY <1>3, <3>1, <3>3
    <2>7. \A i \in GeneralSlots : t.general[i] = IF i = f THEN r.item ELSE s.general[i]
      BY <1>5, <2>5 DEF SetItem, Summaries
    <2> HIDE DEF t, f
    <2> DEFINE h == Append(g, r.item)
    <2>8. /\ Len(h) = Len(g) + 1 /\ h[Len(g) + 1] = r.item
          /\ \A i \in 1..Len(g) : h[i] = g[i]
      BY <1>1, <1>3, AppendProperties
    <2> HIDE DEF h
    <2>9. \A i \in GeneralSlots : t.general[i] = IF i <= Len(h) THEN h[i] ELSE NoItem
      <3> SUFFICES ASSUME NEW i \in GeneralSlots
                   PROVE  t.general[i] = IF i <= Len(h) THEN h[i] ELSE NoItem
        OBVIOUS
      <3>1. i \in Nat \ {0}
        BY SummaryAssumption DEF GeneralSlots
      <3>2. CASE i = f
        BY <1>3, <2>6, <2>7, <2>8, <3>2
      <3>3. CASE i # f
        <4>1. i <= Len(h) <=> i <= Len(g)
          BY <1>3, <2>6, <2>8, <3>1, <3>3
        <4>2. i <= Len(g) => h[i] = g[i]
          BY <1>3, <2>8, <3>1
        <4> QED
          BY <1>4, <2>7, <3>3, <4>1, <4>2
      <3> QED
        BY <3>2, <3>3
    <2>10. Len(h) <= NumGeneralItems
      BY <2>5, <2>6, <2>8, SummaryAssumption DEF GeneralSlots
    <2>11. \A slot \in NamedSlots : Used(<<t.named[slot]>>) = Chosen(qs, slot)
      BY <1>4, <2>2
    <2> QED
      BY <2>1, <2>9, <2>10, <2>11 DEF OrderOf, h, t, qs
  <1>6. CASE r.slot # "general"
    <2>1. r.slot \in NamedSlots /\ s.named[r.slot] = NoItem
      BY <1>6 DEF Slots, SlotFree
    <2>2. /\ t.general = s.general
          /\ \A slot \in NamedSlots : t.named[slot] = IF slot = r.slot THEN r.item
                                                                     ELSE s.named[slot]
      BY <1>6, <2>1 DEF SetItem, Summaries
    <2>3. Chosen(qs, "general") = g
      BY <1>2, <1>6 DEF Slots, g
    <2> HIDE DEF t
    <2>4. \A slot \in NamedSlots : Used(<<t.named[slot]>>) = Chosen(qs, slot)
      <3> SUFFICES ASSUME NEW slot \in NamedSlots
                   PROVE  Used(<<t.named[slot]>>) = Chosen(qs, slot)
        OBVIOUS
      <3>1. CASE slot = r.slot
        <4>1. r.item \in Written /\ NoItem \in Written /\ r.item # NoItem
          BY <1>1, SummaryAssumption DEF Written
        <4>2. Chosen(rs, slot) = <<>>
          BY <1>4, <2>1, <3>1, <4>1, UsedOne
        <4>3. Chosen(qs, slot) = Append(<<>>, r.item)
          BY <1>2, <3>1, <4>2 DEF Slots
        <4>4. Used(<<r.item>>) = <<r.item>>
          BY <4>1, UsedOne
        <4> QED
          BY <2>2, <3>1, <4>3, <4>4
      <3>2. CASE slot # r.slot
        BY <1>2, <1>4, <2>2, <3>2 DEF Slots
      <3> QED
        BY <3>1, <3>2
    <2> QED
      BY <1>4, <2>2, <2>3, <2>4 DEF OrderOf, t, qs
  <1> QED
    BY <1>5, <1>6

\* The first slots of g hold h, the others nothing.
UsedFirst(g, h) ==
  Len(h) <= Len(g) /\ \A i \in 1..Len(g) : g[i] = IF i <= Len(h) THEN h[i] ELSE NoItem

\* Then h is what is used of them.
LEMMA UsedPrefix ==
  ASSUME NEW g \in Seq(Written), NEW h \in Seq(Items), UsedFirst(g, h)
  PROVE  Used(g) = h
  <1> DEFINE A == {k \in Nat : \A u \in Seq(Written), v \in Seq(Items) :
                     Len(u) = k /\ UsedFirst(u, v) => Used(u) = v}
  <1>1. 0 \in A
    <2> SUFFICES ASSUME NEW u \in Seq(Written), NEW v \in Seq(Items),
                        Len(u) = 0, UsedFirst(u, v)
                 PROVE  Used(u) = v
      OBVIOUS
    <2>1. u = <<>> /\ Len(v) = 0
      BY DEF UsedFirst
    <2>2. v = <<>>
      BY <2>1
    <2>3. InOrder(<<>>, Items) = <<>>
      BY InOrderEmpty
    <2> QED
      BY <2>1, <2>2, <2>3 DEF Used
  <1>2. ASSUME NEW k \in Nat, k \in A PROVE k + 1 \in A
    <2> SUFFICES ASSUME NEW u \in Seq(Written), NEW v \in Seq(Items),
                        Len(u) = k + 1, UsedFirst(u, v)
                 PROVE  Used(u) = v
      OBVIOUS
    <2>0. u # <<>>
      OBVIOUS
    <2>1. PICK u1 \in Seq(Written), x \in Written : u = Append(u1, x)
      BY <2>0, SequenceEmptyOrAppend
    <2>2. Len(u1) = k /\ u[k + 1] = x /\ \A i \in 1..k : u[i] = u1[i]
      BY <2>1
    <2>3. Used(u) = IF x \in Items THEN Append(Used(u1), x) ELSE Used(u1)
      BY <2>1, InOrderAppend DEF Used
    <2>4. Len(v) \in Nat /\ Len(v) <= k + 1 /\ k + 1 \in 1..Len(u)
      BY DEF UsedFirst
    <2>5. CASE Len(v) = k + 1
      <3>1. v # <<>>
        BY <2>5
      <3>2. PICK v1 \in Seq(Items), y \in Items : v = Append(v1, y)
        BY <3>1, SequenceEmptyOrAppend
      <3>3. Len(v1) = k /\ v[k + 1] = y /\ \A i \in 1..k : v[i] = v1[i]
        BY <2>5, <3>2
      <3>4. x = y
        BY <2>2, <2>4, <2>5, <3>3 DEF UsedFirst
      <3>5. UsedFirst(u1, v1)
        <4>1. \A i \in 1..k : i \in 1..Len(u) /\ i <= Len(v) /\ i <= Len(v1)
          BY <2>5, <3>3
        <4>2. \A i \in 1..k : u1[i] = v1[i]
          BY <2>2, <3>3, <4>1 DEF UsedFirst
        <4> QED
          BY <2>2, <3>3, <4>1, <4>2 DEF UsedFirst
      <3>6. Used(u1) = v1
        BY <1>2, <2>2, <3>5
      <3> QED
        BY <2>3, <3>2, <3>4, <3>6
    <2>6. CASE Len(v) # k + 1
      <3>1. Len(v) <= k
        BY <2>4, <2>6
      <3>2. x = NoItem
        BY <2>2, <2>4, <3>1 DEF UsedFirst
      <3>3. UsedFirst(u1, v)
        <4>1. \A i \in 1..k : i \in 1..Len(u)
          OBVIOUS
        <4> QED
          BY <2>2, <3>1, <4>1 DEF UsedFirst
      <3>4. Used(u1) = v
        BY <1>2, <2>2, <3>3
      <3> QED
        BY <2>3, <3>2, <3>4, SummaryAssumption
    <2> QED
      BY <2>5, <2>6
  <1>3. Nat \subseteq A
    <2> HIDE DEF A
    <2> QED
      BY <1>1, <1>2, Induction
  <1>4. Len(g) \in Nat
    OBVIOUS
  <1> QED
    BY <1>3, <1>4

\* The steps of a summary that holds what was asked for are in the order of
\* DisplayOrder.
LEMMA OrderEnd ==
  ASSUME NEW s \in Summaries, NEW rs \in Seq(Requests), OrderOf(s, rs)
  PROVE  Finalized(s) = Chosen(rs, "primary") \o Chosen(rs, "general")
                          \o Chosen(rs, "nonce_account")
                          \o Chosen(rs, "nonce_authority") \o Chosen(rs, "fee_payer")
  <1> DEFINE p == Chosen(rs, "primary")
             g == Chosen(rs, "general")
             a == Chosen(rs, "nonce_account")
             b == Chosen(rs, "nonce_authority")
             f == Chosen(rs, "fee_payer")
  <1>1. /\ p \in Seq(Items) /\ g \in Seq(Items) /\ a \in Seq(Items)
        /\ b \in Seq(Items) /\ f \in Seq(Items)
    BY ChosenTyped DEF Slots, NamedSlots
  <1>2. Used(GeneralItems(s)) = g
    <2>1. GeneralItems(s) \in Seq(Written) /\ Len(GeneralItems(s)) = NumGeneralItems
      BY SummaryAssumption DEF GeneralItems, Summaries, GeneralSlots, Written
    <2>2. UsedFirst(GeneralItems(s), g)
      BY <2>1 DEF UsedFirst, OrderOf, GeneralItems, GeneralSlots
    <2> QED
      BY <1>1, <2>1, <2>2, UsedPrefix
  <1>3. /\ Used(<<s.named["primary"]>>) = p
        /\ Used(<<s.named["nonce_account"]>>) = a
        /\ Used(<<s.named["nonce_authority"]>>) = b
        /\ Used(<<s.named["fee_payer"]>>) = f
    BY DEF OrderOf, NamedSlots
  <1>4. Finalized(s) = p \o (g \o a \o b) \o f
    BY <1>2, <1>3, FinalizedParts
  <1> HIDE DEF p, g, a, b, f
  <1>5. /\ g \o a \in Seq(Items) /\ p \o g \in Seq(Items) /\ p \o (g \o a) \in Seq(Items)
    BY <1>1, ConcatProperties
  <1>6. \A u, v, w \in Seq(Items) : u \o (v \o w) = (u \o v) \o w
    BY ConcatAssociative
  <1>7. p \o ((g \o a) \o b) = (p \o (g \o a)) \o b
    BY <1>1, <1>5, <1>6
  <1>8. p \o (g \o a) = (p \o g) \o a
    BY <1>1, <1>6
  <1> QED
    BY <1>4, <1>7, <1>8 DEF p, g, a, b, f

\* While a message is printed its summary holds what was served; what a blind
\* review asks for is never what the printers asked for, who gave up.
OrderInv ==
  /\ stage = "printing" => OrderOf(summary, SubSeq(requests, 1, served))
  /\ stage = "blind" => requests # BodyRequests(message)
  /\ DisplayOrder

\* Nothing is printed at the start.
LEMMA OrderInvStart == Init => OrderInv
  BY DEF Init, OrderInv, DisplayOrder

\* The invariant is kept, given what is known of requests being served.
LEMMA OrderInvStep == ReviewInv /\ OrderInv /\ [Next]_vars => OrderInv'
  <1> SUFFICES ASSUME ReviewInv, OrderInv, [Next]_vars PROVE OrderInv'
    OBVIOUS
  <1>1. ASSUME NEW m \in Messages, HandleSignMessage(m) PROVE OrderInv'
    <2>1. SubSeq(BodyRequests(m), 1, 0) = <<>>
      BY SubSeqEmpty
    <2>2. stage' = "printing" /\ OrderOf(summary', SubSeq(requests', 1, served'))
      BY <1>1, <2>1, OrderStart DEF HandleSignMessage
    <2> QED
      BY <2>2 DEF OrderInv, DisplayOrder
  <1>2. CASE ServeRequest
    <2>1. /\ Serving /\ served + 1 \in 1..Len(requests) /\ Current.slot \in Slots
          /\ SlotFree(summary, Current.slot) /\ summary \in Summaries
      BY <1>2, ServedSlotFree DEF ReviewInv
    <2>2. /\ summary' = SetItem(summary, Current.slot, Current.item)
          /\ served' = served + 1 /\ UNCHANGED <<message, stage, requests>>
          /\ stage \in {"printing", "blind"}
      BY <1>2, <2>1 DEF ServeRequest, Pending
    <2>3. requests \in Seq(Requests) /\ served \in 0..Len(requests)
      BY <2>1, RequestsTyped DEF Serving
    <2>4. Current \in Requests /\ Current = requests[served + 1]
      BY <2>1, <2>3 DEF Current
    <2> DEFINE done == SubSeq(requests, 1, served)
    <2>5. /\ done \in Seq(Requests)
          /\ SubSeq(requests, 1, served + 1) = Append(done, requests[served + 1])
      BY <2>1, <2>3, SubSeqGrows
    <2>6. stage = "printing" => OrderOf(summary', SubSeq(requests', 1, served'))
      <3> SUFFICES ASSUME stage = "printing"
                   PROVE  OrderOf(summary', SubSeq(requests', 1, served'))
        OBVIOUS
      <3>1. OrderOf(summary, done)
        BY DEF OrderInv
      <3> HIDE DEF done
      <3>2. OrderOf(SetItem(summary, Current.slot, Current.item), Append(done, Current))
        BY <2>1, <2>4, <2>5, <3>1, OrderServe
      <3> QED
        BY <2>2, <2>4, <2>5, <3>2
    <2> QED
      BY <2>2, <2>6 DEF OrderInv, DisplayOrder
  <1>3. CASE GiveUp
    <2>1. /\ Serving /\ requests = BodyRequests(message) /\ message \in Messages
          /\ served < Len(requests) /\ stage' \in {"exited", "blind", "idle"}
          /\ requests' = BlindRequests(message) /\ message' = message
          /\ \/ Current.slot = "bail"
             \/ Current.checked
      BY <1>3 DEF GiveUp, ReviewInv, Serving, Pending
    <2>2. requests \in Seq(Requests) /\ served + 1 \in 1..Len(requests)
      BY <2>1, RequestsTyped DEF Serving
    <2>3. BlindRequests(message) # BodyRequests(message)
      <3> SUFFICES ASSUME BlindRequests(message) = requests PROVE FALSE
        BY <2>1
      <3>1. /\ BlindRequests(message) \in Seq([slot : Slots, item : Items, checked : BOOLEAN])
            /\ \A n \in DOMAIN BlindRequests(message) :
                 BlindRequests(message)[n].checked =>
                   BlindRequests(message)[n].slot = "fee_payer"
            /\ \A n \in DOMAIN BodyRequests(message) :
                 BodyRequests(message)[n].slot # "fee_payer"
        BY <2>1, ReviewAssumption
      <3>2. Current.slot \in Slots
        <4>1. /\ requests \in Seq([slot : Slots, item : Items, checked : BOOLEAN])
              /\ served + 1 \in 1..Len(requests)
          BY <2>2, <3>1
        <4>2. requests[served + 1] \in [slot : Slots, item : Items, checked : BOOLEAN]
          BY <4>1, ElementOfSeq
        <4>3. Current \in [slot : Slots, item : Items, checked : BOOLEAN]
          BY <4>2 DEF Current
        <4> QED
          BY <4>3
      <3>3. Current.slot # "fee_payer" /\ (Current.checked => Current.slot = "fee_payer")
        BY <2>1, <2>2, <3>1 DEF Current
      <3> QED
        BY <2>1, <3>2, <3>3 DEF Slots, NamedSlots
    <2> QED
      BY <2>1, <2>3 DEF OrderInv, DisplayOrder
  <1>4. CASE Finalize
    <2>1. /\ Serving /\ summary \in Summaries /\ served = Len(requests)
          /\ stage \in {"printing", "blind"}
          /\ stage' \in {"idle", "reviewing"}
          /\ steps' = Finalized(summary) /\ UNCHANGED <<message, requests>>
      BY <1>4 DEF Finalize, ReviewInv
    <2>2. requests \in Seq(Requests) /\ SubSeq(requests, 1, served) = requests
      BY <2>1, RequestsTyped, SubSeqFull DEF Serving
    <2>3. DisplayOrder'
      <3>1. CASE stage = "blind"
        BY <2>1, <3>1 DEF OrderInv, DisplayOrder
      <3>2. CASE stage = "printing"
        <4>1. steps' = Chosen(requests, "primary") \o Chosen(requests, "general")
                         \o Chosen(requests, "nonce_account")
                         \o Chosen(requests, "nonce_authority")
                         \o Chosen(requests, "fee_payer")
          BY <2>1, <2>2, <3>2, OrderEnd DEF OrderInv
        <4> QED
          BY <2>1, <4>1 DEF DisplayOrder, Chosen
      <3> QED
        BY <2>1, <3>1, <3>2
    <2> QED
      BY <2>1, <2>3 DEF OrderInv
  <1>5. CASE Restart
    BY <1>5 DEF Restart, OrderInv, DisplayOrder
  <1>6. CASE Crash
    BY <1>6 DEF Crash, OrderInv, DisplayOrder
  <1>7. CASE DisplayItem
    BY <1>7 DEF DisplayItem, OrderInv, DisplayOrder
  <1>8. CASE DisplayFails
    BY <1>8 DEF DisplayFails, OrderInv, DisplayOrder
  <1>9. CASE Decide
    BY <1>9 DEF Decide, OrderInv, DisplayOrder
  <1>10. CASE UNCHANGED vars
    BY <1>10 DEF vars, OrderInv, DisplayOrder
  <1> QED
    BY <1>1, <1>2, <1>3, <1>4, <1>5, <1>6, <1>7, <1>8, <1>9, <1>10 DEF Next, Work

\* A clear review displays what the printers asked for and nothing else, in the
\* order of transaction_summary.h (DisplayOrder), whatever the messages, what is
\* asked for them and the number of general slots.
THEOREM OrderIsKept == Spec => []DisplayOrder
  <1>1. ReviewInv /\ [Next]_vars => ReviewInv'
    BY ReviewStep
  <1>2. OrderInv => DisplayOrder
    BY DEF OrderInv
  <1> QED
    BY ReviewStart, OrderInvStart, OrderInvStep, <1>1, <1>2, PTL DEF Spec

\* What every state of the review satisfies.
LEMMA SummaryMade == Spec => [](ReviewInv /\ TypeOK /\ FinalizedInv)
  <1>1. Init => FinalizedInv
    BY DEF Init, FinalizedInv
  <1> QED
    BY ReviewStart, ReviewStep, TypedStart, TypedStep, <1>1, FinalizedStep, PTL DEF Spec

\* Every state is well formed (TypeOK): no general slot is written past the last
\* one, and the page of the review is one of its steps.
THEOREM ReviewTyped == Spec => []TypeOK
  BY SummaryMade, PTL

\* transaction_summary_find_item finds at every index of a review the item that
\* transaction_summary_finalize counted there (DisplayMatchesFinalize), though one
\* skips unused slots and the other always counts the primary one.
THEOREM FoundAsFinalized == Spec => []DisplayMatchesFinalize
  <1>1. TypeOK /\ FinalizedInv => DisplayMatchesFinalize
    <2> SUFFICES ASSUME TypeOK, FinalizedInv, stage = "reviewing"
                 PROVE  \A n \in DOMAIN steps : FindItem(summary, n - 1) = steps[n]
      BY DEF DisplayMatchesFinalize
    <2>1. summary \in Summaries /\ steps = Finalized(summary) /\ ~ Unfinished(summary)
      BY DEF TypeOK, FinalizedInv
    <2> QED
      BY <2>1, FoundWhereCounted
  <1> QED
    BY SummaryMade, <1>1, PTL

\* What is asked for every message that is not given up has a primary item.
AsksPrimary ==
  \A m \in Messages :
    /\ \E n \in DOMAIN BodyRequests(m) : BodyRequests(m)[n].slot \in {"primary", "bail"}
    /\ \E n \in DOMAIN BlindRequests(m) : BlindRequests(m)[n].slot = "primary"

\* If the printers ask for a primary item or give up, and the blind review asks
\* for one, then the error of finalisation in handle_sign_message_ui is never sent
\* (FinalizeSucceeds).
THEOREM PrimaryIsSet ==
  ASSUME AsksPrimary
  PROVE  Spec => []FinalizeSucceeds
  <1>1. ReviewInv => FinalizeSucceeds
    <2> SUFFICES ASSUME ReviewInv, stage \in {"printing", "blind"}, served = Len(requests)
                 PROVE  summary.named["primary"] # NoItem
      BY DEF FinalizeSucceeds, Unfinished
    <2>1. Serving
      BY DEF ReviewInv
    <2>2. requests \in Seq(Requests)
      BY <2>1, RequestsTyped DEF Serving
    <2>3. PICK n \in DOMAIN requests : requests[n].slot \in {"primary", "bail"}
      BY <2>1 DEF AsksPrimary, Serving
    <2>4. /\ requests[n] \in Requests /\ requests[n].slot \in Slots
          /\ Holds(summary, requests[n].slot, requests[n].item)
      BY <2>1, <2>2 DEF Serving
    <2>5. requests[n].slot = "primary" /\ requests[n].item \in Items
      BY <2>3, <2>4 DEF Requests, Slots, NamedSlots
    <2> QED
      BY <2>4, <2>5, SummaryAssumption DEF Holds
  <1> QED
    BY SummaryMade, <1>1, PTL

===============================================================================
