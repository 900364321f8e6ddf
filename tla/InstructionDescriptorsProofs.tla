--------------------- MODULE InstructionDescriptorsProofs ---------------------
(***************************************************************************)
(* The descriptors of a crosschain swap are of one series, no fee beyond   *)
(* its cap is signed, and a message is signed just when it is what its     *)
(* descriptors say, unless a cap overflows: for any swaps, descriptors,    *)
(* tokens, messages, word size and number of slots.                        *)
(***************************************************************************)
EXTENDS InstructionDescriptors, SafeMath, CommonLemmas

-------------------------------------------------------------------------------
(* safe_mul_bps_div10000 returns the exact quotient, rounded down, of every
   amount and every number of basis points, and refuses exactly those whose
   quotient does not fit into a word. *)

\* The product of an amount, from the products of its halves.
LEMMA Halves ==
  ASSUME NEW h \in Nat, NEW l \in Nat, NEW b \in Nat, NEW half \in Nat
  PROVE  (h * half + l) * b = (h * b) * half + l * b
  BY SMT

\* The upper half of a word is less than its base.
LEMMA UpperHalf ==
  ASSUME NEW h \in Nat, NEW l \in Nat, NEW half \in Nat \ {0},
         h * half + l < half * half
  PROVE  h <= half - 1
  <1>1. SUFFICES ASSUME h >= half PROVE FALSE
    BY SMT
  <1>2. half * half <= h * half
    BY <1>1, ProductMonotone
  <1>3. h * half \in Nat /\ half * half \in Nat
    BY SMT
  <1> QED
    BY <1>2, <1>3, SMT

\* The result of Scale is the quotient, rounded down, or a refusal when it does
\* not fit into a word: neither the products of the halves, nor the shifts, nor
\* the sums lose a bit (safe_mul_bps_div10000).
THEOREM ScaleIsFloor ==
  \A a \in Words, b \in BasisPoints :
    IF (a * b) \div Whole < WordSize
    THEN Scale(a, b) = [ok |-> TRUE, value |-> (a * b) \div Whole]
    ELSE ~ Scale(a, b).ok
  <1> SUFFICES ASSUME NEW a \in Words, NEW b \in BasisPoints
               PROVE  IF (a * b) \div Whole < WordSize
                      THEN Scale(a, b) = [ok |-> TRUE, value |-> (a * b) \div Whole]
                      ELSE ~ Scale(a, b).ok
    OBVIOUS
  <1> DEFINE ah == a \div Half
             al == a % Half
             lo == al * b
             hi == ah * b
             qh == hi \div Whole
             rh == hi % Whole
             x == rh * Half + lo
  <1>1. /\ Half \in Nat \ {0} /\ Whole \in Nat \ {0} /\ BpsLimit \in Nat \ {0}
        /\ BpsLimit + Whole <= Half
    BY SafeMathAssumption
  <1>2. /\ WordSize \in Nat \ {0} /\ WordSize = Half * Half
        /\ a \in Nat /\ a <= WordSize - 1
        /\ b \in Nat /\ b <= BpsLimit - 1
    BY <1>1, SMT DEF WordSize, Words, BasisPoints
  <1>3. ah \in Nat /\ al \in 0..(Half - 1) /\ a = ah * Half + al
    BY <1>1, <1>2, Division
  <1>4. ah <= Half - 1
    <2>1. ah * Half + al < Half * Half
      BY <1>2, <1>3, SMT
    <2> HIDE DEF ah, al
    <2> QED
      BY <1>1, <1>3, <2>1, UpperHalf
  <1>5. /\ lo \in Nat /\ lo <= (Half - 1) * (BpsLimit - 1)
        /\ hi \in Nat /\ hi <= (Half - 1) * (BpsLimit - 1)
    BY <1>1, <1>2, <1>3, <1>4, ProductMonotone, SMT
  <1>6. (Half - 1) * (BpsLimit - 1) < WordSize
    <2>1. (Half - 1) * (BpsLimit - 1) <= (Half - 1) * (Half - 1)
      BY <1>1, ProductMonotone, SMT
    <2> QED
      BY <1>1, <1>2, <2>1, SMT
  <1>7. lo \in 0..(WordSize - 1) /\ hi \in 0..(WordSize - 1)
    <2> DEFINE k == (Half - 1) * (BpsLimit - 1)
    <2>1. /\ lo \in Nat /\ lo <= k /\ hi \in Nat /\ hi <= k
          /\ k < WordSize /\ k \in Int
      BY <1>1, <1>5, <1>6, SMT
    <2> HIDE DEF lo, hi, k
    <2> QED
      BY <1>2, <2>1, SMT
  <1>8. lo % WordSize = lo /\ hi % WordSize = hi
    BY <1>2, <1>7, SmallRemainder
  <1>9. qh \in Nat /\ rh \in 0..(Whole - 1) /\ hi = qh * Whole + rh
    BY <1>1, <1>5, Division
  <1>10. rh * Half \in Nat /\ x \in 0..(WordSize - 1)
    <2>1. rh * Half \in Nat /\ rh * Half <= (Whole - 1) * Half
      BY <1>1, <1>9, ProductMonotone, SMT
    <2>2. lo <= Half * (BpsLimit - 1)
      BY <1>1, <1>5, SMT
    <2>3. x <= Half * (Whole - 1) + Half * (BpsLimit - 1)
      BY <1>1, <1>5, <2>1, <2>2, SMT
    <2>4. Half * (Whole - 1) + Half * (BpsLimit - 1) = Half * (BpsLimit + Whole - 2)
      BY <1>1, SMT
    <2>5. Half * (BpsLimit + Whole - 2) <= Half * (Half - 2)
      BY <1>1, ProductMonotone, SMT
    <2>6. Half * (Half - 2) < WordSize
      BY <1>1, <1>2, SMT
    <2> QED
      BY <1>1, <1>2, <1>5, <2>1, <2>3, <2>4, <2>5, <2>6, SMT
  <1>11. rh * Half \in 0..(WordSize - 1)
    BY <1>5, <1>10, <1>2, SMT
  <1>12. (rh * Half) % WordSize = rh * Half /\ x % WordSize = x
    BY <1>2, <1>10, <1>11, SmallRemainder
  <1>13. x \div Whole \in Nat
    <2>1. x \in Nat
      BY <1>10
    <2> HIDE DEF x
    <2> QED
      BY <1>1, <2>1, Division
  <1>14. (a * b) \div Whole = qh * Half + x \div Whole
    <2>1. a * b = hi * Half + lo
      BY <1>1, <1>2, <1>3, Halves
    <2>2. hi * Half = (qh * Half) * Whole + rh * Half
      BY <1>1, <1>9, SMT
    <2>3. qh * Half \in Nat
      BY <1>1, <1>9, SMT
    <2>4. a * b = (qh * Half) * Whole + x
      BY <1>1, <1>5, <1>9, <1>10, <2>1, <2>2, <2>3, SMT
    <2>5. x \in Nat
      BY <1>10
    <2>6. ((qh * Half) * Whole + x) \div Whole = qh * Half + x \div Whole
      <3> DEFINE k == qh * Half
      <3>1. k \in Nat
        BY <2>3
      <3> HIDE DEF x, k
      <3> QED
        BY <1>1, <2>5, <3>1, DivideApart DEF k
    <2> QED
      BY <2>4, <2>6
  <1> DEFINE upper == (qh * Half) % WordSize
             lower == x \div Whole
  <1>15. Scale(a, b) = IF qh >= Half \/ lower > WordSize - 1 - upper
                       THEN [ok |-> FALSE, value |-> 0]
                       ELSE [ok |-> TRUE, value |-> (upper + lower) % WordSize]
    BY <1>8, <1>12 DEF Scale
  <1> HIDE DEF x
  <1>16. CASE qh >= Half
    <2>1. qh * Half >= WordSize
      BY <1>1, <1>2, <1>9, <1>16, SMT
    <2>2. ~ ((a * b) \div Whole < WordSize)
      BY <1>2, <1>13, <1>14, <2>1, <1>1, <1>9, SMT
    <2>3. Scale(a, b) = [ok |-> FALSE, value |-> 0]
      BY <1>15, <1>16
    <2> QED
      BY <2>2, <2>3
  <1>17. CASE ~ (qh >= Half)
    <2>1. qh * Half \in 0..(WordSize - 1)
      <3>1. qh * Half \in Nat /\ qh * Half <= (Half - 1) * Half
        BY <1>1, <1>9, <1>17, ProductMonotone, SMT
      <3> QED
        BY <1>1, <1>2, <3>1, SMT
    <2>2. upper = qh * Half
      BY <1>2, <2>1, SmallRemainder
    <2>3. CASE lower > WordSize - 1 - upper
      <3>1. ~ ((a * b) \div Whole < WordSize)
        BY <1>2, <1>13, <1>14, <2>1, <2>2, <2>3, SMT
      <3>2. Scale(a, b) = [ok |-> FALSE, value |-> 0]
        BY <1>15, <2>3
      <3> QED
        BY <3>1, <3>2
    <2>4. CASE ~ (lower > WordSize - 1 - upper)
      <3>1. upper + lower \in 0..(WordSize - 1)
        BY <1>2, <1>13, <2>1, <2>2, <2>4, SMT
      <3>2. (upper + lower) % WordSize = upper + lower
        BY <1>2, <3>1, SmallRemainder
      <3>3. (a * b) \div Whole = upper + lower
        BY <1>14, <2>2
      <3>4. Scale(a, b) = [ok |-> TRUE, value |-> upper + lower]
        BY <1>15, <1>17, <2>4, <3>2
      <3>5. (a * b) \div Whole < WordSize
        BY <1>2, <3>1, <3>3, SMT
      <3> QED
        BY <3>3, <3>4, <3>5
    <2> QED BY <2>3, <2>4
  <1> QED BY <1>16, <1>17

-------------------------------------------------------------------------------
(* The descriptors. *)


TypeInv ==
  /\ swap \in Swaps
  /\ saved \in Series \union {Nothing}
  /\ message \in Messages \union {Nothing}
  /\ at \in Nat
  /\ received.tlvs \in Seq(Tlvs)
  /\ received = [tlvs |-> received.tlvs, token |-> received.token]

\* What is saved is what was received, in the same order.
SavedAsReceived ==
  verdict = "none" =>
    /\ saved = Nothing => received.tlvs = <<>>
    /\ saved # Nothing =>
         /\ Len(saved.descriptors) = Len(received.tlvs)
         /\ \A n \in 1..Len(received.tlvs) :
              saved.descriptors[n] = received.tlvs[n].ins

\* The series is of the chain of its first descriptor.
OneChain ==
  verdict = "none" /\ saved # Nothing =>
    /\ Len(saved.descriptors) <= MaxDescriptors
    /\ \A n \in 1..Len(received.tlvs) :
         received.tlvs[n].chain_id = IF saved.main_net THEN MainNet ELSE TestNet

\* As many descriptors are read as instructions are checked.
ReadAsChecked ==
  verdict = "none" =>
    /\ message = Nothing => at = 0
    /\ saved # Nothing => saved.read = at
    /\ message # Nothing => saved # Nothing /\ Len(received.tlvs) = message.declared

CapsAreRead ==
  \A n \in 1..Len(received.tlvs) :
    received.tlvs[n].ins.capped_amount_bps # Nothing =>
      received.tlvs[n].ins.amount_size # 0

Checked(n) == AmountChecks(message.instructions[n].data, received.tlvs[n].ins)

AmountsChecked ==
  /\ verdict = "none" /\ message # Nothing =>
       \A n \in 1..Len(received.tlvs) : n <= at => Checked(n)
  /\ verdict = "signed" => \A n \in 1..Len(received.tlvs) : Checked(n)

IInv ==
  /\ TypeInv
  /\ SavedAsReceived
  /\ ReadAsChecked
  /\ CapsAreRead
  /\ AmountsChecked

-------------------------------------------------------------------------------

\* Nothing is saved or received at the start.
LEMMA InitIInv == Init => IInv
  BY DEF Init, IInv, TypeInv, SavedAsReceived, ReadAsChecked, CapsAreRead, AmountsChecked

\* An amount stays checked while the swap and what it is compared with stay.
LEMMA CheckedKept ==
  ASSUME NEW n, Checked(n), UNCHANGED <<swap, message>>,
         received'.tlvs[n] = received.tlvs[n]
  PROVE  Checked(n)'
  BY DEF Checked, AmountChecks

\* A descriptor is saved at the place at which it was received.
LEMMA ProvideDescriptorKeeps ==
  ASSUME IInv, NEW tlv \in Tlvs, ProvideDescriptor(tlv)
  PROVE  IInv'
  <1>1. CASE ~ (DescriptorValid(tlv) /\ SaveInstructionDescriptor(tlv) # Nothing)
    <2>1. verdict' = "exited" /\ UNCHANGED <<swap, saved, token, message, at, received>>
      BY <1>1 DEF ProvideDescriptor, Exit
    <2> QED
      BY <2>1 DEF IInv, TypeInv, SavedAsReceived, ReadAsChecked, CapsAreRead, AmountsChecked
  <1>2. CASE DescriptorValid(tlv) /\ SaveInstructionDescriptor(tlv) # Nothing
    <2>1. /\ verdict = "none" /\ message = Nothing
          /\ saved' = SaveInstructionDescriptor(tlv) /\ saved' # Nothing
          /\ received' = [received EXCEPT !.tlvs = Append(@, tlv)]
          /\ UNCHANGED <<swap, token, verdict, message, at>>
      BY <1>2 DEF ProvideDescriptor, Idle
    <2>2. received'.tlvs = Append(received.tlvs, tlv)
      BY <2>1 DEF IInv, TypeInv
    <2>3. /\ received'.tlvs \in Seq(Tlvs)
          /\ Len(received'.tlvs) = Len(received.tlvs) + 1
          /\ received'.tlvs[Len(received.tlvs) + 1] = tlv
          /\ \A n \in 1..Len(received.tlvs) : received'.tlvs[n] = received.tlvs[n]
      BY <2>2 DEF IInv, TypeInv
    <2>4. tlv.ins.capped_amount_bps # Nothing => tlv.ins.amount_size # 0
      BY <1>2 DEF DescriptorValid
    <2>5. CapsAreRead'
      BY <2>3, <2>4 DEF IInv, TypeInv, CapsAreRead
    <2>6. CASE saved = Nothing
      <3>1. /\ saved' = [main_net |-> IsMainNet(tlv), template |-> tlv.template_id,
                         descriptors |-> <<tlv.ins>>, read |-> 0]
            /\ received.tlvs = <<>> /\ at = 0
        BY <2>1, <2>6 DEF SaveInstructionDescriptor, IInv, SavedAsReceived, ReadAsChecked
      <3>2. IsMainNet(tlv) \in BOOLEAN
        BY DEF IsMainNet
      <3>3. /\ saved' \in Series /\ saved'.read = 0
            /\ Len(saved'.descriptors) = 1 /\ saved'.descriptors[1] = tlv.ins
        BY <3>1, <3>2 DEF Series
      <3>4. Len(received'.tlvs) = 1 /\ received'.tlvs[1] = tlv
        BY <3>1, <2>3
      <3> QED
        BY <2>1, <2>3, <2>5, <3>1, <3>3, <3>4
        DEF IInv, TypeInv, SavedAsReceived, ReadAsChecked, AmountsChecked
    <2>7. CASE saved # Nothing
      <3>1. /\ saved' = [saved EXCEPT !.descriptors = Append(@, tlv.ins)]
            /\ saved \in Series
        BY <2>1, <2>7 DEF SaveInstructionDescriptor, IInv, TypeInv
      <3>2. /\ saved' \in Series /\ saved'.read = saved.read
            /\ saved'.descriptors = Append(saved.descriptors, tlv.ins)
        <4> DEFINE inss == {other.ins : other \in Tlvs}
                   templates == {other.template_id : other \in Tlvs}
        <4>1. tlv.ins \in inss
          OBVIOUS
        <4>2. saved \in [main_net : BOOLEAN, template : templates,
                         descriptors : Seq(inss), read : Nat]
          BY <3>1 DEF Series
        <4> HIDE DEF inss, templates
        <4>3. Append(saved.descriptors, tlv.ins) \in Seq(inss)
          BY <4>1, <4>2
        <4>4. saved' \in [main_net : BOOLEAN, template : templates,
                          descriptors : Seq(inss), read : Nat]
          BY <3>1, <4>2, <4>3
        <4>5. saved'.read = saved.read
                /\ saved'.descriptors = Append(saved.descriptors, tlv.ins)
          BY <3>1, <4>2
        <4> QED
          BY <4>4, <4>5 DEF inss, templates, Series
      <3>3. /\ Len(saved'.descriptors) = Len(saved.descriptors) + 1
            /\ saved'.descriptors[Len(saved.descriptors) + 1] = tlv.ins
            /\ \A n \in 1..Len(saved.descriptors) :
                 saved'.descriptors[n] = saved.descriptors[n]
        BY <3>1, <3>2 DEF Series
      <3>4. /\ Len(saved.descriptors) = Len(received.tlvs)
            /\ \A n \in 1..Len(received.tlvs) :
                 saved.descriptors[n] = received.tlvs[n].ins
            /\ saved.read = at
        BY <2>1, <2>7 DEF IInv, SavedAsReceived, ReadAsChecked
      <3>5. Len(received.tlvs) \in Nat
        BY DEF IInv, TypeInv
      <3>6. \A n \in 1..Len(received'.tlvs) : saved'.descriptors[n] = received'.tlvs[n].ins
        BY <2>3, <3>3, <3>4, <3>5
      <3> QED
        BY <2>1, <2>3, <2>5, <2>7, <3>2, <3>3, <3>4, <3>6
        DEF IInv, TypeInv, SavedAsReceived, ReadAsChecked, AmountsChecked
    <2> QED
      BY <2>6, <2>7
  <1> QED
    BY <1>1, <1>2

\* No instruction is checked when a message begins.
LEMMA BeginMessageKeeps ==
  ASSUME IInv, NEW m \in Messages, BeginMessage(m)
  PROVE  IInv'
  <1>1. /\ verdict = "none" /\ message = Nothing /\ saved # Nothing /\ at = 0
        /\ message' = m /\ m # Nothing
        /\ UNCHANGED <<swap, saved, at, received>>
    BY DescriptorsAssumption DEF BeginMessage, Idle, Exit, IInv, ReadAsChecked
  <1>2. verdict' = "exited" \/ (verdict' = "none" /\ CountsAgree(m))
    BY <1>1 DEF BeginMessage, Exit
  <1>3. verdict' = "none" => Len(received.tlvs) = m.declared
    BY <1>1, <1>2 DEF CountsAgree, IInv, SavedAsReceived
  <1>4. \A n \in 1..Len(received.tlvs) : ~ (n <= at)
    BY <1>1 DEF IInv, TypeInv
  <1> QED
    BY <1>1, <1>2, <1>3, <1>4
    DEF IInv, TypeInv, SavedAsReceived, ReadAsChecked, CapsAreRead, AmountsChecked

\* The descriptor an instruction is checked with is the one received at its
\* place.
LEMMA CheckInstructionKeeps ==
  ASSUME IInv, CheckInstruction
  PROVE  IInv'
  <1>1. /\ verdict = "none" /\ message # Nothing /\ message \in Messages
        /\ at < message.declared /\ at' = at + 1 /\ at \in Nat
        /\ UNCHANGED <<swap, message, received>>
    BY DEF CheckInstruction, Processing, Exit, IInv, TypeInv
  <1>2. /\ saved \in Series /\ saved # Nothing /\ saved.read = at
        /\ Len(received.tlvs) = message.declared
        /\ \A n \in 1..Len(received.tlvs) : saved.descriptors[n] = received.tlvs[n].ins
        /\ Len(saved.descriptors) = Len(received.tlvs)
    BY <1>1 DEF IInv, TypeInv, SavedAsReceived, ReadAsChecked
  <1>3. CASE verdict' = "exited" /\ saved' = saved
    BY <1>1, <1>3 DEF IInv, TypeInv, SavedAsReceived, ReadAsChecked, CapsAreRead, AmountsChecked
  <1>4. CASE /\ verdict' = verdict
             /\ saved' = NextDescriptor(saved).after
             /\ InstructionMatches(message, message.instructions[at'], NextDescriptor(saved).d)
    <2>1. NextDescriptor(saved).d = received.tlvs[at'].ins
      BY <1>1, <1>2, DescriptorsAssumption DEF NextDescriptor
    <2>2. saved' = [saved EXCEPT !.read = @ + 1]
      BY <1>4 DEF NextDescriptor
    <2>3. /\ saved' \in Series /\ saved'.read = at'
          /\ saved'.descriptors = saved.descriptors
      BY <1>1, <1>2, <2>2 DEF Series
    <2>4. AmountChecks(message.instructions[at'].data, received.tlvs[at'].ins)
      BY <1>4, <2>1 DEF InstructionMatches
    <2>5. Checked(at)'
      BY <1>1, <2>4 DEF Checked, AmountChecks
    <2>6. \A n \in 1..Len(received.tlvs) : n <= at => Checked(n)'
      BY <1>1, CheckedKept DEF IInv, AmountsChecked
    <2>7. \A n \in 1..Len(received.tlvs) : n <= at' => n <= at \/ n = at'
      BY <1>1, <1>2, DescriptorsAssumption
    <2>8. \A n \in 1..Len(received.tlvs) : n <= at' => Checked(n)'
      BY <2>5, <2>6, <2>7
    <2>9. AmountsChecked'
      BY <1>1, <1>4, <2>8 DEF AmountsChecked
    <2>10. TypeInv' /\ CapsAreRead'
      BY <1>1, <2>3 DEF IInv, TypeInv, CapsAreRead
    <2>11. SavedAsReceived'
      <3>1. saved' # Nothing
        BY <2>3, DescriptorsAssumption
      <3> QED
        BY <1>1, <1>2, <1>4, <2>3, <3>1 DEF SavedAsReceived
    <2>12. ReadAsChecked'
      BY <1>1, <1>2, <1>4, <2>3, DescriptorsAssumption DEF IInv, ReadAsChecked
    <2> QED
      BY <2>9, <2>10, <2>11, <2>12 DEF IInv
  <1> QED
    BY <1>1, <1>3, <1>4 DEF CheckInstruction, Exit

\* All instructions are checked when a message is finished.
LEMMA FinishMessageKeeps ==
  ASSUME IInv, FinishMessage
  PROVE  IInv'
  <1>1. /\ verdict = "none" /\ message # Nothing /\ message \in Messages
        /\ at = message.declared /\ at \in Nat
        /\ Len(received.tlvs) = message.declared
        /\ UNCHANGED <<swap, message, at, received>>
    BY DEF FinishMessage, Processing, Exit, IInv, TypeInv, ReadAsChecked
  <1>2. CASE verdict' = "exited" /\ saved' = saved
    BY <1>1, <1>2 DEF IInv, TypeInv, SavedAsReceived, ReadAsChecked, CapsAreRead, AmountsChecked
  <1>3. CASE verdict' = "signed" /\ saved' = Nothing
    <2>1. \A n \in 1..Len(received.tlvs) : Checked(n)'
      BY <1>1, CheckedKept DEF IInv, AmountsChecked
    <2> QED
      BY <1>1, <1>3, <2>1
      DEF IInv, TypeInv, SavedAsReceived, ReadAsChecked, CapsAreRead, AmountsChecked
  <1> QED
    BY <1>2, <1>3 DEF FinishMessage, Exit

\* Each operation keeps the invariant.
LEMMA NextIInv == IInv /\ [Next]_vars => IInv'
  <1> SUFFICES ASSUME IInv, [Next]_vars PROVE IInv'
    OBVIOUS
  <1>1. ASSUME NEW info \in Tokens \union {Nothing}, ProvideToken(info) PROVE IInv'
    <2>1. /\ verdict = "none" /\ message = Nothing
          /\ received' = [received EXCEPT !.token = info]
          /\ UNCHANGED <<swap, saved, message, at, verdict>>
      BY <1>1 DEF ProvideToken, Idle
    <2>2. /\ received'.tlvs = received.tlvs
          /\ received' = [tlvs |-> received'.tlvs, token |-> received'.token]
      BY <2>1 DEF IInv, TypeInv
    <2> QED
      BY <2>1, <2>2
      DEF IInv, TypeInv, SavedAsReceived, ReadAsChecked, CapsAreRead, AmountsChecked
  <1>2. CASE UNCHANGED vars
    <2>1. UNCHANGED <<swap, saved, message, at, verdict, received>>
      BY <1>2 DEF vars
    <2> QED
      BY <2>1 DEF IInv, TypeInv, SavedAsReceived, ReadAsChecked, CapsAreRead,
                  AmountsChecked, Checked, AmountChecks
  <1> QED
    BY <1>1, <1>2, ProvideDescriptorKeeps, BeginMessageKeeps, CheckInstructionKeeps,
       FinishMessageKeeps DEF Next

-------------------------------------------------------------------------------

\* A checked amount is within the cap of its descriptor: the cap is the exact
\* quotient, rounded down.
LEMMA CheckedWithinCap ==
  ASSUME swap \in Swaps, NEW tlv \in Tlvs, NEW data,
         AmountChecks(data, tlv.ins),
         tlv.ins.amount_size # 0, tlv.ins.capped_amount_bps # Nothing
  PROVE  /\ ReadAmount(data, tlv.ins) # Nothing
         /\ ReadAmount(data, tlv.ins) * Whole <= swap.amount * tlv.ins.capped_amount_bps
  <1> DEFINE amount == ReadAmount(data, tlv.ins)
             bps == tlv.ins.capped_amount_bps
             cap == Scale(swap.amount, bps)
             product == swap.amount * bps
             q == product \div Whole
  <1>1. swap.amount \in Words /\ bps \in BasisPoints
    BY DescriptorsAssumption DEF DescriptorTyped
  <1>2. amount # Nothing /\ cap.ok /\ amount \in 0..cap.value
    BY DEF AmountChecks
  <1>3. swap.amount \in Nat /\ bps \in Nat /\ Whole \in Nat \ {0}
    BY <1>1, SafeMathAssumption DEF Words, BasisPoints, WordSize
  <1>4. product \in Nat
    BY <1>3, SMT
  <1>5. q \in Nat /\ q * Whole <= product
    <2> HIDE DEF product
    <2> QED
      BY <1>3, <1>4, QuotientTimes
  <1>6. cap.value = q
    BY <1>1, <1>2, ScaleIsFloor
  <1>7. amount \in Nat /\ amount <= q
    <2> HIDE DEF q, cap, amount
    <2> QED
      BY <1>2, <1>5, <1>6, SMT
  <1>8. amount * Whole <= q * Whole
    <2> HIDE DEF q, amount
    <2> QED
      BY <1>3, <1>5, <1>7, ProductMonotone
  <1>9. amount * Whole <= product
    <2>1. amount * Whole \in Nat /\ q * Whole \in Nat
      BY <1>3, <1>5, <1>7, SMT
    <2> HIDE DEF q, product, amount
    <2> QED
      BY <1>4, <1>5, <1>8, <2>1, SMT
  <1> QED
    BY <1>2, <1>9

\* Every capped instruction of a signed message is within its cap.
LEMMA IInvWithinCap == IInv => FeesWithinCap
  <1> SUFFICES ASSUME IInv, verdict = "signed", NEW n \in DOMAIN received.tlvs,
                      received.tlvs[n].ins.capped_amount_bps # Nothing
               PROVE  LET d == received.tlvs[n].ins
                          amount == ReadAmount(message.instructions[n].data, d)
                      IN amount # Nothing
                           /\ amount * Whole <= swap.amount * d.capped_amount_bps
    BY DEF FeesWithinCap
  <1>1. n \in 1..Len(received.tlvs) /\ received.tlvs[n] \in Tlvs /\ swap \in Swaps
    BY DEF IInv, TypeInv
  <1>2. AmountChecks(message.instructions[n].data, received.tlvs[n].ins)
    BY <1>1 DEF IInv, AmountsChecked, Checked
  <1>3. received.tlvs[n].ins.amount_size # 0
    BY <1>1 DEF IInv, CapsAreRead
  <1> QED
    BY <1>1, <1>2, <1>3, CheckedWithinCap

-------------------------------------------------------------------------------

\* A descriptor of another template or chain, or one too many, is not received.
LEMMA SeriesKept == IInv /\ OneChain /\ OneSeries /\ [Next]_vars => OneChain' /\ OneSeries'
  <1> SUFFICES ASSUME IInv, OneChain, OneSeries, [Next]_vars
               PROVE  OneChain' /\ OneSeries'
    OBVIOUS
  <1>1. CASE received'.tlvs = received.tlvs /\ swap' = swap
    <2>1. OneSeries'
      BY <1>1 DEF OneSeries
    <2>2. verdict' = "none" /\ saved' # Nothing =>
            /\ verdict = "none" /\ saved # Nothing
            /\ saved'.main_net = saved.main_net
            /\ saved'.descriptors = saved.descriptors
      <3>1. CASE saved' = saved /\ (verdict' = "none" => verdict = "none")
        BY <3>1
      <3>2. CASE verdict' # "none"
        BY <3>2
      <3>3. CASE verdict = "none" /\ saved' = NextDescriptor(saved).after /\ saved \in Series
        BY <3>3, DescriptorsAssumption DEF NextDescriptor, Series
      <3>4. CASE \E tlv \in Tlvs : ProvideDescriptor(tlv)
        <4> PICK tlv \in Tlvs : ProvideDescriptor(tlv)
          BY <3>4
        <4>1. CASE Exit
          BY <4>1 DEF Exit
        <4>2. CASE received' = [received EXCEPT !.tlvs = Append(@, tlv)]
          <5>1. received'.tlvs = Append(received.tlvs, tlv)
            BY <4>2 DEF IInv, TypeInv
          <5>2. Len(received'.tlvs) = Len(received.tlvs) + 1 /\ Len(received.tlvs) \in Nat
            BY <5>1 DEF IInv, TypeInv
          <5> QED
            BY <1>1, <5>2
        <4> QED
          BY <4>1, <4>2 DEF ProvideDescriptor
      <3>5. CASE CheckInstruction
        <4>1. saved \in Series
          BY <3>5 DEF CheckInstruction, Processing, IInv, TypeInv, ReadAsChecked
        <4> QED
          BY <3>1, <3>3, <3>5, <4>1 DEF CheckInstruction, Processing, Exit
      <3> QED
        BY <3>1, <3>2, <3>4, <3>5
        DEF Next, vars, ProvideToken, BeginMessage, Idle, FinishMessage, Processing, Exit
    <2> QED
      BY <1>1, <2>1, <2>2 DEF OneChain
  <1>2. ASSUME NEW tlv \in Tlvs, verdict = "none",
               DescriptorValid(tlv), saved' = SaveInstructionDescriptor(tlv),
               saved' # Nothing, received' = [received EXCEPT !.tlvs = Append(@, tlv)],
               swap' = swap
        PROVE  OneChain' /\ OneSeries'
    <2>1. received'.tlvs = Append(received.tlvs, tlv)
      BY <1>2 DEF IInv, TypeInv
    <2>2. /\ Len(received.tlvs) \in Nat /\ Len(received'.tlvs) = Len(received.tlvs) + 1
          /\ received'.tlvs[Len(received.tlvs) + 1] = tlv
          /\ \A n \in 1..Len(received.tlvs) : received'.tlvs[n] = received.tlvs[n]
          /\ DOMAIN received'.tlvs = 1..Len(received'.tlvs)
          /\ DOMAIN received.tlvs = 1..Len(received.tlvs)
      BY <2>1 DEF IInv, TypeInv
    <2>3. /\ tlv.signed /\ tlv.template_id = swap.template
          /\ tlv.chain_id = IF IsMainNet(tlv) THEN MainNet ELSE TestNet
      BY <1>2 DEF DescriptorValid, TlvParses, IsMainNet
    <2>4. /\ Len(saved'.descriptors) = Len(received'.tlvs)
          /\ Len(saved'.descriptors) <= MaxDescriptors
          /\ saved'.main_net = IsMainNet(tlv)
          /\ \A n \in 1..Len(received.tlvs) :
               received.tlvs[n].chain_id = IF IsMainNet(tlv) THEN MainNet ELSE TestNet
      <3>1. CASE saved = Nothing
        <4>1. /\ saved' = [main_net |-> IsMainNet(tlv), template |-> tlv.template_id,
                           descriptors |-> <<tlv.ins>>, read |-> 0]
              /\ received.tlvs = <<>>
          BY <1>2, <3>1 DEF SaveInstructionDescriptor, IInv, SavedAsReceived
        <4>2. Len(saved'.descriptors) = 1 /\ saved'.main_net = IsMainNet(tlv)
          BY <4>1
        <4> QED
          BY <2>2, <4>1, <4>2, DescriptorsAssumption
      <3>2. CASE saved # Nothing
        <4>1. /\ saved' = [saved EXCEPT !.descriptors = Append(@, tlv.ins)]
              /\ saved \in Series /\ saved.main_net = IsMainNet(tlv)
              /\ ~ (Len(saved.descriptors) >= MaxDescriptors)
          BY <1>2, <3>2 DEF SaveInstructionDescriptor, IInv, TypeInv
        <4>2. /\ saved'.descriptors = Append(saved.descriptors, tlv.ins)
              /\ saved'.main_net = saved.main_net
          BY <4>1 DEF Series
        <4>3. Len(saved'.descriptors) = Len(saved.descriptors) + 1
                /\ Len(saved.descriptors) \in Nat
          BY <4>1, <4>2 DEF Series
        <4>4. Len(saved.descriptors) = Len(received.tlvs)
          BY <1>2, <3>2 DEF IInv, SavedAsReceived
        <4> QED
          BY <1>2, <2>2, <3>2, <4>1, <4>2, <4>3, <4>4, DescriptorsAssumption DEF OneChain
      <3> QED
        BY <3>1, <3>2
    <2>5. \A n \in 1..Len(received'.tlvs) :
            /\ received'.tlvs[n].chain_id = IF IsMainNet(tlv) THEN MainNet ELSE TestNet
            /\ received'.tlvs[n].signed /\ received'.tlvs[n].template_id = swap.template
      <3> TAKE n \in 1..Len(received'.tlvs)
      <3>1. CASE n = Len(received.tlvs) + 1
        BY <2>2, <2>3, <3>1
      <3>2. CASE n \in 1..Len(received.tlvs)
        BY <2>2, <2>4, <3>2 DEF OneSeries
      <3> QED
        BY <2>2, <3>1, <3>2
    <2>6. OneChain'
      BY <2>4, <2>5 DEF OneChain
    <2>7. OneSeries'
      BY <1>2, <2>2, <2>4, <2>5 DEF OneSeries
    <2> QED
      BY <2>6, <2>7
  <1>3. ASSUME NEW tlv \in Tlvs, ProvideDescriptor(tlv) PROVE OneChain' /\ OneSeries'
    <2>1. CASE Exit /\ UNCHANGED received
      BY <1>1, <2>1 DEF Exit
    <2>2. CASE ~ (Exit /\ UNCHANGED received)
      BY <1>2, <1>3, <2>2 DEF ProvideDescriptor, Idle
    <2> QED
      BY <2>1, <2>2
  <1>4. ASSUME NEW info \in Tokens \union {Nothing}, ProvideToken(info)
        PROVE  received'.tlvs = received.tlvs /\ swap' = swap
    BY <1>4 DEF ProvideToken, IInv, TypeInv
  <1>5. CASE \/ \E m \in Messages : BeginMessage(m)
             \/ CheckInstruction
             \/ FinishMessage
             \/ UNCHANGED vars
    BY <1>1, <1>5 DEF BeginMessage, CheckInstruction, FinishMessage, Exit, vars
  <1> QED
    BY <1>1, <1>3, <1>4, <1>5 DEF Next

-------------------------------------------------------------------------------
(* Numbers from bytes. *)

\* The place values are the powers of the number of bytes.
LEMMA PlaceValues ==
  /\ PlaceValue[0] = 1
  /\ \A n \in 0..AmountBytes : PlaceValue[n] \in Nat \ {0}
  /\ \A n \in 1..AmountBytes : PlaceValue[n] = ByteValues * PlaceValue[n - 1]
  <1> DEFINE N == AmountBytes
             B == ByteValues
             P == Nat \ {0}
             step == [p \in (1..N) \X P |-> B * p[2]]
             g == CHOOSE g : g = [n \in 0..N |-> IF n = 0 THEN 1 ELSE B * g[n - 1]]
  <1>1. N \in Nat /\ B \in Nat \ {0}
    BY DescriptorsAssumption
  <1>2. step \in [(1..N) \X P -> P]
    <2>1. ASSUME NEW p \in (1..N) \X P PROVE B * p[2] \in P
      <3> PICK q \in P : q = p[2]
        OBVIOUS
      <3> HIDE DEF B
      <3>1. B * q \in P
        BY <1>1
      <3> QED
        BY <3>1
    <2> QED
      BY <2>1
  <1>3. PICK f \in [0..N -> P] : f[0] = 1 /\ \A k \in 1..N : f[k] = step[k, f[k - 1]]
    <2> HIDE DEF N, P, step
    <2>1. 1 \in P
      BY DEF P
    <2>2. HasTable(N, P, 1, step)
      BY <1>1, <1>2, <2>1, TableExists
    <2> QED
      BY <2>2 DEF HasTable, Tabulated
  <1>4. \A k \in 1..N : k - 1 \in 0..N /\ f[k] = B * f[k - 1]
    <2> TAKE k \in 1..N
    <2>1. k - 1 \in 0..N
      BY <1>1
    <2>2. f[k - 1] \in P
      BY <2>1
    <2> QED
      BY <1>3, <2>1, <2>2
  <1>5. f = [n \in 0..N |-> IF n = 0 THEN 1 ELSE B * f[n - 1]]
    <2>1. \A n \in 0..N : f[n] = IF n = 0 THEN 1 ELSE B * f[n - 1]
      <3> TAKE n \in 0..N
      <3>1. CASE n = 0
        BY <1>3, <3>1
      <3>2. CASE n # 0
        <4>1. n \in 1..N
          BY <1>1, <3>2
        <4> QED
          BY <1>4, <3>2, <4>1
      <3> QED
        BY <3>1, <3>2
    <2> QED
      BY <2>1
  <1>6. g = [n \in 0..N |-> IF n = 0 THEN 1 ELSE B * g[n - 1]]
    BY <1>5
  <1>7. PlaceValue = g
    BY DEF PlaceValue
  <1> HIDE DEF g
  <1>8. \A n \in 0..N : g[n] = IF n = 0 THEN 1 ELSE B * g[n - 1]
    BY <1>6
  <1>9. g[0] = 1 /\ \A n \in 1..N : n \in 0..N /\ g[n] = B * g[n - 1]
    <2>1. 0 \in 0..N /\ \A n \in 1..N : n \in 0..N /\ n # 0
      BY <1>1
    <2> QED
      BY <1>8, <2>1
  <1>10. \A n \in 0..N : g[n] \in P
    <2> DEFINE A == {n \in Nat : n <= N => g[n] \in P}
    <2>1. 0 \in A
      BY <1>9
    <2>2. ASSUME NEW n \in Nat, n \in A PROVE n + 1 \in A
      <3> SUFFICES ASSUME n + 1 <= N PROVE g[n + 1] \in P
        OBVIOUS
      <3>1. n + 1 \in 1..N /\ (n + 1) - 1 = n /\ g[n] \in P
        BY <1>1, <2>2
      <3>2. g[n + 1] = B * g[n]
        BY <1>9, <3>1
      <3> PICK q \in P : q = g[n]
        BY <3>1
      <3> HIDE DEF B
      <3>3. B * q \in P
        BY <1>1
      <3> QED
        BY <3>2, <3>3
    <2>3. Nat \subseteq A
      <3> HIDE DEF A
      <3> QED
        BY <2>1, <2>2, Induction
    <2> QED
      BY <1>1, <2>3
  <1> QED
    BY <1>7, <1>9, <1>10

\* One step of the loop of read_amount_using_descriptor.
Shifted(value, byte) == (value * ByteValues + byte) % WordSize

\* f is the table of the loop, one entry for each number of bytes read.
Reading(bytes, n, f) ==
  f[0] = 0 /\ \A k \in 1..n : f[k] = Shifted(f[k - 1], bytes[k])

\* A word stays a word.
LEMMA ShiftedTyped ==
  ASSUME NEW value \in Words, NEW byte \in Bytes
  PROVE  Shifted(value, byte) \in Words
  <1>1. WordSize \in Nat \ {0} /\ ByteValues \in Nat \ {0}
    BY SafeMathAssumption, DescriptorsAssumption, SMT DEF WordSize
  <1>2. value \in Nat /\ byte \in Nat
    BY <1>1 DEF Words, Bytes
  <1> HIDE DEF WordSize
  <1>3. value * ByteValues \in Nat
    BY <1>1, <1>2, SMT
  <1> DEFINE q == value * ByteValues + byte
  <1>4. q \in Nat
    BY <1>2, <1>3
  <1>5. q % WordSize \in 0..(WordSize - 1)
    <2> HIDE DEF q
    <2> QED
      BY <1>1, <1>4, Division
  <1> QED
    BY <1>5 DEF Shifted, Words

\* The number a sequence of bytes is read as is the last entry of the table.
LEMMA NumberOfTable ==
  ASSUME NEW bytes \in Seq(Bytes)
  PROVE  \E f \in [0..Len(bytes) -> Words] :
           Reading(bytes, Len(bytes), f) /\ NumberOf(bytes) = f[Len(bytes)]
  <1> DEFINE n == Len(bytes)
             step == [p \in (1..n) \X Words |-> Shifted(p[2], bytes[p[1]])]
             g == CHOOSE g : g = [U \in SUBSET (1..n) |->
                    IF U = {} THEN 0 ELSE Shifted(g[U \ {Max(U)}], bytes[Max(U)])]
  <1>1. n \in Nat /\ DOMAIN bytes = 1..n /\ \A i \in 1..n : bytes[i] \in Bytes
    OBVIOUS
  <1>2. NumberOf(bytes) = g[1..n]
    BY <1>1 DEF NumberOf, FoldLeft, MapThenFoldSet, Shifted
  <1>0. 0 \in Words
    BY SafeMathAssumption, SMT DEF Words, WordSize
  <1>3. step \in [(1..n) \X Words -> Words]
    <2>1. ASSUME NEW p \in (1..n) \X Words PROVE Shifted(p[2], bytes[p[1]]) \in Words
      <3>1. p[1] \in 1..n /\ p[2] \in Words
        OBVIOUS
      <3> QED
        BY <1>1, <3>1, ShiftedTyped
    <2> QED
      BY <2>1
  <1>4. PICK h \in [SUBSET (1..n) -> Words] : Folding(n, 0, step, h)
    <2> HIDE DEF step, n
    <2> QED
      BY <1>0, <1>1, <1>3, FoldingExists DEF Foldable
  <1>5. \A U \in SUBSET (1..n) :
          h[U] = IF U = {} THEN 0 ELSE Shifted(h[U \ {Max(U)}], bytes[Max(U)])
    <2> TAKE U \in SUBSET (1..n)
    <2>1. CASE U = {}
      BY <1>4, <2>1 DEF Folding
    <2>2. CASE U # {}
      <3>1. Max(U) \in 1..n
        BY <1>1, <2>2, MaxOfRange
      <3>2. h[U \ {Max(U)}] \in Words
        BY <1>4
      <3>3. h[U] = step[Max(U), h[U \ {Max(U)}]]
        <4> HIDE DEF step
        <4> QED
          BY <1>4, <2>2 DEF Folding
      <3> QED
        BY <2>2, <3>1, <3>2, <3>3
    <2> QED
      BY <2>1, <2>2
  <1>6. h = [U \in SUBSET (1..n) |->
               IF U = {} THEN 0 ELSE Shifted(h[U \ {Max(U)}], bytes[Max(U)])]
    BY <1>4, <1>5
  <1>7. g = [U \in SUBSET (1..n) |->
               IF U = {} THEN 0 ELSE Shifted(g[U \ {Max(U)}], bytes[Max(U)])]
    BY <1>6
  <1> HIDE DEF g, step
  <1>8. \A U \in SUBSET (1..n) :
          g[U] = IF U = {} THEN 0 ELSE Shifted(g[U \ {Max(U)}], bytes[Max(U)])
    BY <1>7
  <1>9. \A k \in 1..n : g[1..k] = Shifted(g[1..(k - 1)], bytes[k])
    <2> TAKE k \in 1..n
    <2>0. k \in Nat /\ 1 <= k /\ k <= n /\ k \in 1..k
      BY <1>1
    <2>1. 1..k \in SUBSET (1..n) /\ 1..k # {}
      <3>1. \A i \in 1..k : i \in 1..n
        BY <1>1, <2>0
      <3> QED
        BY <2>0, <3>1
    <2>2. Max(1..k) = k
      <3>1. Max(1..k) \in 1..k /\ k <= Max(1..k)
        BY <2>0, <2>1, MaxOfRange
      <3> QED
        BY <2>0, <3>1
    <2>3. (1..k) \ {k} = 1..(k - 1)
      BY <2>0
    <2> QED
      BY <1>8, <2>1, <2>2, <2>3
  <1> DEFINE f == [k \in 0..n |-> g[1..k]]
  <1>10. f[0] = 0
    <2>1. 1..0 = {} /\ 1..0 \in SUBSET (1..n) /\ 0 \in 0..n
      BY <1>1
    <2> QED
      BY <1>8, <2>1
  <1>11. \A k \in 1..n : f[k] = Shifted(f[k - 1], bytes[k])
    <2> TAKE k \in 1..n
    <2>1. k \in 0..n /\ k - 1 \in 0..n
      BY <1>1
    <2> QED
      BY <1>9, <2>1
  <1>12. NumberOf(bytes) = f[n]
    <2>1. n \in 0..n
      BY <1>1
    <2> QED
      BY <1>2, <2>1
  <1>13. f = [k \in 0..n |-> f[k]]
    OBVIOUS
  <1> HIDE DEF f
  <1>14. \A k \in 0..n : f[k] \in Words
    <2> TAKE k \in 0..n
    <2> DEFINE A == {j \in Nat : j <= n => f[j] \in Words}
    <2>1. 0 \in A
      BY <1>0, <1>10
    <2>2. ASSUME NEW j \in Nat, j \in A PROVE j + 1 \in A
      <3> SUFFICES ASSUME j + 1 <= n PROVE f[j + 1] \in Words
        OBVIOUS
      <3>1. j + 1 \in 1..n /\ (j + 1) - 1 = j /\ f[j] \in Words
        BY <1>1, <2>2
      <3>2. f[j + 1] = Shifted(f[j], bytes[j + 1])
        BY <1>11, <3>1
      <3>3. bytes[j + 1] \in Bytes
        BY <1>1, <3>1
      <3> QED
        BY <3>1, <3>2, <3>3, ShiftedTyped
    <2>3. Nat \subseteq A
      <3> HIDE DEF A
      <3> QED
        BY <2>1, <2>2, Induction
    <2> QED
      BY <1>1, <2>3
  <1>15. f \in [0..n -> Words]
    BY <1>13, <1>14
  <1>16. Reading(bytes, n, f)
    BY <1>10, <1>11 DEF Reading
  <1> QED
    BY <1>12, <1>15, <1>16 DEF n

\* A place counts for no more than a later one.
LEMMA PlacesGrow ==
  ASSUME NEW k \in 0..AmountBytes
  PROVE  PlaceValue[k] <= WordSize
  <1> DEFINE N == AmountBytes
             A == {j \in Nat : j <= N => PlaceValue[N - j] <= PlaceValue[N]}
  <1>1. N \in Nat /\ ByteValues \in Nat \ {0} /\ PlaceValue[N] = WordSize
    BY DescriptorsAssumption
  <1>2. PlaceValue[N] \in Nat
    BY <1>1, PlaceValues
  <1>3. 0 \in A
    BY <1>1, <1>2
  <1>4. ASSUME NEW j \in Nat, j \in A PROVE j + 1 \in A
    <2> SUFFICES ASSUME j + 1 <= N PROVE PlaceValue[N - (j + 1)] <= PlaceValue[N]
      OBVIOUS
    <2> DEFINE i == N - j
    <2>1. i \in 1..N /\ i - 1 = N - (j + 1) /\ i - 1 \in 0..N /\ i \in 0..N
      BY <1>1
    <2>2. PlaceValue[i] <= PlaceValue[N]
      BY <1>1, <1>4
    <2> HIDE DEF i
    <2>3. PlaceValue[i] = ByteValues * PlaceValue[i - 1]
      BY <2>1, PlaceValues
    <2>4. PlaceValue[i] \in Nat /\ PlaceValue[i - 1] \in Nat
      BY <2>1, PlaceValues
    <2>5. ASSUME NEW p \in Nat, NEW b \in Nat \ {0} PROVE p <= b * p
      <3>1. 1 * p <= b * p
        BY ProductMonotone, SMT
      <3> QED
        BY <3>1, SMT
    <2>6. PlaceValue[i - 1] <= PlaceValue[i]
      BY <1>1, <2>3, <2>4, <2>5
    <2> QED
      BY <1>2, <2>1, <2>2, <2>4, <2>6
  <1>5. Nat \subseteq A
    <2> HIDE DEF A
    <2> QED
      BY <1>3, <1>4, Induction
  <1>6. N - k \in Nat /\ N - k <= N /\ N - (N - k) = k
    BY <1>1
  <1> QED
    BY <1>1, <1>5, <1>6

\* A number of as many bytes as a word has is read without a wrap.
LEMMA ReadingExact ==
  ASSUME NEW bytes \in Seq(Bytes), Len(bytes) <= AmountBytes,
         NEW f \in [0..Len(bytes) -> Words], Reading(bytes, Len(bytes), f)
  PROVE  \A k \in 1..Len(bytes) : f[k] = f[k - 1] * ByteValues + bytes[k]
  <1> DEFINE n == Len(bytes)
             B == ByteValues
  <1>1. /\ n \in Nat /\ B \in Nat \ {0} /\ AmountBytes \in Nat
        /\ WordSize \in Nat \ {0}
    BY DescriptorsAssumption, SafeMathAssumption, SMT DEF WordSize
  <1>2. \A k \in 0..n : f[k] \in Nat
    BY <1>1 DEF Words
  <1>3. \A k \in 1..n : bytes[k] \in Nat /\ bytes[k] <= B - 1
    <2> TAKE k \in 1..n
    <2>1. bytes[k] \in Bytes
      OBVIOUS
    <2> QED
      BY <1>1, <2>1 DEF Bytes
  <1>4. ASSUME NEW k \in 1..n, f[k - 1] <= PlaceValue[k - 1] - 1
        PROVE  f[k] = f[k - 1] * B + bytes[k] /\ f[k] <= PlaceValue[k] - 1
    <2>1. k - 1 \in 0..n /\ k \in 0..AmountBytes /\ k \in 1..AmountBytes
            /\ k - 1 \in 0..AmountBytes
      BY <1>1
    <2> DEFINE v == f[k - 1]
               b == bytes[k]
               p == PlaceValue[k - 1]
               q == PlaceValue[k]
               x == v * B + b
    <2>2. v \in Nat /\ b \in Nat /\ p \in Nat /\ q \in Nat /\ q = B * p /\ b <= B - 1
            /\ q <= WordSize /\ v <= p - 1
      BY <1>2, <1>3, <1>4, <2>1, PlaceValues, PlacesGrow
    <2>3. f[k] = x % WordSize
      BY DEF Reading, Shifted
    <2> HIDE DEF v, b, p, q, B
    <2>4. v + 1 <= p /\ v + 1 \in Nat
      BY <2>2
    <2>5. (v + 1) * B <= p * B
      BY <1>1, <2>2, <2>4, ProductMonotone
    <2>6. (v + 1) * B = v * B + B /\ p * B = q /\ v * B \in Nat
      BY <1>1, <2>2, SMT
    <2>7. x \in Nat /\ x <= q - 1
      <3> DEFINE w == v * B
      <3>1. w \in Nat /\ w + B <= q
        BY <2>5, <2>6
      <3> HIDE DEF w
      <3>2. w + b \in Nat /\ w + b <= q - 1
        BY <1>1, <2>2, <3>1
      <3> QED
        BY <3>2 DEF w
    <2> HIDE DEF x
    <2>8. x \in 0..(WordSize - 1)
      BY <1>1, <2>2, <2>7
    <2>9. x % WordSize = x
      BY <1>1, <2>8, SmallRemainder
    <2> QED
      BY <2>3, <2>7, <2>9 DEF x, v, b, q
  <1> DEFINE A == {k \in Nat : k <= n => f[k] <= PlaceValue[k] - 1}
  <1>5. 0 \in A
    BY PlaceValues DEF Reading
  <1>6. ASSUME NEW k \in Nat, k \in A PROVE k + 1 \in A
    <2> SUFFICES ASSUME k + 1 <= n PROVE f[k + 1] <= PlaceValue[k + 1] - 1
      OBVIOUS
    <2>1. k + 1 \in 1..n /\ (k + 1) - 1 = k /\ f[k] <= PlaceValue[k] - 1
      BY <1>1, <1>6
    <2> PICK m \in 1..n : m = k + 1
      BY <2>1
    <2>2. f[m - 1] <= PlaceValue[m - 1] - 1
      BY <2>1
    <2> QED
      BY <1>4, <2>2
  <1>7. Nat \subseteq A
    <2> HIDE DEF A
    <2> QED
      BY <1>5, <1>6, Induction
  <1> QED
    <2> TAKE k \in 1..n
    <2>1. k - 1 \in Nat /\ k - 1 <= n
      BY <1>1
    <2>2. f[k - 1] <= PlaceValue[k - 1] - 1
      BY <1>7, <2>1
    <2> QED
      BY <1>4, <2>2

-------------------------------------------------------------------------------
(* The amount of an instruction. *)

\* The place of a byte of the amount.
PlaceOf(d, n) == IF d.big_endian THEN d.amount_size - n ELSE n - 1

\* s is the table of the sum AmountMeant is.
Summing(data, d, s) ==
  /\ s[0] = 0
  /\ \A n \in 1..d.amount_size :
       s[n] = s[n - 1] + data[AmountOffset(data, d) + n] * PlaceValue[PlaceOf(d, n)]

\* AmountMeant is the last entry of such a table.
LEMMA AmountTable ==
  ASSUME NEW data \in Seq(Bytes), NEW d, DescriptorTyped(d), AmountWithinData(data, d)
  PROVE  \E s \in [0..d.amount_size -> Nat] :
           Summing(data, d, s) /\ AmountMeant(data, d) = s[d.amount_size]
  <1> DEFINE L == d.amount_size
             start == AmountOffset(data, d)
             term == [n \in 1..L |-> data[start + n] * PlaceValue[PlaceOf(d, n)]]
             step == [p \in (1..L) \X Nat |-> p[2] + term[p[1]]]
             g == CHOOSE g : g = [n \in 0..L |->
                    IF n = 0 THEN 0
                    ELSE g[n - 1] + data[start + n] * PlaceValue[PlaceOf(d, n)]]
  <1>1. L \in Nat /\ L <= AmountBytes /\ start \in 0..(Len(data) - L) /\ AmountBytes \in Nat
    BY DescriptorsAssumption DEF DescriptorTyped, AmountWithinData
  <1>2. AmountMeant(data, d) = g[L]
    BY DEF AmountMeant, PlaceOf
  <1>3. ASSUME NEW n \in 1..L
        PROVE  /\ data[start + n] \in Nat /\ PlaceValue[PlaceOf(d, n)] \in Nat
               /\ data[start + n] * PlaceValue[PlaceOf(d, n)] \in Nat
    <2>1. start + n \in 1..Len(data)
      <3> HIDE DEF start
      <3> QED
        BY <1>1
    <2>2. data[start + n] \in Bytes
      BY <2>1
    <2>3. data[start + n] \in Nat
      BY <2>2, DescriptorsAssumption DEF Bytes
    <2>4. PlaceOf(d, n) \in 0..AmountBytes
      BY <1>1 DEF PlaceOf
    <2>5. PlaceValue[PlaceOf(d, n)] \in Nat
      BY <2>4, PlaceValues
    <2>6. \A a, b \in Nat : a * b \in Nat
      BY SMT
    <2> QED
      BY <2>3, <2>5, <2>6
  <1>4. \A n \in 1..L : term[n] = data[start + n] * PlaceValue[PlaceOf(d, n)]
                          /\ term[n] \in Nat
    BY <1>3
  <1> HIDE DEF term
  <1>5. step \in [(1..L) \X Nat -> Nat]
    BY <1>4
  <1>6. PICK f \in [0..L -> Nat] : f[0] = 0 /\ \A k \in 1..L : f[k] = step[k, f[k - 1]]
    <2> HIDE DEF L, step
    <2>1. HasTable(L, Nat, 0, step)
      BY <1>1, <1>5, TableExists
    <2> QED
      BY <2>1 DEF HasTable, Tabulated
  <1>7. \A n \in 1..L :
          n - 1 \in 0..L /\ f[n] = f[n - 1] + data[start + n] * PlaceValue[PlaceOf(d, n)]
    <2> TAKE n \in 1..L
    <2>1. n - 1 \in 0..L
      BY <1>1
    <2>2. f[n - 1] \in Nat
      BY <2>1
    <2>3. f[n] = f[n - 1] + term[n]
      BY <1>6, <2>2
    <2> QED
      BY <1>4, <2>1, <2>3
  <1>8. f = [n \in 0..L |->
               IF n = 0 THEN 0
               ELSE f[n - 1] + data[start + n] * PlaceValue[PlaceOf(d, n)]]
    <2>1. \A n \in 0..L : n # 0 => n \in 1..L
      BY <1>1
    <2> QED
      BY <1>6, <1>7, <2>1
  <1>9. g = [n \in 0..L |->
               IF n = 0 THEN 0
               ELSE g[n - 1] + data[start + n] * PlaceValue[PlaceOf(d, n)]]
    BY <1>8
  <1> HIDE DEF g, start
  <1>10. \A n \in 0..L : g[n] = IF n = 0 THEN 0
               ELSE g[n - 1] + data[start + n] * PlaceValue[PlaceOf(d, n)]
    BY <1>9
  <1>11. g[0] = 0 /\ \A n \in 1..L :
           g[n] = g[n - 1] + data[start + n] * PlaceValue[PlaceOf(d, n)]
    <2>1. 0 \in 0..L /\ \A n \in 1..L : n \in 0..L /\ n # 0
      BY <1>1
    <2> QED
      BY <1>10, <2>1
  <1>12. g \in [0..L -> Nat]
    <2> DEFINE A == {n \in Nat : n <= L => g[n] \in Nat}
    <2>1. 0 \in A
      BY <1>11
    <2>2. ASSUME NEW n \in Nat, n \in A PROVE n + 1 \in A
      <3> SUFFICES ASSUME n + 1 <= L PROVE g[n + 1] \in Nat
        OBVIOUS
      <3> PICK m \in 1..L : m = n + 1
        BY <1>1
      <3>1. g[m - 1] \in Nat
        BY <1>1, <2>2
      <3>2. g[m] = g[m - 1] + term[m]
        BY <1>4, <1>11
      <3> QED
        BY <1>4, <3>1, <3>2
    <2>3. Nat \subseteq A
      <3> HIDE DEF A
      <3> QED
        BY <2>1, <2>2, Induction
    <2>4. \A n \in 0..L : g[n] \in Nat
      BY <1>1, <2>3
    <2> QED
      BY <1>9, <2>4
  <1>13. Summing(data, d, g)
    BY <1>11 DEF Summing, start
  <1> QED
    BY <1>2, <1>12, <1>13

\* The bytes of the amount are those of the data at its place, in the order of
\* its end.
LEMMA BytesRead ==
  ASSUME NEW data \in Seq(Bytes), NEW d, DescriptorTyped(d), AmountWithinData(data, d)
  PROVE  /\ AmountBytesOf(data, d) \in Seq(Bytes)
         /\ Len(AmountBytesOf(data, d)) = d.amount_size
         /\ \A k \in 1..d.amount_size :
              AmountBytesOf(data, d)[k] =
                data[AmountOffset(data, d)
                       + IF d.big_endian THEN k ELSE d.amount_size + 1 - k]
  <1> DEFINE L == d.amount_size
             start == AmountOffset(data, d)
             b == SubSeq(data, start + 1, start + L)
  <1>1. L \in Nat /\ start \in 0..(Len(data) - L)
    BY DEF DescriptorTyped, AmountWithinData
  <1>2. b \in Seq(Bytes) /\ Len(b) = L /\ \A k \in 1..L : b[k] = data[start + k]
    <2> HIDE DEF start
    <2>1. start + 1 \in 1..(Len(data) + 1) /\ start + L \in 0..Len(data) /\ start \in Nat
      BY <1>1
    <2>2. \A k \in (start + 1)..(start + L) : data[k] \in Bytes
      BY <1>1
    <2>3. b \in Seq(Bytes)
      BY <2>1, <2>2, SubSeqProperties
    <2>4. Len(b) = L
      BY <1>1, <2>1
    <2>5. \A k \in 1..L : b[k] = data[start + k]
      BY <1>1, <2>1
    <2> QED
      BY <2>3, <2>4, <2>5
  <1>3. AmountBytesOf(data, d) = IF d.big_endian THEN b ELSE Reverse(b)
    BY DEF AmountBytesOf
  <1> HIDE DEF b, start
  <1>4. CASE d.big_endian
    BY <1>2, <1>3, <1>4 DEF start
  <1>5. CASE ~ d.big_endian
    <2>1. Reverse(b) = [k \in 1..L |-> b[L + 1 - k]]
      BY <1>2 DEF Reverse
    <2>2. \A k \in 1..L : L + 1 - k \in 1..L /\ b[L + 1 - k] \in Bytes
      BY <1>1, <1>2
    <2>3. Reverse(b) \in Seq(Bytes) /\ Len(Reverse(b)) = L
      <3> DEFINE r == [k \in 1..L |-> b[L + 1 - k]]
      <3>1. r \in [1..L -> Bytes]
        BY <2>2
      <3>2. r \in Seq(Bytes) /\ Len(r) = L
        <4> HIDE DEF r
        <4>1. r \in Seq(Bytes) /\ DOMAIN r = 1..L
          BY <1>1, <3>1
        <4> QED
          BY <1>1, <4>1, LenProperties
      <3> QED
        BY <2>1, <3>2
    <2>4. \A k \in 1..L : Reverse(b)[k] = data[start + (L + 1 - k)]
      BY <1>2, <2>1, <2>2
    <2> QED
      BY <1>3, <1>5, <2>3, <2>4 DEF start
  <1> QED
    BY <1>4, <1>5

\* The number read from the most significant byte on is the sum of what the
\* bytes count for at their places.
LEMMA ReadIsMeant ==
  ASSUME NEW data \in Seq(Bytes), NEW d, DescriptorTyped(d), AmountWithinData(data, d)
  PROVE  NumberOf(AmountBytesOf(data, d)) = AmountMeant(data, d)
  <1> DEFINE L == d.amount_size
             start == AmountOffset(data, d)
             bytes == AmountBytesOf(data, d)
  <1>1. /\ L \in Nat /\ L <= AmountBytes /\ start \in Nat
        /\ AmountBytes \in Nat /\ d.big_endian \in BOOLEAN
        /\ ByteValues \in Nat
    BY DescriptorsAssumption DEF DescriptorTyped, AmountWithinData
  <1>2. bytes \in Seq(Bytes) /\ Len(bytes) = L
    BY BytesRead
  <1>3. \A k \in 1..L : bytes[k] = data[start + IF d.big_endian THEN k ELSE L + 1 - k]
    BY BytesRead
  <1>4. PICK s \in [0..L -> Nat] :
          Summing(data, d, s) /\ AmountMeant(data, d) = s[L]
    BY AmountTable
  <1> HIDE DEF bytes, L
  <1>5. PICK f \in [0..L -> Words] : Reading(bytes, L, f) /\ NumberOf(bytes) = f[L]
    BY <1>2, NumberOfTable
  <1>6. /\ f[0] = 0
        /\ \A k \in 1..L : f[k] = f[k - 1] * ByteValues + bytes[k]
    <2>1. \A k \in 1..L : f[k] = f[k - 1] * ByteValues + bytes[k]
      BY <1>1, <1>2, <1>5, ReadingExact
    <2> QED
      BY <1>5, <2>1 DEF Reading
  <1>7. /\ s[0] = 0
        /\ \A n \in 1..L : s[n] = s[n - 1] + data[start + n] * PlaceValue[PlaceOf(d, n)]
    BY <1>4 DEF Summing, L
  <1> HIDE DEF start
  <1>8. \A k \in 0..L : f[k] \in Nat /\ s[k] \in Nat /\ PlaceValue[k] \in Nat
    <2>1. Words \subseteq Nat
      BY DEF Words
    <2>2. \A k \in 0..L : PlaceValue[k] \in Nat
      BY <1>1, PlaceValues
    <2> QED
      BY <2>1, <2>2
  <1>9. \A k \in 1..L : bytes[k] \in Nat
    <2>1. Bytes \subseteq Nat
      BY DEF Bytes
    <2> QED
      <3> TAKE k \in 1..L
      <3>1. bytes[k] \in Bytes
        BY <1>2
      <3> QED
        BY <2>1, <3>1
  <1>10. PlaceValue[0] = 1 /\ 0 \in 0..L /\ L \in 0..L /\ L - 0 = L
    BY <1>1, PlaceValues
  \* Reading one more byte.
  <1>11. ASSUME NEW k \in 1..L
         PROVE  /\ k - 1 \in 0..L /\ L - k \in 0..L /\ L - (k - 1) \in 0..L
                /\ f[k] * PlaceValue[L - k] =
                     f[k - 1] * PlaceValue[L - (k - 1)] + bytes[k] * PlaceValue[L - k]
    <2>1. k - 1 \in 0..L /\ L - k \in 0..L /\ L - (k - 1) \in 0..L
      BY <1>1
    <2> PICK i \in 1..AmountBytes : i = L - (k - 1)
      BY <1>1
    <2>2. PlaceValue[i] = ByteValues * PlaceValue[i - 1] /\ i - 1 = L - k
      BY <1>1, PlaceValues
    <2>3. f[k] * PlaceValue[i - 1] =
            f[k - 1] * (ByteValues * PlaceValue[i - 1]) + bytes[k] * PlaceValue[i - 1]
      <3>1. /\ f[k - 1] \in Nat /\ bytes[k] \in Nat /\ PlaceValue[i - 1] \in Nat
            /\ f[k] = f[k - 1] * ByteValues + bytes[k]
        BY <1>6, <1>8, <1>9, <2>1, <2>2
      <3>2. (f[k - 1] * ByteValues + bytes[k]) * PlaceValue[i - 1] =
              f[k - 1] * (ByteValues * PlaceValue[i - 1]) + bytes[k] * PlaceValue[i - 1]
        <4> HIDE DEF start
        <4> QED
          BY ONLY <1>1, <3>1, MultiplyShifted
      <3> QED
        BY <3>1, <3>2
    <2> QED
      BY <2>1, <2>2, <2>3
  <1>12. CASE d.big_endian
    <2> DEFINE A == {k \in Nat : k <= L => f[k] * PlaceValue[L - k] = s[k]}
    <2>1. 0 \in A
      BY <1>6, <1>7, <1>8, <1>10, SMT
    <2>2. ASSUME NEW j \in Nat, j \in A PROVE j + 1 \in A
      <3> SUFFICES ASSUME j + 1 <= L PROVE f[j + 1] * PlaceValue[L - (j + 1)] = s[j + 1]
        OBVIOUS
      <3> PICK k \in 1..L : k = j + 1
        BY <1>1
      <3>1. f[k - 1] * PlaceValue[L - (k - 1)] = s[k - 1]
        BY <1>1, <2>2
      <3>2. s[k] = s[k - 1] + bytes[k] * PlaceValue[L - k]
        BY <1>3, <1>7, <1>12 DEF PlaceOf, L
      <3>3. f[k] * PlaceValue[L - k] =
              f[k - 1] * PlaceValue[L - (k - 1)] + bytes[k] * PlaceValue[L - k]
        BY <1>11
      <3> QED
        BY <3>1, <3>2, <3>3
    <2>3. Nat \subseteq A
      <3> HIDE DEF A
      <3> QED
        BY <2>1, <2>2, Induction
    <2>4. f[L] * PlaceValue[L - L] = s[L]
      BY <1>1, <2>3
    <2>5. L - L = 0 /\ f[L] \in Nat
      BY <1>1, <1>8, <1>10
    <2>6. f[L] * 1 = s[L]
      BY <1>10, <2>4, <2>5
    <2> QED
      BY <1>4, <1>5, <2>5, <2>6 DEF L, bytes
  <1>13. CASE ~ d.big_endian
    <2> DEFINE A == {k \in Nat : k <= L => f[k] * PlaceValue[L - k] + s[L - k] = s[L]}
    <2>1. 0 \in A
      <3>1. f[0] * PlaceValue[L] = 0
        BY <1>6, <1>8, <1>10, SMT
      <3> QED
        BY <1>8, <1>10, <3>1
    <2>2. ASSUME NEW j \in Nat, j \in A PROVE j + 1 \in A
      <3> SUFFICES ASSUME j + 1 <= L
                   PROVE  f[j + 1] * PlaceValue[L - (j + 1)] + s[L - (j + 1)] = s[L]
        OBVIOUS
      <3> PICK k \in 1..L : k = j + 1
        BY <1>1
      <3>1. f[k - 1] * PlaceValue[L - (k - 1)] + s[L - (k - 1)] = s[L]
        BY <1>1, <2>2
      <3> PICK n \in 1..L : n = L + 1 - k
        BY <1>1
      <3>2. n = L - (k - 1) /\ n - 1 = L - k
        BY <1>1
      <3>3. s[n] = s[n - 1] + bytes[k] * PlaceValue[n - 1]
        BY <1>3, <1>7, <1>13 DEF PlaceOf
      <3>4. f[k] * PlaceValue[L - k] =
              f[k - 1] * PlaceValue[L - (k - 1)] + bytes[k] * PlaceValue[L - k]
        BY <1>11
      <3> DEFINE x == f[k] * PlaceValue[n - 1]
                 y == f[k - 1] * PlaceValue[n]
                 z == bytes[k] * PlaceValue[n - 1]
                 t == s[n - 1]
      <3>5. x = y + z /\ y + s[n] = s[L] /\ s[n] = t + z
        BY <1>8, <3>1, <3>2, <3>3, <3>4
      <3>6. y \in Nat /\ z \in Nat /\ t \in Nat
        <4>1. k - 1 \in 0..L /\ n \in 0..L /\ n - 1 \in 0..L
          BY <1>1
        <4>2. \A a, b \in Nat : a * b \in Nat
          BY SMT
        <4> QED
          BY <1>8, <1>9, <4>1, <4>2
      <3>7. x + t = s[L]
        <4> HIDE DEF x, y, z, t
        <4> QED
          BY <3>5, <3>6
      <3> QED
        BY <3>2, <3>7
    <2>3. Nat \subseteq A
      <3> HIDE DEF A
      <3> QED
        BY <2>1, <2>2, Induction
    <2>4. f[L] * PlaceValue[L - L] + s[L - L] = s[L]
      BY <1>1, <2>3
    <2>5. L - L = 0 /\ f[L] \in Nat
      BY <1>1, <1>8, <1>10
    <2>6. f[L] * 1 + 0 = s[L]
      BY <1>7, <1>10, <2>4, <2>5
    <2> QED
      BY <1>4, <1>5, <2>5, <2>6 DEF L, bytes
  <1> QED
    BY <1>1, <1>12, <1>13

\* read_amount_using_descriptor returns the number that the bytes of the amount
\* are, each at its place, if they are in the data and a word has as many, and
\* fails otherwise: for every width, place and order of the amount.
THEOREM ReadAmountIsMeant ==
  ASSUME NEW data \in Seq(Bytes), NEW d, DescriptorTyped(d)
  PROVE  ReadAmount(data, d) = IF AmountWithinData(data, d) THEN AmountMeant(data, d)
                                                            ELSE Nothing
  <1>1. /\ d.amount_size \in Nat /\ d.amount_offset \in Nat
        /\ d.negative_offset \in BOOLEAN /\ Len(data) \in Nat /\ AmountBytes \in Nat
    BY DescriptorsAssumption DEF DescriptorTyped
  <1>2. AmountWithinData(data, d) <=>
          ~ (\/ d.negative_offset /\ d.amount_offset > Len(data)
             \/ AmountOffset(data, d) + d.amount_size > Len(data)
             \/ d.amount_size > AmountBytes)
    BY <1>1 DEF AmountWithinData, AmountOffset
  <1> QED
    BY <1>2, ReadIsMeant DEF ReadAmount

\* What is read is a word.
LEMMA ReadAmountTyped ==
  ASSUME NEW data \in Seq(Bytes), NEW d, DescriptorTyped(d), AmountWithinData(data, d)
  PROVE  AmountMeant(data, d) \in Words
  <1> DEFINE bytes == AmountBytesOf(data, d)
  <1>1. bytes \in Seq(Bytes)
    BY BytesRead
  <1>2. NumberOf(bytes) \in Words
    <2> HIDE DEF bytes
    <2>1. Len(bytes) \in 0..Len(bytes)
      BY <1>1
    <2> QED
      BY <1>1, <2>1, NumberOfTable
  <1> QED
    BY <1>2, ReadIsMeant

\* What is compared is what the descriptor says of the amount.
LEMMA ChecksAreDescribed ==
  ASSUME swap \in Swaps, NEW tlv \in Tlvs, NEW data \in Seq(Bytes),
         AmountChecks(data, tlv.ins)
  PROVE  AmountAsDescribed(data, tlv.ins)
  <1> DEFINE d == tlv.ins
  <1> SUFFICES ASSUME d.amount_size # 0
               PROVE  /\ AmountWithinData(data, d)
                      /\ IF d.capped_amount_bps = Nothing
                         THEN AmountMeant(data, d) = swap.amount
                         ELSE AmountMeant(data, d) * Whole
                                <= swap.amount * d.capped_amount_bps
    BY DEF AmountAsDescribed
  <1>1. DescriptorTyped(d)
    BY DescriptorsAssumption
  <1>2. ReadAmount(data, d) # Nothing
    BY DEF AmountChecks
  <1>3. AmountWithinData(data, d) /\ ReadAmount(data, d) = AmountMeant(data, d)
    <2> HIDE DEF d
    <2> QED
      BY <1>1, <1>2, ReadAmountIsMeant
  <1>4. CASE d.capped_amount_bps = Nothing
    BY <1>3, <1>4 DEF AmountChecks
  <1>5. CASE d.capped_amount_bps # Nothing
    BY <1>3, <1>5, CheckedWithinCap
  <1> QED
    BY <1>3, <1>4, <1>5

\* What the descriptor says of the amount is enough, unless its cap overflows.
LEMMA DescribedChecks ==
  ASSUME swap \in Swaps, NEW tlv \in Tlvs, NEW data \in Seq(Bytes),
         AmountAsDescribed(data, tlv.ins),
         tlv.ins.capped_amount_bps # Nothing =>
           ~ (swap.amount * tlv.ins.capped_amount_bps >= WordSize * Whole)
  PROVE  AmountChecks(data, tlv.ins)
  <1> DEFINE d == tlv.ins
             amount == AmountMeant(data, d)
  <1> SUFFICES ASSUME d.amount_size # 0 PROVE AmountChecks(data, d)
    BY DEF AmountChecks
  <1>1. DescriptorTyped(d)
    BY DescriptorsAssumption
  <1>2. AmountWithinData(data, d)
    BY DEF AmountAsDescribed
  <1>3. ReadAmount(data, d) = amount /\ amount \in Words /\ amount # Nothing
    <2>1. ReadAmount(data, d) = amount /\ amount \in Words
      <3> HIDE DEF d
      <3> QED
        BY <1>1, <1>2, ReadAmountIsMeant, ReadAmountTyped
    <2> QED
      BY <2>1, DescriptorsAssumption
  <1>4. CASE d.capped_amount_bps = Nothing
    BY <1>3, <1>4 DEF AmountChecks, AmountAsDescribed
  <1>5. CASE d.capped_amount_bps # Nothing
    <2> DEFINE bps == d.capped_amount_bps
               product == swap.amount * bps
    <2>1. swap.amount \in Words /\ bps \in BasisPoints /\ Whole \in Nat \ {0}
            /\ WordSize \in Nat /\ swap.amount \in Nat /\ bps \in Nat /\ amount \in Nat
      <3>1. WordSize \in Nat
        BY SafeMathAssumption, SMT DEF WordSize
      <3>2. swap.amount \in Words /\ bps \in BasisPoints
        BY <1>1, <1>5, DescriptorsAssumption DEF DescriptorTyped
      <3> QED
        BY <1>3, <3>1, <3>2, SafeMathAssumption DEF Words, BasisPoints
    <2>2. product \in Nat /\ WordSize * Whole \in Nat
      BY <2>1, SMT
    <2>3. product < WordSize * Whole
      <3> HIDE DEF WordSize
      <3> DEFINE limit == WordSize * Whole
      <3>1. ~ (product >= limit) /\ limit \in Nat
        BY <1>5, <2>2
      <3> HIDE DEF product, limit
      <3>2. product < limit
        BY <2>2, <3>1
      <3> QED
        BY <3>2 DEF limit
    <2>4. amount * Whole <= product
      BY <1>5 DEF AmountAsDescribed
    <2> HIDE DEF product, amount
    <2>5. amount <= product \div Whole /\ product \div Whole \in Nat
      BY <2>1, <2>2, <2>4, WithinQuotient, QuotientTimes
    <2>6. product \div Whole < WordSize
      BY <2>1, <2>2, <2>3, SmallQuotient
    <2>7. Scale(swap.amount, bps) = [ok |-> TRUE, value |-> product \div Whole]
      BY <2>1, <2>6, ScaleIsFloor DEF product
    <2>8. Scale(swap.amount, bps).ok /\ Scale(swap.amount, bps).value = product \div Whole
      BY <2>7
    <2>9. amount \in 0..Scale(swap.amount, bps).value
      BY <2>1, <2>5, <2>8
    <2> QED
      BY <1>3, <1>5, <2>8, <2>9 DEF AmountChecks
  <1> QED
    BY <1>4, <1>5

-------------------------------------------------------------------------------
(* The token and the accounts of the swap. *)

\* The first entry of the registry sought is one of those sought.
LEMMA FirstOfIs ==
  ASSUME NEW entries \in SUBSET (DOMAIN Registry), entries # {}
  PROVE  \E n \in entries : FirstOf(entries) = Registry[n]
  <1>1. DOMAIN Registry \subseteq Nat
    BY RegistryAssumption
  <1>2. \E n \in entries : \A other \in entries : n <= other
    <2>1. entries \subseteq Nat
      BY <1>1
    <2>2. PICK n \in entries : \A other \in entries : <<other, n>> \notin OpToRel(<, Nat)
      BY <2>1, NatLessThanWellFounded, WFMin
    <2>3. \A other \in entries : ~ (other < n)
      BY <2>1, <2>2 DEF OpToRel
    <2>4. \A other \in entries : n <= other
      BY <2>1, <2>3
    <2> QED
      BY <2>4
  <1> QED
    BY <1>2 DEF FirstOf

\* The hardcoded token of a symbol is the only one.
LEMMA HardcodedIsOne ==
  ASSUME NEW symbol
  PROVE  {[mint |-> entry.mint, is2022 |-> FALSE] :
            entry \in {e \in ToSet(Registry) : e.symbol = symbol}} =
           IF HardcodedMint(symbol) = Nothing THEN {} ELSE {HardcodedMint(symbol)}
  <1> DEFINE entries == {n \in DOMAIN Registry : Registry[n].symbol = symbol}
             found == {e \in ToSet(Registry) : e.symbol = symbol}
  <1>1. HardcodedMint(symbol) =
          IF entries = {} THEN Nothing
          ELSE [mint |-> FirstOf(entries).mint, is2022 |-> FALSE]
    BY DEF HardcodedMint, EntriesOf
  <1>2. ToSet(Registry) = {Registry[n] : n \in DOMAIN Registry}
    BY DEF ToSet
  <1>3. found = {Registry[n] : n \in entries}
    BY <1>2
  <1>4. CASE entries = {}
    BY <1>1, <1>3, <1>4
  <1>5. CASE entries # {}
    <2>1. PICK k \in entries : FirstOf(entries) = Registry[k]
      BY <1>5, FirstOfIs
    <2> DEFINE first == Registry[k]
    <2>2. first \in found /\ \A e \in found : e = first
      BY <1>2, <1>3, RegistryAssumption
    <2>3. HardcodedMint(symbol) = [mint |-> first.mint, is2022 |-> FALSE]
      BY <1>1, <1>5, <2>1
    <2>4. HardcodedMint(symbol) # Nothing
      <3>1. first.mint \in Mints
        BY <2>2 DEF Mints
      <3>2. \A x \in Mints, y \in BOOLEAN : [mint |-> x, is2022 |-> y] # Nothing
        BY RegistryAssumption
      <3> QED
        BY <2>3, <3>1, <3>2
    <2>5. found = {first}
      BY <2>2
    <2> HIDE DEF first, found
    <2>6. {[mint |-> entry.mint, is2022 |-> FALSE] : entry \in found} =
            {[mint |-> first.mint, is2022 |-> FALSE]}
      BY <2>5
    <2> QED
      BY <2>3, <2>4, <2>6 DEF found
  <1> QED
    BY <1>4, <1>5

\* The mint that is found is that of the only token of the swap's ticker.
LEMMA MintIsOne ==
  ASSUME token = received.token, token \in Tokens \union {Nothing}
  PROVE  SwapTokens = IF TokenMint(token, swap.ticker) = Nothing THEN {}
                      ELSE {TokenMint(token, swap.ticker)}
  <1>1. CASE token # Nothing /\ token.ticker = swap.ticker
    <2> DEFINE t == [mint |-> token.mint, is2022 |-> token.is2022]
    <2>1. DynamicMint(token, swap.ticker) = t
      BY <1>1 DEF DynamicMint
    <2>2. t # Nothing
      <3>1. token \in Tokens /\ token.is2022 \in BOOLEAN /\ token.mint \in Mints
        BY <1>1, RegistryAssumption DEF Mints
      <3> QED
        BY <3>1, RegistryAssumption
    <2>3. TokenMint(token, swap.ticker) = t
      BY <2>1, <2>2 DEF TokenMint
    <2> QED
      BY <1>1, <2>2, <2>3 DEF SwapTokens
  <1>2. CASE ~ (token # Nothing /\ token.ticker = swap.ticker)
    <2>1. TokenMint(token, swap.ticker) = HardcodedMint(swap.ticker)
      BY <1>2 DEF TokenMint, DynamicMint
    <2>2. SwapTokens = {[mint |-> entry.mint, is2022 |-> FALSE] :
            entry \in {e \in ToSet(Registry) : e.symbol = swap.ticker}}
      BY <1>2 DEF SwapTokens
    <2> QED
      BY <2>1, <2>2, HardcodedIsOne
  <1> QED
    BY <1>1, <1>2

\* The account at an index is looked up when it is one of the instruction.
LEMMA AccountLookedUp ==
  ASSUME NEW m \in Messages, NEW n \in DOMAIN m.instructions,
         InstructionValid(m, m.instructions[n]), NEW index \in Nat
  PROVE  LET i == m.instructions[n]
         IN /\ AccountAt(m, i, index) # Nothing <=> index \in 0..(Len(i.accounts) - 1)
            /\ index \in 0..(Len(i.accounts) - 1) =>
                 AccountAt(m, i, index) = m.keys[i.accounts[index + 1] + 1]
  <1> DEFINE i == m.instructions[n]
  <1>1. /\ i.accounts \in Seq(Nat) /\ m.keys \in Seq(ToSet(m.keys))
        /\ Nothing \notin ToSet(m.keys)
    <2>1. MessageTyped(m)
      BY DescriptorsAssumption
    <2>2. i \in [program : Nat, accounts : Seq(Nat), data : Seq(Bytes)]
      <3> DEFINE R == [program : Nat, accounts : Seq(Nat), data : Seq(Bytes)]
      <3>1. m.instructions \in Seq(R)
        BY <2>1 DEF MessageTyped
      <3> HIDE DEF R
      <3>2. i \in R
        BY <3>1
      <3> QED
        BY <3>2 DEF R
    <2> QED
      BY <2>1, <2>2 DEF MessageTyped
  <1>2. \A k \in DOMAIN i.accounts : i.accounts[k] < Len(m.keys)
    BY DEF InstructionValid
  <1> HIDE DEF i
  <1>3. CASE index \in 0..(Len(i.accounts) - 1)
    <2>1. index + 1 \in DOMAIN i.accounts /\ ~ (index >= Len(i.accounts))
      BY <1>1, <1>3
    <2>2. i.accounts[index + 1] \in Nat /\ i.accounts[index + 1] < Len(m.keys)
      BY <1>1, <1>2, <2>1
    <2>3. i.accounts[index + 1] + 1 \in 1..Len(m.keys)
      BY <1>1, <2>2
    <2>4. m.keys[i.accounts[index + 1] + 1] \in ToSet(m.keys)
      BY <1>1, <2>3
    <2> QED
      BY <1>1, <1>3, <2>1, <2>4 DEF AccountAt, i
  <1>4. CASE index \notin 0..(Len(i.accounts) - 1)
    <2>1. index >= Len(i.accounts)
      BY <1>1, <1>4
    <2> QED
      BY <1>4, <2>1 DEF AccountAt, i
  <1> QED
    BY <1>3, <1>4

\* What an index must be of, for every index.
LEMMA IndexedIsLookedUp ==
  ASSUME NEW m \in Messages, NEW n \in DOMAIN m.instructions,
         InstructionValid(m, m.instructions[n]),
         NEW index \in Nat \union {Nothing}, NEW keys
  PROVE  LET i == m.instructions[n]
         IN IndexedAccountIn(m, i, index, keys) <=>
              (index # Nothing =>
                 AccountAt(m, i, index) # Nothing /\ AccountAt(m, i, index) \in keys)
  <1>1. CASE index = Nothing
    BY <1>1 DEF IndexedAccountIn
  <1>2. CASE index # Nothing
    BY <1>2, AccountLookedUp DEF IndexedAccountIn
  <1> QED
    BY <1>1, <1>2

\* An associated account is one that is validated.
LEMMA AtasAreValidated ==
  ASSUME NEW t, SwapTokens = {t}, NEW owner, NEW account
  PROVE  account \in SwapAtas(owner) <=>
           ValidateAssociatedTokenAddress(owner, t.mint, account, t.is2022)
  BY DEF SwapAtas, ValidateAssociatedTokenAddress, NoncesOf

\* The accounts match when each index is of an account described.
LEMMA AccountsAgree ==
  ASSUME NEW m \in Messages, NEW n \in DOMAIN m.instructions,
         InstructionValid(m, m.instructions[n]),
         NEW tlv \in Tlvs, NEW t, SwapTokens = {t}
  PROVE  LET i == m.instructions[n]
             d == tlv.ins
         IN AccountsMatch(m, i, d, t) <=>
              /\ IndexedAccountIn(m, i, d.capped_amount_token_index, SwapMints)
              /\ IndexedAccountIn(m, i, d.asset_account_index, SwapMints)
              /\ IndexedAccountIn(m, i, d.asset_ata_index, SwapAtas(Signer))
              /\ IndexedAccountIn(m, i, d.recipient_account_index, {swap.recipient})
              /\ IndexedAccountIn(m, i, d.recipient_ata_index, SwapAtas(swap.recipient))
  <1> DEFINE i == m.instructions[n]
             d == tlv.ins
             At(index) == AccountAt(m, i, index)
  <1>1. /\ d.capped_amount_token_index \in Nat \union {Nothing}
        /\ d.asset_account_index \in Nat \union {Nothing}
        /\ d.asset_ata_index \in Nat \union {Nothing}
        /\ d.recipient_account_index \in Nat \union {Nothing}
        /\ d.recipient_ata_index \in Nat \union {Nothing}
    <2>1. DescriptorTyped(d)
      BY DescriptorsAssumption
    <2> QED
      BY <2>1 DEF DescriptorTyped
  <1>2. \A account : account \in SwapMints <=> account = t.mint
    BY DEF SwapMints
  <1>3. \A account :
          /\ account \in SwapAtas(Signer) <=>
               ValidateAssociatedTokenAddress(Signer, t.mint, account, t.is2022)
          /\ account \in SwapAtas(swap.recipient) <=>
               ValidateAssociatedTokenAddress(swap.recipient, t.mint, account, t.is2022)
    BY AtasAreValidated
  <1>4. AccountsMatch(m, i, d, t) <=>
          /\ d.capped_amount_token_index # Nothing =>
               At(d.capped_amount_token_index) # Nothing
                 /\ At(d.capped_amount_token_index) = t.mint
          /\ d.asset_account_index # Nothing =>
               At(d.asset_account_index) # Nothing /\ At(d.asset_account_index) = t.mint
          /\ d.asset_ata_index # Nothing =>
               /\ At(d.asset_ata_index) # Nothing
               /\ ValidateAssociatedTokenAddress(Signer, t.mint, At(d.asset_ata_index),
                                                 t.is2022)
          /\ d.recipient_account_index # Nothing =>
               /\ At(d.recipient_account_index) # Nothing
               /\ At(d.recipient_account_index) = swap.recipient
          /\ d.recipient_ata_index # Nothing =>
               /\ At(d.recipient_ata_index) # Nothing
               /\ ValidateAssociatedTokenAddress(swap.recipient, t.mint,
                                                 At(d.recipient_ata_index), t.is2022)
    BY DEF AccountsMatch
  <1>5. \A index \in Nat \union {Nothing} : \A keys :
          IndexedAccountIn(m, i, index, keys) <=>
            (index # Nothing => At(index) # Nothing /\ At(index) \in keys)
    BY IndexedIsLookedUp
  <1> HIDE DEF At
  <1>6. AccountsMatch(m, i, d, t) <=>
          /\ IndexedAccountIn(m, i, d.capped_amount_token_index, SwapMints)
          /\ IndexedAccountIn(m, i, d.asset_account_index, SwapMints)
          /\ IndexedAccountIn(m, i, d.asset_ata_index, SwapAtas(Signer))
          /\ IndexedAccountIn(m, i, d.recipient_account_index, {swap.recipient})
          /\ IndexedAccountIn(m, i, d.recipient_ata_index, SwapAtas(swap.recipient))
    <2> HIDE DEF i, d
    <2>1. /\ IndexedAccountIn(m, i, d.capped_amount_token_index, SwapMints) <=>
               (d.capped_amount_token_index # Nothing =>
                  At(d.capped_amount_token_index) # Nothing
                    /\ At(d.capped_amount_token_index) = t.mint)
          /\ IndexedAccountIn(m, i, d.asset_account_index, SwapMints) <=>
               (d.asset_account_index # Nothing =>
                  At(d.asset_account_index) # Nothing /\ At(d.asset_account_index) = t.mint)
      BY <1>1, <1>2, <1>5
    <2>2. IndexedAccountIn(m, i, d.asset_ata_index, SwapAtas(Signer)) <=>
            (d.asset_ata_index # Nothing =>
               /\ At(d.asset_ata_index) # Nothing
               /\ ValidateAssociatedTokenAddress(Signer, t.mint, At(d.asset_ata_index),
                                                 t.is2022))
      BY <1>1, <1>3, <1>5
    <2>3. IndexedAccountIn(m, i, d.recipient_account_index, {swap.recipient}) <=>
            (d.recipient_account_index # Nothing =>
               /\ At(d.recipient_account_index) # Nothing
               /\ At(d.recipient_account_index) = swap.recipient)
      <3>1. \A account : account \in {swap.recipient} <=> account = swap.recipient
        OBVIOUS
      <3> QED
        BY <1>1, <1>5, <3>1
    <2>4. IndexedAccountIn(m, i, d.recipient_ata_index, SwapAtas(swap.recipient)) <=>
            (d.recipient_ata_index # Nothing =>
               /\ At(d.recipient_ata_index) # Nothing
               /\ ValidateAssociatedTokenAddress(swap.recipient, t.mint,
                                                 At(d.recipient_ata_index), t.is2022))
      BY <1>1, <1>3, <1>5
    <2> QED
      BY <1>4, <2>1, <2>2, <2>3, <2>4
  <1> QED
    BY <1>6

-------------------------------------------------------------------------------
(* An instruction is what its descriptor says. *)

\* The checks of an instruction are what its descriptor says, but for the caps
\* that overflow.
LEMMA MatchingIsDescribed ==
  ASSUME swap \in Swaps, token = received.token, token \in Tokens \union {Nothing},
         NEW m \in Messages, NEW n \in DOMAIN m.instructions,
         NEW tlv \in Tlvs, tlv.ins.discriminator # Nothing
  PROVE  LET i == m.instructions[n]
             d == tlv.ins
             checked == InstructionValid(m, i) /\ InstructionMatches(m, i, d)
         IN /\ checked => Describes(d, m, i)
            /\ /\ Describes(d, m, i)
               /\ d.capped_amount_bps # Nothing =>
                    ~ (swap.amount * d.capped_amount_bps >= WordSize * Whole)
               => checked
  <1> DEFINE i == m.instructions[n]
             d == tlv.ins
             mint == TokenMint(token, swap.ticker)
  <1>1. i.program \in Nat /\ i.accounts \in Seq(Nat) /\ i.data \in Seq(Bytes)
          /\ Len(m.keys) \in Nat
    <2>1. MessageTyped(m)
      BY DescriptorsAssumption
    <2>2. Len(m.keys) \in Nat
      BY <2>1 DEF MessageTyped
    <2> DEFINE R == [program : Nat, accounts : Seq(Nat), data : Seq(Bytes)]
    <2>3. m.instructions \in Seq(R)
      BY <2>1 DEF MessageTyped
    <2> HIDE DEF R
    <2>4. i \in R
      BY <2>3
    <2> QED
      BY <2>2, <2>4 DEF R
  <1>2. d.discriminator \in Seq(Bytes)
    BY DescriptorsAssumption DEF DescriptorTyped
  <1>3. DiscriminatorMatches(i.data, d) <=>
          \A k \in DOMAIN d.discriminator : k \in DOMAIN i.data /\ i.data[k] = d.discriminator[k]
    BY <1>1, <1>2, PrefixIsBytewise DEF DiscriminatorMatches
  <1>4. InstructionValid(m, i) <=>
          /\ i.program \in 0..(Len(m.keys) - 1)
          /\ \A k \in DOMAIN i.accounts : i.accounts[k] \in 0..(Len(m.keys) - 1)
    <2>1. \A k \in DOMAIN i.accounts : i.accounts[k] \in Nat
      BY <1>1
    <2> HIDE DEF i
    <2> QED
      BY <1>1, <2>1 DEF InstructionValid
  <1>5. SwapTokens = IF mint = Nothing THEN {} ELSE {mint}
    BY MintIsOne
  <1>6. AmountChecks(i.data, d) => AmountAsDescribed(i.data, d)
    BY <1>1, ChecksAreDescribed
  <1>7. AmountAsDescribed(i.data, d)
          /\ (d.capped_amount_bps # Nothing =>
                ~ (swap.amount * d.capped_amount_bps >= WordSize * Whole))
        => AmountChecks(i.data, d)
    BY <1>1, DescribedChecks
  <1> DEFINE accounts ==
        /\ IndexedAccountIn(m, i, d.capped_amount_token_index, SwapMints)
        /\ IndexedAccountIn(m, i, d.asset_account_index, SwapMints)
        /\ IndexedAccountIn(m, i, d.asset_ata_index, SwapAtas(Signer))
        /\ IndexedAccountIn(m, i, d.recipient_account_index, {swap.recipient})
        /\ IndexedAccountIn(m, i, d.recipient_ata_index, SwapAtas(swap.recipient))
  <1>8. InstructionValid(m, i) /\ mint # Nothing =>
          (AccountsMatch(m, i, d, mint) <=> accounts)
    <2> SUFFICES ASSUME InstructionValid(m, i), mint # Nothing
                 PROVE  AccountsMatch(m, i, d, mint) <=> accounts
      OBVIOUS
    <2> HIDE DEF mint
    <2>1. SwapTokens = {mint}
      BY <1>5
    <2> QED
      BY <2>1, AccountsAgree
  <1>9. InstructionMatches(m, i, d) <=>
          /\ mint # Nothing /\ swap.recipient # Nothing
          /\ m.keys[i.program + 1] = d.program_id
          /\ DiscriminatorMatches(i.data, d)
          /\ AmountChecks(i.data, d)
          /\ AccountsMatch(m, i, d, mint)
    BY DEF InstructionMatches
  <1>10. Describes(d, m, i) <=>
           /\ i.program \in 0..(Len(m.keys) - 1)
           /\ \A k \in DOMAIN i.accounts : i.accounts[k] \in 0..(Len(m.keys) - 1)
           /\ m.keys[i.program + 1] = d.program_id
           /\ \A k \in DOMAIN d.discriminator :
                k \in DOMAIN i.data /\ i.data[k] = d.discriminator[k]
           /\ AmountAsDescribed(i.data, d)
           /\ SwapTokens # {} /\ swap.recipient # Nothing
           /\ accounts
    BY DEF Describes
  <1>11. SwapTokens # {} <=> mint # Nothing
    BY <1>5
  <1> HIDE DEF i, d, mint, accounts
  <1>12. InstructionValid(m, i) /\ InstructionMatches(m, i, d) => Describes(d, m, i)
    BY <1>3, <1>4, <1>6, <1>8, <1>9, <1>10, <1>11
  <1>13. /\ Describes(d, m, i)
         /\ d.capped_amount_bps # Nothing =>
              ~ (swap.amount * d.capped_amount_bps >= WordSize * Whole)
         => InstructionValid(m, i) /\ InstructionMatches(m, i, d)
    BY <1>3, <1>4, <1>7, <1>8, <1>9, <1>10, <1>11
  <1> QED
    BY <1>12, <1>13 DEF i, d

-------------------------------------------------------------------------------
(* The message is what its descriptors say. *)

\* What was provided is what is used until the verdict.
Provided ==
  /\ received.token \in Tokens \union {Nothing}
  /\ verdict = "none" => token = received.token
  /\ verdict = "none" /\ saved # Nothing => Len(received.tlvs) # 0
  /\ \A n \in 1..Len(received.tlvs) : received.tlvs[n].ins.discriminator # Nothing

Described(n) == Describes(received.tlvs[n].ins, message, message.instructions[n])

\* The instructions before the next one are what their descriptors say.
DescribedSoFar ==
  verdict = "none" /\ message # Nothing =>
    /\ at <= Len(message.instructions)
    /\ \A n \in 1..Len(received.tlvs) : n <= at => Described(n)

DescribedInv ==
  /\ IInv
  /\ Provided
  /\ DescribedSoFar
  /\ SignedAsDescribed
  /\ RefusedForCause

\* The message is as described when all of its instructions are.
LEMMA AllDescribed ==
  ASSUME received.tlvs \in Seq(Tlvs)
  PROVE  AsDescribed <=>
           /\ Len(received.tlvs) = message.declared
           /\ Len(message.instructions) = message.declared
           /\ ~ message.rest
           /\ \A n \in 1..Len(received.tlvs) : Described(n)
  <1>1. DOMAIN received.tlvs = 1..Len(received.tlvs)
    OBVIOUS
  <1> QED
    BY <1>1 DEF AsDescribed, Described

\* Nothing of what is compared changes while a message is processed.
LEMMA DescribedKept ==
  ASSUME UNCHANGED <<swap, message, received>>
  PROVE  /\ \A n : Described(n)' <=> Described(n)
         /\ AsDescribed' <=> AsDescribed
         /\ CapOverflows' <=> CapOverflows
  <1>1. SwapTokens' = SwapTokens
    BY DEF SwapTokens
  <1>2. SwapMints' = SwapMints
    BY <1>1 DEF SwapMints
  <1>3. SwapAtas(Signer)' = SwapAtas(Signer)
    BY <1>1 DEF SwapAtas
  <1>4. SwapAtas(swap.recipient)' = SwapAtas(swap.recipient)
    BY <1>1 DEF SwapAtas
  <1>5. \A n : Described(n)' <=> Described(n)
    BY <1>1, <1>2, <1>3, <1>4
    DEF Described, Describes, AmountAsDescribed, IndexedAccountIn
  <1>6. AsDescribed' <=> AsDescribed
    BY <1>5 DEF AsDescribed, Described
  <1>7. CapOverflows' <=> CapOverflows
    BY DEF CapOverflows
  <1> QED
    BY <1>5, <1>6, <1>7

\* No message is handled at the start.
LEMMA InitDescribed == Init => DescribedInv
  <1> SUFFICES ASSUME Init PROVE DescribedInv
    OBVIOUS
  <1>1. IInv
    BY InitIInv
  <1>2. received.tlvs = <<>> /\ received.token = Nothing /\ token = Nothing
          /\ saved = Nothing /\ message = Nothing /\ verdict = "none"
    BY DEF Init
  <1> QED
    BY <1>1, <1>2
    DEF DescribedInv, Provided, DescribedSoFar, SignedAsDescribed, RefusedForCause

\* A descriptor without a discriminator is not received.
LEMMA ProvideDescriptorDescribed ==
  ASSUME DescribedInv, NEW tlv \in Tlvs, ProvideDescriptor(tlv)
  PROVE  DescribedInv'
  <1>1. IInv'
    BY ProvideDescriptorKeeps DEF DescribedInv
  <1>2. verdict = "none" /\ message = Nothing /\ message' = Nothing
    BY DEF ProvideDescriptor, Idle
  <1>3. CASE verdict' = "exited" /\ UNCHANGED <<token, received>>
    BY <1>1, <1>2, <1>3
    DEF DescribedInv, Provided, DescribedSoFar, SignedAsDescribed, RefusedForCause
  <1>4. CASE /\ DescriptorValid(tlv) /\ UNCHANGED <<token, verdict>>
             /\ received' = [received EXCEPT !.tlvs = Append(@, tlv)]
    <2>1. received'.tlvs = Append(received.tlvs, tlv) /\ received'.token = received.token
            /\ received.tlvs \in Seq(Tlvs)
      BY <1>4 DEF DescribedInv, IInv, TypeInv
    <2>2. /\ Len(received'.tlvs) = Len(received.tlvs) + 1 /\ Len(received.tlvs) \in Nat
          /\ received'.tlvs[Len(received.tlvs) + 1] = tlv
          /\ \A n \in 1..Len(received.tlvs) : received'.tlvs[n] = received.tlvs[n]
      BY <2>1
    <2>3. tlv.ins.discriminator # Nothing
      BY <1>4 DEF DescriptorValid
    <2>4. \A n \in 1..Len(received'.tlvs) : received'.tlvs[n].ins.discriminator # Nothing
      BY <2>2, <2>3 DEF DescribedInv, Provided
    <2>5. Provided'
      BY <1>4, <2>1, <2>2, <2>4 DEF DescribedInv, Provided
    <2> QED
      BY <1>1, <1>2, <1>4, <2>5
      DEF DescribedInv, DescribedSoFar, SignedAsDescribed, RefusedForCause
  <1> QED
    BY <1>3, <1>4 DEF ProvideDescriptor, Exit

\* The token is provided before the message, never while it is processed.
LEMMA ProvideTokenDescribed ==
  ASSUME DescribedInv, NEW info \in Tokens \union {Nothing}, ProvideToken(info), IInv'
  PROVE  DescribedInv'
  <1>1. verdict = "none" /\ message = Nothing /\ UNCHANGED <<swap, saved, message, at, verdict>>
          /\ token' = info /\ received' = [received EXCEPT !.token = info]
    BY DEF ProvideToken, Idle
  <1>2. received'.token = info /\ received'.tlvs = received.tlvs
    BY <1>1 DEF DescribedInv, IInv, TypeInv
  <1>3. Provided'
    BY <1>1, <1>2 DEF DescribedInv, Provided
  <1> QED
    BY <1>1, <1>3
    DEF DescribedInv, DescribedSoFar, SignedAsDescribed, RefusedForCause

\* A message is refused at its start when there are more or fewer descriptors
\* than instructions.
LEMMA BeginMessageDescribed ==
  ASSUME DescribedInv, NEW m \in Messages, BeginMessage(m)
  PROVE  DescribedInv'
  <1>1. IInv'
    BY BeginMessageKeeps DEF DescribedInv
  <1>2. /\ verdict = "none" /\ saved # Nothing /\ message' = m
        /\ message = Nothing /\ UNCHANGED <<swap, saved, token, at, received>>
    BY DEF BeginMessage, Idle, Exit
  <1>3. Provided' /\ received'.tlvs \in Seq(Tlvs) /\ MessageTyped(m)
    BY <1>1, <1>2, DescriptorsAssumption DEF DescribedInv, Provided, IInv, TypeInv
  <1>4. at = 0
    BY <1>2 DEF DescribedInv, IInv, ReadAsChecked
  <1>5. CASE verdict' = verdict
    <2>1. DescribedSoFar'
      <3>1. Len(m.instructions) \in Nat
        BY <1>3 DEF MessageTyped
      <3>2. \A n \in 1..Len(received.tlvs) : ~ (n <= at)
        BY <1>4
      <3> QED
        BY <1>2, <1>4, <3>1, <3>2 DEF DescribedSoFar
    <2> QED
      BY <1>1, <1>2, <1>3, <1>5, <2>1 DEF DescribedInv, SignedAsDescribed, RefusedForCause
  <1>6. CASE ~ CountsAgree(m) /\ verdict' = "exited"
    <2>1. ~ AsDescribed'
      <3> SUFFICES ASSUME AsDescribed' PROVE FALSE
        OBVIOUS
      <3>1. Len(received.tlvs) = m.declared
        BY <1>2 DEF AsDescribed
      <3>2. Len(saved.descriptors) = Len(received.tlvs) /\ Len(received.tlvs) # 0
        BY <1>2 DEF DescribedInv, IInv, SavedAsReceived, Provided
      <3> QED
        BY <1>6, <3>1, <3>2 DEF CountsAgree
    <2> QED
      BY <1>1, <1>3, <1>6, <2>1
      DEF DescribedInv, DescribedSoFar, SignedAsDescribed, RefusedForCause
  <1> QED
    BY <1>5, <1>6 DEF BeginMessage, Exit

\* An instruction that passes is described, and one that is described passes
\* unless its cap overflows.
LEMMA CheckInstructionDescribed ==
  ASSUME DescribedInv, CheckInstruction
  PROVE  DescribedInv'
  <1>1. IInv'
    BY CheckInstructionKeeps DEF DescribedInv
  <1>2. /\ verdict = "none" /\ message # Nothing /\ message \in Messages
        /\ at < message.declared /\ at' = at + 1 /\ at \in Nat
        /\ UNCHANGED <<swap, token, message, received>>
        /\ swap \in Swaps /\ token = received.token /\ token \in Tokens \union {Nothing}
        /\ received.tlvs \in Seq(Tlvs)
    BY DEF CheckInstruction, Processing, Exit, DescribedInv, IInv, TypeInv, Provided
  <1>3. /\ saved.read = at /\ Len(received.tlvs) = message.declared
        /\ \A n \in 1..Len(received.tlvs) : saved.descriptors[n] = received.tlvs[n].ins
    BY <1>2 DEF DescribedInv, IInv, TypeInv, SavedAsReceived, ReadAsChecked
  <1>4. MessageTyped(message)
    BY <1>2, DescriptorsAssumption
  <1>5. message.declared \in Nat /\ Len(message.instructions) \in Nat
          /\ DOMAIN message.instructions = 1..Len(message.instructions)
    BY <1>4 DEF MessageTyped
  <1> DEFINE k == at + 1
             tlv == received.tlvs[k]
             i == message.instructions[k]
  <1>6. k \in 1..Len(received.tlvs) /\ k \in Nat
    BY <1>2, <1>3, <1>5
  <1>7. tlv \in Tlvs /\ tlv.ins.discriminator # Nothing
    BY <1>2, <1>6 DEF DescribedInv, Provided
  <1>8. NextDescriptor(saved).d = tlv.ins
    BY <1>3, <1>6 DEF NextDescriptor
  <1> HIDE DEF k
  <1>9. k \in DOMAIN message.instructions =>
          /\ InstructionValid(message, i) /\ InstructionMatches(message, i, tlv.ins)
               => Described(k)
          /\ Described(k) /\ ~ CapOverflows
               => InstructionValid(message, i) /\ InstructionMatches(message, i, tlv.ins)
    <2> SUFFICES ASSUME k \in DOMAIN message.instructions
                 PROVE  /\ InstructionValid(message, i)
                             /\ InstructionMatches(message, i, tlv.ins) => Described(k)
                        /\ Described(k) /\ ~ CapOverflows
                             => /\ InstructionValid(message, i)
                                /\ InstructionMatches(message, i, tlv.ins)
      OBVIOUS
    <2>1. ~ CapOverflows =>
            (tlv.ins.capped_amount_bps # Nothing =>
               ~ (swap.amount * tlv.ins.capped_amount_bps >= WordSize * Whole))
      <3>1. tlv \in ToSet(received.tlvs)
        BY <1>2, <1>6 DEF ToSet
      <3> HIDE DEF tlv
      <3> QED
        BY <3>1 DEF CapOverflows
    <2> HIDE DEF tlv
    <2>2. /\ InstructionValid(message, i) /\ InstructionMatches(message, i, tlv.ins)
               => Describes(tlv.ins, message, i)
          /\ /\ Describes(tlv.ins, message, i)
             /\ tlv.ins.capped_amount_bps # Nothing =>
                  ~ (swap.amount * tlv.ins.capped_amount_bps >= WordSize * Whole)
             => InstructionValid(message, i) /\ InstructionMatches(message, i, tlv.ins)
      BY <1>2, <1>7, MatchingIsDescribed
    <2> QED
      BY <2>1, <2>2 DEF Described, tlv
  <1>10. /\ \A n : Described(n)' <=> Described(n)
         /\ AsDescribed' <=> AsDescribed
         /\ CapOverflows' <=> CapOverflows
    BY <1>2, DescribedKept
  <1>11. CASE /\ k <= Len(message.instructions)
              /\ InstructionValid(message, i) /\ InstructionMatches(message, i, tlv.ins)
              /\ saved' = NextDescriptor(saved).after /\ verdict' = verdict
    <2>1. Described(k)
      BY <1>5, <1>6, <1>9, <1>11
    <2>2. \A n \in 1..Len(received.tlvs) : n <= at' => n <= at \/ n = k
      BY <1>2, <1>3, <1>5 DEF k
    <2>3. DescribedSoFar'
      BY <1>2, <1>10, <1>11, <2>1, <2>2 DEF DescribedInv, DescribedSoFar, k
    <2>4. Provided'
      BY <1>2, <1>6, <1>11 DEF DescribedInv, Provided
    <2> QED
      BY <1>1, <1>2, <1>11, <2>3, <2>4 DEF DescribedInv, SignedAsDescribed, RefusedForCause
  <1>12. CASE /\ ~ (/\ k <= Len(message.instructions)
                    /\ InstructionValid(message, i)
                    /\ InstructionMatches(message, i, tlv.ins))
              /\ verdict' = "exited"
    <2>1. AsDescribed => CapOverflows
      <3> SUFFICES ASSUME AsDescribed PROVE CapOverflows
        OBVIOUS
      <3>1. Len(message.instructions) = message.declared /\ Described(k)
        BY <1>2, <1>6, AllDescribed
      <3>2. k <= Len(message.instructions) /\ k \in DOMAIN message.instructions
        BY <1>3, <1>5, <1>6, <3>1
      <3> QED
        BY <1>9, <1>12, <3>1, <3>2
    <2>2. RefusedForCause'
      BY <1>10, <2>1 DEF RefusedForCause
    <2>3. Provided'
      BY <1>2, <1>12 DEF DescribedInv, Provided
    <2> QED
      BY <1>1, <1>12, <2>2, <2>3 DEF DescribedInv, DescribedSoFar, SignedAsDescribed
  <1>13. at' = k
    BY <1>2 DEF k
  <1> QED
    BY <1>8, <1>11, <1>12, <1>13 DEF CheckInstruction, Exit

\* A message is signed when no instruction and no byte is left.
LEMMA FinishMessageDescribed ==
  ASSUME DescribedInv, FinishMessage
  PROVE  DescribedInv'
  <1>1. IInv'
    BY FinishMessageKeeps DEF DescribedInv
  <1>2. /\ verdict = "none" /\ message # Nothing /\ message \in Messages
        /\ at = message.declared /\ at \in Nat
        /\ UNCHANGED <<swap, message, at, received>>
        /\ received.tlvs \in Seq(Tlvs) /\ Len(received.tlvs) = message.declared
    BY DEF FinishMessage, Processing, Exit, DescribedInv, IInv, TypeInv, ReadAsChecked
  <1>3. Len(message.instructions) \in Nat /\ message.declared \in Nat
    <2>1. MessageTyped(message)
      BY <1>2, DescriptorsAssumption
    <2> QED
      BY <2>1 DEF MessageTyped
  <1>4. AsDescribed' <=> AsDescribed
    BY <1>2, DescribedKept
  <1>5. CASE /\ Len(message.instructions) > message.declared \/ message.rest
             /\ verdict' = "exited" /\ UNCHANGED token
    <2>1. ~ AsDescribed
      BY <1>3, <1>5 DEF AsDescribed
    <2>2. Provided'
      BY <1>2, <1>5 DEF DescribedInv, Provided
    <2> QED
      BY <1>1, <1>4, <1>5, <2>1, <2>2
      DEF DescribedInv, DescribedSoFar, SignedAsDescribed, RefusedForCause
  <1>6. CASE /\ ~ (Len(message.instructions) > message.declared \/ message.rest)
             /\ verdict' = "signed"
    <2>1. at <= Len(message.instructions)
            /\ \A n \in 1..Len(received.tlvs) : n <= at => Described(n)
      BY <1>2 DEF DescribedInv, DescribedSoFar
    <2>2. Len(message.instructions) = message.declared /\ ~ message.rest
      BY <1>2, <1>3, <1>6, <2>1
    <2>3. \A n \in 1..Len(received.tlvs) : Described(n)
      BY <1>2, <1>3, <2>1
    <2>4. AsDescribed
      BY <1>2, <2>2, <2>3, AllDescribed
    <2>5. Provided'
      BY <1>2, <1>6 DEF DescribedInv, Provided
    <2> QED
      BY <1>1, <1>4, <1>6, <2>4, <2>5
      DEF DescribedInv, DescribedSoFar, SignedAsDescribed, RefusedForCause
  <1> QED
    BY <1>5, <1>6 DEF FinishMessage, Exit

\* Each operation keeps what is described.
LEMMA NextDescribed == DescribedInv /\ [Next]_vars => DescribedInv'
  <1> SUFFICES ASSUME DescribedInv, [Next]_vars PROVE DescribedInv'
    OBVIOUS
  <1>1. IInv'
    BY NextIInv DEF DescribedInv
  <1>2. CASE UNCHANGED vars
    <2>1. UNCHANGED <<swap, saved, token, message, at, verdict, received>>
      BY <1>2 DEF vars
    <2>2. /\ \A n : Described(n)' <=> Described(n)
          /\ AsDescribed' <=> AsDescribed
          /\ CapOverflows' <=> CapOverflows
      BY <2>1, DescribedKept
    <2> QED
      BY <1>1, <2>1, <2>2
      DEF DescribedInv, Provided, DescribedSoFar, SignedAsDescribed, RefusedForCause
  <1> QED
    BY <1>1, <1>2, ProvideDescriptorDescribed, ProvideTokenDescribed,
       BeginMessageDescribed, CheckInstructionDescribed, FinishMessageDescribed DEF Next

-------------------------------------------------------------------------------

\* Every descriptor accepted in a swap is signed, for the swap's template and of
\* the chain of the first one, and there is a slot for it, however many the host
\* has and in whatever order it sends them.
THEOREM DescriptorsAreOneSeries == Spec => []OneSeries
  <1>1. Init => IInv /\ OneChain /\ OneSeries
    <2>1. Init => OneChain /\ OneSeries
      BY DescriptorsAssumption DEF Init, OneChain, OneSeries
    <2> QED
      BY <2>1, InitIInv
  <1>2. IInv /\ OneChain /\ OneSeries /\ [Next]_vars => IInv' /\ OneChain' /\ OneSeries'
    BY NextIInv, SeriesKept
  <1> QED
    BY <1>1, <1>2, PTL DEF Spec

\* No fee beyond the share of the swap's amount that its descriptor names is
\* signed, for any messages and descriptors: the amount read from the instruction
\* is the one that was compared with the cap of the descriptor at its place.
THEOREM FeesAreCapped == Spec => []FeesWithinCap
  <1>1. Init => IInv
    BY InitIInv
  <1>2. IInv /\ [Next]_vars => IInv'
    BY NextIInv
  <1>3. IInv => FeesWithinCap
    BY IInvWithinCap
  <1> QED
    BY <1>1, <1>2, <1>3, PTL DEF Spec

\* A message is signed without a screen only if it is the series of descriptors
\* provided for the swap, instruction by instruction: its programs, the bytes of
\* its data, its amounts and its accounts, for any messages, descriptors, tokens
\* and sizes.
THEOREM SignedMessagesAreDescribed == Spec => []SignedAsDescribed
  <1>1. DescribedInv => SignedAsDescribed
    BY DEF DescribedInv
  <1> QED
    BY <1>1, InitDescribed, NextDescribed, PTL DEF Spec

\* A message that is its series of descriptors is refused only when the cap of
\* one of them does not fit into a word.
THEOREM DescribedMessagesAreSigned == Spec => []RefusedForCause
  <1>1. DescribedInv => RefusedForCause
    BY DEF DescribedInv
  <1> QED
    BY <1>1, InitDescribed, NextDescribed, PTL DEF Spec
===============================================================================
