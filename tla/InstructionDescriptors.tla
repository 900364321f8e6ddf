------------------------ MODULE InstructionDescriptors ------------------------
(***************************************************************************)
(* A crosschain swap (src/handle_provide_instruction_descriptor.c): the    *)
(* host provides one signed descriptor per instruction, then a message     *)
(* that is signed without a screen if every instruction is what the        *)
(* descriptor at its position says (process_message_body_with_descriptor,  *)
(* libsol/message.c).                                                      *)
(*                                                                         *)
(* A message has the keys of its header, the number of instructions the    *)
(* header declares, the instructions its body holds, and whether bytes     *)
(* are left after them, which is so for every versioned message: its body  *)
(* ends with the number of its address tables.                             *)
(***************************************************************************)
EXTENDS SafeMath, TokenAccounts, SequencesExt

CONSTANTS
  Swaps,             \* what Exchange accepted: template, ticker, amount, recipient
  Tlvs,              \* descriptors the host has, signed or not
  Tokens,            \* dynamic token infos the host has
  Messages,          \* messages the host has
  Signer,            \* the key of the command's derivation path
  ByteValues,        \* the values of a byte
  AmountBytes,       \* the bytes of a uint64_t
  MaxDiscriminator,  \* MAX_DISCRIMINATOR_SIZE
  MaxDescriptors     \* MAX_DISCRIMINATOR_NUMBER

\* saved_descriptors_t.
Series ==
  [main_net : BOOLEAN, template : {tlv.template_id : tlv \in Tlvs},
   descriptors : Seq({tlv.ins : tlv \in Tlvs}), read : Nat]

Bytes == 0..(ByteValues - 1)

\* What a byte counts for at a place of a number; places are counted from zero.
PlaceValue[n \in 0..AmountBytes] ==
  IF n = 0 THEN 1 ELSE ByteValues * PlaceValue[n - 1]

\* instruction_descriptor_t.  What the host left out is Nothing.
DescriptorTyped(d) ==
  /\ d.discriminator \in Seq(Bytes) \union {Nothing}
  /\ d.amount_size \in Nat /\ d.amount_offset \in Nat
  /\ d.big_endian \in BOOLEAN /\ d.negative_offset \in BOOLEAN
  /\ {d.asset_account_index, d.asset_ata_index, d.recipient_account_index,
      d.recipient_ata_index, d.capped_amount_token_index} \subseteq Nat \union {Nothing}
  /\ d.capped_amount_bps \in BasisPoints \union {Nothing}

\* What the parser makes of a message: its indices are bytes.
MessageTyped(m) ==
  /\ m.declared \in Nat
  /\ m.keys \in Seq(ToSet(m.keys)) /\ Nothing \notin ToSet(m.keys)
  /\ m.instructions \in Seq([program : Nat, accounts : Seq(Nat), data : Seq(Bytes)])

ASSUME DescriptorsAssumption ==
  /\ ByteValues \in Nat \ {0} /\ AmountBytes \in Nat
  /\ PlaceValue[AmountBytes] = WordSize
  /\ MaxDescriptors \in Nat \ {0}
  /\ \A s \in Swaps : s.amount \in Words
  /\ \A tlv \in Tlvs : DescriptorTyped(tlv.ins)
  /\ \A m \in Messages : MessageTyped(m)
  /\ Nothing \notin Messages /\ Nothing \notin Series /\ Nothing \notin Words
  /\ Nothing \notin Tokens

\* The mints of the tokens, provided and hardcoded.
Mints == {t.mint : t \in Tokens \union ToSet(Registry)}

\* No two tokens of TOKEN_REGISTRY have the same symbol.
ASSUME RegistryAssumption ==
  /\ Registry \in Seq(ToSet(Registry))
  /\ \A e, f \in ToSet(Registry) : e.symbol = f.symbol => e = f
  /\ \A info \in Tokens : info.is2022 \in BOOLEAN
  /\ Nothing \notin [mint : Mints, is2022 : BOOLEAN]

VARIABLES
  swap,      \* G_swap_validated
  saved,     \* G_saved_descriptors
  token,     \* g_dynamic_token_info
  message,   \* the message being handled
  at,        \* the number of its instructions that have been checked
  verdict,   \* "none", "signed", or "exited" after an error
  received   \* history: the descriptors accepted, the token info provided last

vars == <<swap, saved, token, message, at, verdict, received>>

Init ==
  /\ swap \in Swaps
  /\ saved = Nothing
  /\ token = Nothing
  /\ message = Nothing
  /\ at = 0
  /\ verdict = "none"
  /\ received = [tlvs |-> <<>>, token |-> Nothing]

Idle == verdict = "none" /\ message = Nothing

\* send_swap_error_simple replies and leaves the app.
Exit == verdict' = "exited" /\ UNCHANGED <<swap, saved, token>>

-------------------------------------------------------------------------------
(* Receiving a descriptor. *)

MainNet == 900
TestNet == 901

\* The handlers of the tags.
TlvParses(tlv) ==
  /\ tlv.chain_id \in {Nothing, MainNet, TestNet}
  /\ tlv.ins.discriminator # Nothing => Len(tlv.ins.discriminator) <= MaxDiscriminator

\* handle_provide_instruction_descriptor_internal, up to the signature.
DescriptorValid(tlv) ==
  /\ TlvParses(tlv)
  /\ tlv.structure_type = "swap_template"
  /\ Nothing \notin {tlv.version, tlv.chain_id, tlv.template_id,
                     tlv.ins.program_id, tlv.ins.discriminator}
  /\ tlv.version = 1
  /\ tlv.ins.capped_amount_token_index # Nothing => tlv.ins.capped_amount_bps # Nothing
  /\ tlv.ins.capped_amount_bps # Nothing => tlv.ins.amount_size # 0
  /\ tlv.template_id = swap.template
  /\ tlv.signed

IsMainNet(tlv) == tlv.chain_id = MainNet

\* Mutant: the chain of the first descriptor is not remembered.
SaveInstructionDescriptorOfAnyChain(tlv) ==
  IF saved = Nothing
  THEN [main_net |-> IsMainNet(tlv), template |-> tlv.template_id,
        descriptors |-> <<tlv.ins>>, read |-> 0]
  ELSE IF Len(saved.descriptors) >= MaxDescriptors \/ saved.template # tlv.template_id
  THEN Nothing
  ELSE [saved EXCEPT !.descriptors = Append(@, tlv.ins)]

\* The saved descriptors after another one, or Nothing when it is refused.
SaveInstructionDescriptor(tlv) ==
  IF saved = Nothing
  THEN [main_net |-> IsMainNet(tlv), template |-> tlv.template_id,
        descriptors |-> <<tlv.ins>>, read |-> 0]
  ELSE IF \/ Len(saved.descriptors) >= MaxDescriptors
          \/ saved.main_net # IsMainNet(tlv)
          \/ saved.template # tlv.template_id
  THEN Nothing
  ELSE [saved EXCEPT !.descriptors = Append(@, tlv.ins)]

ProvideDescriptor(tlv) ==
  /\ Idle
  /\ IF DescriptorValid(tlv) /\ SaveInstructionDescriptor(tlv) # Nothing
     THEN /\ saved' = SaveInstructionDescriptor(tlv)
          /\ received' = [received EXCEPT !.tlvs = Append(@, tlv)]
          /\ UNCHANGED <<swap, token, verdict>>
     ELSE Exit /\ UNCHANGED received
  /\ UNCHANGED <<message, at>>

\* handle_provide_dynamic_descriptor: the info once it is checked, or Nothing
\* when it is refused, which forgets the one before.
ProvideToken(info) ==
  /\ Idle
  /\ token' = info
  /\ received' = [received EXCEPT !.token = info]
  /\ UNCHANGED <<swap, saved, message, at, verdict>>

-------------------------------------------------------------------------------
(* Checking an instruction. *)

\* The offset of the amount, from the start or the end of the data.
AmountOffset(data, d) ==
  IF d.negative_offset THEN Len(data) - d.amount_offset ELSE d.amount_offset

\* The bytes of the amount, the most significant one first.
AmountBytesOf(data, d) ==
  LET offset == AmountOffset(data, d)
      bytes == SubSeq(data, offset + 1, offset + d.amount_size)
  IN IF d.big_endian THEN bytes ELSE Reverse(bytes)

\* The number the bytes are, in integers of one word.
NumberOf(bytes) ==
  FoldLeft(LAMBDA value, byte : (value * ByteValues + byte) % WordSize, 0, bytes)

\* read_amount_using_descriptor; Nothing when it fails.
ReadAmount(data, d) ==
  IF \/ d.negative_offset /\ d.amount_offset > Len(data)
     \/ AmountOffset(data, d) + d.amount_size > Len(data)
     \/ d.amount_size > AmountBytes
  THEN Nothing
  ELSE NumberOf(AmountBytesOf(data, d))

\* Mutant: an amount is within its cap up to the swap's amount.
AmountChecksUncapped(data, d) ==
  \/ d.amount_size = 0
  \/ LET amount == ReadAmount(data, d)
     IN amount # Nothing /\ IF d.capped_amount_bps # Nothing THEN amount <= swap.amount
                                                             ELSE amount = swap.amount

AmountChecks(data, d) ==
  \/ d.amount_size = 0
  \/ LET amount == ReadAmount(data, d)
         cap == Scale(swap.amount, d.capped_amount_bps)
     IN /\ amount # Nothing
        /\ IF d.capped_amount_bps # Nothing THEN cap.ok /\ amount \in 0..cap.value
           ELSE amount = swap.amount

DiscriminatorMatches(data, d) == IsPrefix(d.discriminator, data)

\* get_account_from_ins: the key at the index, through the keys of the header.
AccountAt(m, i, index) ==
  IF index >= Len(i.accounts) THEN Nothing ELSE m.keys[i.accounts[index + 1] + 1]

\* Every index the descriptor has must be of an account that is accepted.
AccountsMatch(m, i, d, mint) ==
  LET Holds(index, Accepts(_)) ==
        index # Nothing =>
          /\ AccountAt(m, i, index) # Nothing
          /\ Accepts(AccountAt(m, i, index))
      IsMint(account) == account = mint.mint
      IsAtaOfSigner(account) ==
        ValidateAssociatedTokenAddress(Signer, mint.mint, account, mint.is2022)
      IsRecipient(account) == account = swap.recipient
      IsAtaOfRecipient(account) ==
        ValidateAssociatedTokenAddress(swap.recipient, mint.mint, account, mint.is2022)
  IN /\ Holds(d.capped_amount_token_index, IsMint)
     /\ Holds(d.asset_account_index, IsMint)
     /\ Holds(d.asset_ata_index, IsAtaOfSigner)
     /\ Holds(d.recipient_account_index, IsRecipient)
     /\ Holds(d.recipient_ata_index, IsAtaOfRecipient)

\* get_next_descriptor, which is called for an unread one only: there are as
\* many as instructions.
NextDescriptor(series) ==
  [d |-> series.descriptors[series.read + 1],
   after |-> [series EXCEPT !.read = @ + 1]]

\* validate_instruction_using_descriptor.
InstructionMatches(m, i, d) ==
  LET mint == TokenMint(token, swap.ticker)
  IN /\ mint # Nothing
     /\ swap.recipient # Nothing
     /\ m.keys[i.program + 1] = d.program_id
     /\ DiscriminatorMatches(i.data, d)
     /\ AmountChecks(i.data, d)
     /\ AccountsMatch(m, i, d, mint)

\* instruction_validate: every index is of a key of the header.
InstructionValid(m, i) ==
  /\ i.program < Len(m.keys)
  /\ \A n \in DOMAIN i.accounts : i.accounts[n] < Len(m.keys)

-------------------------------------------------------------------------------
(* Processing a message. *)

\* The checks before the loop.
CountsAgree(m) == m.declared # 0 /\ Len(saved.descriptors) = m.declared

\* A message without descriptors is processed for the swap check instead.
BeginMessage(m) ==
  /\ Idle
  /\ saved # Nothing
  /\ message' = m
  /\ IF CountsAgree(m) THEN UNCHANGED <<swap, saved, token, verdict>> ELSE Exit
  /\ UNCHANGED <<at, received>>

Processing == verdict = "none" /\ message # Nothing

\* One turn of the loop.
CheckInstruction ==
  /\ Processing
  /\ at < message.declared
  /\ at' = at + 1
  /\ LET next == NextDescriptor(saved)
     IN IF /\ at' <= Len(message.instructions)
           /\ InstructionValid(message, message.instructions[at'])
           /\ InstructionMatches(message, message.instructions[at'], next.d)
        THEN /\ saved' = next.after
             /\ UNCHANGED <<swap, token, verdict>>
        ELSE Exit
  /\ UNCHANGED <<message, received>>

\* swap_finalize signs once the body is consumed; the descriptors and the token
\* are reset before it.
FinishMessage ==
  /\ Processing
  /\ at = message.declared
  /\ IF Len(message.instructions) > message.declared \/ message.rest
     THEN Exit
     ELSE /\ verdict' = "signed"
          /\ saved' = Nothing
          /\ token' = Nothing
          /\ UNCHANGED swap
  /\ UNCHANGED <<message, at, received>>

Next ==
  \/ \E tlv \in Tlvs : ProvideDescriptor(tlv)
  \/ \E info \in Tokens \union {Nothing} : ProvideToken(info)
  \/ \E m \in Messages : BeginMessage(m)
  \/ CheckInstruction
  \/ FinishMessage

Spec == Init /\ [][Next]_vars

-------------------------------------------------------------------------------
(* What a descriptor says of an instruction. *)

\* The number the amount's bytes are, each at its place.
AmountMeant(data, d) ==
  LET start == AmountOffset(data, d)
      Place(n) == IF d.big_endian THEN d.amount_size - n ELSE n - 1
      sum[n \in 0..d.amount_size] ==
        IF n = 0 THEN 0 ELSE sum[n - 1] + data[start + n] * PlaceValue[Place(n)]
  IN sum[d.amount_size]

AmountWithinData(data, d) ==
  /\ AmountOffset(data, d) \in 0..(Len(data) - d.amount_size)
  /\ d.amount_size <= AmountBytes

AmountAsDescribed(data, d) ==
  d.amount_size # 0 =>
    /\ AmountWithinData(data, d)
    /\ IF d.capped_amount_bps = Nothing THEN AmountMeant(data, d) = swap.amount
       ELSE AmountMeant(data, d) * Whole <= swap.amount * d.capped_amount_bps

\* The tokens of the swap's ticker: the provided one, or the hardcoded ones.
SwapTokens ==
  IF received.token # Nothing /\ received.token.ticker = swap.ticker
  THEN {[mint |-> received.token.mint, is2022 |-> received.token.is2022]}
  ELSE {[mint |-> entry.mint, is2022 |-> FALSE] :
          entry \in {e \in ToSet(Registry) : e.symbol = swap.ticker}}

SwapMints == {t.mint : t \in SwapTokens}
SwapAtas(owner) ==
  {a \in {Derive(owner, t.mint, n, t.is2022) : t \in SwapTokens, n \in Nonces} :
     ~ OnCurve(a)}

IndexedAccountIn(m, i, index, keys) ==
  index # Nothing =>
    index \in 0..(Len(i.accounts) - 1) /\ m.keys[i.accounts[index + 1] + 1] \in keys

Describes(d, m, i) ==
  /\ i.program \in 0..(Len(m.keys) - 1)
  /\ \A n \in DOMAIN i.accounts : i.accounts[n] \in 0..(Len(m.keys) - 1)
  /\ m.keys[i.program + 1] = d.program_id
  /\ \A n \in DOMAIN d.discriminator :
       n \in DOMAIN i.data /\ i.data[n] = d.discriminator[n]
  /\ AmountAsDescribed(i.data, d)
  /\ SwapTokens # {} /\ swap.recipient # Nothing
  /\ IndexedAccountIn(m, i, d.capped_amount_token_index, SwapMints)
  /\ IndexedAccountIn(m, i, d.asset_account_index, SwapMints)
  /\ IndexedAccountIn(m, i, d.asset_ata_index, SwapAtas(Signer))
  /\ IndexedAccountIn(m, i, d.recipient_account_index, {swap.recipient})
  /\ IndexedAccountIn(m, i, d.recipient_ata_index, SwapAtas(swap.recipient))

\* The message is the series of descriptors, one instruction for each, and the
\* series is one of the swap's.
AsDescribed ==
  /\ Len(received.tlvs) = message.declared
  /\ Len(message.instructions) = message.declared
  /\ ~ message.rest
  /\ \A n \in DOMAIN received.tlvs :
       Describes(received.tlvs[n].ins, message, message.instructions[n])

\* A cap that needs more than a word is an error.
CapOverflows ==
  \E tlv \in ToSet(received.tlvs) :
    /\ tlv.ins.capped_amount_bps # Nothing
    /\ swap.amount * tlv.ins.capped_amount_bps >= WordSize * Whole

-------------------------------------------------------------------------------
(* Properties. *)

\* Descriptors arrive one by one into a fixed number of slots
\* (save_instruction_descriptor, handle_provide_instruction_descriptor.c:74):
\* those accepted are for the template of the swap and, from the first one on,
\* for one chain.
OneSeries ==
  /\ Len(received.tlvs) <= MaxDescriptors
  /\ \A n \in DOMAIN received.tlvs :
       /\ received.tlvs[n].signed
       /\ received.tlvs[n].template_id = swap.template
       /\ \A k \in DOMAIN received.tlvs :
            received.tlvs[n].chain_id = received.tlvs[k].chain_id

\* Nothing is displayed, and the descriptors are read by position
\* (get_next_descriptor, handle_provide_instruction_descriptor.c:59): a message
\* is signed only if each of its instructions is what the descriptor at the same
\* place says of its program, data, amount and accounts.
SignedAsDescribed == verdict = "signed" => AsDescribed

\* A fee is signed unseen only within its cap: an instruction whose descriptor
\* has basis points reads as an amount of at most so many of the swap's amount
\* (handle_provide_instruction_descriptor.c:545), whatever the halves of
\* safe_mul_bps_div10000 round off.
FeesWithinCap ==
  verdict = "signed" =>
    \A n \in DOMAIN received.tlvs :
      LET d == received.tlvs[n].ins
          amount == ReadAmount(message.instructions[n].data, d)
      IN d.capped_amount_bps # Nothing =>
           amount # Nothing /\ amount * Whole <= swap.amount * d.capped_amount_bps

\* A message that is what its descriptors say is signed, whatever the sizes,
\* offsets and rules of its amounts: the checks of
\* handle_provide_instruction_descriptor.c:418 and 478 refuse nothing else,
\* unless a cap overflows (safe_math.c:20) or there are no descriptors to read.
RefusedForCause ==
  verdict = "exited" /\ message # Nothing /\ AsDescribed => CapOverflows
===============================================================================
