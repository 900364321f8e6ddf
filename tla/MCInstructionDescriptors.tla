----------------------- MODULE MCInstructionDescriptors -----------------------
(***************************************************************************)
(* Bytes have 8 values and words two bytes.  The swaps of template 2 have  *)
(* one descriptor, with every way of reading and capping an amount; those  *)
(* of template 1 have series of descriptors that check programs and        *)
(* accounts.                                                               *)
(***************************************************************************)
EXTENDS InstructionDescriptors

CONSTANTS ProgramP, ProgramQ, KeySigner, KeyRecipient, KeyOther, MintA, MintB

MCDerive(owner, mint, nonce, is2022) == <<owner, mint, nonce, is2022>>

\* Nonce 1 of MintA leads to the curve.
MCOnCurve(address) ==
  /\ address \notin {ProgramP, ProgramQ, KeySigner, KeyRecipient, KeyOther, MintA, MintB}
  /\ address[2] = MintA /\ address[3] = 1

MCRegistry == << [mint |-> MintA, symbol |-> "A"] >>

Unchecked ==
  [program_id |-> ProgramP, discriminator |-> <<>>,
   amount_size |-> 0, amount_offset |-> 0,
   big_endian |-> FALSE, negative_offset |-> FALSE,
   asset_account_index |-> Nothing, asset_ata_index |-> Nothing,
   recipient_account_index |-> Nothing, recipient_ata_index |-> Nothing,
   capped_amount_bps |-> Nothing, capped_amount_token_index |-> Nothing]

TlvOf(ins) ==
  [structure_type |-> "swap_template", version |-> 1, chain_id |-> MainNet,
   template_id |-> 1, signed |-> TRUE, ins |-> ins]

SwapOf(template, amount, recipient) ==
  [template |-> template, ticker |-> "A", amount |-> amount, recipient |-> recipient]

-------------------------------------------------------------------------------
(* Amounts. *)

AmountSwaps == {SwapOf(2, amount, KeyRecipient) : amount \in {0, 8, 9, 63}}

AmountDescriptors ==
  {[Unchecked EXCEPT !.discriminator = discriminator,
                     !.amount_size = size, !.amount_offset = offset,
                     !.big_endian = big, !.negative_offset = negative,
                     !.capped_amount_bps = bps] :
     discriminator \in {<<>>, <<1>>}, size \in 0..3, offset \in 0..4,
     big \in BOOLEAN, negative \in BOOLEAN, bps \in {Nothing, 0, 1, 4}}

AmountTlvs == {[TlvOf(ins) EXCEPT !.template_id = 2] : ins \in AmountDescriptors}

Data ==
  { <<>>, <<0>>, <<1>>, <<0, 1>>, <<1, 0>>, <<1, 1>>, <<0, 3>>, <<3, 0>>, <<7, 7>>,
    <<1, 0, 3>>, <<1, 1, 1>>, <<0, 1, 1>>, <<1, 1, 0>>, <<1, 7, 7>> }

AmountMessages ==
  {[keys |-> <<ProgramP>>, declared |-> 1, rest |-> FALSE,
    instructions |-> << [program |-> 0, accounts |-> <<>>, data |-> data] >>] :
     data \in Data}

-------------------------------------------------------------------------------
(* Series. *)

SeriesSwaps == {SwapOf(1, 7, KeyRecipient), SwapOf(1, 7, Nothing)}

\* A token of the swap's ticker takes the place of the hardcoded one.
SeriesTokens ==
  { [mint |-> MintB, is2022 |-> TRUE, ticker |-> "A"],
    [mint |-> MintB, is2022 |-> FALSE, ticker |-> "B"] }

Call == [Unchecked EXCEPT !.discriminator = <<1>>]
Transfer ==
  [Unchecked EXCEPT !.program_id = ProgramQ, !.amount_size = 1, !.amount_offset = 1,
                    !.asset_account_index = 0, !.asset_ata_index = 1,
                    !.recipient_account_index = 2, !.recipient_ata_index = 3]
Fee ==
  [Unchecked EXCEPT !.amount_size = 1, !.capped_amount_bps = 1,
                    !.capped_amount_token_index = 1]

SeriesTlvs ==
  {TlvOf(Call), TlvOf(Transfer), TlvOf(Fee)}
    \union {[TlvOf(Call) EXCEPT !.chain_id = chain] : chain \in {TestNet, 1, Nothing}}
    \union {[TlvOf(Call) EXCEPT !.template_id = 2],
            [TlvOf(Call) EXCEPT !.signed = FALSE],
            [TlvOf(Call) EXCEPT !.version = 2],
            [TlvOf(Call) EXCEPT !.structure_type = "other"],
            [TlvOf(Call) EXCEPT !.ins.program_id = Nothing],
            [TlvOf(Call) EXCEPT !.ins.discriminator = <<1, 2, 3>>],
            [TlvOf(Fee) EXCEPT !.ins.amount_size = 0],
            [TlvOf(Fee) EXCEPT !.ins.capped_amount_bps = Nothing]}

\* The accounts of a transfer of a mint and its kind, at a nonce.
TransferKeys(mint, is2022, nonce) ==
  << ProgramP, ProgramQ, mint,
     Derive(KeySigner, mint, nonce, is2022), KeyRecipient,
     Derive(KeyRecipient, mint, nonce, is2022), KeyOther >>

KeyLists ==
  {TransferKeys(MintA, FALSE, nonce) : nonce \in Nonces}
    \union {TransferKeys(MintB, is2022, 0) : is2022 \in BOOLEAN}

CallInstruction == [program |-> 0, accounts |-> <<6>>, data |-> <<1>>]
TransferInstruction == [program |-> 1, accounts |-> <<2, 3, 4, 5>>, data |-> <<1, 7>>]
FeeInstruction == [program |-> 0, accounts |-> <<6, 2>>, data |-> <<2>>]

Instructions ==
  { CallInstruction, TransferInstruction, FeeInstruction,
    [CallInstruction EXCEPT !.program = 7],
    [CallInstruction EXCEPT !.accounts = <<7>>],
    [FeeInstruction EXCEPT !.data = <<3>>],
    [TransferInstruction EXCEPT !.accounts = <<2, 3, 4>>],
    [TransferInstruction EXCEPT !.accounts = <<2, 5, 4, 3>>],
    [TransferInstruction EXCEPT !.accounts = <<2, 3, 6, 5>>] }

MessageOf(keys, instructions) ==
  [keys |-> keys, declared |-> Len(instructions), rest |-> FALSE,
   instructions |-> instructions]

SeriesMessages ==
  {MessageOf(keys, instructions) :
     keys \in KeyLists, instructions \in SeqOf(Instructions, 2)}
    \union {[MessageOf(keys, <<CallInstruction>>) EXCEPT !.rest = TRUE] : keys \in KeyLists}
    \union {[MessageOf(keys, <<CallInstruction, FeeInstruction>>) EXCEPT !.declared = n] :
              keys \in KeyLists, n \in {1, 3}}

-------------------------------------------------------------------------------

MCSwaps == AmountSwaps \union SeriesSwaps
MCTlvs == AmountTlvs \union SeriesTlvs
MCMessages == AmountMessages \union SeriesMessages

\* Nothing of one kind of swap is sent in the other.
AmountNext ==
  /\ swap \in AmountSwaps
  /\ \/ saved = Nothing /\ \E tlv \in AmountTlvs : ProvideDescriptor(tlv)
     \/ \E m \in AmountMessages : BeginMessage(m)

SeriesNext ==
  /\ swap \in SeriesSwaps
  /\ \/ \E tlv \in SeriesTlvs : ProvideDescriptor(tlv)
     \/ \E info \in Tokens \union {Nothing} : ProvideToken(info)
     \/ \E m \in SeriesMessages : BeginMessage(m)

MCNext == AmountNext \/ SeriesNext \/ CheckInstruction \/ FinishMessage

MCSpec == Init /\ [][MCNext]_vars

===============================================================================
