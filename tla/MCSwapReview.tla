----------------------------- MODULE MCSwapReview -----------------------------
(***************************************************************************)
(* The swaps and the messages TLC checks against each other: the messages  *)
(* of those swaps, what differs from them in one field, every kind of      *)
(* instruction and the pairs of instructions that print the items of a     *)
(* transfer.                                                               *)
(***************************************************************************)
EXTENDS SwapReview

USD == <<"U">>
Token(ticker, decimals) == [ticker |-> ticker, decimals |-> decimals]

Swap(coin, extraId, amount, fee) ==
  [coin |-> coin, extraId |-> extraId, amount |-> amount, fee |-> fee,
   recipient |-> "bob"]
MCSwaps ==
  {Swap(None, "absent", 10, 5), Swap(None, "template", 10, 5),
   Swap(Token(SOL, 1), "native", 1, 5), Swap(Token(USD, 1), "absent", 1, 5),
   Swap(Token(USD, 2), "unknown", 10, 5), Swap(Token(USD, 7), "absent", 1, 5)}

\* The worst a failed printer can leave behind: the texts the checks wait for.
MCLeftovers ==
  {<<"unspecified">>} \union {PrintableAmount(p, p.amount, FALSE).text : p \in MCSwaps}

-------------------------------------------------------------------------------
(* Instructions. *)

Args ==
  [lamports |-> 10, to |-> "bob", from |-> "alice", account |-> "account",
   split_account |-> "bob", tokens |-> 10, decimals |-> 2, symbol |-> USD,
   fee_tokens |-> 0, mint_account |-> "mint", dest_account |-> "ata",
   token_account |-> "ata", owner |-> "bob"]

I(kind, traits) == [kind |-> kind, has |-> traits, at |-> 1, arg |-> Args]
Plain(kind) == I(kind, {})
With(i, field, value) == [i EXCEPT !.arg[field] = value]
At(is) == [n \in DOMAIN is |-> [is[n] EXCEPT !.at = n]]

Transfer == Plain("SystemTransfer")
Checked == Plain("SplTransferChecked")
CheckedWithFee == I("SplTransferCheckedWithFee", {"token2022"})

\* One field is not the one of the swap.
WrongNative ==
  {With(Transfer, "lamports", n) : n \in {0, 1, 11, 100}}
    \union {With(Transfer, "to", "eve"), I("SystemTransfer", {"otherAuthority"})}
WrongToken ==
  UNION {{With(i, "tokens", 11), With(i, "tokens", 1), With(i, "decimals", 1),
          With(i, "decimals", 7), With(i, "symbol", <<"V">>),
          With(i, "mint_account", "other mint"),
          With(i, "dest_account", "other ata"),
          [i EXCEPT !.has = @ \union {"token2022"}],
          [i EXCEPT !.has = @ \union {"hook"}],
          [i EXCEPT !.has = @ \union {"otherAuthority"}],
          [i EXCEPT !.has = @ \union {"multisig"}]}
         : i \in {Checked, CheckedWithFee}}
    \union {I("SplTransferCheckedWithFee", {}),
            With(I("SplTransferCheckedWithFee", {"fee"}), "fee_tokens", 1),
            With(I("SplTransferCheckedWithFee", {"fee", "token2022"}), "fee_tokens", 10),
            With(With(Checked, "tokens", 1), "decimals", 1),
            With(With(I("SplTransferCheckedWithFee", {"fee"}), "fee_tokens", 1111),
                 "decimals", 6),
            With(With(With(I("SplTransferCheckedWithFee", {"fee"}), "tokens", 100000),
                      "decimals", 6), "fee_tokens", 1)}

Transfers == {Transfer, Checked, CheckedWithFee} \union WrongNative \union WrongToken
Right == {Transfer, Checked, CheckedWithFee}

Create == Plain("SplAssociatedTokenAccount")
Bodies ==
  {<<i>> : i \in Transfers \union {Plain(k) : k \in Kinds}}
    \union {<<Create, i>> : i \in Transfers}
    \union {<<Plain("UnitPrice"), i>> : i \in Transfers}
    \union {<<Plain("UnitPrice"), Create, i>> : i \in Right}
    \union {<<Plain("SystemAdvanceNonceAccount"), i>> : i \in Right}
    \union {<<i, j>> : i, j \in Right}
    \union {<<Plain("SplMemo"), i, Plain("HiddenExtension")>> : i \in Right}
    \union {<<i, Plain("UnitLimit")>> : i \in Right}
    \union {<<Plain("SystemTransfer"), Plain("SystemAllocate"), Plain("SystemAssign"),
              Plain("StakeSplit")>>}
    \union {<<Plain("UnitPrice"), Plain(k)>> :
              k \in {"StakeWithdraw", "VoteWithdraw", "SystemWithdrawNonceAccount",
                     "SplMintToChecked", "SplBurnChecked", "StakeSplit"}}
    \union {<<Plain("SystemCreateAccount"), Plain("SplInitializeAccount")>>}

Trusted(received, owner, token2022) ==
  [received |-> received, owner |-> owner, mint |-> "mint", token |-> "ata",
   derives |-> token2022]
TrustedInfos ==
  {Trusted(TRUE, "bob", FALSE), Trusted(TRUE, "bob", TRUE),
   Trusted(TRUE, "eve", FALSE), Trusted(FALSE, "bob", FALSE)}

Config(expert) ==
  [expert |-> expert, full |-> TRUE, ata |-> FALSE, blind |-> FALSE, has |-> {}]

MessagesOf(bodies, trusted, fees) ==
  {[instructions |-> At(is), config |-> Config(expert), trusted |-> t, maxFee |-> f] :
     is \in bodies, expert \in BOOLEAN, t \in trusted, f \in fees}

HasKind(is, kinds) == \E n \in DOMAIN is : is[n].kind \in kinds

MCMessages ==
  MessagesOf(Bodies, {Trusted(TRUE, "bob", FALSE)}, {5})
    \union MessagesOf({is \in Bodies : HasKind(is, TransferKinds)}, TrustedInfos, {5})
    \union MessagesOf({is \in Bodies : HasKind(is, {"UnitPrice"})},
                      {Trusted(TRUE, "bob", FALSE), Trusted(TRUE, "bob", TRUE)}, {6})

MCItems == [of : SUBSET (1..MAX_INSTRUCTIONS), field : STRING] \ {NoField}
MCBlindRequests(m) == <<>>
MCInSwap(m) == TRUE
MCBlindSigningAllowed(m) == FALSE

===============================================================================
