---------------------------- MODULE ExchangeCalls -----------------------------
(***************************************************************************)
(* swap_handle_check_address (src/swap/handle_check_address.c): whether    *)
(* the address Exchange shows the user is the one of a derivation path.    *)
(***************************************************************************)
EXTENDS Texts

CONSTANTS
  PublicKeyOf(_),  \* get_public_key of a path
  MaxPathLength,   \* MAX_BIP32_PATH_LENGTH
  AddressLength,   \* BASE58_PUBKEY_LENGTH
  Null

Purpose == <<128, 0, 0, 44>>    \* 44'
CoinType == <<128, 0, 1, 245>>  \* 501'

\* read_derivation_path: a number of elements, and four bytes of each one; what
\* is behind them is not looked at.
ReadDerivationPath(data) ==
  LET path == [k \in 1..data[1] |-> SubSeq(data, 4 * k - 2, 4 * k + 1)]
  IN IF /\ data # <<>>
        /\ data[1] \in 1..MaxPathLength
        /\ 1 + 4 * data[1] <= Len(data)
        /\ data[1] >= 2 /\ path[1] = Purpose /\ path[2] = CoinType
     THEN path ELSE Null

\* strcmp.
SameAddress(a, b) == a = b

\* The result is set to 1.
CheckAddress(params) ==
  /\ Null \notin {params.parameters, params.address, params.extraId}
  /\ params.extraId = <<>>
  /\ LET path == ReadDerivationPath(params.parameters)
         ours == EncodeBase58(PublicKeyOf(path), AddressLength)
     IN /\ path # Null
        /\ ours.ok
        /\ SameAddress(params.address, ours.text)

===============================================================================
