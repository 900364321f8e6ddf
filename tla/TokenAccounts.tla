---------------------------- MODULE TokenAccounts -----------------------------
(***************************************************************************)
(* How the app goes from a token to its symbol and back                    *)
(* (src/dynamic_token_info.c, libsol/token_info.c), and from an owner and  *)
(* a mint to the owner's associated token account                          *)
(* (src/ed25519_helpers.c, src/trusted_info.c).                            *)
(*                                                                         *)
(* The hash a program derived address comes from and the decompression of  *)
(* a point are parameters.                                                 *)
(***************************************************************************)
EXTENDS Naturals, Sequences

CONSTANTS
  Derive(_, _, _, _),  \* the SHA-256 of an owner, a mint, a nonce and a program
  OnCurve(_),          \* the address is a point of Ed25519
  LastNonce,           \* 255
  Registry,            \* TOKEN_REGISTRY: a sequence of mints and symbols
  Nothing              \* NULL

UnknownSymbol == "???"
Nonces == 0..LastNonce

-------------------------------------------------------------------------------
(* Symbols and mints. *)

\* get_dynamic_token_symbol; info is g_dynamic_token_info.
DynamicSymbol(info, mint, is2022) ==
  IF info # Nothing /\ info.mint = mint /\ info.is2022 = is2022
  THEN info.ticker ELSE Nothing

\* The first entry of the registry that is of the kind sought.
EntriesOf(Sought(_)) == {n \in DOMAIN Registry : Sought(Registry[n])}
FirstOf(entries) ==
  Registry[CHOOSE n \in entries : \A other \in entries : n <= other]

HardcodedSymbol(mint) ==
  LET OfMint(entry) == entry.mint = mint
      entries == EntriesOf(OfMint)
  IN IF entries = {} THEN UnknownSymbol ELSE FirstOf(entries).symbol

\* get_token_symbol.
TokenSymbol(info, mint, is2022) ==
  LET symbol == DynamicSymbol(info, mint, is2022)
  IN IF symbol # Nothing THEN symbol ELSE HardcodedSymbol(mint)

\* get_dynamic_token_mint_address.
DynamicMint(info, symbol) ==
  IF info # Nothing /\ info.ticker = symbol
  THEN [mint |-> info.mint, is2022 |-> info.is2022] ELSE Nothing

\* No token of the 2022 program is hardcoded.
HardcodedMint(symbol) ==
  LET OfSymbol(entry) == entry.symbol = symbol
      entries == EntriesOf(OfSymbol)
  IN IF entries = {} THEN Nothing
     ELSE [mint |-> FirstOf(entries).mint, is2022 |-> FALSE]

\* Mutant: the hardcoded tokens come before the provided one.
TokenMintHardcodedFirst(info, symbol) ==
  IF HardcodedMint(symbol) # Nothing THEN HardcodedMint(symbol)
  ELSE DynamicMint(info, symbol)

\* get_token_mint_address.
TokenMint(info, symbol) ==
  LET dynamic == DynamicMint(info, symbol)
  IN IF dynamic # Nothing THEN dynamic ELSE HardcodedMint(symbol)

-------------------------------------------------------------------------------
(* Associated token accounts. *)

\* The nonces at which the derivation arrives at the account.
NoncesOf(owner, mint, account, is2022) ==
  {nonce \in Nonces : Derive(owner, mint, nonce, is2022) = account}

\* Mutant: nonce 0 is not tried.
ValidateAssociatedTokenAddressDownToOne(owner, mint, account, is2022) ==
  NoncesOf(owner, mint, account, is2022) \ {0} # {} /\ ~ OnCurve(account)

\* validate_associated_token_address: the nonces are tried from the last one
\* down to the first match, which must not be on the curve.
ValidateAssociatedTokenAddress(owner, mint, account, is2022) ==
  /\ NoncesOf(owner, mint, account, is2022) # {}
  /\ ~ OnCurve(account)

\* check_ata_against_trusted_info; trusted is g_trusted_info.
CheckAtaAgainstTrustedInfo(trusted, mint, account, is2022) ==
  /\ trusted # Nothing
  /\ trusted.mint = mint
  /\ trusted.token = account
  /\ ValidateAssociatedTokenAddress(trusted.owner, mint, account, is2022)

===============================================================================
