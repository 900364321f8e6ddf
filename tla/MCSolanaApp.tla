----------------------------- MODULE MCSolanaApp -----------------------------
(***************************************************************************)
(* A small world of payloads for SolanaApp.  A transaction is its body     *)
(* followed by its blockhash, and possibly by trailing data; the verdicts  *)
(* of the parsers are functions of the body.                               *)
(***************************************************************************)
EXTENDS SolanaConsent

\* Bodies: plain is clear signed, hook is warned of, opaque only blindly
\* signed, full overflows its summary, account needs the trusted info.
Bodies == {"plain", "other", "hook", "opaque", "full", "account"}
Blockhashes == {"hash1", "hash2"}
MCUnits == Bodies \union Blockhashes \union
  {"data", "text", "utf8", "name0", "name1", "name2", "tuid", "dex1", "dex2",
   "lend1"}
MCPaths == {"path1", "path2"}
MCInfos == {"alice", "bob", "tick"}
MCDescriptors == {"dex1", "dex2", "lend1"}

MCHeaderParses(m) == Len(m) >= 2 /\ m[1] \in Bodies /\ m[2] \in Blockhashes
MCBlockhashAt(m) == 2
MCIsSigner(path, m) == path = "path1" \/ m[1] = "other"
MCBodyProcessed(m, c) == Len(m) = 2 /\ m[1] # "opaque"
MCSummaryFinalizes(m, c) == m[1] # "full"
MCTokenWarning(m, c) == m[1] = "hook"
MCOffchainValid(path, m) == path = "path1" /\ m \in {<<"text">>, <<"utf8">>}
MCIsAscii(m) == m = <<"text">>

Names == {<<"name0">>, <<"name1">>, <<"name2">>}
MCTrustedNameValid(m) == m \in Names
MCTrustedNameChallenge(m) ==
  CASE m = <<"name0">> -> 0 [] m = <<"name1">> -> 1 [] OTHER -> 2
MCTrustedNameInfo(m) == IF m = <<"name2">> THEN "bob" ELSE "alice"
MCDynamicTokenValid(m) == m = <<"tuid">>
MCDynamicTokenInfo(m) == "tick"

\* The swap of "direct" is a plain transfer, of "toAccount" one to the token
\* account of alice, of "dex" a cross chain one described by two instructions.
MCDescriptorValid(m, s) == s = "dex" /\ Len(m) = 1 /\ m[1] \in MCDescriptors
MCDescriptorOf(m) == IF Len(m) = 1 /\ m[1] \in MCDescriptors THEN m[1] ELSE "dex1"
MCSameSeries(d, e) == (d = "lend1") = (e = "lend1")
MCDescriptorsAccept(m, c, ds) == m[1] = "other" /\ ds = <<"dex1", "dex2">>
MCSwapAccepts(m, c, s) ==
  \/ s = "direct" /\ m[1] = "plain"
  \/ s = "toAccount" /\ m[1] = "account" /\ c.trusted = "alice"

-------------------------------------------------------------------------------
(* APDUs. *)

Apdu(ins, data) ==
  [ins |-> ins, wellFormed |-> TRUE, nonConfirm |-> FALSE, extend |-> FALSE,
   more |-> FALSE, ata |-> FALSE, path |-> "path1", data |-> data]

\* A message sent in two APDUs.
First(a) == [a EXCEPT !.more = TRUE, !.data = <<a.data[1]>>]
Rest(a) == [a EXCEPT !.extend = TRUE, !.data = Tail(a.data)]

From(path, a) == [a EXCEPT !.path = path]
Quietly(a) == [a EXCEPT !.nonConfirm = TRUE]

PreviewApdus ==
  LET shown == Apdu("SignMessagePreview", <<"plain", "hash1">>)
      later == Apdu("SignMessageDelayed", <<"plain", "hash2">>)
  IN  {First(shown), Rest(shown), later, From("path2", later),
       Apdu("SignMessagePreview", <<"hook", "hash1">>),
       Apdu("SignMessageDelayed", <<"hook", "hash2">>),
       Apdu("SignMessageDelayed", <<"plain", "hash2", "data">>),
       Apdu("SignMessageDelayed", <<"plain", "hash2", "data", "data">>),
       Apdu("SignMessage", <<"other", "hash1">>),
       Apdu("GetChallenge", << >>)}

MenuApdus ==
  {Apdu("SignMessage", <<"opaque", "hash1">>),
   Apdu("SignMessage", <<"full", "hash1">>),
   From("path2", Apdu("SignMessage", <<"plain", "hash1">>)),
   Quietly(Apdu("SignMessage", <<"plain", "hash1">>)),
   Apdu("SignOffchainMessage", <<"text">>),
   Apdu("SignOffchainMessage", <<"utf8">>),
   Apdu("SignOffchainMessage", <<"data">>),
   Apdu("GetPubkey", << >>), Quietly(Apdu("GetPubkey", << >>)),
   Apdu("GetAppConfiguration", << >>),
   Apdu("ProvideInstructionDescriptor", <<"dex1">>)}

ProvideApdus ==
  LET name == Apdu("ProvideInfo", <<"name2">>)
  IN  {Apdu("GetChallenge", << >>), name,
       Apdu("ProvideInfo", <<"name0">>), Apdu("ProvideInfo", <<"name1">>),
       Apdu("ProvideInfo", <<"data">>),
       Apdu("ProvideDynamicDescriptor", <<"tuid">>),
       Apdu("ProvideDynamicDescriptor", <<"data">>),
       Apdu("SignMessage", <<"account", "hash1">>),
       Apdu("SignMessage", <<"opaque", "hash1">>)}

SwapApdus ==
  {Apdu("SignMessage", <<"plain", "hash1">>),
   Apdu("SignMessage", <<"other", "hash1">>),
   Apdu("SignMessage", <<"account", "hash1">>),
   Apdu("SignMessage", <<"full", "hash1">>),
   Apdu("SignMessagePreview", <<"plain", "hash1">>),
   Apdu("SignMessageDelayed", <<"plain", "hash2">>),
   Apdu("SignOffchainMessage", <<"text">>),
   Apdu("ProvideInfo", <<"name1">>),
   Apdu("ProvideInstructionDescriptor", <<"dex1">>),
   Apdu("ProvideInstructionDescriptor", <<"dex2">>),
   Apdu("ProvideInstructionDescriptor", <<"lend1">>)}

DashboardApdus == PreviewApdus \union MenuApdus \union ProvideApdus
AllApdus == DashboardApdus \union SwapApdus

AllSettings == SettingNames
OnlyBlindSign == {"allow_blind_sign"}
NoSwaps == {}
AllSwaps == {"direct", "toAccount", "dex"}
==============================================================================
