--------------------------- MODULE SigningConsent ---------------------------
(***************************************************************************)
(* What the app promises about its signatures, whoever asks for them:      *)
(*                                                                         *)
(*   - a signature is of the request the user was shown and agreed to; or  *)
(*   - it redeems a grant: the user agreed to a preview of the message,    *)
(*     the same but for its blockhash, and no grant is redeemed twice; or  *)
(*   - it is permitted by the mandate of the Exchange app, which ends with *)
(*     that signature.                                                     *)
(***************************************************************************)
CONSTANTS
  NoGrant, NoMandate,
  GrantFor(_, _),     \* path, message: what agreeing to a preview grants
  Permits(_, _, _)    \* message, evidence, mandate

VARIABLES
  asked,     \* the request on the screen: none, or the set of that one
  grant,     \* the consent to a message whose blockhash is not yet known
  mandate,   \* what the Exchange app asked for
  evidence,  \* what else the host said of the message; never trusted alone
  signed     \* the signature made and not yet read by the host, if any

vars == <<asked, grant, mandate, evidence, signed>>

Init ==
  /\ asked = {} /\ grant = NoGrant
  /\ mandate = NoMandate /\ signed = {}

\* A request is displayed; the consent to an earlier one is gone.
Ask ==
  /\ asked = {} /\ signed = {}
  /\ asked' # {} /\ grant' = NoGrant
  /\ UNCHANGED <<mandate, signed>>

\* The user agrees: exactly what was displayed is signed.
Agree ==
  /\ \E r \in asked :
       /\ ~r.preview
       /\ signed' = {[path |-> r.path, message |-> r.message]}
  /\ asked' = {}
  /\ UNCHANGED <<grant, mandate>>

AgreeToPreview ==
  /\ mandate = NoMandate
  /\ \E r \in asked : r.preview /\ grant' = GrantFor(r.path, r.message)
  /\ asked' = {}
  /\ UNCHANGED <<mandate, signed>>

Decline ==
  /\ asked # {} /\ asked' = {}
  /\ grant' = NoGrant
  /\ UNCHANGED <<mandate, signed>>

\* What is signed was granted; the grant is used up.
Redeem ==
  /\ grant # NoGrant /\ mandate = NoMandate
  /\ signed = {}
  /\ \E s \in signed' : GrantFor(s.path, s.message) = grant /\ signed' = {s}
  /\ grant' = NoGrant
  /\ UNCHANGED <<asked, mandate>>

Withdraw == grant' = NoGrant /\ UNCHANGED <<asked, mandate, signed>>

StartSwap ==
  /\ mandate = NoMandate /\ asked = {} /\ grant = NoGrant
  /\ mandate' # NoMandate
  /\ UNCHANGED <<asked, grant, signed>>

SignSwap ==
  /\ mandate # NoMandate
  /\ asked = {} /\ signed = {}
  /\ \E s \in signed' :
       Permits(s.message, evidence, mandate) /\ signed' = {s}
  /\ mandate' = NoMandate /\ grant' = NoGrant
  /\ UNCHANGED asked

Deliver ==
  /\ signed # {} /\ signed' = {}
  /\ UNCHANGED <<asked, grant, mandate>>

\* The app ends, with or without an error; a signature made may be lost.
End ==
  /\ asked' = {} /\ grant' = NoGrant /\ mandate' = NoMandate
  /\ signed' \in {signed, {}}

\* What the host says changes nothing by itself.
Hear == UNCHANGED <<asked, grant, mandate, signed>>

Next ==
  \/ Ask \/ Agree \/ AgreeToPreview \/ Decline \/ Redeem \/ Withdraw
  \/ StartSwap \/ SignSwap \/ Deliver \/ End \/ Hear

Spec == Init /\ [][Next]_vars
=============================================================================
