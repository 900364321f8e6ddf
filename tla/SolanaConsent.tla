---------------------------- MODULE SolanaConsent ----------------------------
(***************************************************************************)
(* SolanaApp keeps the promise of SigningConsent.  The request is what the *)
(* summary on the screen says, never what G_command says: that the         *)
(* signature, which is made from G_command, is of that request is what the *)
(* refinement has to show.                                                 *)
(***************************************************************************)
EXTENDS SolanaApp

asked ==
  IF screen \in ReviewScreens
  THEN {[path |-> summary.path, message |-> summary.message,
         preview |-> cmd.preview]}
  ELSE {}

signed ==
  IF response.kind = "signature"
  THEN {[path |-> response.path, message |-> response.message]}
  ELSE {}

evidence == [context |-> Context, received |-> descriptors]

MandatePermits(m, e, s) == SwapPermits(m, e.context, e.received, s)

Consent == INSTANCE SigningConsent WITH
  NoGrant <- NoPreview, NoMandate <- NoSwap,
  GrantFor <- Fingerprint, Permits <- MandatePermits,
  grant <- preview, mandate <- swap

\* Every signature the app makes is one SigningConsent allows: displayed and
\* approved, redeemed once from an approved preview, or permitted by the swap
\* whose app ends with it.
SignsOnlyWithConsent == Consent!Spec
==============================================================================
