------------------------------ MODULE ApduStream ------------------------------
(***************************************************************************)
(* G_command under a stream of APDUs: what apdu_handle_message makes of    *)
(* chunks the host sends in any order, of any command, with refused ones   *)
(* between them.  The handler of a complete command leaves G_command as it *)
(* is, so the next APDU finds the complete command there.                  *)
(***************************************************************************)
EXTENDS Apdu, SequencesExt

CONSTANT MaxApdus  \* APDUs the host sends

ASSUME StreamAssumption == MaxApdus \in Nat

VARIABLES
  cmd,   \* G_command
  log    \* the APDUs received so far

vars == <<cmd, log>>

Init == cmd = ClearedCommand /\ log = << >>

Receive(a) ==
  /\ Len(log) < MaxApdus
  /\ cmd' = ReceivedCommand(cmd, a)
  /\ log' = Append(log, a)

Next == \E a \in Apdus : Receive(a)

Spec == Init /\ [][Next]_vars

-------------------------------------------------------------------------------
(* Correctness. *)

\* The host sent the chunks of run as one command: a first chunk, which carries
\* the path, and extensions of it, none refused and none of another command.
OneCommand(run) ==
  /\ FirstChunk(Head(run))
  /\ \A i \in DOMAIN run :
       /\ run[i].wellFormed
       /\ run[i].ins = Head(run).ins
       /\ run[i].nonConfirm = Head(run).nonConfirm
       /\ i > 1 => run[i].extend
       /\ i < Len(run) => run[i].more

Data(run) == FlattenSeq([i \in DOMAIN run |-> run[i].data])

\* cmd is the command sent as run.
SentAs(run) ==
  /\ cmd.ins = Head(run).ins
  /\ cmd.nonConfirm = Head(run).nonConfirm
  /\ instruction_with_derivation_path_in_first_apdu(cmd.ins) =>
       cmd.path = IF instruction_without_payload(cmd.ins) THEN NoPath
                  ELSE Head(run).path
  /\ IF instruction_without_payload(cmd.ins) THEN cmd.message = << >>
     ELSE /\ cmd.message = Data(run)
          /\ cmd.state = "Complete" <=> ~Last(run).more
          /\ cmd.ata <=> ~Last(run).more /\ Last(run).ata

\* A command in the buffer is the last run of APDUs received, whole: never the
\* chunks of two commands, of a command with one refused in between, or the
\* path of one command with the payload of another.
PayloadIsOneRun ==
  cmd.state # "Uninitialized" =>
    \E i \in DOMAIN log :
      LET run == SubSeq(log, i, Len(log))
      IN  OneCommand(run) /\ SentAs(run)
===============================================================================
