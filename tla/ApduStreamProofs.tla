--------------------------- MODULE ApduStreamProofs ---------------------------
(***************************************************************************)
(* What is proved of ApduStream: a command in the buffer is one run of     *)
(* chunks, for any APDUs and any number of them.  The data of a run is     *)
(* their concatenation, a recursive function, so what it computes is       *)
(* proved first, by induction on the number of chunks.                     *)
(***************************************************************************)
EXTENDS ApduStream, CommonLemmas

(* Concatenation. *)

\* g is the table FlattenSeq builds for the first n sequences of ss.
Flattening(ss, n, g) ==
  g = [i \in 1..n |-> IF i = 1 THEN ss[i] ELSE g[i - 1] \o ss[i]]

\* There is such a table: the recursion of FlattenSeq is well founded.
LEMMA FlatteningExists ==
  ASSUME NEW ss, NEW n \in Nat
  PROVE  \E g : Flattening(ss, n, g)
  <1> DEFINE A == {k \in Nat : \E g : Flattening(ss, k, g)}
  <1>1. 0 \in A
    <2>1. Flattening(ss, 0, [i \in 1..0 |-> 0])
      BY DEF Flattening
    <2> QED
      BY <2>1
  <1>2. ASSUME NEW k \in Nat, k \in A PROVE k + 1 \in A
    <2> PICK g : Flattening(ss, k, g)
      BY <1>2
    <2> DEFINE h == [i \in 1..(k + 1) |-> IF i = k + 1
                       THEN IF i = 1 THEN ss[i] ELSE g[i - 1] \o ss[i] ELSE g[i]]
    <2>1. \A i \in 1..k : g[i] = IF i = 1 THEN ss[i] ELSE g[i - 1] \o ss[i]
      BY DEF Flattening
    <2>2. \A i \in 1..(k + 1) : h[i] = IF i = 1 THEN ss[i] ELSE h[i - 1] \o ss[i]
      BY <2>1
    <2>3. h = [i \in 1..(k + 1) |-> IF i = 1 THEN ss[i] ELSE h[i - 1] \o ss[i]]
      BY <2>2
    <2> HIDE DEF h
    <2>4. Flattening(ss, k + 1, h)
      BY <2>3 DEF Flattening
    <2> QED
      BY <2>4
  <1>3. Nat \subseteq A
    <2> HIDE DEF A
    <2> QED
      BY <1>1, <1>2, Induction
  <1> QED
    BY <1>3

\* FlattenSeq returns the last entry of such a table.
LEMMA FlattenDef ==
  ASSUME NEW ss, Len(ss) \in Nat \ {0}
  PROVE  \E g : Flattening(ss, Len(ss), g) /\ FlattenSeq(ss) = g[Len(ss)]
  <1> DEFINE g == CHOOSE f : f = [i \in 1..Len(ss) |-> IF i = 1 THEN ss[i] ELSE f[i - 1] \o ss[i]]
  <1>1. FlattenSeq(ss) = g[Len(ss)]
    BY DEF FlattenSeq
  <1>2. \E f : f = [i \in 1..Len(ss) |-> IF i = 1 THEN ss[i] ELSE f[i - 1] \o ss[i]]
    BY FlatteningExists DEF Flattening
  <1>3. g = [i \in 1..Len(ss) |-> IF i = 1 THEN ss[i] ELSE g[i - 1] \o ss[i]]
    BY <1>2
  <1> HIDE DEF g
  <1>4. Flattening(ss, Len(ss), g)
    BY <1>3 DEF Flattening
  <1> QED
    BY <1>1, <1>4

\* An entry appends one more sequence to the entry before it.
LEMMA FlatteningAt ==
  ASSUME NEW ss, NEW n \in Nat, NEW g, Flattening(ss, n, g),
         NEW k \in Nat, k + 1 \in 1..n
  PROVE  g[k + 1] = IF k + 1 = 1 THEN ss[k + 1] ELSE g[k] \o ss[k + 1]
  <1>1. (k + 1) - 1 = k
    OBVIOUS
  <1> QED
    BY <1>1 DEF Flattening

\* The tables of a prefix and of the whole agree on the prefix.
LEMMA FlatteningAgree ==
  ASSUME NEW ss, NEW tt, NEW m \in Nat, NEW n \in Nat, m <= n, NEW g, NEW h,
         Flattening(ss, m, g), Flattening(tt, n, h),
         \A i \in 1..m : ss[i] = tt[i]
  PROVE  \A i \in 1..m : g[i] = h[i]
  <1> DEFINE A == {k \in Nat : k \in 1..m => g[k] = h[k]}
  <1>1. 0 \in A
    OBVIOUS
  <1>2. ASSUME NEW k \in Nat, k \in A PROVE k + 1 \in A
    <2> SUFFICES ASSUME k + 1 \in 1..m PROVE g[k + 1] = h[k + 1]
      OBVIOUS
    <2>1. /\ g[k + 1] = IF k + 1 = 1 THEN ss[k + 1] ELSE g[k] \o ss[k + 1]
          /\ h[k + 1] = IF k + 1 = 1 THEN tt[k + 1] ELSE h[k] \o tt[k + 1]
      BY FlatteningAt
    <2>2. ss[k + 1] = tt[k + 1]
      OBVIOUS
    <2>3. k + 1 # 1 => g[k] = h[k]
      BY <1>2
    <2> QED
      BY <2>1, <2>2, <2>3
  <1>3. Nat \subseteq A
    <2> HIDE DEF A
    <2> QED
      BY <1>1, <1>2, Induction
  <1> QED
    BY <1>3

\* Every entry is a sequence.
LEMMA FlatteningTyped ==
  ASSUME NEW S, NEW n \in Nat, NEW ss, \A i \in 1..n : ss[i] \in Seq(S),
         NEW g, Flattening(ss, n, g)
  PROVE  \A i \in 1..n : g[i] \in Seq(S)
  <1> DEFINE A == {k \in Nat : k \in 1..n => g[k] \in Seq(S)}
  <1>1. 0 \in A
    OBVIOUS
  <1>2. ASSUME NEW k \in Nat, k \in A PROVE k + 1 \in A
    <2> SUFFICES ASSUME k + 1 \in 1..n PROVE g[k + 1] \in Seq(S)
      OBVIOUS
    <2>1. g[k + 1] = IF k + 1 = 1 THEN ss[k + 1] ELSE g[k] \o ss[k + 1]
      BY FlatteningAt
    <2>2. k + 1 # 1 => g[k] \in Seq(S)
      BY <1>2
    <2> QED
      BY <2>1, <2>2
  <1>3. Nat \subseteq A
    <2> HIDE DEF A
    <2> QED
      BY <1>1, <1>2, Induction
  <1> QED
    BY <1>3

\* One sequence is its own concatenation.
LEMMA FlattenOne ==
  ASSUME NEW S, NEW s \in Seq(S)
  PROVE  FlattenSeq(<<s>>) = s
  <1> DEFINE ss == <<s>>
  <1>1. Len(ss) = 1 /\ Len(ss) \in Nat \ {0} /\ ss[1] = s
    OBVIOUS
  <1> HIDE DEF ss
  <1>2. PICK g : Flattening(ss, Len(ss), g) /\ FlattenSeq(ss) = g[Len(ss)]
    BY <1>1, FlattenDef
  <1>3. g[1] = s
    <2>1. 1 \in 1..1
      OBVIOUS
    <2>2. g = [i \in 1..1 |-> IF i = 1 THEN ss[i] ELSE g[i - 1] \o ss[i]]
      BY <1>1, <1>2 DEF Flattening
    <2> QED
      BY <1>1, <2>1, <2>2
  <1> QED
    BY <1>1, <1>2, <1>3 DEF ss

\* FlattenSeq appends the sequence that is appended.
LEMMA FlattenAppend ==
  ASSUME NEW S, NEW ss \in Seq(Seq(S)), ss # <<>>, NEW s \in Seq(S)
  PROVE  /\ FlattenSeq(ss) \in Seq(S)
         /\ FlattenSeq(Append(ss, s)) = FlattenSeq(ss) \o s
  <1> DEFINE n == Len(ss)
             tt == Append(ss, s)
  <1>1. n \in Nat \ {0} /\ Len(tt) = n + 1 /\ tt[n + 1] = s
        /\ \A i \in 1..n : tt[i] = ss[i] /\ ss[i] \in Seq(S)
    OBVIOUS
  <1> HIDE DEF tt, n
  <1>2. PICK g : Flattening(ss, n, g) /\ FlattenSeq(ss) = g[n]
    BY <1>1, FlattenDef DEF n
  <1>3. PICK h : Flattening(tt, n + 1, h) /\ FlattenSeq(tt) = h[n + 1]
    <2>1. Len(tt) \in Nat \ {0}
      BY <1>1
    <2> QED
      BY <1>1, <2>1, FlattenDef
  <1>4. g[n] \in Seq(S)
    <2>1. \A i \in 1..n : g[i] \in Seq(S)
      BY <1>1, <1>2, FlatteningTyped
    <2> QED
      BY <1>1, <2>1
  <1>5. g[n] = h[n]
    <2>1. n + 1 \in Nat /\ n <= n + 1
      BY <1>1
    <2>3. \A i \in 1..n : ss[i] = tt[i]
      BY <1>1
    <2>2. \A i \in 1..n : g[i] = h[i]
      BY <2>3, <1>1, <1>2, <1>3, <2>1, FlatteningAgree
    <2> QED
      BY <1>1, <2>2
  <1>6. h[n + 1] = h[n] \o s
    <2>1. n + 1 \in 1..(n + 1) /\ n \in Nat /\ n + 1 # 1 /\ n + 1 \in Nat
      BY <1>1
    <2>2. h[n + 1] = IF n + 1 = 1 THEN tt[n + 1] ELSE h[n] \o tt[n + 1]
      BY <1>3, <2>1, FlatteningAt
    <2> QED
      BY <1>1, <2>1, <2>2
  <1> QED
    BY <1>2, <1>3, <1>4, <1>5, <1>6 DEF tt, n

-------------------------------------------------------------------------------
(* Runs of chunks. *)

\* What follows a position grows with the sequence.
LEMMA SubSeqAppend ==
  ASSUME NEW S, NEW s \in Seq(S), NEW a \in S, NEW i \in 1..Len(s)
  PROVE  /\ SubSeq(s, i, Len(s)) \in Seq(S)
         /\ SubSeq(s, i, Len(s)) # <<>>
         /\ SubSeq(Append(s, a), i, Len(Append(s, a))) = Append(SubSeq(s, i, Len(s)), a)
  OBVIOUS

\* The last element alone, as a subsequence.
LEMMA SubSeqLast ==
  ASSUME NEW S, NEW s \in Seq(S), NEW a \in S
  PROVE  SubSeq(Append(s, a), Len(s) + 1, Len(s) + 1) = <<a>>
  <1> DEFINE t == Append(s, a)
             n == Len(s) + 1
  <1>1. t \in Seq(S) /\ n \in 1..Len(t) /\ t[n] = a /\ n \in n..Len(t)
    BY AppendProperties, LenProperties
  <1> HIDE DEF t, n
  <1>2. SubSeq(t, n, n) = <<t[n]>> \o SubSeq(t, n + 1, n)
    BY <1>1, SubSeqRecursiveFirst
  <1>3. SubSeq(t, n + 1, n) = <<>>
    BY <1>1, SubSeqEmpty
  <1>4. <<a>> \o <<>> = <<a>>
    <2>1. <<a>> \in Seq(S)
      OBVIOUS
    <2> QED
      BY <2>1, ConcatEmptySeq
  <1>5. SubSeq(t, n, n) = <<a>>
    BY <1>1, <1>2, <1>3, <1>4
  <1> QED
    BY <1>5 DEF t, n

\* The payload of a run of chunks grows by the data of the next one.
LEMMA DataAppend ==
  ASSUME NEW run \in Seq(Apdus), run # <<>>, NEW a \in Apdus
  PROVE  /\ Data(run) \in Seq(Units)
         /\ Data(Append(run, a)) = Data(run) \o a.data
  <1> DEFINE ss == [i \in DOMAIN run |-> run[i].data]
             tt == [i \in DOMAIN Append(run, a) |-> Append(run, a)[i].data]
  <1>1. ss \in Seq(Seq(Units)) /\ Len(ss) = Len(run)
    <2>1. \A i \in DOMAIN run : run[i].data \in Seq(Units)
      BY ApduAssumption DEF ApduHeader
    <2>2. DOMAIN run = 1..Len(run) /\ Len(run) \in Nat
      BY LenProperties
    <2> QED
      BY <2>1, <2>2
  <1>2. a.data \in Seq(Units)
    BY ApduAssumption DEF ApduHeader
  <1>3. tt = Append(ss, a.data)
    OBVIOUS
  <1>4. ss # <<>>
    BY <1>1
  <1> HIDE DEF ss, tt
  <1>5. FlattenSeq(ss) \in Seq(Units) /\ FlattenSeq(tt) = FlattenSeq(ss) \o a.data
    BY <1>1, <1>2, <1>3, <1>4, FlattenAppend
  <1> QED
    BY <1>5 DEF Data, ss, tt

-------------------------------------------------------------------------------
(* The invariant. *)

\* The values of G_command, whatever the length of its payload.
StreamCommands ==
  [state : {"Uninitialized", "InProgress", "Complete"},
   ins : Instructions \union {"None"}, nonConfirm : BOOLEAN,
   path : Paths \union {NoPath}, message : Seq(Units),
   ata : BOOLEAN, preview : BOOLEAN]

\* The property itself is inductive, once the buffer and the log are typed.
StreamInv ==
  /\ log \in Seq(Apdus)
  /\ cmd \in StreamCommands
  /\ PayloadIsOneRun

\* A first chunk that is accepted is a run of its own.
LEMMA StartedRun ==
  ASSUME StreamInv, NEW a \in Apdus, Receive(a),
         ApduAccepted(cmd, a), FirstChunk(a)
  PROVE  OneCommand(<<a>>) /\ SentAs(<<a>>)'
  <1>1. a \in ApduHeader
    BY ApduAssumption
  <1>2. Head(<<a>>) = a /\ Last(<<a>>) = a /\ DOMAIN <<a>> = {1} /\ Len(<<a>>) = 1
        /\ <<a>>[1] = a
    BY DEF Last
  <1>3. Data(<<a>>) = a.data
    <2>1. [i \in DOMAIN <<a>> |-> <<a>>[i].data] = <<a.data>>
      BY <1>2
    <2>2. a.data \in Seq(Units)
      BY <1>1 DEF ApduHeader
    <2> QED
      BY <2>1, <2>2, FlattenOne DEF Data
  <1>4. OneCommand(<<a>>)
    BY <1>2 DEF OneCommand, ApduAccepted
  <1>5. cmd' = ApduCommand(cmd, a)
    BY DEF Receive, ReceivedCommand
  <1>6. SentAs(<<a>>)'
    <2>1. CASE instruction_without_payload(a.ins)
      <3>1. cmd' = [StartedCommand(a) EXCEPT !.state = "Complete"]
        BY <1>5, <2>1 DEF ApduCommand
      <3>2. /\ cmd'.ins = a.ins /\ cmd'.nonConfirm = a.nonConfirm
            /\ cmd'.path = NoPath /\ cmd'.message = <<>>
        BY <3>1 DEF StartedCommand, ClearedCommand
      <3> QED
        BY <1>2, <2>1, <3>2 DEF SentAs
    <2>2. CASE ~ instruction_without_payload(a.ins)
      <3> DEFINE base == BaseCommand(cmd, a)
      <3>1. /\ cmd'.ins = base.ins /\ cmd'.nonConfirm = base.nonConfirm
            /\ cmd'.path = base.path /\ cmd'.message = base.message \o a.data
            /\ cmd'.state = IF a.more THEN "InProgress" ELSE "Complete"
            /\ cmd'.ata = IF a.more THEN base.ata ELSE a.ata
        BY <1>5, <2>2 DEF ApduCommand, AppendedCommand, BaseCommand, StartedCommand,
                          ClearedCommand
      <3>2. /\ base.ins = a.ins /\ base.nonConfirm = a.nonConfirm
            /\ base.message = <<>> /\ base.ata = FALSE
            /\ instruction_with_derivation_path_in_first_apdu(a.ins) => base.path = a.path
        BY DEF BaseCommand, StartedCommand, ClearedCommand
      <3>3. cmd'.message = a.data
        BY <1>1, <3>1, <3>2 DEF ApduHeader
      <3>4. a.more \in BOOLEAN /\ a.ata \in BOOLEAN
        BY <1>1 DEF ApduHeader
      <3> QED
        BY <1>2, <1>3, <2>2, <3>1, <3>2, <3>3, <3>4 DEF SentAs
    <2> QED
      BY <2>1, <2>2
  <1> QED
    BY <1>4, <1>6

\* A chunk that is accepted as an extension extends the run in the buffer: the
\* command and its flags are those of the first chunk, and the path stays.
LEMMA ExtendedRun ==
  ASSUME StreamInv, NEW a \in Apdus, Receive(a),
         ApduAccepted(cmd, a), ~ FirstChunk(a),
         NEW run \in Seq(Apdus), run # <<>>, OneCommand(run), SentAs(run)
  PROVE  OneCommand(Append(run, a)) /\ SentAs(Append(run, a))'
  <1> DEFINE longer == Append(run, a)
             n == Len(run)
  <1>1. a \in ApduHeader /\ \A i \in 1..n : run[i] \in ApduHeader
    BY ApduAssumption, ElementOfSeq
  <1>2. /\ n \in Nat \ {0} /\ DOMAIN run = 1..n /\ DOMAIN longer = 1..(n + 1)
        /\ Len(longer) = n + 1 /\ longer[n + 1] = a
        /\ \A i \in 1..n : longer[i] = run[i]
        /\ Last(longer) = a /\ Last(run) = run[n]
        /\ Head(longer) = run[1] /\ Head(run) = run[1]
    BY DEF Last
  <1>3. /\ a.wellFormed /\ a.extend /\ ~ instruction_without_payload(a.ins)
        /\ cmd.state = "InProgress" /\ cmd.ins = a.ins /\ cmd.nonConfirm = a.nonConfirm
    BY DEF ApduAccepted, FirstChunk, Continues, instruction_without_payload,
           split_allowed_for_instruction
  <1>4. /\ run[1].ins = a.ins /\ run[1].nonConfirm = a.nonConfirm
        /\ cmd.message = Data(run)
        /\ run[n].more /\ ~ cmd.ata
        /\ instruction_with_derivation_path_in_first_apdu(cmd.ins) => cmd.path = run[1].path
    BY <1>1, <1>2, <1>3 DEF SentAs, ApduHeader
  <1>5. OneCommand(longer)
    <2>1. FirstChunk(Head(longer))
      BY <1>2 DEF OneCommand
    <2>2. ASSUME NEW i \in 1..(n + 1)
          PROVE  /\ longer[i].wellFormed
                 /\ longer[i].ins = run[1].ins
                 /\ longer[i].nonConfirm = run[1].nonConfirm
                 /\ i > 1 => longer[i].extend
                 /\ i < n + 1 => longer[i].more
      <3>1. CASE i = n + 1
        BY <1>2, <1>3, <1>4, <3>1
      <3>2. CASE i \in 1..n
        <4> HIDE DEF longer, n
        <4>1. longer[i] = run[i] /\ (i < n \/ i = n)
          BY <1>2, <3>2
        <4>2. /\ run[i].wellFormed /\ run[i].ins = run[1].ins
              /\ run[i].nonConfirm = run[1].nonConfirm
              /\ i > 1 => run[i].extend
              /\ i < n => run[i].more
          BY <1>2, <3>2 DEF OneCommand
        <4> QED
          BY <1>2, <1>4, <3>2, <4>1, <4>2
      <3> QED
        BY <1>2, <3>1, <3>2
    <2> HIDE DEF longer, n
    <2> QED
      BY <1>2, <2>1, <2>2 DEF OneCommand
  <1>6. /\ cmd'.ins = cmd.ins /\ cmd'.nonConfirm = cmd.nonConfirm /\ cmd'.path = cmd.path
        /\ cmd'.message = cmd.message \o a.data
        /\ cmd'.state = IF a.more THEN "InProgress" ELSE "Complete"
        /\ cmd'.ata = IF a.more THEN cmd.ata ELSE a.ata
    <2>1. cmd' = AppendedCommand(cmd, a) /\ BaseCommand(cmd, a) = cmd
      BY <1>3 DEF Receive, ReceivedCommand, ApduCommand, BaseCommand
    <2> QED
      BY <2>1 DEF AppendedCommand, StreamInv, StreamCommands
  <1>7. Data(longer) = cmd'.message
    BY <1>4, <1>6, DataAppend
  <1>8. SentAs(longer)'
    <2>1. a.more \in BOOLEAN /\ a.ata \in BOOLEAN
      BY <1>1 DEF ApduHeader
    <2> HIDE DEF longer
    <2> QED
      BY <1>2, <1>3, <1>4, <1>6, <1>7, <2>1 DEF SentAs
  <1> QED
    BY <1>5, <1>8

\* The cleared command is typed.
LEMMA ClearedTyped == ClearedCommand \in StreamCommands
  <1>1. << >> \in Seq(Units)
    OBVIOUS
  <1> QED
    BY <1>1 DEF ClearedCommand, StreamCommands

\* So is a started one.
LEMMA StartedTyped ==
  ASSUME NEW a \in Apdus
  PROVE  StartedCommand(a) \in StreamCommands
  <1>1. /\ a.ins \in Instructions /\ a.nonConfirm \in BOOLEAN
    BY ApduAssumption DEF ApduHeader
  <1> QED
    BY <1>1, ClearedTyped DEF StartedCommand, StreamCommands

\* A run that ends the log and is what the buffer holds is a witness.
LEMMA RunAtEnd ==
  ASSUME NEW i, NEW run, i \in DOMAIN log', SubSeq(log', i, Len(log')) = run,
         OneCommand(run), SentAs(run)'
  PROVE  PayloadIsOneRun'
  BY DEF PayloadIsOneRun, SentAs

\* Every APDU, accepted or refused, keeps the invariant.
LEMMA ReceiveKeeps ==
  ASSUME StreamInv, NEW a \in Apdus, Receive(a)
  PROVE  StreamInv'
  <1>1. log' = Append(log, a) /\ log' \in Seq(Apdus) /\ Len(log) \in Nat
        /\ Len(log') = Len(log) + 1 /\ DOMAIN log' = 1..(Len(log) + 1)
        /\ DOMAIN log = 1..Len(log)
    BY DEF Receive, StreamInv
  <1>2. CASE ~ ApduAccepted(cmd, a)
    <2>1. cmd' = ClearedCommand
      BY <1>2 DEF Receive, ReceivedCommand
    <2> QED
      BY <1>1, <2>1, ClearedTyped DEF StreamInv, PayloadIsOneRun, ClearedCommand
  <1>3. CASE ApduAccepted(cmd, a)
    <2>1. cmd' = ApduCommand(cmd, a)
      BY <1>3 DEF Receive, ReceivedCommand
    <2>2. a \in ApduHeader
      BY ApduAssumption
    <2>3. cmd' \in StreamCommands
      <3>1. CASE instruction_without_payload(a.ins)
        <4>1. cmd' = [StartedCommand(a) EXCEPT !.state = "Complete"]
          BY <2>1, <3>1 DEF ApduCommand
        <4> QED
          BY <4>1, StartedTyped DEF StreamCommands
      <3>2. CASE ~ instruction_without_payload(a.ins)
        <4> DEFINE base == BaseCommand(cmd, a)
        <4>1. base \in StreamCommands
          BY <2>2, StartedTyped DEF BaseCommand, ApduHeader, StreamInv, StreamCommands
        <4>2. cmd' = [base EXCEPT !.message = base.message \o a.data,
                   !.state = IF a.more THEN "InProgress" ELSE "Complete",
                   !.ata = IF a.more THEN base.ata ELSE a.ata]
          BY <2>1, <3>2 DEF ApduCommand, AppendedCommand
        <4> HIDE DEF base
        <4>3. base.message \o a.data \in Seq(Units)
          BY <2>2, <4>1 DEF ApduHeader, StreamCommands
        <4> QED
          BY <2>2, <4>1, <4>2, <4>3 DEF ApduHeader, StreamCommands
      <3> QED
        BY <3>1, <3>2
    <2>4. PayloadIsOneRun'
      <3>1. CASE FirstChunk(a)
        <4> PICK i \in Nat : i = Len(log) + 1
          BY <1>1
        <4>1. SubSeq(log', i, Len(log')) = <<a>>
          BY <1>1, SubSeqLast DEF StreamInv
        <4>2. i \in DOMAIN log'
          BY <1>1
        <4>3. OneCommand(<<a>>) /\ SentAs(<<a>>)'
          BY <1>3, <3>1, StartedRun
        <4> QED
          BY <4>1, <4>2, <4>3, RunAtEnd
      <3>2. CASE ~ FirstChunk(a)
        <4>1. cmd.state # "Uninitialized"
          BY <1>3, <3>2 DEF ApduAccepted, FirstChunk, Continues,
                            instruction_without_payload, split_allowed_for_instruction
        <4>2. PICK i \in 1..Len(log) : \E run \in {SubSeq(log, i, Len(log))} :
                                         OneCommand(run) /\ SentAs(run)
          BY <1>1, <4>1 DEF StreamInv, PayloadIsOneRun
        <4>3. PICK run : /\ run = SubSeq(log, i, Len(log))
                          /\ OneCommand(run) /\ SentAs(run)
          BY <4>2
        <4>4. /\ run \in Seq(Apdus) /\ run # <<>>
              /\ SubSeq(log', i, Len(log')) = Append(run, a)
          BY <1>1, <4>2, <4>3, SubSeqAppend DEF StreamInv
        <4>5. OneCommand(Append(run, a)) /\ SentAs(Append(run, a))'
          BY <1>3, <3>2, <4>3, <4>4, ExtendedRun
        <4>6. i \in DOMAIN log'
          BY <1>1
        <4> QED
          BY <4>4, <4>5, <4>6, RunAtEnd
      <3> QED
        BY <3>1, <3>2
    <2> QED
      BY <1>1, <2>3, <2>4 DEF StreamInv
  <1> QED
    BY <1>2, <1>3

\* A command in the buffer is one run of chunks, the last ones received, whole
\* and in order, with the path of its first chunk (PayloadIsOneRun), for any APDUs
\* in any order, any number of them, any payload units and any buffer length:
\* apdu_handle_message never mixes chunks of two commands, nor drops one.
THEOREM PayloadsAreOneRun == Spec => []PayloadIsOneRun
  <1>1. Init => StreamInv
    BY ClearedTyped DEF Init, StreamInv, PayloadIsOneRun, ClearedCommand
  <1>2. StreamInv /\ [Next]_vars => StreamInv'
    <2> SUFFICES ASSUME StreamInv, [Next]_vars PROVE StreamInv'
      OBVIOUS
    <2>1. ASSUME NEW a \in Apdus, Receive(a) PROVE StreamInv'
      BY <2>1, ReceiveKeeps
    <2>2. CASE UNCHANGED vars
      BY <2>2 DEF vars, StreamInv, PayloadIsOneRun, SentAs
    <2> QED
      BY <2>1, <2>2 DEF Next
  <1>3. StreamInv => PayloadIsOneRun
    BY DEF StreamInv
  <1> QED
    BY <1>1, <1>2, <1>3, PTL DEF Spec
===============================================================================
