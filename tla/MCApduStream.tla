---------------------------- MODULE MCApduStream ----------------------------
(***************************************************************************)
(* Chunks of three commands, mixed in every order.                         *)
(***************************************************************************)
EXTENDS ApduStream

MCUnits == {"u1", "u2"}
MCPaths == {"path1", "path2"}
MCInfos == {"info"}
MCDescriptors == {"descriptor"}

\* ApduStream asks the parsers of the payload nothing.
Anything(m) == TRUE
Anything2(m, x) == TRUE
Anything3(m, x, y) == TRUE
Start(m) == 1
OneInfo(m) == "info"
OneDescriptor(m) == "descriptor"

Chunk(ins, path, data) ==
  [ins |-> ins, wellFormed |-> TRUE, nonConfirm |-> FALSE, extend |-> FALSE,
   more |-> FALSE, ata |-> FALSE, path |-> path, data |-> data]
More(a) == [a EXCEPT !.more = TRUE]
Extend(a) == [a EXCEPT !.extend = TRUE]

StreamApdus ==
  LET sign(path, data) == Chunk("SignMessage", path, data)
      old(data) == Chunk("DeprecatedSignMessage", "path1", data)
      info(data) == Chunk("ProvideInfo", NoPath, data)
  IN  {More(sign("path1", <<"u1">>)), sign("path2", <<"u2">>),
       More(sign(NoPath, <<"u2">>)),
       Extend(More(sign("path1", <<"u2">>))),
       Extend([sign("path2", <<"u1">>) EXCEPT !.ata = TRUE]),
       Extend(sign("path1", << >>)),
       Extend([sign("path1", <<"u2">>) EXCEPT !.nonConfirm = TRUE]),
       More(old(<< >>)), Extend(old(<<"u1">>)),
       [Extend(old(<<"u2">>)) EXCEPT !.wellFormed = FALSE],
       More(info(<<"u1">>)), Extend(info(<<"u1", "u2">>)), info(<< >>),
       Extend(More(Chunk("GetPubkey", "path1", << >>))),
       Extend(Chunk("GetChallenge", NoPath, <<"u1">>))}
=============================================================================
