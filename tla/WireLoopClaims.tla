--------------------------- MODULE WireLoopClaims ---------------------------
(***************************************************************************)
(* Statements that comments of the source make of interactive_one, and     *)
(* small instances in which its code does something else.                  *)
(***************************************************************************)
EXTENDS MCWireLoop

\* interactive_one.c:273-276.  An error outside an extended query is answered
\* with a ReadyForQuery; only errors inside one suppress it.
ErrorsAreAnswered == pc = "returned" => due = 0

CallsErrorInside == Ask({"wire"}, {"cma"}, {<<"Q", "P", "S">>})

\* interactive_one.c:273-275.  Skipping until Sync begins only with an error in
\* a message of the extended query protocol.
SkipsOnlyAfterExtended ==
  [][~ignore_till_sync /\ ignore_till_sync' => is_wire /\ firstchar \in Extended]_vars

CallsParseThenRepl ==
  Ask({"wire"}, {"cma"}, {<<"P", "H">>}) \cup Ask({"repl"}, {"memory"}, {<<"sql">>})

\* interactive_one.c:514 and 734.  The request file is removed in all cases.
AlwaysCleanedUp == pc = "returned" => PGS_IN = NoFile

CallsQueryFile == Ask({"wire"}, {"file"}, {<<"Q">>})
=============================================================================
