-------------------------- MODULE FrontendProtocol --------------------------
(***************************************************************************)
(* What a client may rely on, whatever carries its requests: one request   *)
(* at a time, its messages answered in order, one ReadyForQuery for each   *)
(* sync point before anything else is answered, silence from a failed      *)
(* extended-query message to the next Sync, and no answer to any message   *)
(* before the password it was asked for is taken.                          *)
(***************************************************************************)
EXTENDS Sequences, Naturals

VARIABLES
  phase,    \* "run", or "skip": every message up to Sync is ignored
  auth,     \* a password is awaited
  owed,     \* ReadyForQuery messages owed
  replies   \* the replies to the request at hand

vars == <<phase, auth, owed, replies>>

Init == phase = "run" /\ auth = FALSE /\ owed = 0 /\ replies = <<>>

Add(s) == replies' = replies \o s

\* The client takes its replies and will send another request.
NewRequest == owed = 0 /\ replies' = <<>> /\ UNCHANGED <<phase, auth, owed>>

\* What a message needs to be answered.
Answering == phase = "run" /\ ~auth /\ owed = 0

\* A message of an extended query is answered.
Result == Answering /\ Add(<<"ok">>) /\ UNCHANGED <<phase, auth, owed>>

\* A sync point: a simple query, a function call or a Sync completes.
Complete ==
  /\ Answering
  /\ \E s \in {<<>>, <<"ok">>} : Add(s)
  /\ owed' = 1 /\ UNCHANGED <<phase, auth>>

\* An error ends the message, and either is a sync point or begins skipping.
Error ==
  /\ Answering /\ Add(<<"E">>) /\ UNCHANGED auth
  /\ \/ phase' = "run" /\ owed' = 1
     \/ phase' = "skip" /\ owed' = 0

\* A Sync, or the end of the session, is read.
Resynchronise == phase = "skip" /\ phase' = "run" /\ UNCHANGED <<auth, owed, replies>>

\* Notifications may come before a ReadyForQuery, or alone.
Notices == {<<>>, <<"A">>}
Ready  == owed = 1 /\ owed' = 0 /\ (\E n \in Notices : Add(n \o <<"Z">>)) /\ UNCHANGED <<phase, auth>>
Notice == owed = 0 /\ Add(<<"A">>) /\ UNCHANGED <<phase, auth, owed>>

\* The password is asked for.  The answer to a good one is a sync point; after
\* a bad one it is still awaited, and the next may be skipped to its Sync.
AuthRequest == owed = 0 /\ Add(<<"R">>) /\ auth' = TRUE /\ UNCHANGED <<phase, owed>>
AuthOk      == auth /\ owed = 0 /\ Add(<<"R">>) /\ auth' = FALSE /\ owed' = 1 /\ phase' = "run"
AuthRefused == auth /\ owed = 0 /\ Add(<<"E">>) /\ phase' \in {phase, "skip"} /\ UNCHANGED <<auth, owed>>

Next == \/ NewRequest \/ Result \/ Complete \/ Error \/ Resynchronise
        \/ Ready \/ Notice \/ AuthRequest \/ AuthOk \/ AuthRefused

Spec == Init /\ [][Next]_vars /\ WF_vars(Ready)
=============================================================================
