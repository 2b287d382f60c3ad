----------------------------- MODULE SignalMask ------------------------------
(***************************************************************************)
(* What a program may rely on when it blocks signals, as POSIX has it and   *)
(* without bits, handlers or loops: a blocked signal waits, it is delivered *)
(* only when it is not blocked, and blocking and unblocking forget nothing. *)
(***************************************************************************)
EXTENDS Sequences

CONSTANT Signals

VARIABLES
  blocked,   \* the signals that are blocked
  waiting,   \* the signals that arrived and were not delivered yet
  running,   \* the handlers that run, the innermost first
  ended      \* has the process ended?

vars == <<blocked, waiting, running, ended>>

Init == blocked = {} /\ waiting = {} /\ running = <<>> /\ ended = FALSE

\* The handler is entered, or there is none and the signal is ignored.
Delivered(s) == running' \in {<<s>> \o running, running}

\* A signal is sent: it waits when it is blocked.
Send(s) ==
  /\ IF s \in blocked THEN waiting' = waiting \cup {s} /\ UNCHANGED running
                      ELSE Delivered(s) /\ UNCHANGED waiting
  /\ UNCHANGED <<blocked, ended>>

\* A signal that waited is delivered.  It waits on if it was sent again.
Deliver(s) ==
  /\ s \in waiting \ blocked
  /\ waiting' \in {waiting, waiting \ {s}}
  /\ Delivered(s)
  /\ UNCHANGED <<blocked, ended>>

HandlerReturns ==
  /\ running # <<>>
  /\ running' = Tail(running)
  /\ UNCHANGED <<blocked, waiting, ended>>

SetMask == blocked' \in SUBSET Signals /\ UNCHANGED <<waiting, running, ended>>

\* The default action of a signal, or abort().
End == ended' = TRUE /\ UNCHANGED <<blocked, waiting, running>>

Next ==
  /\ ~ended
  /\ (\E s \in Signals : Send(s) \/ Deliver(s)) \/ HandlerReturns \/ SetMask \/ End

Spec == Init /\ [][Next]_vars
=============================================================================
