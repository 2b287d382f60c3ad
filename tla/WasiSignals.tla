---------------------------- MODULE WasiSignals -----------------------------
(***************************************************************************)
(* sdk_port-wasi.c: signal sets and sigprocmask for a libc that has neither.*)
(* Blocking replaces the handler of a signal by blocked_handler, which only *)
(* notes that the signal came; unblocking puts the handler back and raises  *)
(* what came.                                                               *)
(*                                                                         *)
(* There is one thread, and a signal comes only by raise(): from the        *)
(* program, from a handler, or from the end of sigprocmask.  Handlers may   *)
(* do all that the program does, sigprocmask included, so calls nest.       *)
(*                                                                         *)
(* signal() of the libc refuses SIGKILL and SIGSTOP, 9 and 19, which do not *)
(* fit into a set and are left out.                                         *)
(***************************************************************************)
EXTENDS Integers, Sequences

CONSTANTS
  NSIG,       \* signals are 0 .. NSIG - 1 (65 in the code)
  Width,      \* bits of sigset_t (8)
  ShiftWidth, \* bits of the int in which masks are shifted (32)
  MaxDepth    \* bound: handlers that run inside each other

ASSUME SizesAssumption ==
  /\ NSIG \in Nat \ {0} /\ Width \in Nat \ {0} /\ ShiftWidth \in Nat \ {0}
  /\ Width <= ShiftWidth /\ MaxDepth \in Nat

Sig      == 0 .. NSIG - 1
Bits     == 0 .. Width - 1
Handlers == {"app", "default", "blocked_handler"}

VARIABLES
  shifts,         \* what the build makes of a shift by ShiftWidth or more
  blocked_set,
  pending_array,
  old_handlers,
  handlers,       \* the handlers as libc has them
  stack,          \* the program and the handlers that run, the innermost first
  died,           \* "no", or how the process ended
  \* history, never read by the code
  mine,           \* the handler the program had when it last blocked the signal
  bypassed        \* signals whose handler the program changed while blocked

masks == <<blocked_set, pending_array, old_handlers>>
vars  == <<shifts, masks, handlers, stack, died, mine, bypassed>>

\* A frame is the program (sig = -1) or the handler of a signal; todo is what
\* its call of sigprocmask still has to raise.
Frame == [sig : Sig \cup {-1}, todo : SUBSET Sig]
Top   == stack[1]

-----------------------------------------------------------------------------
(* Signal sets: the program builds one and passes it to sigprocmask *)

\* The bit that `1U << sig' and `mask >> sig' select.  Shifting by the width
\* of the int is undefined: wasm shifts by the remainder, and a compiler that
\* knows better yields 0.
Bit(sig) ==
  CASE sig < ShiftWidth -> sig
    [] sig >= ShiftWidth /\ shifts = "wrap" -> sig % ShiftWidth
    [] OTHER -> -1

\* Does a loop over the signals find this one in a set of bits?
Has(bits, sig) == Bit(sig) \in bits

\* sigemptyset, then sigaddset for each of some signals.
Added(signals) == {Bit(sig) : sig \in signals} \cap Bits

\* sigfillset, (2U << (NSIG - 1)) - 1, then sigdelset for each.
AllBits          == IF Bit(NSIG - 1) = -1 THEN Bits ELSE 0 .. Bit(NSIG - 1)
Deleted(signals) == (AllBits \cap Bits) \ {Bit(sig) : sig \in signals}

SignalSets == {Added(signals) : signals \in SUBSET Sig} \cup {Deleted(signals) : signals \in SUBSET Sig}

\* The program, or the handler that runs, does something of its own.
Program == died = "no" /\ Top.todo = {}

-----------------------------------------------------------------------------
(* Handlers *)

\* Faults are mistakes of a kind the code could contain; no definition uses
\* them.  They show which property would notice.
Fault_PendingCounts(sig) == [pending_array EXCEPT ![sig] = @ + 1]
Pending(sig)             == [pending_array EXCEPT ![sig] = 1]

\* libc calls the handler: blocked_handler is back at once, one of the program
\* begins on top of the stack; the default action ends the process or does
\* nothing.
CallHandler(sig, below) ==
  \/ /\ handlers[sig] = "blocked_handler"
     /\ pending_array' = Pending(sig)
     /\ stack' = below
     /\ UNCHANGED died
  \/ /\ handlers[sig] = "app" /\ Len(stack) <= MaxDepth
     /\ stack' = <<[sig |-> sig, todo |-> {}]>> \o below
     /\ UNCHANGED <<pending_array, died>>
  \/ /\ handlers[sig] = "default"
     /\ \/ died' = "default" /\ UNCHANGED stack
        \/ died' = "no" /\ stack' = below
     /\ UNCHANGED pending_array

raise(sig) ==
  /\ Program
  /\ CallHandler(sig, stack)
  /\ UNCHANGED <<shifts, blocked_set, old_handlers, handlers, mine, bypassed>>

HandlerReturns ==
  /\ Program /\ Len(stack) > 1
  /\ stack' = Tail(stack)
  /\ UNCHANGED <<shifts, masks, handlers, died, mine, bypassed>>

\* The program installs a handler, with signal(): sigaction is a stub that
\* does nothing.  For a blocked signal it replaces blocked_handler.
signal(sig, h) ==
  /\ Program
  /\ handlers' = [handlers EXCEPT ![sig] = h]
  /\ IF Has(blocked_set, sig)
       THEN bypassed' = bypassed \cup {sig} /\ UNCHANGED mine
       ELSE mine' = [mine EXCEPT ![sig] = h] /\ UNCHANGED bypassed
  /\ UNCHANGED <<shifts, masks, stack, died>>

\* It puts back what signal() returned, while the signal is still blocked.
signal_back(sig) ==
  /\ Program /\ sig \in bypassed
  /\ handlers' = [handlers EXCEPT ![sig] = "blocked_handler"]
  /\ bypassed' = bypassed \ {sig}
  /\ UNCHANGED <<shifts, masks, stack, died, mine>>

-----------------------------------------------------------------------------
(* sigprocmask *)

new_blocked_set(operation, set) ==
  CASE operation = "SIG_BLOCK"   -> blocked_set \cup set
    [] operation = "SIG_SETMASK" -> set
    [] operation = "SIG_UNBLOCK" -> blocked_set \ set

\* Fault: signals that are blocked already are blocked again.
Fault_BlockAgain(new) == new
ToBlock(new)          == new \ blocked_set
Fault_UnblockAll(new) == Bits \ new
ToUnblock(new)        == blocked_set \ new

\* Fault: the bits of signals that are unblocked are not cleared.
Fault_BitsStay(new) == blocked_set \cup new
NewBits(new)        == new

\* Fault: what came while the signal was blocked is forgotten.
Fault_NoneReceived(signals) == {}
Received(signals)           == {sig \in signals : pending_array[sig] = 1}

\* Both loops over the signals.  Nothing is raised in them.  Where a handler
\* is not blocked_handler any more, the process aborts; otherwise what came is
\* left to be raised, see RaiseReceived.
sigprocmask(operation, set) ==
  /\ Program
  /\ LET new     == new_blocked_set(operation, set)
         block   == {sig \in Sig : Has(ToBlock(new), sig)}
         unblock == {sig \in Sig : Has(ToUnblock(new), sig)}
         kept    == [sig \in Sig |-> IF sig \in block THEN handlers[sig] ELSE old_handlers[sig]]
         ours    == [sig \in Sig |-> IF sig \in block THEN "blocked_handler" ELSE handlers[sig]]
     IN  IF \E sig \in unblock : ours[sig] # "blocked_handler"
           THEN died' = "abort" /\ UNCHANGED <<masks, handlers, stack>>
           ELSE /\ blocked_set' = NewBits(new)
                /\ old_handlers' = kept
                /\ handlers' = [sig \in Sig |-> IF sig \in unblock THEN kept[sig] ELSE ours[sig]]
                /\ pending_array' =
                     [sig \in Sig |-> IF sig \in block \cup unblock THEN 0 ELSE pending_array[sig]]
                /\ stack' = [stack EXCEPT ![1].todo = Received(unblock)]
                /\ UNCHANGED died
  /\ UNCHANGED <<shifts, mine, bypassed>>

\* The last loop of sigprocmask.  A handler that ran in it may have blocked
\* the next signal again.
RaiseReceived ==
  /\ died = "no"
  /\ \E sig \in Top.todo :
       /\ \A other \in Top.todo : sig <= other
       /\ CallHandler(sig, [stack EXCEPT ![1].todo = @ \ {sig}])
  /\ UNCHANGED <<shifts, blocked_set, old_handlers, handlers, mine, bypassed>>

-----------------------------------------------------------------------------
Init ==
  /\ shifts \in {"wrap", "zero"}
  /\ blocked_set = {}
  /\ pending_array = [sig \in Sig |-> 0]
  /\ handlers = [sig \in Sig |-> "default"]
  /\ old_handlers = [sig \in Sig |-> "default"]
  /\ stack = <<[sig |-> -1, todo |-> {}]>>
  /\ died = "no"
  /\ mine = handlers /\ bypassed = {}

Signals == \E sig \in Sig : \/ raise(sig) \/ signal_back(sig)
                            \/ \E h \in {"app", "default"} : signal(sig, h)
Mask    == \E operation \in {"SIG_BLOCK", "SIG_SETMASK", "SIG_UNBLOCK"}, set \in SignalSets :
             sigprocmask(operation, set)
Next    == Signals \/ Mask \/ HandlerReturns \/ RaiseReceived

Spec == Init /\ [][Next]_vars

-----------------------------------------------------------------------------
(* Properties *)

\* The mask holds what a sigset_t holds, and only the program is at the bottom
\* of the stack.
TypeOK ==
  /\ shifts \in {"wrap", "zero"} /\ died \in {"no", "default", "abort"}
  /\ blocked_set \in SUBSET Bits
  /\ pending_array \in [Sig -> {0, 1}]
  /\ old_handlers \in [Sig -> Handlers] /\ handlers \in [Sig -> Handlers]
  /\ stack \in Seq(Frame) /\ stack # <<>>
  /\ \A i \in DOMAIN stack : stack[i].sig = -1 <=> i = Len(stack)
  /\ mine \in [Sig -> {"app", "default"}] /\ bypassed \in SUBSET Sig

\* A signal is held back exactly when its bit is set in blocked_set: not, then,
\* when its number is too large for a sigset_t, and also when it shares the
\* bit of a smaller one.  Only the program itself can take one out.
HeldExactly ==
  \A sig \in Sig :
    handlers[sig] = "blocked_handler" <=> Has(blocked_set, sig) /\ sig \notin bypassed

\* Whatever calls of sigprocmask are nested, and in whatever order signals are
\* blocked and unblocked: a signal that is not blocked has the handler the
\* program gave it, and a blocked one will have it again.
HandlersKept ==
  \A sig \in Sig :
    mine[sig] = IF Has(blocked_set, sig) THEN old_handlers[sig] ELSE handlers[sig]

\* sigprocmask aborts only when the program changed a handler behind its back,
\* and never while it stands for a signal that the program left alone.
AbortsOnlyBypassed == died = "abort" => bypassed # {}

\* The handlers that run in a stack, and the signals that came: noted while
\* they are blocked, or received by a call of sigprocmask and still to raise.
RunningIn(st)       == [i \in 1 .. Len(st) - 1 |-> st[i].sig]
WaitingIn(noted, st) == {sig \in Sig : noted[sig] = 1 \/ \E i \in DOMAIN st : sig \in st[i].todo}
HeldBy(libc)        == {sig \in Sig : libc[sig] = "blocked_handler"}

Posix == INSTANCE SignalMask WITH
  Signals <- Sig,
  blocked <- HeldBy(handlers),
  waiting <- WaitingIn(pending_array, stack),
  running <- RunningIn(stack),
  ended   <- died # "no"

\* The emulation does what POSIX promises for the signals it holds back: they
\* wait, are delivered when they are not held, and are not forgotten.
KeepsMask == Posix!Spec
=============================================================================
