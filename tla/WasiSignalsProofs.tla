-------------------------- MODULE WasiSignalsProofs --------------------------
(***************************************************************************)
(* What holds of the emulated signals for every number of signals, every    *)
(* width of a set and every depth of handlers, and that it implements what  *)
(* POSIX says of blocked signals.                                           *)
(***************************************************************************)
EXTENDS WasiSignals, SequenceTheorems, TLAPS

\* Signals are noted, and handlers bypassed, only while they are blocked.
OnlyWhileBlocked ==
  \A sig \in Sig : pending_array[sig] = 1 \/ sig \in bypassed => Has(blocked_set, sig)

IInv == TypeOK /\ HeldExactly /\ HandlersKept /\ OnlyWhileBlocked /\ AbortsOnlyBypassed

\* A stack as TypeOK has it.
StackOK(st) ==
  /\ st \in Seq(Frame) /\ st # <<>>
  /\ \A i \in DOMAIN st : st[i].sig = -1 <=> i = Len(st)

\* A signal is still to be raised by some call, or by one other than the innermost.
Raising(st, sig)      == \E i \in DOMAIN st : sig \in st[i].todo
RaisingBelow(st, sig) == \E i \in DOMAIN st : i # 1 /\ sig \in st[i].todo

-----------------------------------------------------------------------------
(* Stacks *)

\* The handlers that run are a sequence, one shorter than the stack.
LEMMA RunningSeq ==
  ASSUME NEW st, StackOK(st)
  PROVE  /\ RunningIn(st) \in Seq(Sig \cup {-1}) /\ Len(RunningIn(st)) = Len(st) - 1
         /\ \A i \in 1 .. Len(st) - 1 : RunningIn(st)[i] = st[i].sig
<1>1. /\ Len(st) \in Nat /\ Len(st) > 0 /\ Len(st) - 1 \in Nat
      /\ \A i \in 1 .. Len(st) : st[i] \in Frame
  BY DEF StackOK
<1>2. \A i \in 1 .. Len(st) - 1 : st[i].sig \in Sig \cup {-1}
  BY <1>1 DEF Frame
<1>3. RunningIn(st) \in [1 .. Len(st) - 1 -> Sig \cup {-1}]
  BY <1>2 DEF RunningIn
<1>4. RunningIn(st) \in Seq(Sig \cup {-1})
  BY <1>1, <1>3, SeqDef
<1>5. Len(RunningIn(st)) = Len(st) - 1
  BY <1>1, <1>3, <1>4
<1> QED
  BY <1>4, <1>5 DEF RunningIn

\* A handler begins.
LEMMA PushFrame ==
  ASSUME NEW st, StackOK(st), NEW s \in Sig,
         NEW pushed, pushed = <<[sig |-> s, todo |-> {}]>> \o st
  PROVE  /\ StackOK(pushed)
         /\ RunningIn(pushed) = <<s>> \o RunningIn(st)
         /\ \A noted : WaitingIn(noted, pushed) = WaitingIn(noted, st)
<1>1. /\ st \in Seq(Frame) /\ Len(st) \in Nat /\ Len(st) > 0 /\ DOMAIN st = 1 .. Len(st)
      /\ [sig |-> s, todo |-> {}] \in Frame
  BY DEF StackOK, Frame
<1>2. /\ pushed \in Seq(Frame) /\ Len(pushed) = Len(st) + 1 /\ DOMAIN pushed = 1 .. Len(st) + 1
      /\ pushed[1] = [sig |-> s, todo |-> {}]
      /\ \A i \in 1 .. Len(st) : pushed[i + 1] = st[i]
      /\ \A i \in 2 .. Len(st) + 1 : pushed[i] = st[i - 1]
  BY <1>1
<1>3. s # -1
  BY DEF Sig
<1>4. StackOK(pushed)
  <2>1. \A i \in DOMAIN pushed : pushed[i].sig = -1 <=> i = Len(pushed)
    <3> SUFFICES ASSUME NEW i \in DOMAIN pushed PROVE pushed[i].sig = -1 <=> i = Len(pushed)
      OBVIOUS
    <3>1. CASE i = 1
      BY <3>1, <1>1, <1>2, <1>3
    <3>2. CASE i \in 2 .. Len(st) + 1
      <4>1. i - 1 \in DOMAIN st /\ pushed[i] = st[i - 1]
        BY <3>2, <1>1, <1>2
      <4> QED
        BY <4>1, <3>2, <1>1, <1>2 DEF StackOK
    <3> QED
      BY <3>1, <3>2, <1>1, <1>2
  <2> QED
    BY <2>1, <1>1, <1>2 DEF StackOK
<1>5. RunningIn(pushed) = <<s>> \o RunningIn(st)
  <2> DEFINE S == Sig \cup {-1}
             r == RunningIn(st)
             q == RunningIn(pushed)
  <2>1. r \in Seq(S) /\ Len(r) = Len(st) - 1 /\ \A i \in 1 .. Len(st) - 1 : r[i] = st[i].sig
    BY RunningSeq
  <2>2. q \in Seq(S) /\ Len(q) = Len(st) /\ \A i \in 1 .. Len(st) : q[i] = pushed[i].sig
    <3>1. Len(pushed) - 1 = Len(st)
      BY <1>1, <1>2
    <3>2. /\ q \in Seq(S) /\ Len(q) = Len(pushed) - 1
          /\ \A i \in 1 .. Len(pushed) - 1 : q[i] = pushed[i].sig
      BY <1>4, RunningSeq
    <3> QED
      BY <3>1, <3>2
  <2> HIDE DEF r, q
  <2>3. <<s>> \o r \in Seq(S) /\ Len(<<s>> \o r) = Len(st)
    BY <2>1, <1>1
  <2>4. \A i \in 1 .. Len(q) : q[i] = (<<s>> \o r)[i]
    <3> SUFFICES ASSUME NEW i \in 1 .. Len(st) PROVE q[i] = (<<s>> \o r)[i]
      BY <2>2
    <3>1. CASE i = 1
      <4>1. (<<s>> \o r)[1] = s
        BY <2>1, <1>1
      <4>2. q[1] = s
        BY <1>1, <1>2, <2>2
      <4> QED
        BY <3>1, <4>1, <4>2
    <3>2. CASE i \in 2 .. Len(st)
      <4>1. i - 1 \in 1 .. Len(r) /\ pushed[i] = st[i - 1]
        BY <3>2, <1>1, <1>2, <2>1
      <4>2. (<<s>> \o r)[i] = r[i - 1]
        BY <3>2, <2>1, <1>1
      <4>3. r[i - 1] = st[i - 1].sig /\ q[i] = pushed[i].sig
        BY <4>1, <2>1, <2>2
      <4> QED
        BY <4>1, <4>2, <4>3
    <3>3. i = 1 \/ i \in 2 .. Len(st)
      BY <1>1
    <3> QED
      BY <3>1, <3>2, <3>3
  <2>5. q = <<s>> \o r
    BY <2>2, <2>3, <2>4, SeqEqual
  <2> QED
    BY <2>5 DEF r, q
<1>6. ASSUME NEW sig
      PROVE  (\E i \in DOMAIN pushed : sig \in pushed[i].todo) <=> \E i \in DOMAIN st : sig \in st[i].todo
  <2>1. ASSUME NEW i \in DOMAIN pushed, sig \in pushed[i].todo
        PROVE  \E j \in DOMAIN st : sig \in st[j].todo
    <3>1. i # 1
      BY <2>1, <1>2
    <3>2. i - 1 \in DOMAIN st /\ pushed[i] = st[i - 1]
      BY <3>1, <1>1, <1>2
    <3> QED
      BY <2>1, <3>2
  <2>2. ASSUME NEW i \in DOMAIN st, sig \in st[i].todo
        PROVE  \E j \in DOMAIN pushed : sig \in pushed[j].todo
    <3>1. i + 1 \in DOMAIN pushed /\ pushed[i + 1] = st[i]
      BY <1>1, <1>2
    <3> QED
      BY <2>2, <3>1
  <2> QED
    BY <2>1, <2>2
<1> QED
  BY <1>4, <1>5, <1>6 DEF WaitingIn

\* What the innermost call of sigprocmask has to raise changes.
LEMMA TopTodo ==
  ASSUME NEW st, StackOK(st), NEW todo \in SUBSET Sig,
         NEW changed, changed = [st EXCEPT ![1].todo = todo]
  PROVE  /\ StackOK(changed)
         /\ Len(changed) = Len(st) /\ changed[1].todo = todo
         /\ RunningIn(changed) = RunningIn(st)
<1>1. /\ st \in Seq(Frame) /\ Len(st) \in Nat /\ Len(st) > 0 /\ DOMAIN st = 1 .. Len(st)
      /\ 1 \in DOMAIN st /\ st[1] \in Frame
  BY DEF StackOK
<1>2. [st[1] EXCEPT !.todo = todo] \in Frame /\ [st[1] EXCEPT !.todo = todo].sig = st[1].sig
      /\ [st[1] EXCEPT !.todo = todo].todo = todo
  BY <1>1 DEF Frame
<1>3. /\ changed \in Seq(Frame) /\ Len(changed) = Len(st) /\ DOMAIN changed = DOMAIN st
      /\ changed[1].sig = st[1].sig /\ changed[1].todo = todo
      /\ \A i \in DOMAIN st : i # 1 => changed[i] = st[i]
  BY <1>1, <1>2
<1>4. \A i \in DOMAIN st : changed[i].sig = st[i].sig
  BY <1>3
<1>5. StackOK(changed)
  BY <1>1, <1>3, <1>4 DEF StackOK
<1>6. RunningIn(changed) = RunningIn(st)
  BY <1>1, <1>3, <1>4 DEF RunningIn
<1> QED
  BY <1>3, <1>5, <1>6

LEMMA TopRaises ==
  ASSUME NEW st, StackOK(st), NEW todo \in SUBSET Sig, NEW sig
  PROVE  Raising([st EXCEPT ![1].todo = todo], sig) <=> (sig \in todo \/ RaisingBelow(st, sig))
<1> DEFINE changed == [st EXCEPT ![1].todo = todo]
<1>1. 1 \in DOMAIN st /\ st[1] \in Frame
  BY DEF StackOK
<1>2. /\ DOMAIN changed = DOMAIN st /\ changed[1].todo = todo
      /\ \A i \in DOMAIN st : i # 1 => changed[i] = st[i]
  BY <1>1 DEF Frame
<1> HIDE DEF changed
<1>3. Raising(changed, sig) <=> (sig \in todo \/ RaisingBelow(st, sig))
  BY <1>1, <1>2 DEF Raising, RaisingBelow
<1> QED
  BY <1>3 DEF changed

\* A handler returns that has nothing left to raise.
LEMMA PopFrame ==
  ASSUME NEW st, StackOK(st), Len(st) > 1, st[1].todo = {}
  PROVE  /\ StackOK(Tail(st))
         /\ RunningIn(st) # <<>> /\ RunningIn(Tail(st)) = Tail(RunningIn(st))
         /\ \A noted : WaitingIn(noted, Tail(st)) = WaitingIn(noted, st)
<1> DEFINE rest == Tail(st)
<1>1. /\ st \in Seq(Frame) /\ Len(st) \in Nat /\ DOMAIN st = 1 .. Len(st)
      /\ st[1].todo = {}
  BY DEF StackOK
<1>2. /\ rest \in Seq(Frame) /\ Len(rest) = Len(st) - 1 /\ DOMAIN rest = 1 .. Len(st) - 1
      /\ \A i \in 1 .. Len(st) - 1 : rest[i] = st[i + 1]
  BY <1>1
<1>3. StackOK(rest)
  <2>1. \A i \in DOMAIN rest : rest[i].sig = -1 <=> i = Len(rest)
    <3> SUFFICES ASSUME NEW i \in DOMAIN rest PROVE rest[i].sig = -1 <=> i = Len(rest)
      OBVIOUS
    <3>1. i + 1 \in DOMAIN st /\ rest[i] = st[i + 1]
      BY <1>1, <1>2
    <3> QED
      BY <3>1, <1>1, <1>2 DEF StackOK
  <2> QED
    BY <2>1, <1>1, <1>2 DEF StackOK
<1>4. RunningIn(st) # <<>> /\ RunningIn(rest) = Tail(RunningIn(st))
  <2> DEFINE S == Sig \cup {-1}
             r == RunningIn(st)
             q == RunningIn(rest)
  <2>1. r \in Seq(S) /\ Len(r) = Len(st) - 1 /\ \A i \in 1 .. Len(st) - 1 : r[i] = st[i].sig
    BY RunningSeq
  <2>2. q \in Seq(S) /\ Len(q) = Len(st) - 2 /\ \A i \in 1 .. Len(st) - 2 : q[i] = rest[i].sig
    <3>1. Len(rest) - 1 = Len(st) - 2
      BY <1>1, <1>2
    <3>2. /\ q \in Seq(S) /\ Len(q) = Len(rest) - 1
          /\ \A i \in 1 .. Len(rest) - 1 : q[i] = rest[i].sig
      BY <1>3, RunningSeq
    <3> QED
      BY <3>1, <3>2
  <2> HIDE DEF r, q
  <2>3. /\ r # <<>> /\ Tail(r) \in Seq(S) /\ Len(Tail(r)) = Len(st) - 2
        /\ \A i \in 1 .. Len(st) - 2 : Tail(r)[i] = r[i + 1]
    BY <2>1, <1>1
  <2>4. \A i \in 1 .. Len(q) : q[i] = Tail(r)[i]
    <3> SUFFICES ASSUME NEW i \in 1 .. Len(st) - 2 PROVE q[i] = Tail(r)[i]
      BY <2>2
    <3>1. i + 1 \in 1 .. Len(st) - 1 /\ rest[i] = st[i + 1]
      BY <1>1, <1>2
    <3> QED
      BY <3>1, <2>1, <2>2, <2>3
  <2>5. q = Tail(r)
    BY <2>2, <2>3, <2>4, SeqEqual
  <2> QED
    BY <2>3, <2>5 DEF r, q
<1>5. ASSUME NEW sig
      PROVE  (\E i \in DOMAIN rest : sig \in rest[i].todo) <=> \E i \in DOMAIN st : sig \in st[i].todo
  <2>1. ASSUME NEW i \in DOMAIN rest, sig \in rest[i].todo
        PROVE  \E j \in DOMAIN st : sig \in st[j].todo
    <3>1. i + 1 \in DOMAIN st /\ rest[i] = st[i + 1]
      BY <1>1, <1>2
    <3> QED
      BY <2>1, <3>1
  <2>2. ASSUME NEW i \in DOMAIN st, sig \in st[i].todo
        PROVE  \E j \in DOMAIN rest : sig \in rest[j].todo
    <3>1. i # 1
      BY <2>2, <1>1
    <3>2. i - 1 \in DOMAIN rest /\ rest[i - 1] = st[i]
      BY <3>1, <1>1, <1>2
    <3> QED
      BY <2>2, <3>2
  <2> QED
    BY <2>1, <2>2
<1> QED
  BY <1>3, <1>4, <1>5 DEF WaitingIn

-----------------------------------------------------------------------------
(* The invariant *)

LEMMA InitInv == Init => IInv
<1> SUFFICES ASSUME Init PROVE IInv
  OBVIOUS
<1> USE DEF Init
<1>1. TypeOK
  <2>1. [sig |-> -1, todo |-> {}] \in Frame
    BY DEF Frame
  <2>2. /\ stack \in Seq(Frame) /\ stack # <<>> /\ Len(stack) = 1 /\ DOMAIN stack = {1}
        /\ stack[1].sig = -1
    BY <2>1
  <2> QED
    BY <2>2 DEF TypeOK, Handlers
<1>2. HeldExactly /\ HandlersKept /\ OnlyWhileBlocked /\ AbortsOnlyBypassed
  BY DEF HeldExactly, HandlersKept, OnlyWhileBlocked, AbortsOnlyBypassed, Has
<1> QED
  BY <1>1, <1>2 DEF IInv

\* What a call of a handler changes, whoever makes it.
LEMMA CallKeeps ==
  ASSUME IInv, NEW s \in Sig, NEW below, StackOK(below), CallHandler(s, below),
         UNCHANGED <<shifts, blocked_set, old_handlers, handlers, mine, bypassed>>
  PROVE  IInv'
<1> USE DEF IInv
<1>1. /\ pending_array' \in [Sig -> {0, 1}]
      /\ \A sig \in Sig : pending_array'[sig] = 1 =>
           pending_array[sig] = 1 \/ (sig = s /\ handlers[s] = "blocked_handler")
  BY DEF CallHandler, Pending, TypeOK
<1>2. StackOK(stack')
  <2>1. StackOK(stack)
    BY DEF TypeOK, StackOK
  <2> QED
    BY <2>1, PushFrame DEF CallHandler
<1>3. died' \in {"no", "default", "abort"} /\ (died' = "abort" => died = "abort")
  BY DEF CallHandler, TypeOK
<1>4. TypeOK'
  BY <1>1, <1>2, <1>3 DEF TypeOK, StackOK
<1>5. HeldExactly' /\ HandlersKept' /\ AbortsOnlyBypassed'
  BY <1>3 DEF HeldExactly, HandlersKept, AbortsOnlyBypassed, Has, Bit
<1>6. OnlyWhileBlocked'
  BY <1>1 DEF OnlyWhileBlocked, HeldExactly, Has, Bit
<1> QED
  BY <1>4, <1>5, <1>6

\* The masks that sigprocmask works with are masks.
LEMMA Masks ==
  ASSUME IInv, NEW operation \in {"SIG_BLOCK", "SIG_SETMASK", "SIG_UNBLOCK"}, NEW set \in SignalSets
  PROVE  new_blocked_set(operation, set) \in SUBSET Bits
<1>1. set \in SUBSET Bits
  BY DEF SignalSets, Added, Deleted
<1> QED
  BY <1>1 DEF new_blocked_set, IInv, TypeOK

\* sigprocmask, with some new mask.
LEMMA MaskKeeps ==
  ASSUME IInv, NEW operation \in {"SIG_BLOCK", "SIG_SETMASK", "SIG_UNBLOCK"}, NEW set \in SignalSets,
         sigprocmask(operation, set)
  PROVE  IInv'
<1> DEFINE new     == new_blocked_set(operation, set)
           block   == {sig \in Sig : Has(ToBlock(new), sig)}
           unblock == {sig \in Sig : Has(ToUnblock(new), sig)}
           kept    == [sig \in Sig |-> IF sig \in block THEN handlers[sig] ELSE old_handlers[sig]]
           ours    == [sig \in Sig |-> IF sig \in block THEN "blocked_handler" ELSE handlers[sig]]
<1>1. new \in SUBSET Bits
  BY Masks
<1> HIDE DEF new
<1>2. /\ TypeOK /\ HeldExactly /\ HandlersKept /\ OnlyWhileBlocked /\ AbortsOnlyBypassed
      /\ UNCHANGED <<shifts, mine, bypassed>> /\ died = "no"
  BY DEF IInv, sigprocmask, Program
<1>3. ASSUME NEW sig \in Sig
      PROVE  /\ sig \in block   <=> Has(new, sig) /\ ~Has(blocked_set, sig)
             /\ sig \in unblock <=> ~Has(new, sig) /\ Has(blocked_set, sig)
             /\ Has(new, sig)' <=> Has(new', sig)
  BY <1>2 DEF Has, ToBlock, ToUnblock, Bit
<1>4. \A sig \in Sig : ours[sig] = IF sig \in block THEN "blocked_handler" ELSE handlers[sig]
  OBVIOUS
<1>5. CASE \E sig \in unblock : ours[sig] # "blocked_handler"
  <2>1. died' = "abort" /\ UNCHANGED <<masks, handlers, stack>>
    BY <1>5 DEF sigprocmask, new
  <2>2. bypassed # {}
    <3>1. PICK sig \in unblock : ours[sig] # "blocked_handler"
      BY <1>5
    <3>2. sig \in Sig /\ Has(blocked_set, sig) /\ handlers[sig] # "blocked_handler"
      BY <3>1, <1>3, <1>4
    <3> QED
      BY <3>2, <1>2 DEF HeldExactly
  <2>3. TypeOK'
    BY <2>1, <1>2 DEF TypeOK, masks
  <2>4. HeldExactly' /\ HandlersKept' /\ OnlyWhileBlocked'
    BY <2>1, <1>2 DEF masks, HeldExactly, HandlersKept, OnlyWhileBlocked, Has, Bit
  <2>5. AbortsOnlyBypassed'
    BY <2>2, <1>2 DEF AbortsOnlyBypassed
  <2> QED
    BY <2>3, <2>4, <2>5 DEF IInv
<1>6. CASE \A sig \in unblock : ours[sig] = "blocked_handler"
  <2>1. /\ blocked_set' = new /\ UNCHANGED died
        /\ old_handlers' = kept
        /\ handlers' = [sig \in Sig |-> IF sig \in unblock THEN kept[sig] ELSE ours[sig]]
        /\ pending_array' = [sig \in Sig |-> IF sig \in block \cup unblock THEN 0 ELSE pending_array[sig]]
        /\ stack' = [stack EXCEPT ![1].todo = Received(unblock)]
    BY <1>6 DEF sigprocmask, new, NewBits
  <2>2. ASSUME NEW sig \in Sig
        PROVE  /\ Has(blocked_set, sig)' <=> Has(new, sig)
               /\ old_handlers'[sig] = IF sig \in block THEN handlers[sig] ELSE old_handlers[sig]
               /\ handlers'[sig] = IF sig \in unblock THEN kept[sig]
                                   ELSE IF sig \in block THEN "blocked_handler" ELSE handlers[sig]
               /\ kept[sig] = IF sig \in block THEN handlers[sig] ELSE old_handlers[sig]
               /\ pending_array'[sig] = IF sig \in block \/ sig \in unblock THEN 0 ELSE pending_array[sig]
    <3>1. Has(blocked_set, sig)' <=> Has(new, sig)
      BY <2>1, <1>2 DEF Has, Bit
    <3> QED
      BY <2>1, <3>1
  <2>3. Received(unblock) \in SUBSET Sig
    BY DEF Received
  <2>4. StackOK(stack')
    <3>1. StackOK(stack)
      BY <1>2 DEF TypeOK, StackOK
    <3> QED
      BY <3>1, <2>1, <2>3, TopTodo
  <2>5. /\ handlers' \in [Sig -> Handlers] /\ old_handlers' \in [Sig -> Handlers]
        /\ pending_array' \in [Sig -> {0, 1}]
    <3>1. handlers \in [Sig -> Handlers] /\ old_handlers \in [Sig -> Handlers] /\ pending_array \in [Sig -> {0, 1}]
      BY <1>2 DEF TypeOK
    <3>2. kept \in [Sig -> Handlers] /\ ours \in [Sig -> Handlers]
      BY <3>1 DEF Handlers
    <3> QED
      BY <2>1, <3>1, <3>2
  <2>6. TypeOK'
    BY <2>1, <2>4, <2>5, <1>1, <1>2 DEF TypeOK, StackOK
  <2>7. ASSUME NEW sig \in Sig
        PROVE  /\ mine[sig] \in {"app", "default"} /\ mine[sig] # "blocked_handler"
               /\ handlers[sig] = "blocked_handler" <=> Has(blocked_set, sig) /\ sig \notin bypassed
               /\ mine[sig] = IF Has(blocked_set, sig) THEN old_handlers[sig] ELSE handlers[sig]
               /\ pending_array[sig] = 1 \/ sig \in bypassed => Has(blocked_set, sig)
               /\ sig \in unblock => handlers[sig] = "blocked_handler"
    <3>1. mine[sig] \in {"app", "default"}
      BY <1>2 DEF TypeOK
    <3>2. sig \in unblock => handlers[sig] = "blocked_handler"
      BY <1>3, <1>4, <1>6
    <3> QED
      BY <3>1, <3>2, <1>2 DEF HeldExactly, HandlersKept, OnlyWhileBlocked
  <2>8. HeldExactly'
    <3> SUFFICES ASSUME NEW sig \in Sig
                 PROVE  handlers'[sig] = "blocked_handler" <=> Has(new, sig) /\ sig \notin bypassed
      BY <2>2, <1>2 DEF HeldExactly
    <3> QED
      BY <1>3, <2>2, <2>7
  <2>9. HandlersKept'
    <3> SUFFICES ASSUME NEW sig \in Sig
                 PROVE  mine[sig] = IF Has(new, sig) THEN old_handlers'[sig] ELSE handlers'[sig]
      BY <2>2, <1>2 DEF HandlersKept
    <3> QED
      BY <1>3, <2>2, <2>7
  <2>10. OnlyWhileBlocked'
    <3> SUFFICES ASSUME NEW sig \in Sig, pending_array'[sig] = 1 \/ sig \in bypassed
                 PROVE  Has(new, sig)
      BY <2>2, <1>2 DEF OnlyWhileBlocked
    <3> QED
      BY <1>3, <2>2, <2>7
  <2>11. AbortsOnlyBypassed'
    BY <2>1, <1>2 DEF AbortsOnlyBypassed
  <2> QED
    BY <2>6, <2>8, <2>9, <2>10, <2>11 DEF IInv
<1> QED
  BY <1>5, <1>6

LEMMA NextInv == IInv /\ [Next]_vars => IInv'
<1> SUFFICES ASSUME IInv, [Next]_vars PROVE IInv'
  OBVIOUS
<1>0. StackOK(stack) /\ Len(stack) \in Nat /\ Len(stack) > 0
  BY DEF IInv, TypeOK, StackOK
<1>1. ASSUME NEW sig \in Sig, raise(sig) PROVE IInv'
  BY <1>0, <1>1, CallKeeps DEF raise
<1>2. ASSUME NEW sig \in Sig, signal_back(sig) PROVE IInv'
  <2>1. /\ handlers' = [handlers EXCEPT ![sig] = "blocked_handler"] /\ bypassed' = bypassed \ {sig}
        /\ UNCHANGED <<shifts, blocked_set, pending_array, old_handlers, stack, died, mine>>
        /\ sig \in bypassed /\ died = "no"
    BY <1>2 DEF signal_back, masks, Program
  <2>2. TypeOK'
    BY <2>1 DEF IInv, TypeOK, Handlers
  <2>3. Has(blocked_set, sig)
    BY <2>1 DEF IInv, OnlyWhileBlocked
  <2>4. HeldExactly' /\ HandlersKept' /\ OnlyWhileBlocked' /\ AbortsOnlyBypassed'
    BY <2>1, <2>3 DEF IInv, TypeOK, HeldExactly, HandlersKept, OnlyWhileBlocked, AbortsOnlyBypassed, Has, Bit
  <2> QED
    BY <2>2, <2>4 DEF IInv
<1>3. ASSUME NEW sig \in Sig, NEW h \in {"app", "default"}, signal(sig, h) PROVE IInv'
  <2>1. /\ handlers' = [handlers EXCEPT ![sig] = h]
        /\ UNCHANGED <<shifts, blocked_set, pending_array, old_handlers, stack, died>> /\ died = "no"
    BY <1>3 DEF signal, masks, Program
  <2>2. CASE Has(blocked_set, sig)
    <3>1. bypassed' = bypassed \cup {sig} /\ UNCHANGED mine
      BY <1>3, <2>2 DEF signal
    <3>2. TypeOK'
      BY <2>1, <3>1 DEF IInv, TypeOK, Handlers
    <3>3. HeldExactly' /\ HandlersKept' /\ OnlyWhileBlocked' /\ AbortsOnlyBypassed'
      BY <2>1, <2>2, <3>1 DEF IInv, TypeOK, HeldExactly, HandlersKept, OnlyWhileBlocked, AbortsOnlyBypassed, Has, Bit
    <3> QED
      BY <3>2, <3>3 DEF IInv
  <2>3. CASE ~Has(blocked_set, sig)
    <3>1. mine' = [mine EXCEPT ![sig] = h] /\ UNCHANGED bypassed
      BY <1>3, <2>3 DEF signal
    <3>2. TypeOK'
      BY <2>1, <3>1 DEF IInv, TypeOK, Handlers
    <3>3. HeldExactly' /\ HandlersKept' /\ OnlyWhileBlocked' /\ AbortsOnlyBypassed'
      BY <2>1, <2>3, <3>1 DEF IInv, TypeOK, HeldExactly, HandlersKept, OnlyWhileBlocked, AbortsOnlyBypassed, Has, Bit
    <3> QED
      BY <3>2, <3>3 DEF IInv
  <2> QED
    BY <2>2, <2>3
<1>4. CASE Mask
  BY <1>4, MaskKeeps DEF Mask
<1>5. CASE HandlerReturns
  <2>1. /\ stack' = Tail(stack) /\ Len(stack) > 1 /\ stack[1].todo = {}
        /\ UNCHANGED <<shifts, blocked_set, pending_array, old_handlers, handlers, died, mine, bypassed>>
    BY <1>5 DEF HandlerReturns, masks, Program, Top
  <2>2. StackOK(stack')
    BY <2>1, <1>0, PopFrame
  <2>3. TypeOK'
    BY <2>1, <2>2 DEF IInv, TypeOK, StackOK
  <2>4. HeldExactly' /\ HandlersKept' /\ OnlyWhileBlocked' /\ AbortsOnlyBypassed'
    BY <2>1 DEF IInv, HeldExactly, HandlersKept, OnlyWhileBlocked, AbortsOnlyBypassed, Has, Bit
  <2> QED
    BY <2>3, <2>4 DEF IInv
<1>6. CASE RaiseReceived
  <2>1. stack[1].todo \in SUBSET Sig
    <3>1. stack \in Seq(Frame) /\ stack[1] \in Frame
      BY <1>0 DEF StackOK
    <3> QED
      BY <3>1 DEF Frame
  <2>3. PICK sig \in stack[1].todo : CallHandler(sig, [stack EXCEPT ![1].todo = @ \ {sig}])
    BY <1>6 DEF RaiseReceived, Top
  <2>4. [stack EXCEPT ![1].todo = @ \ {sig}] = [stack EXCEPT ![1].todo = stack[1].todo \ {sig}]
    BY <1>0 DEF StackOK
  <2>5. StackOK([stack EXCEPT ![1].todo = @ \ {sig}])
    BY <2>1, <2>4, <1>0, TopTodo
  <2>6. sig \in Sig
    BY <2>1, <2>3
  <2> QED
    BY <2>3, <2>5, <2>6, <1>6, CallKeeps DEF RaiseReceived
<1>7. CASE UNCHANGED vars
  <2>1. UNCHANGED <<shifts, blocked_set, pending_array, old_handlers, handlers, stack, died, mine, bypassed>>
    BY <1>7 DEF vars, masks
  <2>2. TypeOK'
    BY <2>1 DEF IInv, TypeOK
  <2>3. HeldExactly' /\ HandlersKept' /\ OnlyWhileBlocked' /\ AbortsOnlyBypassed'
    BY <2>1 DEF IInv, HeldExactly, HandlersKept, OnlyWhileBlocked, AbortsOnlyBypassed, Has, Bit
  <2> QED
    BY <2>2, <2>3 DEF IInv
<1> QED
  BY <1>1, <1>2, <1>3, <1>4, <1>5, <1>6, <1>7 DEF Next, Signals

\* For every number of signals and every width of a set: the state of
\* sigprocmask has its types.
THEOREM TypeCorrect == Spec => []TypeOK
BY InitInv, NextInv, PTL DEF Spec, IInv

\* The loops over blocked_set hold back exactly the signals it has bits for.
THEOREM AlwaysHeldExactly == Spec => []HeldExactly
BY InitInv, NextInv, PTL DEF Spec, IInv

\* However calls of sigprocmask nest, the handlers of the program come back.
THEOREM HandlersAlwaysKept == Spec => []HandlersKept
BY InitInv, NextInv, PTL DEF Spec, IInv

\* sigprocmask aborts only a program that changed a handler behind its back.
THEOREM AbortsOnlyWhenBypassed == Spec => []AbortsOnlyBypassed
BY InitInv, NextInv, PTL DEF Spec, IInv

-----------------------------------------------------------------------------
(* Refinement *)

\* A call of a handler as POSIX sees it: the signal waits, it is delivered, or
\* the process ends.
LEMMA CallMaps ==
  ASSUME IInv, died = "no", NEW s \in Sig, NEW below, StackOK(below), CallHandler(s, below)
  PROVE  \/ /\ s \in HeldBy(handlers) /\ died' = "no"
            /\ RunningIn(stack') = RunningIn(below)
            /\ WaitingIn(pending_array', stack') = WaitingIn(pending_array, below) \cup {s}
         \/ /\ s \notin HeldBy(handlers) /\ died' = "no"
            /\ RunningIn(stack') \in {<<s>> \o RunningIn(below), RunningIn(below)}
            /\ WaitingIn(pending_array', stack') = WaitingIn(pending_array, below)
         \/ died' = "default" /\ UNCHANGED <<pending_array, stack>>
<1>1. CASE handlers[s] = "blocked_handler"
  <2>1. /\ pending_array' = [pending_array EXCEPT ![s] = 1] /\ stack' = below /\ died' = "no"
        /\ pending_array \in [Sig -> {0, 1}]
    BY <1>1 DEF CallHandler, Pending, IInv, TypeOK
  <2>2. WaitingIn(pending_array', stack') = WaitingIn(pending_array, below) \cup {s}
    BY <2>1 DEF WaitingIn
  <2> QED
    BY <1>1, <2>1, <2>2 DEF HeldBy
<1>2. CASE handlers[s] # "blocked_handler"
  <2>1. s \notin HeldBy(handlers)
    BY <1>2 DEF HeldBy
  <2>2. \/ /\ stack' = <<[sig |-> s, todo |-> {}]>> \o below /\ died' = "no" /\ UNCHANGED pending_array
        \/ /\ died' = "default" /\ UNCHANGED <<pending_array, stack>>
        \/ /\ stack' = below /\ died' = "no" /\ UNCHANGED pending_array
    BY <1>2 DEF CallHandler
  <2>3. CASE stack' = <<[sig |-> s, todo |-> {}]>> \o below /\ died' = "no" /\ UNCHANGED pending_array
    <3>1. /\ RunningIn(stack') = <<s>> \o RunningIn(below)
          /\ \A noted : WaitingIn(noted, stack') = WaitingIn(noted, below)
      BY <2>3, PushFrame
    <3> QED
      BY <2>1, <2>3, <3>1
  <2> QED
    BY <2>1, <2>2, <2>3
<1> QED
  BY <1>1, <1>2

\* A call of sigprocmask that does not abort neither loses a signal that waits
\* nor makes one up.
LEMMA MaskMaps ==
  ASSUME IInv, NEW operation \in {"SIG_BLOCK", "SIG_SETMASK", "SIG_UNBLOCK"}, NEW set \in SignalSets,
         sigprocmask(operation, set)
  PROVE  \/ died' = "abort" /\ UNCHANGED <<masks, handlers, stack>>
         \/ /\ UNCHANGED died
            /\ RunningIn(stack') = RunningIn(stack)
            /\ WaitingIn(pending_array', stack') = WaitingIn(pending_array, stack)
<1> DEFINE new     == new_blocked_set(operation, set)
           block   == {sig \in Sig : Has(ToBlock(new), sig)}
           unblock == {sig \in Sig : Has(ToUnblock(new), sig)}
<1> HIDE DEF new
<1>1. CASE UNCHANGED died
  <2>1. /\ pending_array' = [sig \in Sig |-> IF sig \in block \cup unblock THEN 0 ELSE pending_array[sig]]
        /\ stack' = [stack EXCEPT ![1].todo = Received(unblock)]
        /\ stack[1].todo = {}
    BY <1>1 DEF sigprocmask, new, Program, Top
  <2>2. StackOK(stack) /\ pending_array \in [Sig -> {0, 1}]
    BY DEF IInv, TypeOK, StackOK
  <2>3. Received(unblock) = {sig \in unblock : pending_array[sig] = 1} /\ Received(unblock) \in SUBSET Sig
    BY DEF Received
  <2> HIDE DEF block, unblock
  <2>4. /\ RunningIn(stack') = RunningIn(stack)
        /\ \A sig : Raising(stack', sig) <=> (sig \in Received(unblock) \/ RaisingBelow(stack, sig))
    <3>1. RunningIn(stack') = RunningIn(stack)
      BY <2>1, <2>2, <2>3, TopTodo
    <3> QED
      BY <3>1, <2>1, <2>2, <2>3, TopRaises
  <2>5. \A sig : RaisingBelow(stack, sig) <=> Raising(stack, sig)
    BY <2>1 DEF Raising, RaisingBelow
  <2>6. ASSUME NEW sig \in Sig, pending_array[sig] = 1 PROVE sig \notin block
    BY <2>6 DEF IInv, OnlyWhileBlocked, Has, ToBlock, block
  <2>7. ASSUME NEW sig \in Sig
        PROVE  pending_array'[sig] = 1 \/ sig \in Received(unblock) <=> pending_array[sig] = 1
    <3>1. pending_array'[sig] = IF sig \in block \cup unblock THEN 0 ELSE pending_array[sig]
      BY <2>1
    <3> QED
      BY <3>1, <2>2, <2>3, <2>6 DEF block, unblock
  <2>8. WaitingIn(pending_array', stack') = WaitingIn(pending_array, stack)
    BY <2>4, <2>5, <2>7 DEF WaitingIn, Raising, block, unblock
  <2> QED
    BY <1>1, <2>4, <2>8
<1>2. CASE died' # died
  BY <1>2 DEF sigprocmask
<1> QED
  BY <1>1, <1>2

LEMMA HeldAreSignals == HeldBy(handlers)' \in SUBSET Sig
BY DEF HeldBy

LEMMA StepMaps == IInv /\ IInv' /\ [Next]_vars => [Posix!Next]_(Posix!vars)
<1> SUFFICES ASSUME IInv, IInv', [Next]_vars PROVE [Posix!Next]_(Posix!vars)
  OBVIOUS
<1>0. StackOK(stack) /\ stack \in Seq(Frame) /\ Len(stack) \in Nat /\ Len(stack) > 0 /\ stack[1] \in Frame
  BY DEF IInv, TypeOK, StackOK
<1>1. ASSUME NEW sig \in Sig, raise(sig) PROVE Posix!Next
  <2>1. CallHandler(sig, stack) /\ died = "no" /\ handlers' = handlers
    BY <1>1 DEF raise, Program
  <2>2. Posix!Send(sig) \/ Posix!End
    BY <1>0, <2>1, CallMaps DEF Posix!Send, Posix!End, Posix!Delivered
  <2> QED
    BY <2>1, <2>2 DEF Posix!Next
<1>2. ASSUME NEW sig \in Sig, signal_back(sig) \/ \E h \in {"app", "default"} : signal(sig, h)
      PROVE  Posix!Next
  <2>1. UNCHANGED <<pending_array, stack, died>> /\ died = "no"
    BY <1>2 DEF signal_back, signal, masks, Program
  <2>2. Posix!SetMask
    BY <2>1, HeldAreSignals DEF Posix!SetMask
  <2> QED
    BY <2>1, <2>2 DEF Posix!Next
<1>3. CASE Mask
  <2>1. PICK operation \in {"SIG_BLOCK", "SIG_SETMASK", "SIG_UNBLOCK"}, set \in SignalSets :
          sigprocmask(operation, set)
    BY <1>3 DEF Mask
  <2>2. died = "no"
    BY <2>1 DEF sigprocmask, Program
  <2>3. CASE died' = "abort" /\ UNCHANGED <<masks, handlers, stack>>
    <3>1. Posix!End
      BY <2>3 DEF Posix!End, masks
    <3> QED
      BY <2>2, <3>1 DEF Posix!Next
  <2>4. CASE /\ UNCHANGED died
             /\ RunningIn(stack') = RunningIn(stack)
             /\ WaitingIn(pending_array', stack') = WaitingIn(pending_array, stack)
    <3>1. Posix!SetMask
      BY <2>4, HeldAreSignals DEF Posix!SetMask
    <3> QED
      BY <2>2, <3>1 DEF Posix!Next
  <2> QED
    BY <2>1, <2>3, <2>4, MaskMaps
<1>4. CASE HandlerReturns
  <2>1. /\ stack' = Tail(stack) /\ Len(stack) > 1 /\ stack[1].todo = {}
        /\ UNCHANGED <<pending_array, handlers, died>> /\ died = "no"
    BY <1>4 DEF HandlerReturns, masks, Program, Top
  <2>2. Posix!HandlerReturns
    BY <1>0, <2>1, PopFrame DEF Posix!HandlerReturns
  <2> QED
    BY <2>1, <2>2 DEF Posix!Next
<1>5. CASE RaiseReceived
  <2>1. stack[1].todo \in SUBSET Sig
    BY <1>0 DEF Frame
  <2>2. PICK sig \in stack[1].todo : CallHandler(sig, [stack EXCEPT ![1].todo = @ \ {sig}])
    BY <1>5 DEF RaiseReceived, Top
  <2>3. sig \in Sig /\ died = "no" /\ handlers' = handlers
    BY <1>5, <2>1, <2>2 DEF RaiseReceived
  <2> DEFINE below == [stack EXCEPT ![1].todo = @ \ {sig}]
  <2>4. below = [stack EXCEPT ![1].todo = stack[1].todo \ {sig}]
    BY <1>0
  <2> HIDE DEF below
  <2>5. /\ StackOK(below) /\ RunningIn(below) = RunningIn(stack)
        /\ \A s : Raising(below, s) <=> (s \in stack[1].todo \ {sig} \/ RaisingBelow(stack, s))
    <3>1. stack[1].todo \ {sig} \in SUBSET Sig
      BY <2>1
    <3>2. StackOK(below) /\ RunningIn(below) = RunningIn(stack)
      BY <2>4, <3>1, <1>0, TopTodo
    <3>3. \A s : Raising(below, s) <=> (s \in stack[1].todo \ {sig} \/ RaisingBelow(stack, s))
      BY <2>4, <3>1, <1>0, TopRaises
    <3> QED
      BY <3>2, <3>3
  <2>6. 1 \in DOMAIN stack
    BY <1>0
  <2>7. /\ sig \in WaitingIn(pending_array, stack)
        /\ WaitingIn(pending_array, below) \cup {sig} = WaitingIn(pending_array, stack)
        /\ WaitingIn(pending_array, below) \in
             {WaitingIn(pending_array, stack), WaitingIn(pending_array, stack) \ {sig}}
    <3>1. ASSUME NEW s \in Sig, s # sig
          PROVE  Raising(below, s) <=> Raising(stack, s)
      BY <2>5, <2>6, <3>1 DEF Raising, RaisingBelow
    <3>2. \A s \in Sig : s # sig => (s \in WaitingIn(pending_array, below) <=> s \in WaitingIn(pending_array, stack))
      BY <3>1 DEF WaitingIn, Raising
    <3>3. /\ sig \in WaitingIn(pending_array, stack)
          /\ WaitingIn(pending_array, below) \subseteq Sig /\ WaitingIn(pending_array, stack) \subseteq Sig
      BY <2>2, <2>3, <2>6 DEF WaitingIn
    <3> QED
      BY <3>2, <3>3
  <2>8. CallHandler(sig, below)
    BY <2>2 DEF below
  <2>9. CASE sig \in HeldBy(handlers) /\ died' = "no" /\ RunningIn(stack') = RunningIn(below)
             /\ WaitingIn(pending_array', stack') = WaitingIn(pending_array, below) \cup {sig}
    BY <2>3, <2>5, <2>7, <2>9 DEF Posix!vars
  <2>10. CASE /\ sig \notin HeldBy(handlers) /\ died' = "no"
              /\ RunningIn(stack') \in {<<sig>> \o RunningIn(below), RunningIn(below)}
              /\ WaitingIn(pending_array', stack') = WaitingIn(pending_array, below)
    <3>1. Posix!Deliver(sig)
      BY <2>3, <2>5, <2>7, <2>10 DEF Posix!Deliver, Posix!Delivered
    <3> QED
      BY <2>3, <3>1 DEF Posix!Next
  <2>11. CASE died' = "default" /\ UNCHANGED <<pending_array, stack>>
    <3>1. Posix!End
      BY <2>3, <2>11 DEF Posix!End
    <3> QED
      BY <2>3, <3>1 DEF Posix!Next
  <2> QED
    BY <2>3, <2>5, <2>8, <2>9, <2>10, <2>11, CallMaps
<1>6. CASE UNCHANGED vars
  BY <1>6 DEF vars, masks, Posix!vars
<1> QED
  BY <1>1, <1>2, <1>3, <1>4, <1>5, <1>6 DEF Next, Signals

LEMMA InitMaps == Init => Posix!Init
<1> SUFFICES ASSUME Init PROVE Posix!Init
  OBVIOUS
<1>1. Len(stack) = 1 /\ DOMAIN stack = {1} /\ stack[1].todo = {}
  BY DEF Init
<1>2. HeldBy(handlers) = {} /\ died = "no"
  BY DEF Init, HeldBy
<1>3. WaitingIn(pending_array, stack) = {}
  BY <1>1 DEF Init, WaitingIn
<1>4. RunningIn(stack) = <<>>
  BY <1>1 DEF RunningIn
<1> QED
  BY <1>2, <1>3, <1>4 DEF Posix!Init

\* sigprocmask, blocked_handler and the handlers they swap implement what POSIX
\* promises: a blocked signal waits and none is forgotten.
THEOREM ImplementsMask == Spec => KeepsMask
<1>1. Spec => []IInv
  BY InitInv, NextInv, PTL DEF Spec
<1> QED
  BY <1>1, InitMaps, StepMaps, PTL DEF Spec, KeepsMask, Posix!Spec
=============================================================================
