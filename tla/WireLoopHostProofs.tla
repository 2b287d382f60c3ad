------------------------- MODULE WireLoopHostProofs -------------------------
(***************************************************************************)
(* What interactive_one does for hosts whose requests are Announced, of    *)
(* any number and size: each request is taken whole, its replies reach the *)
(* host, and nothing of it is left for the next call.                      *)
(***************************************************************************)
EXTENDS WireLoopProofs, SequenceTheorems

-----------------------------------------------------------------------------
(* The invariant *)

Begun  == {"dispatch", "copying", "rfq", "error", "trapped"}
First  == pc = "incoming" /\ firstchar = "none"        \* no message was read yet
Later  == pc \in Begun \/ (pc = "incoming" /\ firstchar # "none")
Enters  == pc = "enter" /\ cma_rsize >= 0
Resumes == pc = "enter" /\ cma_rsize < 0
AtHost  == pc \in {"host", "return", "returned"} \/ Enters

\* The mode of a call, and the locals between two calls.
Control ==
  /\ pc # "host" => call \in Calls /\ is_wire = (call.mode = "wire") /\ is_repl = (call.mode = "repl")
  /\ pc \in {"host", "enter", "request", "returned"} =>
       firstchar = "none" /\ peek = "none" /\ pipelining = TRUE /\ canary_ex = 0 /\ fp = FALSE
  /\ cma_rsize < 0 => ~Sjlj /\ pc \in {"enter", "flush", "publish", "return"}
  /\ pc = "trapped" => ~Sjlj
  /\ pc = "error" => Sjlj
  /\ ~Sjlj \/ ~is_wire => canary_ex = 0
  /\ Later => firstchar # "none" /\ (~is_wire => firstchar = "Q")
  /\ pc = "copying" => firstchar = "copy"

\* The request is where the call looks for it.
Asked ==
  /\ pc \in {"host", "returned"} => recv.mem["cma"] = <<>>
  /\ Enters \/ pc = "request" =>
       /\ cma_rsize = IF call.port = "cma" THEN Len(call.frame) ELSE 0
       /\ recv.mem["cma"] = IF call.port \in {"cma", "memory"} THEN call.frame ELSE <<>>
       /\ call.port = "file" => PGS_IN = call.frame
       /\ is_wire => (ClientAuthInProgress <=> call.frame \in Passwords)
  /\ First /\ is_wire /\ cma_rsize > 0 =>
       /\ recv.mem["cma"] = call.frame /\ cma_rsize = Len(call.frame)
       /\ ClientAuthInProgress <=> call.frame \in Passwords
  /\ PGS_IN # NoFile => fp \/ ~Sjlj \/ ((Enters \/ pc = "request") /\ call.port = "file")
  /\ PGS_IN # NoFile /\ ~Sjlj => \E x \in Calls : x.port = "file" /\ x.frame = PGS_IN

\* What pq_recvbuf holds: the messages of the request, a well-formed one; of a
\* wasi host's, whose file may be an earlier call's, a single one.
Plain  == Extended \cup Copying \cup {"Q", "copy", "F", "S", "X"}
Frame  == recv.mem[recv.loc]
Filling == /\ IF Sjlj THEN Frame = call.frame ELSE Len(Frame) <= 1
           /\ WellFormed(Frame) /\ recv.len = Len(Frame)

\* The request is read from its first message to its last.
Reads ==
  /\ ~is_wire \/ pc \in {"host", "enter", "request", "flush", "publish", "return", "returned"} => ~More(recv)
  /\ First => pipelining
  /\ First /\ is_wire =>
       /\ canary_ex = 0
       /\ cma_rsize > 0 => ~More(recv) /\ ~send.sockfiles /\ peek = Head1(recv.mem["cma"])
       /\ cma_rsize = 0 => peek = "other" /\ send.sockfiles /\ recv.ptr = 0 /\ More(recv) /\ Filling
  /\ Later /\ is_wire =>
       /\ Filling /\ recv.ptr >= 1 /\ peek = "other" /\ firstchar \in Plain
       /\ canary_ex <= recv.ptr /\ (pc # "incoming" => canary_ex < recv.ptr)
       /\ More(recv) => pipelining
       /\ pc = "incoming" /\ pipelining => More(recv)
       /\ pc = "dispatch" => firstchar = Frame[recv.ptr]
       /\ pc = "copying" => Completed(Frame, recv.ptr)
  /\ Later /\ ~is_wire => pipelining = FALSE

\* The destination of the replies: the client, or the terminal.
Where ==
  /\ is_wire /\ (pc = "incoming" \/ Later) => whereToSendOutput = "Remote"
  /\ ~is_wire /\ Later => whereToSendOutput = "Debug"

\* The send side between two calls; before the first reply; while replies to a
\* client are made; and while those of a terminal are.
Shut(s)   == s.SOCKET_DATA = 0 /\ (s.SOCKET_FILE => s.olock = <<>>)
Fresh(s)  == s.SOCKET_DATA = 0 /\ s.SOCKET_FILE /\ s.olock = <<>> /\ s.emitted = <<>>
Loose(s)  == s.SOCKET_FILE /\ s.SOCKET_DATA = Len(s.emitted) /\ (~s.sockfiles => s.olock = <<>>)
Placed(s, base) == /\ Loose(s)
                   /\ s.sockfiles => s.olock = s.emitted
                   /\ ~s.sockfiles => s.sent = s.emitted /\ s.base = base

\* Every reply made in a call is in one place, in order, until it is published.
Sends ==
  /\ AtHost => Shut(send)
  /\ pc = "host" \/ Enters => send.emitted = <<>>
  /\ pc = "request" \/ First \/ (Later /\ ~is_wire) => Fresh(send)
  /\ is_wire /\ (Later \/ Resumes \/ pc \in {"flush", "publish"}) => Placed(send, 2 + Len(call.frame))
  /\ ~is_wire /\ pc \in {"flush", "publish"} => Loose(send)

\* A notification waits for a call to be sent by, never for the second one.
Noticed == notifyInterruptPending /\ transaction = "none" /\ ~ClientAuthInProgress
Notices ==
  /\ ~MyProcPort => ~notifyInterruptPending /\ ~ClientAuthInProgress /\ (pc = "host" \/ Enters)
  /\ AtHost => (send_ready_for_query /\ whereToSendOutput = "Remote" => ~notifyInterruptPending)
  /\ pc = "request" \/ First => ~send_ready_for_query /\ ~Noticed
  /\ pc = "host" \/ Enters \/ (~is_wire /\ (Later \/ pc \in {"return", "returned"})) =>
       (Noticed => send_ready_for_query)
  /\ is_wire /\ pc \in {"publish", "return", "returned"} =>
       ~Noticed /\ (send_ready_for_query => ClientAuthInProgress)
  /\ ~is_wire /\ pc \in {"flush", "publish"} => (send_ready_for_query => whereToSendOutput # "Remote")
  /\ pc = "publish" => ~Noticed
  /\ is_wire /\ ClientAuthInProgress =>
       /\ ~Later /\ (First => peek = "p")
       /\ pc \in {"flush", "publish"} \/ Resumes => (send_ready_for_query => ~notifyInterruptPending)

\* The process aborts in the middle of a request with many messages, or over a
\* request file that is taken for a password and is none.
Aborts == pc = "broken" =>
            \/ firstchar # "none" /\ Len(call.frame) > CanaryMax + 2
            \/ PGS_IN \notin {NoFile, <<>>} /\ PGS_IN[1] \in {"badp", "psql"}

\* What holds when a password was refused, besides; no message is begun.
Refused == pc = "refused" =>
  /\ is_wire /\ call.frame = <<"badp">> /\ cma_rsize \in Nat
  /\ ClientAuthInProgress /\ ~send_ready_for_query
  /\ firstchar = "none" /\ whereToSendOutput = "Remote"
  /\ ~More(recv) /\ Placed(send, 2 + Len(call.frame))
Settled == Refused /\ ~recv.reading /\ (notifyInterruptPending => Notifies)

Conduct == Aborts /\ Control /\ Asked /\ Reads /\ Where /\ Sends /\ Notices
HInv    == IInv /\ Conduct /\ Settled

-----------------------------------------------------------------------------
(* Replies *)

\* What internal_putbytes does to each part of the send side.
LEMMA PutParts ==
  ASSUME NEW s \in SendType, NEW reply \in Replies
  PROVE  /\ Put(s, reply).emitted = Append(s.emitted, reply)
         /\ Put(s, reply).SOCKET_DATA = s.SOCKET_DATA + 1
         /\ Put(s, reply).base = s.base /\ Put(s, reply).SOCKET_FILE = s.SOCKET_FILE
         /\ ~s.sockfiles /\ Len(s.sent) < CmaRoom =>
              /\ ~Put(s, reply).sockfiles
              /\ Put(s, reply).sent = Append(s.sent, reply) /\ Put(s, reply).olock = s.olock
         /\ ~s.sockfiles /\ ~(Len(s.sent) < CmaRoom) =>
              Put(s, reply).sockfiles /\ Put(s, reply).olock = Append(s.olock \o s.sent, reply)
         /\ s.sockfiles => Put(s, reply).sockfiles /\ Put(s, reply).olock = Append(s.olock, reply)
<1> DEFINE memory == ~s.sockfiles /\ Len(s.sent) < CmaRoom
           before == IF s.sockfiles THEN s.olock ELSE s.olock \o s.sent
<1>1. CASE memory
  <2>1. Put(s, reply) = [s EXCEPT !.sockfiles = FALSE, !.sent = Append(s.sent, reply),
                                  !.olock = s.olock, !.SOCKET_DATA = s.SOCKET_DATA + 1,
                                  !.emitted = Append(s.emitted, reply)]
    BY <1>1 DEF Put
  <2> QED
    BY <2>1, <1>1 DEF SendType
<1>2. CASE ~memory
  <2>1. Put(s, reply) = [s EXCEPT !.sockfiles = TRUE, !.sent = s.sent,
                                  !.olock = Append(before, reply),
                                  !.SOCKET_DATA = s.SOCKET_DATA + 1,
                                  !.emitted = Append(s.emitted, reply)]
    BY <1>2 DEF Put
  <2>2. (s.sockfiles => before = s.olock) /\ (~s.sockfiles => before = s.olock \o s.sent)
    OBVIOUS
  <2> HIDE DEF before
  <2> QED
    BY <2>1, <2>2, <1>2 DEF SendType
<1> QED
  BY <1>1, <1>2

\* A reply stays where the replies before it are, or all of them move on.
LEMMA PutPlaced ==
  ASSUME NEW s \in SendType, NEW reply \in Replies, Loose(s)
  PROVE  /\ Put(s, reply) \in SendType /\ Loose(Put(s, reply))
         /\ \A base : Placed(s, base) => Placed(Put(s, reply), base)
<1> DEFINE p == Put(s, reply)
<1>1. p \in SendType
  BY PutType
<1>2. s.emitted \in Seq(Replies) /\ s.sent \in Seq(Replies) /\ s.olock \in Seq(Replies)
  BY DEF SendType
<1>3. /\ p.emitted = Append(s.emitted, reply) /\ p.SOCKET_DATA = s.SOCKET_DATA + 1
      /\ p.base = s.base /\ p.SOCKET_FILE = s.SOCKET_FILE
  BY PutParts
<1>4. ~p.sockfiles => ~s.sockfiles /\ p.olock = s.olock /\ p.sent = Append(s.sent, reply)
  BY PutParts
<1>5. s.sockfiles => p.olock = Append(s.olock, reply)
  BY PutParts
<1>6. ~s.sockfiles /\ p.sockfiles => p.olock = Append(s.olock \o s.sent, reply)
  BY PutParts
<1> HIDE DEF p
<1>7. Len(p.emitted) = Len(s.emitted) + 1
  BY <1>2, <1>3
<1>8. Loose(p)
  BY <1>3, <1>4, <1>7 DEF Loose
<1>9. ASSUME NEW base, Placed(s, base) PROVE Placed(p, base)
  <2>1. p.sockfiles => p.olock = p.emitted
    <3>1. CASE s.sockfiles
      BY <1>3, <1>5, <1>9, <3>1 DEF Placed
    <3>2. CASE ~s.sockfiles /\ p.sockfiles
      <4>1. s.olock = <<>> /\ s.sent = s.emitted
        BY <1>9, <3>2 DEF Placed, Loose
      <4>2. <<>> \o s.sent = s.sent
        BY <1>2, ConcatEmptySeq
      <4>3. p.olock = Append(s.sent, reply)
        BY <1>6, <3>2, <4>1, <4>2
      <4> QED
        BY <1>3, <4>1, <4>3
    <3> QED
      BY <3>1, <3>2
  <2>2. ~p.sockfiles => p.sent = p.emitted /\ p.base = base
    BY <1>3, <1>4, <1>9 DEF Placed
  <2> QED
    BY <1>8, <2>1, <2>2 DEF Placed
<1> QED
  BY <1>1, <1>8, <1>9 DEF p

\* The same of the other operations on replies.
Kept(s, p) == /\ p \in SendType /\ Loose(p)
              /\ \A base : Placed(s, base) => Placed(p, base)

LEMMA FlushedParts ==
  ASSUME NEW s \in SendType
  PROVE  /\ Flushed(s) \in SendType
         /\ \A field \in {"sockfiles", "SOCKET_FILE", "SOCKET_DATA", "base", "olock", "emitted"} :
              Flushed(s)[field] = s[field]
         /\ ~s.sockfiles => Flushed(s) = s
BY FlushedType DEF Flushed, SendType

LEMMA RepliesKept ==
  ASSUME NEW s \in SendType, Loose(s)
  PROVE  /\ Kept(s, s) /\ Kept(s, Flushed(s))
         /\ \A reply \in Replies : /\ Kept(s, Put(s, reply)) /\ Kept(s, Flushed(Put(s, reply)))
                                   /\ Kept(s, Answer(s, reply)) /\ Kept(s, Flushed(Answer(s, reply)))
         /\ Kept(s, LastReplies(s)) /\ Kept(s, Notified(s))
<1>1. ASSUME NEW x \in SendType, Loose(x) PROVE Kept(x, x) /\ Kept(x, Flushed(x))
  <2>1. /\ Flushed(x).sockfiles = x.sockfiles /\ Flushed(x).SOCKET_FILE = x.SOCKET_FILE
        /\ Flushed(x).SOCKET_DATA = x.SOCKET_DATA /\ Flushed(x).base = x.base
        /\ Flushed(x).olock = x.olock /\ Flushed(x).emitted = x.emitted
        /\ Flushed(x) \in SendType /\ (~x.sockfiles => Flushed(x) = x)
    BY FlushedParts
  <2>2. Loose(Flushed(x))
    BY <1>1, <2>1 DEF Loose
  <2>3. \A base : Placed(x, base) => Placed(Flushed(x), base)
    BY <2>1, <2>2 DEF Placed
  <2> QED
    BY <1>1, <2>1, <2>2, <2>3 DEF Kept
<1>2. ASSUME NEW x \in SendType, Loose(x), NEW reply \in Replies
      PROVE  Kept(x, Put(x, reply)) /\ Kept(x, Answer(x, reply))
  BY <1>1, <1>2, PutPlaced DEF Kept, Answer
<1>3. ASSUME NEW x, NEW y, NEW z, Kept(x, y), Kept(y, z) PROVE Kept(x, z)
  BY <1>3 DEF Kept
<1>4. ASSUME NEW x \in SendType, Loose(x), NEW reply \in Replies
      PROVE  Kept(x, Flushed(Put(x, reply))) /\ Kept(x, Flushed(Answer(x, reply)))
  <2>1. /\ Put(x, reply) \in SendType /\ Loose(Put(x, reply))
        /\ Answer(x, reply) \in SendType /\ Loose(Answer(x, reply))
    BY <1>2, <1>4 DEF Kept
  <2> QED
    BY <1>1, <1>2, <1>3, <1>4, <2>1
<1>5. Kept(s, Notified(s)) /\ Kept(s, LastReplies(s))
  <2>1. "A" \in Replies /\ "Z" \in Replies
    BY DEF Replies
  <2>2. Kept(s, Notified(s))
    BY <1>1, <1>2, <2>1 DEF Notified
  <2>3. Notified(s) \in SendType /\ Loose(Notified(s))
    BY <2>2 DEF Kept
  <2>4. Kept(Notified(s), Flushed(Put(Notified(s), "Z")))
    BY <1>4, <2>1, <2>3
  <2> QED
    BY <1>3, <2>2, <2>4 DEF LastReplies
<1> QED
  BY <1>1, <1>2, <1>4, <1>5

-----------------------------------------------------------------------------
(* Requests *)

\* The call at hand is one of an announced host.
LEMMA CallAtHand ==
  ASSUME Announced, Control, pc # "host"
  PROVE  /\ call \in Calls /\ call.frame \in Seq(Kinds) /\ Len(call.frame) \in Nat
         /\ call.port = "none" <=> call.frame = <<>>
         /\ is_wire => WireRequest(call) /\ ~is_repl
         /\ ~is_wire => ReplLine(call) /\ is_repl /\ Sjlj
         /\ Sjlj \/ Len(call.frame) <= 1
<1>1. call \in Calls /\ is_wire = (call.mode = "wire") /\ is_repl = (call.mode = "repl")
  BY DEF Control
<1>2. call.frame \in Seq(Kinds) /\ (call.port = "none" <=> call.frame = <<>>)
  BY <1>1, CallsAssumption DEF CallType
<1>3. /\ WireRequest(call) \/ ReplLine(call)
      /\ Sjlj \/ TrapsAlone(call)
  BY <1>1 DEF Announced, Marked
<1>4. WireRequest(call) => call.mode = "wire"
  BY DEF WireRequest
<1>5. ReplLine(call) => call.mode = "repl"
  BY DEF ReplLine
<1>6. Len(call.frame) \in Nat
  BY <1>2
<1>7. is_wire => WireRequest(call) /\ ~is_repl
  BY <1>1, <1>3, <1>5
<1>8. ~is_wire => ReplLine(call) /\ is_repl /\ Sjlj
  BY <1>1, <1>3, <1>4, <1>5 DEF TrapsAlone
<1>9. Sjlj \/ Len(call.frame) <= 1
  BY <1>3 DEF TrapsAlone
<1> QED
  BY <1>1, <1>2, <1>3, <1>6, <1>7, <1>8, <1>9

\* A well-formed request holds neither a password nor a startup packet nor SQL.
LEMMA PlainOnly ==
  ASSUME NEW frame \in Seq(Kinds), WellFormed(frame), NEW i \in 1 .. Len(frame)
  PROVE  frame[i] \in Plain /\ frame[i] \notin Sql \cup {"startup", "p", "badp", "none", "EOF", "junk"}
<1>1. frame[i] \in Plain
  BY DEF WellFormed, Plain
<1> QED
  BY <1>1 DEF Plain, Extended, Copying, Sql

\* The next message of a buffer that is not empty.
LEMMA NextMessage ==
  ASSUME NEW r, RecvOK(r), More(r), r.len = Len(r.mem[r.loc])
  PROVE  /\ Next1(r) = r.mem[r.loc][r.ptr + 1] /\ r.ptr + 1 \in 1 .. r.len
         /\ Advanced(r).mem = r.mem /\ Advanced(r).loc = r.loc
         /\ Advanced(r).len = r.len /\ Advanced(r).ptr = r.ptr + 1
<1>1. r.ptr \in Nat /\ r.len \in Nat /\ r.ptr < r.len
  BY DEF RecvOK, RecvType, More, Remaining
<1>2. Next1(r) = r.mem[r.loc][r.ptr + 1]
  BY <1>1 DEF Next1
<1>3. Advanced(r) = [r EXCEPT !.ptr = r.ptr + 1]
  BY DEF Advanced
<1>4. /\ Advanced(r).mem = r.mem /\ Advanced(r).loc = r.loc
      /\ Advanced(r).len = r.len /\ Advanced(r).ptr = r.ptr + 1
  BY <1>3 DEF RecvOK, RecvType
<1> QED
  BY <1>1, <1>2, <1>4

\* The first message of a request in shared memory: the read pointer turns to
\* it, and replies go behind it.
LEMMA CmaAtHand ==
  ASSUME HInv, First, is_wire, cma_rsize > 0, Len(call.frame) \in Nat
  PROVE  LET r == RecvStart(recv, send)
             s == SendStart(recv, send)
         IN  /\ RecvOK(r) /\ More(r) /\ r.mem[r.loc] = call.frame
             /\ r.ptr = 0 /\ r.len = Len(call.frame) /\ peek = Head1(call.frame)
             /\ s \in SendType /\ Placed(s, 2 + Len(call.frame))
<1> DEFINE r == RecvStart(recv, send)
           s == SendStart(recv, send)
<1>1. /\ RecvOK(recv) /\ send \in SendType /\ Asked /\ Reads /\ Sends /\ cma_rsize \in Nat
  BY DEF HInv, Conduct, IInv, TypeOK, RequestSized, Served, RecvOK, First
<1>2. ~More(recv) /\ ~send.sockfiles /\ peek = Head1(recv.mem["cma"])
  BY <1>1 DEF Reads
<1>3. recv.mem["cma"] = call.frame /\ cma_rsize = Len(call.frame)
  BY <1>1 DEF Asked
<1>4. r = [recv EXCEPT !.loc = "cma", !.ptr = 0, !.len = cma_rsize]
  BY <1>2 DEF RecvStart
<1>5. r.loc = "cma" /\ r.ptr = 0 /\ r.len = cma_rsize /\ r.mem = recv.mem
  BY <1>1, <1>4 DEF RecvOK, RecvType
<1>6. More(r)
  BY <1>1, <1>5 DEF More, Remaining
<1>7. RecvOK(r)
  BY <1>1, RecvStartType
<1>8. s = [send EXCEPT !.base = 2 + cma_rsize, !.sent = <<>>]
  BY <1>2 DEF SendStart
<1>9. /\ s.base = 2 + Len(call.frame) /\ s.sent = <<>> /\ s.sockfiles = send.sockfiles
      /\ s.emitted = send.emitted /\ s.olock = send.olock
      /\ s.SOCKET_DATA = send.SOCKET_DATA /\ s.SOCKET_FILE = send.SOCKET_FILE
  BY <1>1, <1>3, <1>8 DEF SendType
<1>10. s \in SendType
  BY <1>1, SendStartType
<1> HIDE DEF s, r
<1>11. Placed(s, 2 + Len(call.frame))
  <2>1. Fresh(send) /\ Len(<<>>) = 0
    BY <1>1 DEF Sends
  <2> QED
    BY <1>2, <1>9, <2>1 DEF Fresh, Placed, Loose
<1> QED
  BY <1>2, <1>3, <1>5, <1>6, <1>7, <1>10, <1>11 DEF r, s

\* What SocketBackend reads: the first message of the request, or the next one.
LEMMA LoopReads ==
  ASSUME Announced, HInv, LoopRead
  PROVE  /\ is_wire /\ Filling' /\ recv'.ptr \in 1 .. recv'.len
         /\ firstchar' = Frame'[recv'.ptr] /\ firstchar' \in Plain
         /\ pc' \in {"incoming", "dispatch"}
         /\ First => recv'.ptr = 1 /\ Placed(send', 2 + Len(call.frame))
         /\ ~First => /\ recv'.ptr = recv.ptr + 1 /\ recv'.loc = recv.loc /\ send' = send
<1> DEFINE r == RecvStart(recv, send)
<1>0. /\ pc = "incoming" /\ pipelining /\ is_wire /\ peek \notin {"startup", "p"}
      /\ recv' = [Advanced(r) EXCEPT !.reading = @ \/ Next1(r) = "EOF"]
      /\ send' = SendStart(recv, send) /\ firstchar' = Next1(r) /\ call' = call
      /\ pc' = CASE recv.reading \/ Next1(r) \notin Readable -> "broken"
                 [] /\ ~recv.reading /\ Next1(r) \in Readable
                    /\ ignore_till_sync' /\ Next1(r) \notin {"S", "EOF"} -> "incoming"
                 [] OTHER -> "dispatch"
  BY DEF LoopRead
<1>01. ~recv.reading
  BY DEF HInv, Settled
<1>1. /\ RecvOK(recv) /\ send \in SendType /\ Control /\ Asked /\ Reads /\ Sends
      /\ cma_rsize \in Nat
  BY <1>0 DEF HInv, Conduct, IInv, TypeOK, RequestSized, Served, RecvOK
<1>2. /\ WireRequest(call) /\ call.frame \in Seq(Kinds) /\ Len(call.frame) \in Nat /\ call \in Calls
      /\ Sjlj \/ Len(call.frame) <= 1
  BY <1>0, <1>1, CallAtHand
<1> DEFINE frame == r.mem[r.loc]
           base  == 2 + Len(call.frame)
<1>3. /\ RecvOK(r) /\ More(r) /\ r.len = Len(frame) /\ WellFormed(frame)
      /\ IF Sjlj THEN frame = call.frame ELSE Len(frame) <= 1
      /\ r.ptr = IF First THEN 0 ELSE recv.ptr
      /\ ~First => r.loc = recv.loc /\ SendStart(recv, send) = send
      /\ First => Placed(SendStart(recv, send), base)
  <2>1. CASE First /\ cma_rsize > 0
    <3>1. /\ RecvOK(r) /\ More(r) /\ r.mem[r.loc] = call.frame /\ r.ptr = 0
          /\ r.len = Len(call.frame) /\ peek = Head1(call.frame)
          /\ Placed(SendStart(recv, send), base)
      BY <1>0, <1>2, <2>1, CmaAtHand
    <3>2. WellFormed(call.frame)
      <4>1. call.frame[1] \notin {"startup", "p", "badp"}
        BY <1>0, <3>1 DEF Head1
      <4> QED
        BY <1>2, <4>1 DEF WireRequest, Passwords
    <3> QED
      BY <1>2, <2>1, <3>1, <3>2
  <2>2. CASE First /\ ~(cma_rsize > 0)
    <3>1. cma_rsize = 0
      BY <1>1, <2>2
    <3>2. send.sockfiles /\ recv.ptr = 0 /\ More(recv) /\ Filling
      BY <1>0, <1>1, <2>2, <3>1 DEF Reads
    <3>3. r = recv /\ SendStart(recv, send) = send
      BY <3>2 DEF RecvStart, SendStart
    <3>4. Fresh(send)
      BY <1>1, <2>2 DEF Sends
    <3>5. Placed(send, base)
      <4>1. Len(<<>>) = 0
        OBVIOUS
      <4> QED
        BY <3>2, <3>4, <4>1 DEF Fresh, Placed, Loose
    <3> QED
      BY <1>1, <2>2, <3>2, <3>3, <3>5 DEF Filling, Frame
  <2>3. CASE ~First
    <3>1. Later
      BY <1>0, <2>3 DEF First, Later
    <3>2. More(recv) /\ Filling
      BY <1>0, <1>1, <3>1 DEF Reads
    <3>3. r = recv /\ SendStart(recv, send) = send
      BY <3>2 DEF RecvStart, SendStart
    <3> QED
      BY <1>1, <2>3, <3>2, <3>3 DEF Filling, Frame
  <2> QED
    BY <2>1, <2>2, <2>3
<1> HIDE DEF r
<1>4. /\ Next1(r) = frame[r.ptr + 1] /\ r.ptr + 1 \in 1 .. Len(frame)
      /\ recv'.mem = r.mem /\ recv'.loc = r.loc /\ recv'.len = r.len /\ recv'.ptr = r.ptr + 1
  <2> DEFINE a == Advanced(r)
  <2>1. /\ Next1(r) = frame[r.ptr + 1] /\ r.ptr + 1 \in 1 .. Len(frame)
        /\ a.mem = r.mem /\ a.loc = r.loc /\ a.len = r.len /\ a.ptr = r.ptr + 1
    BY <1>3, NextMessage
  <2>2. a \in RecvType /\ recv' = [a EXCEPT !.reading = @ \/ Next1(r) = "EOF"]
    BY <1>0, <1>3, AdvancedType DEF RecvOK
  <2> HIDE DEF a
  <2> QED
    BY <2>1, <2>2 DEF RecvType
<1>5. Frame' = frame
  BY <1>4 DEF Frame
<1>6. frame \in Seq(Kinds)
  BY <1>3 DEF RecvOK, RecvType, Frames
<1>7. Filling'
  BY <1>0, <1>3, <1>4, <1>5 DEF Filling
<1>8. firstchar' = Frame'[recv'.ptr] /\ recv'.ptr \in 1 .. recv'.len
  BY <1>0, <1>3, <1>4, <1>5
<1>9. firstchar' \in Plain
  BY <1>0, <1>3, <1>4, <1>6, PlainOnly
<1>10. firstchar' \in Readable
  BY <1>9 DEF Plain, Readable
<1>11. pc' \in {"incoming", "dispatch"}
  BY <1>0, <1>01, <1>10
<1>12. r.ptr \in Nat
  BY <1>3 DEF RecvOK, RecvType
<1> QED
  BY <1>0, <1>3, <1>4, <1>7, <1>8, <1>9, <1>11, <1>12

-----------------------------------------------------------------------------
(* The host, and the entry of a call *)

\* The host puts a request in place.
LEMMA HostCallStep ==
  ASSUME Announced, HInv, IInv', NEW c \in Calls, HostCall(c)
  PROVE  Conduct'
<1>1. /\ pc = "host" /\ pc' = "enter" /\ call' = c /\ Polite(c)
      /\ is_wire' = CASE c.mode = "wire" -> TRUE [] c.mode = "repl" -> FALSE [] OTHER -> is_wire
      /\ is_repl' = CASE c.mode = "wire" -> FALSE [] c.mode = "repl" -> TRUE [] OTHER -> is_repl
      /\ cma_rsize' = IF c.port = "cma" THEN Len(c.frame) ELSE 0
      /\ recv' = IF c.port \in {"cma", "memory"} THEN [recv EXCEPT !.mem["cma"] = c.frame] ELSE recv
      /\ PGS_IN' = IF c.port = "file" THEN c.frame ELSE PGS_IN
      /\ UNCHANGED <<firstchar, peek, fp, pipelining, send, canary_ex, send_ready_for_query,
                     ClientAuthInProgress, MyProcPort, whereToSendOutput, notifyInterruptPending,
                     transaction>>
  BY DEF HostCall, locals, ready, conn, backend
<1>2. /\ TypeOK /\ Control /\ Asked /\ Reads /\ Sends /\ Notices
  BY DEF HInv, Conduct, IInv
<1>3. /\ c.frame \in Seq(Kinds) /\ Len(c.frame) \in Nat /\ (c.port = "none" <=> c.frame = <<>>)
  BY CallsAssumption DEF CallType
<1>4. WireRequest(c) \/ ReplLine(c)
  BY DEF Announced, Marked, TrapsAlone
<1>5. (c.mode = "wire" \/ c.mode = "repl") /\ (c.mode = "wire" => WireRequest(c))
  BY <1>4 DEF WireRequest, ReplLine
<1>6. is_wire' = (c.mode = "wire") /\ is_repl' = (c.mode = "repl")
  BY <1>1, <1>5
<1>7. /\ recv'.mem["cma"] = IF c.port \in {"cma", "memory"} THEN c.frame ELSE recv.mem["cma"]
      /\ recv'.ptr = recv.ptr /\ recv'.len = recv.len
  BY <1>1, <1>2 DEF TypeOK, RecvType
<1>8. Control'
  <2>1. cma_rsize' \in Nat /\ ~(cma_rsize' < 0)
    BY <1>1, <1>3
  <2>2. firstchar = "none" /\ peek = "none" /\ pipelining = TRUE /\ canary_ex = 0 /\ fp = FALSE
    BY <1>1, <1>2 DEF Control
  <2> QED
    BY <1>1, <1>6, <2>1, <2>2 DEF Control, Later, Begun
<1>9. c.mode = "wire" => (ClientAuthInProgress <=> c.frame \in Passwords)
  <2> SUFFICES ASSUME c.mode = "wire" PROVE ClientAuthInProgress <=> c.frame \in Passwords
    OBVIOUS
  <2> DEFINE first == IF c.frame = <<>> THEN "none" ELSE c.frame[1]
  <2>1. WellFormed(c.frame) \/ c.frame \in Passwords \/ c.frame = <<"startup">>
    BY <1>5 DEF WireRequest
  <2>2. first \notin Sql /\ (first \in {"p", "badp"} <=> c.frame \in Passwords)
    <3>1. CASE WellFormed(c.frame)
      <4>1. CASE c.frame = <<>>
        BY <4>1 DEF Sql, Passwords
      <4>2. CASE c.frame # <<>>
        <5>1. 1 \in 1 .. Len(c.frame)
          BY <1>3, <4>2, EmptySeq
        <5>2. c.frame[1] \notin Sql \cup {"startup", "p", "badp", "none", "EOF", "junk"}
          BY <1>3, <3>1, <5>1, PlainOnly
        <5> QED
          BY <4>2, <5>2 DEF Passwords
      <4> QED
        BY <4>1, <4>2
    <3>2. CASE c.frame \in Passwords \/ c.frame = <<"startup">>
      BY <3>2 DEF Sql, Passwords
    <3> QED
      BY <2>1, <3>1, <3>2
  <2>3. c.mode # "repl" /\ first \notin Sql => (ClientAuthInProgress <=> first \in {"p", "badp"})
    BY <1>1 DEF Polite
  <2> QED
    BY <2>2, <2>3
<1>10. Asked'
  <2>1. recv.mem["cma"] = <<>>
    BY <1>1, <1>2 DEF Asked
  <2>2. PGS_IN # NoFile => ~Sjlj /\ \E x \in Calls : x.port = "file" /\ x.frame = PGS_IN
    BY <1>1, <1>2 DEF Asked, Control, Enters
  <2>3. PGS_IN' # NoFile => ~Sjlj \/ c.port = "file"
    BY <1>1, <2>2
  <2>4. PGS_IN' # NoFile => \E x \in Calls : x.port = "file" /\ x.frame = PGS_IN'
    BY <1>1, <2>2
  <2>5. cma_rsize' >= 0
    BY <1>1, <1>3
  <2> QED
    BY <1>1, <1>6, <1>7, <1>9, <2>1, <2>3, <2>4, <2>5 DEF Asked, Enters, First
<1>11. Reads'
  BY <1>1, <1>2, <1>7 DEF Reads, More, Remaining, First, Later, Begun
<1>12. Where'
  BY <1>1 DEF Where, Later, Begun
<1>13. Sends' /\ Notices'
  <2>1. cma_rsize' >= 0
    BY <1>1, <1>3
  <2>2. Sends'
    BY <1>1, <1>2, <2>1 DEF Sends, AtHost, Enters, Shut, First, Later, Begun, Resumes
  <2>3. Notices'
    BY <1>1, <1>2, <2>1 DEF Notices, AtHost, Enters, Noticed, First, Later, Begun, Resumes
  <2> QED
    BY <2>2, <2>3
<1> QED
  BY <1>1, <1>8, <1>10, <1>11, <1>12, <1>13 DEF Conduct, Aborts

\* The host takes the reply.
LEMMA HostReadStep ==
  ASSUME HInv, IInv', HostRead
  PROVE  Conduct'
<1>1. /\ pc = "returned" /\ pc' = "host"
      /\ send' = [send EXCEPT !.emitted = <<>>]
      /\ UNCHANGED <<firstchar, peek, fp, pipelining, is_wire, is_repl, cma_rsize, canary_ex,
                     send_ready_for_query, ClientAuthInProgress, MyProcPort, whereToSendOutput,
                     notifyInterruptPending, transaction, recv, PGS_IN>>
  BY DEF HostRead, locals, cma, conn, backend
<1>2. /\ TypeOK /\ Control /\ Asked /\ Reads /\ Sends /\ Notices
  BY DEF HInv, Conduct, IInv
<1>3. /\ send'.SOCKET_DATA = send.SOCKET_DATA /\ send'.SOCKET_FILE = send.SOCKET_FILE
      /\ send'.olock = send.olock /\ send'.emitted = <<>>
  BY <1>1, <1>2 DEF TypeOK, SendType
<1>4. Control'
  BY <1>1, <1>2 DEF Control, Later, Begun
<1>5. Asked'
  BY <1>1, <1>2 DEF Asked, Enters, First
<1>6. Reads'
  BY <1>1, <1>2 DEF Reads, First, Later, Begun
<1>7. Where'
  BY <1>1 DEF Where, Later, Begun
<1>8. Sends'
  BY <1>1, <1>2, <1>3 DEF Sends, AtHost, Enters, Shut, First, Later, Begun, Resumes
<1>9. Notices'
  BY <1>1, <1>2 DEF Notices, AtHost, Enters, Noticed, First, Later, Begun, Resumes
<1> QED
  BY <1>1, <1>4, <1>5, <1>6, <1>7, <1>8, <1>9 DEF Conduct, Aborts

\* An error in a wasi build was reported; the call finishes what it cut short.
LEMMA EnterResumeStep ==
  ASSUME Announced, HInv, IInv', EnterResume
  PROVE  Conduct'
<1>1. /\ pc = "enter" /\ cma_rsize < 0 /\ pc' = IF is_repl THEN "return" ELSE "flush"
      /\ UNCHANGED <<firstchar, peek, fp, pipelining, is_wire, is_repl, cma_rsize, canary_ex,
                     send_ready_for_query, ClientAuthInProgress, MyProcPort, whereToSendOutput,
                     notifyInterruptPending, transaction, recv, send, PGS_IN, call>>
  BY DEF EnterResume, locals, cma, ready, conn, backend, files
<1>2. /\ TypeOK /\ Control /\ Asked /\ Reads /\ Sends /\ Notices
  BY DEF HInv, Conduct, IInv
<1>3. is_wire /\ ~is_repl
  <2>1. ~Sjlj
    BY <1>1, <1>2 DEF Control
  <2> QED
    BY <1>1, <1>2, <2>1, CallAtHand
<1>4. pc' = "flush" /\ Resumes /\ ~Enters /\ cma_rsize' = cma_rsize
  <2>1. cma_rsize \in Nat \cup {-1}
    BY <1>2 DEF TypeOK
  <2> QED
    BY <1>1, <1>3, <2>1 DEF Resumes, Enters
<1>5. Control'
  BY <1>1, <1>2, <1>4 DEF Control, Later, Begun
<1>6. Asked'
  BY <1>1, <1>2, <1>4 DEF Asked, Enters, First
<1>7. Reads'
  BY <1>1, <1>2, <1>4 DEF Reads, First, Later, Begun
<1>8. Where'
  BY <1>4 DEF Where, Later, Begun
<1>9. Sends'
  BY <1>1, <1>2, <1>3, <1>4 DEF Sends, AtHost, Enters, First, Later, Begun
<1>10. Notices'
  BY <1>1, <1>2, <1>3, <1>4 DEF Notices, AtHost, Enters, First, Later, Begun, Resumes
<1> QED
  BY <1>4, <1>5, <1>6, <1>7, <1>8, <1>9, <1>10 DEF Conduct, Aborts

\* The first call makes the port.
LEMMA EnterInitStep ==
  ASSUME HInv, IInv', EnterInit
  PROVE  Conduct'
<1>1. /\ pc = "enter" /\ cma_rsize >= 0 /\ ~MyProcPort /\ MyProcPort' /\ ~ClientAuthInProgress'
      /\ send' = [send EXCEPT !.SOCKET_FILE = FALSE, !.SOCKET_DATA = 0]
      /\ UNCHANGED <<pc, firstchar, peek, fp, pipelining, is_wire, is_repl, cma_rsize, canary_ex,
                     send_ready_for_query, notifyInterruptPending, transaction, recv, PGS_IN, call>>
  BY DEF EnterInit, locals, cma, ready, backend, files
<1>2. /\ TypeOK /\ Control /\ Asked /\ Reads /\ Sends /\ Notices
  BY DEF HInv, Conduct, IInv
<1>3. ~ClientAuthInProgress /\ ~notifyInterruptPending
  BY <1>1, <1>2 DEF Notices
<1>4. send'.SOCKET_DATA = 0 /\ ~send'.SOCKET_FILE /\ send'.emitted = send.emitted
  BY <1>1, <1>2 DEF TypeOK, SendType
<1>5. Enters /\ Enters' /\ ~(cma_rsize < 0) /\ ~(cma_rsize' < 0)
  <2>1. cma_rsize \in Nat \cup {-1}
    BY <1>2 DEF TypeOK
  <2> QED
    BY <1>1, <2>1 DEF Enters
<1>6. Control'
  BY <1>1, <1>2 DEF Control, Later, Begun
<1>7. Asked'
  BY <1>1, <1>2, <1>3, <1>5 DEF Asked, First
<1>8. Reads'
  BY <1>1, <1>2 DEF Reads, First, Later, Begun
<1>9. Where'
  BY <1>1 DEF Where, Later, Begun
<1>10. Sends'
  BY <1>1, <1>2, <1>4, <1>5 DEF Sends, AtHost, Shut, First, Later, Begun, Resumes
<1>11. Notices'
  BY <1>1, <1>3, <1>5 DEF Notices, AtHost, First, Later, Begun, Noticed, Resumes
<1> QED
  BY <1>1, <1>6, <1>7, <1>8, <1>9, <1>10, <1>11 DEF Conduct, Aborts

\* The reply file is opened, a pending ReadyForQuery is dropped, and no
\* notification is sent into it.
LEMMA EnterRequestStep ==
  ASSUME HInv, IInv', EnterRequest
  PROVE  Conduct'
<1>1. /\ pc = "enter" /\ cma_rsize >= 0 /\ MyProcPort /\ pc' = "request"
      /\ send' = IF send_ready_for_query THEN Notified(Opened(send)) ELSE Opened(send)
      /\ notifyInterruptPending' = (notifyInterruptPending /\ ~(send_ready_for_query /\ MayNotify))
      /\ ~send_ready_for_query'
      /\ UNCHANGED <<firstchar, peek, fp, pipelining, is_wire, is_repl, cma_rsize, canary_ex,
                     ClientAuthInProgress, MyProcPort, whereToSendOutput,
                     transaction, recv, PGS_IN, call>>
  BY DEF EnterRequest, locals, cma, conn, files
<1>2. /\ TypeOK /\ Control /\ Asked /\ Reads /\ Sends /\ Notices
  BY DEF HInv, Conduct, IInv
<1>3. Enters /\ ~(cma_rsize < 0) /\ ~(cma_rsize' < 0)
  <2>1. cma_rsize \in Nat \cup {-1}
    BY <1>2 DEF TypeOK
  <2> QED
    BY <1>1, <2>1 DEF Enters
<1>4. send_ready_for_query /\ whereToSendOutput = "Remote" => ~notifyInterruptPending
  BY <1>2, <1>3 DEF Notices, AtHost
<1>5. send' = Opened(send)
  BY <1>1, <1>4 DEF Notified, Answer, MayNotify
<1>6. Fresh(send')
  <2>1. Shut(send) /\ send.emitted = <<>>
    BY <1>2, <1>3 DEF Sends, AtHost
  <2> QED
    BY <1>2, <1>5, <2>1 DEF Opened, Shut, Fresh, TypeOK, SendType
<1>7. ~Noticed'
  <2>1. Noticed => send_ready_for_query
    BY <1>2, <1>3 DEF Notices
  <2> QED
    BY <1>1, <2>1 DEF Noticed, MayNotify
<1>8. Control'
  BY <1>1, <1>2, <1>3 DEF Control, Later, Begun
<1>9. Asked'
  BY <1>1, <1>2, <1>3 DEF Asked, Enters, First
<1>10. Reads'
  BY <1>1, <1>2 DEF Reads, First, Later, Begun
<1>11. Where'
  BY <1>1 DEF Where, Later, Begun
<1>12. Sends'
  BY <1>1, <1>6 DEF Sends, AtHost, Enters, First, Later, Begun, Resumes
<1>13. Notices'
  BY <1>1, <1>2, <1>7 DEF Notices, AtHost, Enters, First, Later, Begun, Resumes
<1> QED
  BY <1>1, <1>8, <1>9, <1>10, <1>11, <1>12, <1>13 DEF Conduct, Aborts

\* Replies are never left over from an earlier call.
LEMMA EnterBacklogStep ==
  ASSUME HInv, EnterBacklog
  PROVE  Conduct'
<1>1. pc = "enter" /\ cma_rsize >= 0 /\ send.SOCKET_DATA > 0 /\ send \in SendType /\ Sends
  BY DEF EnterBacklog, HInv, Conduct, IInv, TypeOK
<1>2. send.SOCKET_DATA = 0
  BY <1>1 DEF Sends, AtHost, Enters, Shut
<1> QED
  BY <1>1, <1>2

-----------------------------------------------------------------------------
(* Finding the request *)

\* The first byte of a well-formed request announces no handshake.
LEMMA HeadOfPlain ==
  ASSUME NEW frame \in Seq(Kinds), WellFormed(frame), frame # <<>>
  PROVE  Head1(frame) = "other"
<1>1. 1 \in 1 .. Len(frame)
  BY EmptySeq
<1> QED
  BY <1>1, PlainOnly DEF Head1, Sql

\* A request in shared memory.
LEMMA RequestCmaStep ==
  ASSUME Announced, HInv, IInv', RequestCma
  PROVE  Conduct'
<1>1. /\ pc = "request" /\ cma_rsize > 0
      /\ peek' = Head1(recv.mem["cma"]) /\ send' = [send EXCEPT !.sockfiles = FALSE]
      /\ whereToSendOutput' = IF is_repl THEN "Debug" ELSE "Remote"
      /\ pc' = IF recv.mem["cma"] = <<"tiny">> THEN "return" ELSE "incoming"
      /\ UNCHANGED <<firstchar, fp, pipelining, is_wire, is_repl, cma_rsize, canary_ex,
                     send_ready_for_query, ClientAuthInProgress, MyProcPort,
                     notifyInterruptPending, transaction, recv, PGS_IN, call>>
  BY DEF RequestCma, NoStartup, cma, ready, conn, backend, files
<1>2. /\ TypeOK /\ Control /\ Asked /\ Reads /\ Sends /\ Notices
  BY DEF HInv, Conduct, IInv
<1>3. /\ call \in Calls /\ call.frame \in Seq(Kinds) /\ Len(call.frame) \in Nat
      /\ is_wire => WireRequest(call) /\ ~is_repl
  BY <1>1, <1>2, CallAtHand
<1>4. call.port = "cma" /\ cma_rsize = Len(call.frame) /\ recv.mem["cma"] = call.frame
  <2>1. cma_rsize = IF call.port = "cma" THEN Len(call.frame) ELSE 0
    BY <1>1, <1>2 DEF Asked
  <2>2. call.port = "cma"
    BY <1>1, <2>1
  <2> QED
    BY <1>1, <1>2, <2>1, <2>2 DEF Asked
<1>5. is_wire => pc' = "incoming"
  <2> SUFFICES ASSUME is_wire, call.frame = <<"tiny">> PROVE FALSE
    BY <1>1, <1>4
  <2>1. WellFormed(call.frame)
    BY <1>3 DEF WireRequest, Passwords
  <2>2. 1 \in 1 .. Len(call.frame) /\ call.frame[1] = "tiny"
    OBVIOUS
  <2> QED
    BY <1>3, <2>1, <2>2, PlainOnly DEF Sql
<1>6. Fresh(send') /\ ~send'.sockfiles
  <2>1. Fresh(send)
    BY <1>1, <1>2 DEF Sends
  <2> QED
    BY <1>1, <1>2, <2>1 DEF Fresh, TypeOK, SendType
<1>7. PGS_IN # NoFile => fp \/ ~Sjlj
  BY <1>1, <1>2, <1>4 DEF Asked
<1>8. cma_rsize \in Nat
  BY <1>3, <1>4
<1>9. is_wire /\ ClientAuthInProgress => peek' = "p"
  <2>1. is_wire => (ClientAuthInProgress <=> call.frame \in Passwords)
    BY <1>1, <1>2 DEF Asked
  <2> QED
    BY <1>1, <1>4, <2>1 DEF Head1, Passwords
<1>10. Control'
  BY <1>1, <1>2, <1>8 DEF Control, Later, Begun
<1>11. Asked'
  BY <1>1, <1>2, <1>4, <1>7 DEF Asked, Enters, First
<1>12. Reads'
  <2>1. ~More(recv) /\ pipelining /\ canary_ex = 0 /\ firstchar = "none"
    BY <1>1, <1>2 DEF Reads, Control
  <2>2. ~More(recv')
    BY <1>1, <2>1
  <2>3. peek' = Head1(recv'.mem["cma"])
    BY <1>1
  <2> QED
    BY <1>1, <1>6, <1>8, <2>1, <2>2, <2>3 DEF Reads, First, Later, Begun
<1>13. Where'
  <2>1. is_wire => whereToSendOutput' = "Remote"
    BY <1>1, <1>3
  <2>2. firstchar = "none"
    BY <1>1, <1>2 DEF Control
  <2> QED
    BY <1>1, <2>1, <2>2 DEF Where, Later, Begun
<1>14. Sends'
  <2>1. firstchar = "none"
    BY <1>1, <1>2 DEF Control
  <2> QED
    BY <1>1, <1>6, <2>1 DEF Sends, AtHost, Enters, First, Later, Begun, Resumes, Fresh, Shut
<1>15. Notices'
  <2>1. firstchar = "none" /\ MyProcPort /\ ~send_ready_for_query /\ ~Noticed
    BY <1>1, <1>2 DEF Control, Notices, Enters
  <2>2. ~Noticed'
    BY <1>1, <2>1 DEF Noticed
  <2> QED
    BY <1>1, <1>5, <1>9, <2>1, <2>2 DEF Notices, AtHost, Enters, First, Later, Begun, Resumes
<1> QED
  BY <1>1, <1>10, <1>11, <1>12, <1>13, <1>14, <1>15 DEF Conduct, Aborts

\* What becomes of a request file, if it is no startup packet.
LEMMA ServeFileParts ==
  ASSUME NEW r, NEW s, ServeFile(r, s), ~r.reading, peek' # "startup"
  PROVE  \/ /\ peek' = "other" /\ recv' = r /\ send' = s /\ pc' = "incoming"
            /\ UNCHANGED <<send_ready_for_query, ClientAuthInProgress, MyProcPort>>
         \/ peek' = "p" /\ Next1(RecvStart(r, s)) = "p" /\ StartupPass(r, s) /\ pc' = "flush"
         \/ /\ peek' = "p" /\ Next1(RecvStart(r, s)) # "p"
            /\ recv' = Advanced(RecvStart(r, s)) /\ send' = SendStart(r, s)
            /\ pc' = IF Next1(RecvStart(r, s)) = "badp" /\ ~Sjlj THEN "refused" ELSE "broken"
            /\ UNCHANGED <<send_ready_for_query, ClientAuthInProgress, MyProcPort>>
BY DEF ServeFile, Handshake, Password, NoPassword, NoStartup, ready, conn

\* SQL in a request file.
LEMMA RequestFileReplStep ==
  ASSUME Announced, HInv, IInv', RequestFileRepl
  PROVE  Conduct' /\ pc' \in {"incoming", "broken"}
<1> DEFINE s == [send EXCEPT !.sockfiles = FALSE]
<1>1. /\ pc = "request" /\ cma_rsize = 0 /\ PGS_IN # NoFile /\ PGS_IN # <<>> /\ ~is_wire
      /\ fp' /\ peek' = Head1(PGS_IN) /\ ServeFile(recv, s)
      /\ UNCHANGED <<firstchar, pipelining, is_wire, is_repl, cma_rsize, canary_ex, whereToSendOutput,
                     notifyInterruptPending, transaction, PGS_IN, call>>
  BY DEF RequestFileRepl, FileHasData, cma, backend, files
<1>2. /\ TypeOK /\ Control /\ Asked /\ Reads /\ Sends /\ Notices
      /\ ~recv.reading /\ RecvOK(recv)
  BY DEF HInv, Conduct, IInv, Settled, TypeOK, RecvOK
<1>3. /\ call \in Calls /\ call.frame \in Seq(Kinds) /\ Len(call.frame) \in Nat
      /\ ReplLine(call) /\ Sjlj
  BY <1>1, <1>2, CallAtHand
<1>4. call.port = "file" /\ PGS_IN = call.frame
  <2>1. fp = FALSE
    BY <1>1, <1>2 DEF Control
  <2> QED
    BY <1>1, <1>2, <1>3, <2>1 DEF Asked
<1>5. call.frame[1] \in Sql
  <2>1. 1 \in 1 .. Len(call.frame)
    BY <1>1, <1>3, <1>4, EmptySeq
  <2> QED
    BY <1>3, <2>1 DEF ReplLine
<1>6. Fresh(s) /\ s.sockfiles = FALSE
  <2>1. Fresh(send)
    BY <1>1, <1>2 DEF Sends
  <2> QED
    BY <1>1, <1>2, <2>1 DEF Fresh, TypeOK, SendType
<1>7. /\ firstchar = "none" /\ pipelining /\ canary_ex = 0
      /\ MyProcPort /\ ~send_ready_for_query /\ ~Noticed /\ ~More(recv)
  BY <1>1, <1>2 DEF Control, Notices, Enters, Reads
<1> HIDE DEF s
<1> DEFINE r == RecvStart(recv, s)
<1>8. Next1(r) = "EOF" /\ ~More(Advanced(r))
  <2>1. r = [recv EXCEPT !.loc = "cma", !.ptr = 0, !.len = cma_rsize]
    BY <1>6, <1>7 DEF RecvStart
  <2>2. r.ptr = 0 /\ r.len = 0
    BY <1>1, <1>2, <2>1 DEF RecvOK, RecvType
  <2>3. ~More(r)
    BY <2>2 DEF More, Remaining
  <2> QED
    BY <2>3 DEF Next1, Advanced
<1>9. /\ UNCHANGED <<send_ready_for_query, ClientAuthInProgress, MyProcPort>>
      /\ \/ pc' = "incoming" /\ recv' = recv /\ send' = s
         \/ pc' = "broken" /\ ~More(recv') /\ PGS_IN[1] = "psql"
  <2>1. peek' # "startup" /\ (peek' = "p" => PGS_IN[1] = "psql")
    BY <1>1, <1>4, <1>5 DEF Head1, Sql
  <2> QED
    BY <1>1, <1>2, <1>8, <2>1, ServeFileParts
<1> HIDE DEF r
<1>10. ~More(recv') /\ ~Noticed'
  BY <1>1, <1>7, <1>9 DEF Noticed
<1>11. Control'
  <2>1. ~(cma_rsize' < 0)
    BY <1>1
  <2> QED
    BY <1>1, <1>2, <1>7, <1>9, <2>1 DEF Control, Later, Begun
<1>12. Asked'
  BY <1>1, <1>2, <1>3, <1>9 DEF Asked, Enters, First
<1>13. Reads' /\ Where'
  BY <1>1, <1>7, <1>9, <1>10 DEF Reads, Where, First, Later, Begun
<1>14. Sends'
  BY <1>1, <1>6, <1>7, <1>9 DEF Sends, AtHost, Enters, First, Later, Begun, Resumes
<1>15. Notices'
  BY <1>1, <1>7, <1>9, <1>10 DEF Notices, AtHost, Enters, First, Later, Begun, Resumes
<1>16. Aborts'
  BY <1>1, <1>9 DEF Aborts
<1> QED
  BY <1>9, <1>11, <1>12, <1>13, <1>14, <1>15, <1>16 DEF Conduct

\* What pq_recvbuf_fill leaves in the buffer.
LEMMA FilledParts ==
  ASSUME NEW r, RecvOK(r), NEW frame \in Frames
  PROVE  /\ Filled(r, frame).mem[r.loc] = frame /\ Filled(r, frame).loc = r.loc
         /\ Filled(r, frame).ptr = 0 /\ Filled(r, frame).len = Len(frame)
         /\ More(Filled(r, frame)) <=> frame # <<>>
<1>1. Len(frame) \in Nat /\ (Len(frame) = 0 <=> frame = <<>>)
  BY EmptySeq DEF Frames
<1> DEFINE mem == [r.mem EXCEPT ![r.loc] = frame]
<1>2. Filled(r, frame) = [r EXCEPT !.mem = mem, !.ptr = 0, !.len = Len(frame)]
  BY Zenon DEF Filled
<1>3. mem[r.loc] = frame
  BY DEF RecvOK, RecvType
<1> HIDE DEF mem
<1>4. /\ Filled(r, frame).mem = mem /\ Filled(r, frame).loc = r.loc
      /\ Filled(r, frame).ptr = 0 /\ Filled(r, frame).len = Len(frame)
  BY <1>2 DEF RecvOK, RecvType
<1> QED
  BY <1>1, <1>3, <1>4 DEF More, Remaining

LEMMA FilledReading ==
  ASSUME NEW r, RecvOK(r), NEW frame
  PROVE  Filled(r, frame).reading = r.reading
<1> DEFINE mem == [r.mem EXCEPT ![r.loc] = frame]
<1>1. Filled(r, frame) = [r EXCEPT !.mem = mem, !.ptr = 0, !.len = Len(frame)]
  BY Zenon DEF Filled
<1> HIDE DEF mem
<1> QED
  BY <1>1 DEF RecvOK, RecvType

\* A request in the request file: a password is answered at once, and the
\* messages of anything else are read from the buffer it was put in.
LEMMA RequestFileWireStep ==
  ASSUME Announced, HInv, IInv', RequestFileWire
  PROVE  Conduct' /\ pc' # "refused" /\ peek' = IF PGS_IN \in Passwords THEN "p" ELSE "other"
<1> DEFINE r == Filled(recv, PGS_IN)
           s == [send EXCEPT !.sockfiles = TRUE]
<1>1. /\ pc = "request" /\ cma_rsize = 0 /\ PGS_IN # NoFile /\ PGS_IN # <<>> /\ ~(is_repl /\ ~is_wire)
      /\ fp' /\ peek' = Head1(PGS_IN) /\ whereToSendOutput' = "Remote" /\ ServeFile(r, s)
      /\ UNCHANGED <<firstchar, pipelining, is_wire, is_repl, cma_rsize, canary_ex,
                     notifyInterruptPending, transaction, PGS_IN, call>>
  BY DEF RequestFileWire, FileHasData, cma, backend, files
<1>2. /\ TypeOK /\ Control /\ Asked /\ Reads /\ Sends /\ Notices /\ RecvOK(recv) /\ send \in SendType
      /\ ~recv.reading
  BY DEF HInv, Conduct, IInv, TypeOK, RecvOK, Settled
<1>3. /\ call \in Calls /\ call.frame \in Seq(Kinds) /\ Len(call.frame) \in Nat
      /\ is_wire /\ WireRequest(call) /\ ~is_repl /\ (call.port = "none" <=> call.frame = <<>>)
  BY <1>1, <1>2, CallAtHand
<1>4. PGS_IN \in Frames
  BY <1>1, <1>2 DEF TypeOK
<1>5. PICK x \in Calls : /\ x.port = "file" /\ x.frame = PGS_IN /\ WireRequest(x)
                          /\ IF Sjlj THEN x = call ELSE TrapsAlone(x)
  <2>1. CASE Sjlj
    <3>1. fp = FALSE
      BY <1>1, <1>2 DEF Control
    <3>2. call.port = "file"
      BY <1>1, <1>2, <2>1, <3>1 DEF Asked
    <3> QED
      BY <1>1, <1>2, <1>3, <2>1, <3>2 DEF Asked
  <2>2. CASE ~Sjlj
    <3>1. PICK x \in Calls : x.port = "file" /\ x.frame = PGS_IN
      BY <1>1, <1>2, <2>2 DEF Asked
    <3>2. (WireRequest(x) \/ ReplLine(x)) /\ TrapsAlone(x)
      BY <2>2, <3>1 DEF Announced, Marked
    <3> QED
      BY <2>2, <3>1, <3>2 DEF ReplLine, TrapsAlone
  <2> QED
    BY <2>1, <2>2
<1>6. /\ IF Sjlj THEN PGS_IN = call.frame ELSE Len(PGS_IN) <= 1
      /\ PGS_IN = <<"badp">> => Sjlj
  BY <1>5 DEF TrapsAlone
<1>7. \/ WellFormed(PGS_IN) /\ peek' = "other"
      \/ PGS_IN \in Passwords /\ peek' = "p"
  <2>1. WellFormed(PGS_IN) \/ PGS_IN \in Passwords
    BY <1>5 DEF WireRequest
  <2>2. ASSUME WellFormed(PGS_IN) PROVE peek' = "other"
    BY <1>1, <1>4, <2>2, HeadOfPlain DEF Frames
  <2>3. ASSUME PGS_IN \in Passwords PROVE peek' = "p"
    BY <1>1, <2>3 DEF Head1, Passwords
  <2> QED
    BY <2>1, <2>2, <2>3
<1>8. /\ RecvOK(r) /\ r.mem[r.loc] = PGS_IN /\ r.ptr = 0 /\ r.len = Len(PGS_IN) /\ More(r)
      /\ ~r.reading
  <2>1. r.loc = recv.loc /\ r.mem[recv.loc] = PGS_IN
    BY <1>2, <1>4, FilledParts
  <2> QED
    BY <1>1, <1>2, <1>4, <2>1, FilledParts, FilledType, FilledReading
<1>9. /\ s \in SendType /\ s.sockfiles /\ Fresh(s) /\ Placed(s, 2 + Len(call.frame)) /\ Loose(s)
  <2>1. Fresh(send)
    BY <1>1, <1>2 DEF Sends
  <2>2. s \in SendType /\ s.sockfiles /\ Fresh(s)
    BY <1>2, <2>1 DEF Fresh, SendType
  <2>3. Len(<<>>) = 0
    OBVIOUS
  <2> QED
    BY <2>2, <2>3 DEF Placed, Loose, Fresh
<1>10. /\ firstchar = "none" /\ pipelining /\ canary_ex = 0
       /\ MyProcPort /\ ~send_ready_for_query /\ ~Noticed
  BY <1>1, <1>2 DEF Control, Notices, Enters
<1>101. \/ /\ peek' = "other" /\ recv' = r /\ send' = s /\ pc' = "incoming"
           /\ UNCHANGED <<send_ready_for_query, ClientAuthInProgress, MyProcPort>>
        \/ PGS_IN = <<"p">> /\ peek' = "p" /\ StartupPass(r, s) /\ pc' = "flush"
        \/ /\ PGS_IN = <<"badp">> /\ peek' = "p" /\ pc' = "broken"
           /\ UNCHANGED <<send_ready_for_query, ClientAuthInProgress, MyProcPort>>
  <2>1. RecvStart(r, s) = r /\ Next1(r) = PGS_IN[1]
    <3>1. RecvStart(r, s) = r
      BY <1>8 DEF RecvStart
    <3>2. Next1(r) = PGS_IN[0 + 1]
      BY <1>8, NextMessage
    <3> QED
      BY <3>1, <3>2
  <2>2. PGS_IN \in Passwords => PGS_IN = <<Next1(r)>>
    BY <2>1 DEF Passwords
  <2> HIDE DEF r, s
  <2>3. peek' # "startup"
    BY <1>7
  <2> QED
    BY <1>1, <1>6, <1>7, <1>8, <2>1, <2>2, <2>3, ServeFileParts DEF Passwords
<1>102. peek' = IF PGS_IN \in Passwords THEN "p" ELSE "other"
  <2>1. PGS_IN \in Passwords => Head1(PGS_IN) = "p"
    BY DEF Head1, Passwords
  <2> QED
    BY <1>1, <1>7, <2>1
<1>11. Asked'
  <2>1. pc' \in {"incoming", "flush", "broken"} /\ cma_rsize' = 0
    BY <1>1, <1>101
  <2> QED
    BY <1>1, <1>2, <2>1 DEF Asked, Enters, First
<1>12. Control'
  <2> HIDE DEF r, s
  <2>1. pc' \in {"incoming", "flush", "broken"} /\ firstchar' = "none" /\ ~(cma_rsize' < 0)
    <3>1. pc' \in {"incoming", "flush", "broken"}
      BY <1>101
    <3>2. firstchar' = "none" /\ cma_rsize' = 0
      BY <1>1, <1>10
    <3> QED
      BY <3>1, <3>2
  <2> QED
    BY <1>1, <1>2, <1>3, <2>1 DEF Control, Later, Begun
<1> HIDE DEF r, s
<1>13. CASE pc' = "flush"
  <2>1. pc' = "flush" /\ PGS_IN = <<"p">> /\ StartupPass(r, s)
    BY <1>101, <1>13
  <2>2. /\ recv' = Advanced(r) /\ send' = Put(s, "R") /\ ~ClientAuthInProgress'
        /\ UNCHANGED MyProcPort
    BY <1>8, <2>1 DEF StartupPass, RecvStart, SendStart
  <2>3. ~More(recv')
    <3>1. r.len = 1 /\ Advanced(r).len = r.len /\ Advanced(r).ptr = r.ptr + 1
      BY <1>8, <2>1, NextMessage
    <3> QED
      BY <1>8, <2>2, <3>1 DEF More, Remaining
  <2>4. Placed(send', 2 + Len(call.frame))
    <3> DEFINE base == 2 + Len(call.frame)
    <3>1. Placed(s, base)
      BY <1>9
    <3> HIDE DEF base
    <3>2. Placed(Put(s, "R"), base)
      BY <1>9, <3>1, PutPlaced DEF Replies
    <3> QED
      BY <2>2, <3>2 DEF base
  <2>5. Reads'
    BY <2>1, <2>3 DEF Reads, First, Later, Begun
  <2>6. Where'
    BY <2>1 DEF Where, Later, Begun
  <2>7. Sends'
    BY <1>1, <1>3, <2>1, <2>4 DEF Sends, AtHost, Enters, First, Later, Begun, Resumes
  <2>8. Notices'
    BY <1>1, <1>3, <1>10, <2>1, <2>2 DEF Notices, AtHost, Enters, First, Later, Begun, Resumes
  <2> QED
    BY <1>102, <1>11, <1>12, <2>1, <2>5, <2>6, <2>7, <2>8 DEF Conduct, Aborts
<1>14. CASE pc' = "incoming"
  <2>1. /\ pc' = "incoming" /\ WellFormed(PGS_IN) /\ peek' = "other" /\ recv' = r /\ send' = s
        /\ UNCHANGED <<send_ready_for_query, ClientAuthInProgress, MyProcPort>>
    BY <1>7, <1>101, <1>14
  <2>2. Filling' /\ More(recv')
    <3>1. More(recv') /\ Frame' = PGS_IN /\ recv'.len = Len(PGS_IN) /\ call' = call
      BY <1>1, <1>8, <2>1 DEF Frame
    <3> QED
      BY <1>6, <2>1, <3>1 DEF Filling
  <2>3. ~ClientAuthInProgress
    <3> SUFFICES ASSUME ClientAuthInProgress PROVE FALSE
      OBVIOUS
    <3>1. call.frame \in Passwords
      BY <1>1, <1>2, <1>3 DEF Asked
    <3>2. call.port \in {"cma", "file"}
      <4>1. call.frame # <<>>
        BY <3>1 DEF Passwords
      <4> QED
        BY <1>3, <4>1 DEF WireRequest
    <3>3. call.port # "cma"
      <4>1. Len(call.frame) # 0
        BY <3>1 DEF Passwords
      <4> QED
        BY <1>1, <1>2, <4>1 DEF Asked
    <3>4. PGS_IN \in Passwords
      BY <1>1, <1>2, <3>1, <3>2, <3>3 DEF Asked
    <3> QED
      BY <1>1, <2>1, <3>4 DEF Head1, Passwords
  <2>5. Reads'
    <3>1. recv'.ptr = 0 /\ send'.sockfiles /\ ~(cma_rsize' > 0)
      BY <1>1, <1>8, <1>9, <2>1
    <3> QED
      BY <1>1, <1>3, <1>10, <2>1, <2>2, <3>1 DEF Reads, First, Later, Begun
  <2>6. Where'
    BY <1>1, <1>3, <1>10, <2>1 DEF Where, Later, Begun
  <2>7. Sends'
    BY <1>1, <1>9, <1>10, <2>1 DEF Sends, AtHost, Enters, First, Later, Begun, Resumes
  <2>8. Notices'
    <3>1. ~Noticed'
      BY <1>1, <1>10, <2>1 DEF Noticed
    <3> QED
      BY <1>1, <1>3, <1>10, <2>1, <2>3, <3>1 DEF Notices, AtHost, Enters, First, Later, Begun, Resumes
  <2> QED
    BY <1>102, <1>11, <1>12, <2>1, <2>5, <2>6, <2>7, <2>8 DEF Conduct, Aborts
<1>15. CASE pc' = "broken"
  <2>1. PGS_IN = <<"badp">> /\ UNCHANGED <<send_ready_for_query, ClientAuthInProgress, MyProcPort>>
    BY <1>101, <1>15
  <2>2. Aborts'
    <3>1. PGS_IN' # NoFile /\ PGS_IN' # <<>> /\ PGS_IN'[1] = "badp"
      BY <1>1, <2>1
    <3> QED
      BY <3>1 DEF Aborts
  <2>3. Reads' /\ Where'
    BY <1>1, <1>3, <1>15 DEF Reads, Where, First, Later, Begun
  <2>4. Sends'
    BY <1>1, <1>3, <1>15 DEF Sends, AtHost, Enters, First, Later, Begun, Resumes
  <2>5. Notices'
    BY <1>1, <1>3, <1>10, <1>15, <2>1 DEF Notices, AtHost, Enters, First, Later, Begun, Resumes
  <2> QED
    BY <1>102, <1>11, <1>12, <1>15, <2>2, <2>3, <2>4, <2>5 DEF Conduct
<1>16. pc' \in {"flush", "incoming", "broken"}
  BY <1>101
<1> QED
  BY <1>13, <1>14, <1>15, <1>16

\* A line of SQL left in memory without a size.
LEMMA RequestMemoryStep ==
  ASSUME Announced, HInv, IInv', RequestMemory
  PROVE  Conduct'
<1>1. /\ pc = "request" /\ cma_rsize = 0 /\ recv.mem["cma"] # <<>>
      /\ fp' = (PGS_IN # NoFile) /\ pc' \in {"return", "incoming"}
      /\ UNCHANGED <<firstchar, pipelining, is_wire, is_repl, cma_rsize, canary_ex, whereToSendOutput,
                     send_ready_for_query, ClientAuthInProgress, MyProcPort,
                     notifyInterruptPending, transaction, recv, send, PGS_IN, call>>
  BY DEF RequestMemory, NoStartup, cma, ready, conn, backend, files
<1>2. /\ TypeOK /\ Control /\ Asked /\ Reads /\ Sends /\ Notices
  BY DEF HInv, Conduct, IInv
<1>3. call.frame \in Seq(Kinds) /\ (is_wire => WireRequest(call))
  BY <1>1, <1>2, CallAtHand
<1>4. ~is_wire
  <2>1. call.port \in {"cma", "memory"}
    BY <1>1, <1>2 DEF Asked
  <2>2. call.port = "cma" => call.frame = <<>>
    BY <1>1, <1>2, <1>3, EmptySeq DEF Asked
  <2>3. call.port = "cma" => FALSE
    BY <1>1, <1>2, <2>2 DEF Asked
  <2> QED
    BY <1>3, <2>1, <2>3 DEF WireRequest
<1>5. /\ firstchar = "none" /\ pipelining /\ canary_ex = 0
      /\ MyProcPort /\ ~send_ready_for_query /\ ~Noticed /\ Fresh(send) /\ ~More(recv)
  BY <1>1, <1>2, <1>4 DEF Control, Notices, Enters, Sends, Reads
<1>6. Control'
  BY <1>1, <1>2, <1>5 DEF Control, Later, Begun
<1>7. Asked'
  BY <1>1, <1>2, <1>4 DEF Asked, Enters, First
<1>8. Reads'
  BY <1>1, <1>4, <1>5 DEF Reads, First, Later, Begun, More, Remaining
<1>9. Where'
  BY <1>1, <1>4, <1>5 DEF Where, Later, Begun
<1>10. Sends'
  BY <1>1, <1>4, <1>5 DEF Sends, AtHost, Enters, First, Later, Begun, Resumes, Fresh, Shut
<1>11. Notices'
  <2>1. ~Noticed'
    BY <1>1, <1>5 DEF Noticed
  <2> QED
    BY <1>1, <1>4, <1>5, <2>1 DEF Notices, AtHost, Enters, First, Later, Begun, Resumes
<1> QED
  BY <1>1, <1>6, <1>7, <1>8, <1>9, <1>10, <1>11 DEF Conduct, Aborts

\* A call without a request.
LEMMA RequestNothingStep ==
  ASSUME HInv, IInv', RequestNothing
  PROVE  Conduct'
<1>1. /\ pc = "request" /\ cma_rsize = 0 /\ recv.mem["cma"] = <<>>
      /\ fp' = (PGS_IN # NoFile) /\ pc' = "return"
      /\ UNCHANGED <<firstchar, pipelining, is_wire, is_repl, cma_rsize, canary_ex, whereToSendOutput,
                     send_ready_for_query, ClientAuthInProgress, MyProcPort,
                     notifyInterruptPending, transaction, recv, send, PGS_IN, call>>
  BY DEF RequestNothing, NoStartup, cma, ready, conn, backend, files
<1>2. /\ TypeOK /\ Control /\ Asked /\ Reads /\ Sends /\ Notices
  BY DEF HInv, Conduct, IInv
<1>3. /\ MyProcPort /\ ~send_ready_for_query /\ ~Noticed /\ Fresh(send) /\ ~More(recv)
  BY <1>1, <1>2 DEF Notices, Enters, Sends, Reads
<1>4. Control'
  BY <1>1, <1>2 DEF Control, Later, Begun
<1>5. Asked'
  BY <1>1, <1>2 DEF Asked, Enters, First
<1>6. Reads'
  BY <1>1, <1>3 DEF Reads, First, Later, Begun, More, Remaining
<1>7. Where'
  BY <1>1 DEF Where, Later, Begun
<1>8. Sends'
  BY <1>1, <1>3 DEF Sends, AtHost, Enters, First, Later, Begun, Resumes, Fresh, Shut
<1>9. Notices'
  <2>1. ~Noticed'
    BY <1>1, <1>3 DEF Noticed
  <2> QED
    BY <1>1, <1>3, <2>1 DEF Notices, AtHost, Enters, First, Later, Begun, Resumes
<1> QED
  BY <1>1, <1>4, <1>5, <1>6, <1>7, <1>8, <1>9 DEF Conduct, Aborts

-----------------------------------------------------------------------------
(* The loop *)

\* The loop ends when the last message of the request was served.
LEMMA LoopEndsStep ==
  ASSUME Announced, HInv, IInv', LoopEnds
  PROVE  Conduct'
<1>1. /\ pc = "incoming" /\ ~pipelining /\ pc' = AfterLoop
      /\ UNCHANGED <<firstchar, peek, fp, pipelining, is_wire, is_repl, cma_rsize, canary_ex,
                     whereToSendOutput, send_ready_for_query, ClientAuthInProgress, MyProcPort,
                     notifyInterruptPending, transaction, recv, send, PGS_IN, call>>
  BY DEF LoopEnds, locals, cma, ready, conn, backend, files
<1>2. /\ TypeOK /\ Control /\ Asked /\ Reads /\ Where /\ Sends /\ Notices /\ cma_rsize \in Nat
  BY <1>1 DEF HInv, Conduct, IInv, RequestSized, Served
<1>3. (is_wire => ~is_repl) /\ (~is_wire => is_repl)
  BY <1>1, <1>2, CallAtHand
<1>4. Later /\ ~First
  BY <1>1, <1>2 DEF Later, First, Reads
<1>5. pc' = (IF is_wire THEN "flush" ELSE "return") /\ ~(cma_rsize' < 0)
  BY <1>1, <1>2, <1>3 DEF AfterLoop
<1>6. ~More(recv) /\ MyProcPort
  BY <1>1, <1>2, <1>4 DEF Reads, Notices, Enters
<1>7. Control'
  BY <1>1, <1>2, <1>5 DEF Control, Later, Begun
<1>8. Asked'
  BY <1>1, <1>2, <1>5 DEF Asked, Enters, First
<1>9. Reads'
  BY <1>1, <1>5, <1>6 DEF Reads, First, Later, Begun, More, Remaining
<1>10. Where'
  BY <1>5 DEF Where, Later, Begun
<1>11. Sends'
  <2>1. is_wire => Placed(send, 2 + Len(call.frame))
    BY <1>2, <1>4 DEF Sends
  <2>2. ~is_wire => Shut(send)
    BY <1>2, <1>4 DEF Sends, Fresh, Shut
  <2> QED
    BY <1>1, <1>5, <2>1, <2>2 DEF Sends, AtHost, Enters, First, Later, Begun, Resumes, Shut
<1>12. Notices'
  <2>1. is_wire => ~ClientAuthInProgress
    BY <1>2, <1>4 DEF Notices
  <2>2. ~is_wire => whereToSendOutput = "Debug" /\ (Noticed => send_ready_for_query)
    BY <1>2, <1>4 DEF Notices, Where
  <2>3. Noticed' = Noticed
    BY <1>1 DEF Noticed
  <2> QED
    BY <1>1, <1>5, <1>6, <2>1, <2>2, <2>3 DEF Notices, AtHost, Enters, First, Later, Begun, Resumes
<1> QED
  BY <1>5, <1>7, <1>8, <1>9, <1>10, <1>11, <1>12 DEF Conduct, Aborts

\* A REPL line is read.
LEMMA LoopSqlStep ==
  ASSUME Announced, HInv, IInv', LoopSql
  PROVE  Conduct'
<1>1. /\ pc = "incoming" /\ pipelining /\ ~is_wire /\ Destination /\ pipelining' = ~is_repl
      /\ firstchar' = "Q" /\ pc' \in {"incoming", "dispatch"}
      /\ UNCHANGED <<peek, fp, is_wire, is_repl, cma_rsize, canary_ex,
                     send_ready_for_query, ClientAuthInProgress, MyProcPort,
                     notifyInterruptPending, transaction, recv, send, PGS_IN, call>>
  BY DEF LoopSql, cma, ready, conn, backend, files
<1>2. /\ TypeOK /\ Control /\ Asked /\ Reads /\ Where /\ Sends /\ Notices /\ cma_rsize \in Nat
  BY <1>1 DEF HInv, Conduct, IInv, RequestSized, Served
<1>3. is_repl
  BY <1>1, <1>2, CallAtHand
<1>4. First
  BY <1>1, <1>2 DEF Later, First, Reads
<1>5. ~(cma_rsize' < 0) /\ whereToSendOutput' = "Debug" /\ pipelining' = FALSE
  <2>1. ~(cma_rsize' < 0)
    BY <1>1, <1>2
  <2> QED
    BY <1>1, <1>3, <2>1 DEF Destination
<1>6. ~More(recv) /\ MyProcPort /\ Fresh(send) /\ ~Noticed
  BY <1>1, <1>2, <1>4 DEF Reads, Notices, Enters, Sends
<1>7. Control'
  BY <1>1, <1>2, <1>5 DEF Control, Later, Begun
<1>8. Asked'
  BY <1>1, <1>2 DEF Asked, Enters, First
<1>9. Reads'
  BY <1>1, <1>5, <1>6 DEF Reads, First, Later, Begun, More, Remaining
<1>10. Where'
  BY <1>1, <1>5 DEF Where, Later, Begun
<1>11. Sends'
  BY <1>1, <1>6 DEF Sends, AtHost, Enters, First, Later, Begun, Resumes
<1>12. Notices'
  <2>1. ~Noticed'
    BY <1>1, <1>6 DEF Noticed
  <2> QED
    BY <1>1, <1>6, <2>1 DEF Notices, AtHost, Enters, First, Later, Begun, Resumes
<1> QED
  BY <1>1, <1>7, <1>8, <1>9, <1>10, <1>11, <1>12 DEF Conduct, Aborts

\* A message is read.
LEMMA LoopReadStep ==
  ASSUME Announced, HInv, IInv', LoopRead
  PROVE  Conduct'
<1>1. /\ pc = "incoming" /\ pipelining /\ is_wire /\ peek \notin {"startup", "p"} /\ Destination
      /\ pipelining' = More(recv')
      /\ UNCHANGED <<peek, fp, is_wire, is_repl, cma_rsize, canary_ex,
                     send_ready_for_query, ClientAuthInProgress, MyProcPort,
                     notifyInterruptPending, transaction, PGS_IN, call>>
  BY DEF LoopRead, cma, ready, conn, backend, files
<1>2. /\ TypeOK /\ Control /\ Asked /\ Reads /\ Where /\ Sends /\ Notices /\ cma_rsize \in Nat
  BY <1>1 DEF HInv, Conduct, IInv, RequestSized, Served
<1>3. /\ Filling' /\ recv'.ptr \in 1 .. recv'.len
      /\ firstchar' = Frame'[recv'.ptr] /\ firstchar' \in Plain
      /\ pc' \in {"incoming", "dispatch"}
      /\ First => recv'.ptr = 1 /\ Placed(send', 2 + Len(call.frame))
      /\ ~First => /\ recv'.ptr = recv.ptr + 1 /\ recv'.loc = recv.loc /\ send' = send
  BY LoopReads
<1>4. ~is_repl /\ ~First => Later
  BY <1>1 DEF First, Later
<1>5. firstchar' # "none" /\ ~is_repl
  <2>1. ~is_repl
    BY <1>1, <1>2, CallAtHand
  <2> QED
    BY <1>3, <2>1 DEF Plain, Extended, Copying
<1>6. Later' /\ ~First' /\ ~Enters' /\ ~Resumes'
  BY <1>3, <1>5 DEF First, Later, Begun, Enters, Resumes
<1>7. peek' = "other" /\ ~ClientAuthInProgress
  <2>1. peek \in {"startup", "p", "other"}
    BY <1>1, <1>2, <1>4, <1>5 DEF Reads, Head1
  <2> QED
    BY <1>1, <1>2, <1>4, <1>5, <2>1 DEF Notices
<1>8. recv.ptr \in Nat /\ recv'.ptr \in Nat /\ canary_ex \in Nat /\ canary_ex < recv'.ptr
  <2>1. recv.ptr \in Nat /\ recv'.ptr \in Nat /\ canary_ex \in Nat
    BY <1>2 DEF IInv, TypeOK, RecvType
  <2>2. First => canary_ex = 0
    BY <1>1, <1>2 DEF Reads
  <2>3. ~First => canary_ex <= recv.ptr
    BY <1>1, <1>2, <1>4, <1>5 DEF Reads
  <2> QED
    BY <1>3, <2>1, <2>2, <2>3
<1>9. Control'
  <2>1. ~(cma_rsize' < 0)
    BY <1>1, <1>2
  <2> QED
    BY <1>1, <1>2, <1>3, <1>5, <2>1 DEF Control
<1>10. Asked'
  <2>1. ~Enters
    BY <1>1 DEF Enters
  <2> QED
    BY <1>1, <1>2, <1>3, <1>6, <2>1 DEF Asked
<1>11. Reads'
  BY <1>1, <1>3, <1>6, <1>7, <1>8 DEF Reads
<1>12. Where'
  BY <1>1, <1>2, <1>5 DEF Where, Destination
<1>13. Sends'
  <2>1. Placed(send', 2 + Len(call.frame))
    BY <1>1, <1>2, <1>3, <1>4, <1>5 DEF Sends
  <2> QED
    BY <1>1, <1>3, <1>6, <2>1 DEF Sends, AtHost
<1>14. Notices'
  <2>1. MyProcPort
    BY <1>1, <1>2 DEF Notices, Enters
  <2> QED
    BY <1>1, <1>3, <1>6, <1>7, <2>1 DEF Notices, AtHost
<1> QED
  BY <1>3, <1>9, <1>10, <1>11, <1>12, <1>13, <1>14 DEF Conduct, Aborts

\* The handshake, in shared memory: the client's first packet, or its password.
LEMMA LoopAuthStep ==
  ASSUME Announced, HInv, IInv', LoopAuth
  PROVE  Conduct' /\ Refused'
<1> DEFINE r    == RecvStart(recv, send)
           s    == SendStart(recv, send)
           base == 2 + Len(call.frame)
<1>1. /\ pc = "incoming" /\ is_wire /\ peek \in {"startup", "p"} /\ pipelining' = ~is_repl
      /\ Handshake(recv, send, AfterLoop, "refused") /\ Destination
      /\ UNCHANGED <<firstchar, peek, fp, is_wire, is_repl, cma_rsize, canary_ex,
                     notifyInterruptPending, transaction, PGS_IN, call>>
  BY DEF LoopAuth, locals, cma, backend, files
<1>2. /\ TypeOK /\ Control /\ Asked /\ Reads /\ Where /\ Sends /\ Notices /\ cma_rsize \in Nat
      /\ ~recv.reading
  BY <1>1 DEF HInv, Conduct, IInv, RequestSized, Served, Settled
<1>3. /\ ~is_repl /\ WireRequest(call) /\ call.frame \in Seq(Kinds) /\ Len(call.frame) \in Nat
  BY <1>1, <1>2, CallAtHand
<1>4. First /\ cma_rsize > 0
  <2>1. First
    BY <1>1, <1>2 DEF First, Later, Reads
  <2> QED
    BY <1>1, <1>2, <2>1 DEF Reads
<1>5. /\ RecvOK(r) /\ More(r) /\ r.mem[r.loc] = call.frame /\ r.ptr = 0
      /\ r.len = Len(call.frame) /\ peek = Head1(call.frame)
      /\ s \in SendType /\ Placed(s, base)
  BY <1>1, <1>3, <1>4, CmaAtHand
<1>6. AfterLoop = "flush" /\ MyProcPort
  BY <1>1, <1>2, <1>3 DEF AfterLoop, Notices, Enters
<1> HIDE DEF r, s, base
<1>7. call.frame = <<"startup">> \/ call.frame \in Passwords
  <2>1. ASSUME WellFormed(call.frame) PROVE FALSE
    <3>1. call.frame # <<>>
      BY <1>5 DEF More, Remaining
    <3> QED
      BY <1>1, <1>3, <1>5, <2>1, <3>1, HeadOfPlain
  <2> QED
    BY <1>3, <2>1 DEF WireRequest
<1>8. Next1(r) = call.frame[1] /\ Advanced(r).len = 1 /\ Advanced(r).ptr = 1
  <2>1. r.len = 1 /\ r.len = Len(r.mem[r.loc]) /\ r.ptr + 1 = 1
    <3>1. Len(<<"startup">>) = 1 /\ Len(<<"p">>) = 1 /\ Len(<<"badp">>) = 1
      OBVIOUS
    <3>2. Len(call.frame) = 1
      BY <1>7, <3>1 DEF Passwords
    <3>3. r.ptr = 0 /\ r.len = Len(call.frame) /\ r.mem[r.loc] = call.frame
      BY <1>5
    <3> QED
      BY <3>2, <3>3
  <2>2. /\ Next1(r) = r.mem[r.loc][r.ptr + 1]
        /\ Advanced(r).len = r.len /\ Advanced(r).ptr = r.ptr + 1
    BY <1>5, <2>1, NextMessage
  <2> QED
    BY <1>5, <2>1, <2>2
<1>9. /\ pc' \in {"flush", "refused"} /\ ~More(recv') /\ Placed(send', base) /\ MyProcPort'
      /\ pc' = "flush" => (ClientAuthInProgress' => ~send_ready_for_query')
  <2>1. Placed(Put(s, "R"), base) /\ Placed(Flushed(Put(s, "R")), base)
    <3>1. "R" \in Replies /\ Loose(s)
      BY <1>5 DEF Replies, Placed
    <3>2. Kept(s, Put(s, "R")) /\ Kept(s, Flushed(Put(s, "R")))
      BY <1>5, <3>1, RepliesKept
    <3> QED
      BY <1>5, <3>2 DEF Kept
  <2>2. CASE peek = "startup"
    <3>1. /\ StartupAuth(recv, send) /\ pc' = "flush"
      BY <1>1, <1>2, <1>6, <2>2 DEF Handshake
    <3>2. cma_rsize # 0
      BY <1>2, <1>4
    <3>3. recv' = Drained(r) /\ send' = Flushed(Put(s, "R")) /\ ~send_ready_for_query'
          /\ MyProcPort' = MyProcPort
      BY <3>1, <3>2 DEF StartupAuth, r, s
    <3>4. Drained(r).ptr = r.len /\ Drained(r).len = r.len /\ r.len \in Nat
      BY <1>5 DEF Drained, RecvOK, RecvType
    <3>5. ~More(recv')
      BY <3>3, <3>4 DEF More, Remaining
    <3> QED
      BY <1>6, <2>1, <3>1, <3>3, <3>5
  <2>3. CASE peek = "p"
    <3>1. ~More(Advanced(r))
      BY <1>8 DEF More, Remaining
    <3>2. Password(recv, send) = call.frame[1] /\ call.frame[1] \in {"p", "badp"}
      BY <1>2, <1>5, <1>7, <1>8, <2>3 DEF Password, Passwords, Head1, r
    <3>3. CASE call.frame[1] = "p"
      <4>1. StartupPass(recv, send) /\ pc' = "flush"
        BY <1>1, <1>6, <2>3, <3>2, <3>3 DEF Handshake
      <4>2. recv' = Advanced(r) /\ send' = Put(s, "R") /\ ~ClientAuthInProgress'
            /\ MyProcPort' = MyProcPort
        BY <4>1 DEF StartupPass, r, s
      <4> QED
        BY <1>6, <2>1, <3>1, <4>1, <4>2
    <3>4. CASE call.frame[1] = "badp"
      <4>1. NoPassword(recv, send) /\ pc' = "refused"
        BY <1>1, <2>3, <3>2, <3>4 DEF Handshake
      <4>2. recv' = Advanced(r) /\ send' = s /\ MyProcPort' = MyProcPort
        BY <4>1 DEF NoPassword, NoStartup, conn, r, s
      <4> QED
        BY <1>5, <1>6, <3>1, <4>1, <4>2
    <3> QED
      BY <3>2, <3>3, <3>4
  <2> QED
    BY <1>1, <2>2, <2>3
<1>10. Control'
  <2>1. ~(cma_rsize' < 0)
    BY <1>1, <1>2
  <2> QED
    BY <1>1, <1>2, <1>9, <2>1 DEF Control, Later, Begun
<1>11. Asked'
  BY <1>1, <1>2, <1>9 DEF Asked, Enters, First
<1>12. Reads'
  BY <1>9 DEF Reads, First, Later, Begun
<1>13. Where'
  BY <1>9 DEF Where, Later, Begun
<1>14. Sends'
  BY <1>1, <1>9 DEF Sends, AtHost, Enters, First, Later, Begun, Resumes, base
<1>15. Notices'
  <2>1. pc' = "refused" => ~Later'
    BY DEF Later, Begun
  <2> QED
    BY <1>1, <1>9 DEF Notices, AtHost, Enters, First, Later, Begun, Resumes
<1>16. Refused'
  <2> SUFFICES ASSUME pc' = "refused"
               PROVE  /\ call.frame = <<"badp">> /\ ClientAuthInProgress'
                      /\ ~send_ready_for_query' /\ whereToSendOutput' = "Remote"
    BY <1>1, <1>2, <1>4, <1>9 DEF Refused, First, base
  <2>1. NoPassword(recv, send) /\ Next1(r) = "badp"
    BY <1>1, <1>2, <1>6 DEF Handshake, Password, r
  <2>2. call.frame = <<"badp">>
    <3>1. call.frame[1] = "badp"
      BY <1>8, <2>1
    <3> QED
      BY <1>7, <3>1 DEF Passwords
  <2>3. /\ ClientAuthInProgress /\ ~send_ready_for_query /\ whereToSendOutput = "Remote"
    BY <1>1, <1>2, <1>4, <2>2 DEF Asked, Notices, Where, Passwords
  <2> QED
    BY <1>1, <1>3, <2>1, <2>2, <2>3 DEF NoPassword, NoStartup, Destination, ready, conn
<1> QED
  BY <1>9, <1>10, <1>11, <1>12, <1>13, <1>14, <1>15, <1>16 DEF Conduct, Aborts

-----------------------------------------------------------------------------
(* One message *)

\* What the execution of a message does to the rest: in dispatch or inside a
\* COPY, at most one more message is taken from the buffer.
Executes ==
  /\ pc \in {"dispatch", "copying"} /\ pc' \in {"rfq", "copying", "error", "trapped"}
  /\ UNCHANGED <<firstchar, peek, fp, pipelining, is_wire, is_repl, cma_rsize, canary_ex,
                 ClientAuthInProgress, MyProcPort, whereToSendOutput, PGS_IN, call>>
  /\ recv' = recv \/ (is_wire /\ More(recv) /\ recv' = Advanced(recv))
  /\ Kept(send, send') /\ (~is_wire => send' = send)
  /\ ~is_wire => \/ send_ready_for_query'
                 \/ UNCHANGED <<send_ready_for_query, notifyInterruptPending, transaction>>
  /\ pc' = "error" => Sjlj
  /\ pc' = "trapped" => ~Sjlj
  /\ pc' = "copying" => is_wire /\ firstchar = "copy" /\ Completed(Frame, recv'.ptr)

LEMMA ExecutesStep ==
  ASSUME HInv, IInv', Executes
  PROVE  Conduct'
<1>1. /\ TypeOK /\ Control /\ Asked /\ Reads /\ Where /\ Sends /\ Notices /\ cma_rsize \in Nat
  BY DEF HInv, Conduct, IInv, RequestSized, Served, Executes
<1>2. /\ Later /\ ~First /\ ~Enters /\ ~Resumes
      /\ Later' /\ ~First' /\ ~Enters' /\ ~Resumes' /\ firstchar' = firstchar
  BY <1>1 DEF Executes, Later, First, Enters, Resumes, Begun, Control
<1>3. /\ Frame' = Frame /\ recv'.len = recv.len /\ recv'.ptr \in {recv.ptr, recv.ptr + 1}
      /\ recv.ptr \in Nat /\ recv.len \in Nat
      /\ (More(recv') => More(recv)) /\ (~is_wire => recv' = recv)
  <2>1. CASE recv' = recv
    BY <1>1, <2>1 DEF Frame, TypeOK, RecvType
  <2>2. CASE is_wire /\ More(recv) /\ recv' = Advanced(recv)
    <3>1. recv' = [recv EXCEPT !.ptr = recv.ptr + 1]
      BY <2>2 DEF Advanced
    <3>2. recv.ptr \in Nat /\ recv.len \in Nat /\ recv'.mem = recv.mem /\ recv'.loc = recv.loc
          /\ recv'.len = recv.len /\ recv'.ptr = recv.ptr + 1
      BY <1>1, <3>1 DEF TypeOK, RecvType
    <3> QED
      BY <2>2, <3>2 DEF Frame
  <2> QED
    BY <2>1, <2>2 DEF Executes
<1>4. Control'
  <2>1. ~(cma_rsize' < 0)
    BY <1>1 DEF Executes
  <2> QED
    BY <1>1, <1>2, <2>1 DEF Control, Executes
<1>5. Asked'
  BY <1>1, <1>2 DEF Asked, Executes
<1>6. Reads'
  <2>1. CASE is_wire
    <3>1. /\ Filling' /\ peek' = "other" /\ firstchar' \in Plain /\ canary_ex' = canary_ex
          /\ pipelining' = pipelining /\ (More(recv) => pipelining)
          /\ recv.ptr >= 1 /\ canary_ex < recv.ptr /\ canary_ex \in Nat
      BY <1>1, <1>2, <1>3, <2>1 DEF Reads, Executes, Filling, TypeOK
    <3>2. recv'.ptr >= 1 /\ canary_ex' <= recv'.ptr /\ canary_ex' < recv'.ptr
      BY <1>3, <3>1
    <3>3. pc' = "copying" => Completed(Frame', recv'.ptr)
      BY <1>3 DEF Executes
    <3>4. pc' \in {"rfq", "copying", "error", "trapped"} /\ is_wire'
      BY <2>1 DEF Executes
    <3> QED
      BY <1>2, <1>3, <3>1, <3>2, <3>3, <3>4 DEF Reads
  <2>2. CASE ~is_wire
    <3>1. pipelining' = FALSE /\ ~More(recv') /\ ~is_wire'
      BY <1>1, <1>2, <1>3, <2>2 DEF Reads, Executes
    <3> QED
      BY <1>2, <3>1 DEF Reads
  <2> QED
    BY <2>1, <2>2
<1>7. Where'
  BY <1>1, <1>2 DEF Where, Executes
<1>8. Sends'
  <2>1. is_wire => Placed(send', 2 + Len(call.frame))
    BY <1>1, <1>2 DEF Sends, Executes, Kept
  <2>2. ~is_wire => Fresh(send')
    BY <1>1, <1>2 DEF Sends, Executes
  <2> QED
    BY <1>2, <2>1, <2>2 DEF Sends, Executes, AtHost
<1>9. Notices'
  <2>1. MyProcPort /\ (is_wire => ~ClientAuthInProgress)
    BY <1>1, <1>2 DEF Notices, Executes
  <2>2. ~is_wire => (Noticed' => send_ready_for_query')
    BY <1>1, <1>2 DEF Notices, Executes, Noticed
  <2> QED
    BY <1>2, <2>1, <2>2 DEF Notices, Executes, AtHost
<1> QED
  BY <1>4, <1>5, <1>6, <1>7, <1>8, <1>9 DEF Conduct, Aborts, Executes

\* Where the replies of a message that is being served go.
LEMMA ServedReplies ==
  ASSUME HInv, pc \in {"dispatch", "copying", "rfq", "error", "trapped"}
  PROVE  /\ Later /\ ~First /\ send \in SendType /\ Loose(send) /\ RecvOK(recv)
         /\ (is_wire => Placed(send, 2 + Len(call.frame)) /\ whereToSendOutput = "Remote")
         /\ (~is_wire => whereToSendOutput = "Debug" /\ Fresh(send) /\ firstchar = "Q" /\ ~More(recv))
<1>1. /\ TypeOK /\ Control /\ Reads /\ Where /\ Sends /\ Later /\ ~First
  BY DEF HInv, Conduct, IInv, Later, First, Begun
<1>2. is_wire => Placed(send, 2 + Len(call.frame)) /\ whereToSendOutput = "Remote"
  BY <1>1 DEF Sends, Where
<1>3. ~is_wire => whereToSendOutput = "Debug" /\ Fresh(send) /\ firstchar = "Q" /\ ~More(recv)
  BY <1>1 DEF Sends, Where, Control, Reads
<1>4. Loose(send)
  <2>1. Len(<<>>) = 0
    OBVIOUS
  <2> QED
    BY <1>2, <1>3, <2>1 DEF Placed, Fresh, Loose
<1> QED
  BY <1>1, <1>2, <1>3, <1>4 DEF TypeOK, RecvOK

\* What a message that is not a COPY changes.
LEMMA ExecutedStep ==
  ASSUME HInv, pc = "dispatch", Executed,
         send' \in {send, Answer(send, "ok"), Flushed(send)}, ~is_wire => send' \in {send, Answer(send, "ok")},
         ~is_wire => \/ send_ready_for_query'
                     \/ UNCHANGED <<send_ready_for_query, notifyInterruptPending, transaction>>
  PROVE  Executes
<1>1. send \in SendType /\ Loose(send) /\ (~is_wire => whereToSendOutput = "Debug")
  BY ServedReplies
<1>2. Kept(send, send')
  BY <1>1, RepliesKept DEF Replies
<1>3. ~is_wire => send' = send
  BY <1>1 DEF Answer
<1> QED
  BY <1>2, <1>3 DEF Executed, Executes, locals, cma, conn, files

LEMMA MessageStep ==
  ASSUME HInv, SimpleQuery \/ Parse \/ BindExecute \/ CloseDescribe \/ FunctionCall
               \/ Flush \/ Sync \/ CopyStray
  PROVE  Executes
<1>1. pc = "dispatch"
  BY DEF SimpleQuery, Parse, BindExecute, CloseDescribe, ExtendedQuery, FunctionCall, Flush, Sync,
         CopyStray, Dispatch
<1>2. ~is_wire => whereToSendOutput = "Debug" /\ firstchar = "Q"
  BY <1>1, ServedReplies
<1>3. CASE SimpleQuery
  BY <1>1, <1>3, ExecutedStep DEF SimpleQuery
<1>4. CASE Parse \/ BindExecute \/ CloseDescribe
  <2>1. is_wire
    BY <1>2, <1>4 DEF Parse, BindExecute, CloseDescribe, ExtendedQuery, Dispatch
  <2>2. Executed /\ send' = Answer(send, "ok")
    BY <1>4 DEF Parse, BindExecute, CloseDescribe, ExtendedQuery
  <2> QED
    BY <1>1, <2>1, <2>2, ExecutedStep
<1>5. CASE FunctionCall
  BY <1>1, <1>5, ExecutedStep DEF FunctionCall
<1>6. CASE Flush
  <2>1. is_wire
    BY <1>2, <1>6 DEF Flush, Dispatch
  <2>2. Executed /\ send' \in {send, Flushed(send)}
    BY <1>6 DEF Flush
  <2> QED
    BY <1>1, <2>1, <2>2, ExecutedStep
<1>7. CASE Sync
  BY <1>1, <1>7, ExecutedStep DEF Sync
<1>8. CASE CopyStray
  BY <1>1, <1>8, ExecutedStep DEF CopyStray, ready, backend
<1> QED
  BY <1>3, <1>4, <1>5, <1>6, <1>7, <1>8

\* COPY FROM STDIN begins, where the client has sent all of it.
LEMMA CopyBeginStep ==
  ASSUME HInv, CopyBegin
  PROVE  Executes
<1>1. /\ pc = "dispatch" /\ firstchar = "copy" /\ pc' = "copying" /\ send' = Flushed(Answer(send, "ok"))
      /\ UNCHANGED <<firstchar, peek, fp, pipelining, is_wire, is_repl, cma_rsize, canary_ex,
                     ClientAuthInProgress, MyProcPort, whereToSendOutput, PGS_IN, call, recv>>
  BY DEF CopyBegin, Dispatch, locals, cma, conn, files
<1>2. is_wire /\ Later /\ send \in SendType /\ Loose(send) /\ RecvOK(recv) /\ Reads
  BY <1>1, ServedReplies DEF HInv, Conduct
<1>3. Kept(send, send')
  BY <1>1, <1>2, RepliesKept DEF Replies
<1>4. Completed(Frame, recv'.ptr)
  <2>1. Filling /\ recv.ptr >= 1 /\ firstchar = Frame[recv.ptr]
    BY <1>1, <1>2 DEF Reads
  <2>2. recv.ptr \in 1 .. Len(Frame)
    BY <1>2, <2>1 DEF Filling, RecvOK, RecvType
  <2>3. Completed(Frame, recv.ptr)
    BY <1>1, <2>1, <2>2 DEF Filling, WellFormed
  <2> QED
    BY <1>1, <2>3
<1> QED
  BY <1>1, <1>2, <1>3, <1>4 DEF Executes

\* An ERROR.
LEMMA FailStep ==
  ASSUME HInv, Fail
  PROVE  Executes
<1>1. /\ pc = "dispatch" /\ pc' = IF Sjlj THEN "error" ELSE "trapped"
      /\ UNCHANGED <<firstchar, peek, fp, pipelining, is_wire, is_repl, cma_rsize, canary_ex,
                     ClientAuthInProgress, MyProcPort, whereToSendOutput, PGS_IN, call, recv, send,
                     send_ready_for_query, notifyInterruptPending, transaction>>
  BY DEF Fail, Dispatch, locals, cma, conn, files, ready, backend
<1>2. send \in SendType /\ Loose(send)
  BY <1>1, ServedReplies
<1>3. Kept(send, send')
  BY <1>1, <1>2, RepliesKept
<1> QED
  BY <1>1, <1>3 DEF Executes

\* A COPY that was sent to its end has another message in the buffer, of a
\* kind that belongs to it.
LEMMA CopyReads ==
  ASSUME HInv, CopyTake
  PROVE  /\ is_wire /\ More(recv) /\ recv' = Advanced(recv) /\ firstchar = "copy"
         /\ SendStart(recv, send) = send
         /\ CopyNext \in Copying \cup {"H", "S"}
         /\ CopyNext \notin {"c", "f"} => Completed(Frame, recv'.ptr)
<1>1. pc = "copying" /\ recv' = Advanced(RecvStart(recv, send))
  BY DEF CopyTake
<1>2. /\ firstchar = "copy" /\ Later /\ is_wire /\ RecvOK(recv) /\ Reads
  BY <1>1, ServedReplies DEF HInv, Conduct, Control
<1>3. Filling /\ Completed(Frame, recv.ptr)
  BY <1>1, <1>2 DEF Reads
<1>4. recv.len = Len(Frame) /\ recv.ptr \in Nat /\ recv.len \in Nat
  BY <1>2, <1>3 DEF Filling, RecvOK, RecvType
<1>5. PICK j \in recv.ptr + 1 .. Len(Frame) :
        Frame[j] \in {"c", "f"} /\ \A k \in recv.ptr + 1 .. j : Frame[k] \in Copying \cup {"H", "S"}
  BY <1>3 DEF Completed
<1>6. j \in Nat /\ recv.ptr + 1 <= j /\ j <= recv.len
  BY <1>4, <1>5
<1>7. More(recv)
  BY <1>4, <1>6 DEF More, Remaining
<1>8. RecvStart(recv, send) = recv /\ SendStart(recv, send) = send
  BY <1>7 DEF RecvStart, SendStart
<1>9. /\ Next1(recv) = Frame[recv.ptr + 1]
      /\ recv'.mem = recv.mem /\ recv'.loc = recv.loc /\ recv'.ptr = recv.ptr + 1
  BY <1>1, <1>2, <1>4, <1>7, <1>8, NextMessage DEF Frame
<1>10. CopyNext = Frame[recv.ptr + 1]
  BY <1>8, <1>9 DEF CopyNext
<1>11. recv.ptr + 1 \in recv.ptr + 1 .. j
  BY <1>4, <1>6
<1>12. CopyNext \in Copying \cup {"H", "S"}
  BY <1>5, <1>10, <1>11
<1>13. ASSUME CopyNext \notin {"c", "f"} PROVE Completed(Frame, recv'.ptr)
  <2>1. j # recv.ptr + 1
    BY <1>5, <1>10, <1>13
  <2>2. j \in recv'.ptr + 1 .. Len(Frame)
    BY <1>4, <1>6, <1>9, <2>1
  <2>3. \A k \in recv'.ptr + 1 .. j : k \in recv.ptr + 1 .. j
    BY <1>4, <1>6, <1>9
  <2> QED
    BY <1>5, <2>2, <2>3 DEF Completed
<1> QED
  BY <1>1, <1>2, <1>7, <1>8, <1>12, <1>13

LEMMA CopyStep ==
  ASSUME HInv, CopyData \/ CopyDone \/ CopyFail
  PROVE  Executes
<1>1. pc = "copying" /\ CopyTake
  BY DEF CopyData, CopyDone, CopyFail, CopyTake
<1>2. /\ is_wire /\ More(recv) /\ recv' = Advanced(recv) /\ firstchar = "copy"
      /\ SendStart(recv, send) = send /\ CopyNext \in Copying \cup {"H", "S"}
      /\ CopyNext \notin {"c", "f"} => Completed(Frame, recv'.ptr)
  BY <1>1, CopyReads
<1>3. /\ UNCHANGED <<firstchar, peek, fp, pipelining, is_wire, is_repl, cma_rsize, canary_ex,
                     ClientAuthInProgress, MyProcPort, whereToSendOutput, PGS_IN, call>>
  BY <1>1 DEF CopyTake, locals, cma, conn, files
<1>4. send \in SendType /\ Loose(send)
  BY <1>1, ServedReplies
<1>5. Kept(send, send) /\ Kept(send, Answer(send, "ok"))
  BY <1>4, RepliesKept DEF Replies
<1>6. CASE CopyData
  <2>1. CopyNext \in {"d", "H", "S"} /\ CopyNext \notin {"c", "f"}
    BY <1>2, <1>6 DEF CopyData, Copying
  <2>2. pc' = "copying" /\ send' = send
    BY <1>2, <1>6, <2>1 DEF CopyData
  <2> QED
    BY <1>1, <1>2, <1>3, <1>5, <2>1, <2>2 DEF Executes
<1>7. CASE CopyDone
  <2>1. pc' = "rfq" /\ send' = Answer(send, "ok")
    BY <1>2, <1>7 DEF CopyDone
  <2> QED
    BY <1>1, <1>2, <1>3, <1>5, <2>1 DEF Executes
<1>8. CASE CopyFail
  <2>1. pc' = (IF Sjlj THEN "error" ELSE "trapped") /\ send' = send
    BY <1>2, <1>8 DEF CopyFail
  <2> QED
    BY <1>1, <1>2, <1>3, <1>5, <2>1 DEF Executes
<1> QED
  BY <1>6, <1>7, <1>8

\* The client ends its session; nothing comes behind that.
LEMMA TerminateStep ==
  ASSUME Announced, HInv, IInv', Terminate
  PROVE  Conduct'
<1>1. /\ pc = "dispatch" /\ firstchar \in {"X", "EOF"} /\ is_repl' = FALSE /\ pc' = "flush"
      /\ ~send_ready_for_query'
      /\ UNCHANGED <<firstchar, peek, fp, is_wire, cma_rsize, canary_ex, ClientAuthInProgress, MyProcPort,
                     notifyInterruptPending, transaction, recv, send, PGS_IN, call>>
  BY DEF Terminate, Dispatch, locals, cma, backend, files
<1>2. /\ TypeOK /\ Control /\ Asked /\ Reads /\ Sends /\ Notices /\ cma_rsize \in Nat
  BY <1>1 DEF HInv, Conduct, IInv, RequestSized, Served
<1>3. /\ is_wire /\ Later /\ RecvOK(recv) /\ Placed(send, 2 + Len(call.frame))
  BY <1>1, ServedReplies
<1>4. ~is_repl
  BY <1>1, <1>2, <1>3, CallAtHand
<1>5. ~More(recv)
  <2>1. Filling /\ recv.ptr >= 1 /\ firstchar = Frame[recv.ptr] /\ firstchar \in Plain
    BY <1>1, <1>2, <1>3 DEF Reads
  <2>2. firstchar = "X"
    BY <1>1, <2>1 DEF Plain, Extended, Copying
  <2>3. recv.ptr \in 1 .. Len(Frame) /\ recv.len = Len(Frame) /\ recv.ptr \in Nat /\ recv.len \in Nat
    BY <1>3, <2>1 DEF Filling, RecvOK, RecvType
  <2>4. recv.ptr = recv.len
    BY <2>1, <2>2, <2>3 DEF Filling, WellFormed
  <2> QED
    BY <2>3, <2>4 DEF More, Remaining
<1>6. MyProcPort /\ ~ClientAuthInProgress /\ ~(cma_rsize' < 0)
  <2>1. MyProcPort /\ ~ClientAuthInProgress
    BY <1>1, <1>2, <1>3 DEF Notices, Enters
  <2> QED
    BY <1>1, <1>2, <2>1
<1>7. Control'
  BY <1>1, <1>2, <1>4, <1>6 DEF Control, Later, Begun
<1>8. Asked'
  BY <1>1, <1>2 DEF Asked, Enters, First
<1>9. Reads'
  BY <1>1, <1>5 DEF Reads, First, Later, Begun, More, Remaining
<1>10. Where'
  BY <1>1 DEF Where, Later, Begun
<1>11. Sends'
  BY <1>1, <1>3 DEF Sends, AtHost, Enters, First, Later, Begun, Resumes
<1>12. Notices'
  BY <1>1, <1>3, <1>6 DEF Notices, AtHost, Enters, First, Later, Begun, Resumes
<1> QED
  BY <1>1, <1>7, <1>8, <1>9, <1>10, <1>11, <1>12 DEF Conduct, Aborts

\* The end of an iteration.
LEMMA AfterMessageStep ==
  ASSUME HInv, IInv', AfterMessage
  PROVE  Conduct'
<1>1. /\ pc = "rfq" /\ pc' = "incoming" /\ pipelining' = (pipelining /\ More(recv))
      /\ \/ pipelining' /\ send' = Flushed(Answer(send, "Z"))
         \/ send' = send /\ send_ready_for_query' = send_ready_for_query
      /\ UNCHANGED <<firstchar, peek, fp, is_wire, is_repl, cma_rsize, canary_ex, ClientAuthInProgress,
                     MyProcPort, whereToSendOutput, notifyInterruptPending, transaction, recv, PGS_IN,
                     call>>
  BY DEF AfterMessage, locals, cma, conn, backend, files, ready
<1>2. /\ TypeOK /\ Control /\ Asked /\ Reads /\ Where /\ Sends /\ Notices /\ cma_rsize \in Nat
  BY <1>1 DEF HInv, Conduct, IInv, RequestSized, Served
<1>3. /\ Later /\ ~First /\ send \in SendType /\ Loose(send)
      /\ is_wire => Placed(send, 2 + Len(call.frame))
      /\ ~is_wire => Fresh(send) /\ ~More(recv)
  BY <1>1, ServedReplies
<1>4. Later' /\ ~First' /\ ~Enters' /\ ~Resumes'
  BY <1>1, <1>2, <1>3 DEF Later, First, Enters, Resumes, Begun, Control
<1>5. Kept(send, send')
  BY <1>1, <1>3, RepliesKept DEF Replies
<1>6. More(recv') = More(recv) /\ Filling' = Filling
  BY <1>1 DEF More, Remaining, Filling, Frame
<1>7. Control'
  <2>1. ~(cma_rsize' < 0)
    BY <1>1, <1>2
  <2> QED
    BY <1>1, <1>2, <1>3, <1>4, <2>1 DEF Control
<1>8. Asked'
  <2>1. ~Enters
    BY <1>1 DEF Enters
  <2> QED
    BY <1>1, <1>2, <1>4, <2>1 DEF Asked
<1>9. Reads'
  <2>1. CASE is_wire
    <3>1. /\ Filling /\ recv.ptr >= 1 /\ peek = "other" /\ firstchar \in Plain
          /\ canary_ex <= recv.ptr /\ (More(recv) => pipelining)
      BY <1>1, <1>2, <1>3, <2>1 DEF Reads
    <3> QED
      BY <1>1, <1>4, <1>6, <2>1, <3>1 DEF Reads
  <2>2. CASE ~is_wire
    <3>1. ~pipelining' /\ ~More(recv') /\ ~is_wire'
      BY <1>1, <1>3, <1>6, <2>2
    <3> QED
      BY <1>1, <1>4, <3>1 DEF Reads
  <2> QED
    BY <2>1, <2>2
<1>10. Where'
  BY <1>1, <1>2, <1>3, <1>4 DEF Where
<1>11. Sends'
  <2>1. ~is_wire => send' = send
    BY <1>1, <1>3
  <2>2. is_wire => Placed(send', 2 + Len(call.frame))
    BY <1>3, <1>5 DEF Kept
  <2> QED
    BY <1>1, <1>3, <1>4, <2>1, <2>2 DEF Sends, AtHost
<1>12. Notices'
  <2>1. ~is_wire => send_ready_for_query' = send_ready_for_query /\ (Noticed => send_ready_for_query)
    BY <1>1, <1>2, <1>3 DEF Notices
  <2>2. MyProcPort /\ (is_wire => ~ClientAuthInProgress)
    BY <1>1, <1>2, <1>3 DEF Notices, Enters
  <2>3. Noticed' = Noticed
    BY <1>1 DEF Noticed
  <2> QED
    BY <1>1, <1>4, <2>1, <2>2, <2>3 DEF Notices, AtHost
<1> QED
  BY <1>1, <1>7, <1>8, <1>9, <1>10, <1>11, <1>12 DEF Conduct, Aborts

-----------------------------------------------------------------------------
(* Errors *)

\* The error handler of emscripten: it goes on with the messages that are left.
\* An error for each of them is within what abort() tolerates.
LEMMA LongJumpStep ==
  ASSUME HInv, IInv', LongJump, pc = "error"
  PROVE  Conduct'
<1>1. /\ pc = "error" /\ ClearError
      /\ More(recv) => /\ pc' = IF canary_ex > CanaryMax THEN "broken" ELSE "incoming"
                       /\ canary_ex' = canary_ex + 1 /\ pipelining' \in {pipelining, TRUE}
      /\ ~More(recv) => pc' = "flush" /\ UNCHANGED canary_ex
      /\ UNCHANGED <<firstchar, peek, fp, is_wire, is_repl, cma_rsize, ClientAuthInProgress,
                     MyProcPort, whereToSendOutput, notifyInterruptPending, recv, PGS_IN, call>>
  <2>1. ~recv.reading
    BY DEF HInv, Settled
  <2> QED
    BY <2>1 DEF LongJump, Synchronised, ClearError, locals, cma, conn, files
<1>2. /\ TypeOK /\ Control /\ Asked /\ Reads /\ Where /\ Sends /\ Notices /\ cma_rsize \in Nat
  BY <1>1 DEF HInv, Conduct, IInv, RequestSized, Served
<1>3. /\ Later /\ ~First /\ send \in SendType /\ Loose(send) /\ RecvOK(recv)
      /\ is_wire => Placed(send, 2 + Len(call.frame)) /\ whereToSendOutput = "Remote"
      /\ ~is_wire => Fresh(send) /\ ~More(recv) /\ whereToSendOutput = "Debug"
  BY <1>1, ServedReplies
<1>4. Kept(send, send')
  <2>1. send' \in {send, Flushed(Put(send, "E"))}
    BY <1>1 DEF ClearError
  <2> QED
    BY <1>3, <2>1, RepliesKept DEF Replies
<1>5. ~(cma_rsize' < 0) /\ Sjlj /\ MyProcPort /\ (is_wire => ~ClientAuthInProgress) /\ ~Enters
  <2>1. Sjlj /\ MyProcPort /\ (is_wire => ~ClientAuthInProgress) /\ ~Enters
    BY <1>1, <1>2, <1>3 DEF Control, Notices, Enters
  <2> QED
    BY <1>1, <1>2, <2>1
<1>6. CASE More(recv) /\ ~(canary_ex > CanaryMax)
  <2>1. is_wire
    BY <1>1, <1>3, <1>6
  <2>2. /\ Filling /\ recv.ptr >= 1 /\ peek = "other" /\ firstchar \in Plain
        /\ canary_ex < recv.ptr /\ pipelining
    BY <1>1, <1>2, <1>3, <1>6, <2>1 DEF Reads
  <2>3. /\ recv.ptr \in Nat /\ recv.len \in Nat /\ canary_ex \in Nat /\ recv.ptr < recv.len
    BY <1>2, <1>3, <1>6, <2>2 DEF More, Remaining, RecvOK, RecvType, TypeOK
  <2>4. canary_ex' <= recv'.ptr /\ recv'.ptr >= 1
    BY <1>1, <1>6, <2>2, <2>3
  <2>5. pc' = "incoming" /\ pipelining'
    BY <1>1, <1>6, <2>2, <1>6
  <2>6. Later' /\ ~First' /\ ~Enters' /\ ~Resumes'
    BY <1>1, <1>2, <1>3, <2>5 DEF Later, First, Enters, Resumes, Control
  <2>7. More(recv') /\ Filling'
    BY <1>1, <1>6, <2>2 DEF More, Remaining, Filling, Frame
  <2>8. Control'
    BY <1>1, <1>2, <1>3, <1>5, <2>1, <2>5, <2>6 DEF Control
  <2>9. Asked'
    BY <1>1, <1>2, <1>5, <2>5, <2>6 DEF Asked
  <2>10. Reads'
    BY <1>1, <2>1, <2>2, <2>4, <2>5, <2>6, <2>7 DEF Reads
  <2>11. Where'
    BY <1>1, <1>3, <2>1 DEF Where
  <2>12. Sends'
    <3>1. Placed(send', 2 + Len(call.frame))
      BY <1>3, <1>4, <2>1 DEF Kept
    <3> QED
      BY <1>1, <2>1, <2>5, <2>6, <3>1 DEF Sends, AtHost
  <2>13. Notices'
    BY <1>1, <1>5, <2>1, <2>5, <2>6 DEF Notices, AtHost
  <2> QED
    BY <2>5, <2>8, <2>9, <2>10, <2>11, <2>12, <2>13 DEF Conduct, Aborts
<1>7. CASE ~More(recv)
  <2>1. pc' = "flush" /\ canary_ex' = canary_ex /\ ~More(recv')
    BY <1>1, <1>7
  <2>2. Control'
    BY <1>1, <1>2, <1>5, <2>1 DEF Control, Later, Begun
  <2>3. Asked'
    BY <1>1, <1>2, <1>5, <2>1 DEF Asked, Enters, First
  <2>4. Reads'
    BY <2>1 DEF Reads, First, Later, Begun
  <2>5. Where'
    BY <2>1 DEF Where, Later, Begun
  <2>6. Sends'
    BY <1>1, <1>3, <1>4, <2>1 DEF Sends, AtHost, Enters, First, Later, Begun, Resumes, Kept
  <2>7. Notices'
    BY <1>1, <1>3, <1>5, <2>1 DEF Notices, AtHost, Enters, First, Later, Begun, Resumes
  <2> QED
    BY <2>1, <2>2, <2>3, <2>4, <2>5, <2>6, <2>7 DEF Conduct, Aborts
<1>8. CASE More(recv) /\ canary_ex > CanaryMax
  <2>1. pc' = "broken" /\ is_wire /\ firstchar # "none"
    BY <1>1, <1>2, <1>3, <1>8 DEF Control
  <2>2. Filling /\ canary_ex < recv.ptr
    BY <1>1, <1>2, <1>3, <2>1 DEF Reads
  <2>3. Frame = call.frame /\ recv.len = Len(Frame)
    BY <1>5, <2>2 DEF Filling
  <2>4. Len(call.frame) > CanaryMax + 2
    <3>1. recv.ptr \in Nat /\ recv.len \in Nat /\ canary_ex \in Nat /\ recv.ptr < recv.len
      BY <1>2, <1>3, <1>8 DEF More, Remaining, RecvOK, RecvType, TypeOK
    <3> QED
      BY <1>8, <2>2, <2>3, <3>1, SizesAssumption
  <2>5. Aborts'
    BY <1>1, <2>1, <2>4 DEF Aborts
  <2>6. Control' /\ Asked'
    BY <1>1, <1>2, <1>5, <2>1 DEF Control, Asked, Enters, First, Later, Begun
  <2>7. Reads' /\ Where'
    BY <1>1, <2>1 DEF Reads, Where, First, Later, Begun
  <2>8. Sends' /\ Notices'
    BY <1>1, <1>5, <2>1 DEF Sends, Notices, AtHost, Enters, First, Later, Begun, Resumes
  <2> QED
    BY <2>5, <2>6, <2>7, <2>8 DEF Conduct
<1> QED
  BY <1>6, <1>7, <1>8

\* The host of a wasi build, whose requests are single messages: nothing is
\* left of the one that failed.
LEMMA HostRecoverStep ==
  ASSUME Announced, HInv, IInv', HostRecover, pc = "trapped"
  PROVE  Conduct'
<1>1. /\ pc = "trapped" /\ ClearError /\ cma_rsize' = -1 /\ pc' = "enter"
      /\ firstchar' = "none" /\ peek' = "none" /\ fp' = FALSE /\ pipelining' = TRUE
      /\ UNCHANGED <<is_wire, is_repl, canary_ex, ClientAuthInProgress, MyProcPort, whereToSendOutput,
                     notifyInterruptPending, recv, PGS_IN, call>>
  <2>1. ~recv.reading
    BY DEF HInv, Settled
  <2> QED
    BY <2>1 DEF HostRecover, Synchronised, ClearError, conn, files
<1>2. /\ TypeOK /\ Control /\ Asked /\ Reads /\ Where /\ Sends /\ Notices
  BY DEF HInv, Conduct, IInv
<1>3. ~Sjlj /\ is_wire
  <2>1. ~Sjlj
    BY <1>1, <1>2 DEF Control
  <2> QED
    BY <1>1, <1>2, <2>1, CallAtHand
<1>4. /\ Later /\ ~First /\ send \in SendType /\ Loose(send) /\ RecvOK(recv)
      /\ Placed(send, 2 + Len(call.frame)) /\ whereToSendOutput = "Remote"
  BY <1>1, <1>3, ServedReplies
<1>5. send' = Flushed(Put(send, "E"))
  BY <1>1, <1>4 DEF ClearError
<1>6. Placed(send', 2 + Len(call.frame))
  <2>1. Kept(send, Flushed(Put(send, "E")))
    BY <1>4, RepliesKept DEF Replies
  <2> QED
    BY <1>4, <1>5, <2>1 DEF Kept
<1>7. MyProcPort /\ ~ClientAuthInProgress /\ canary_ex = 0
  BY <1>1, <1>2, <1>3, <1>4 DEF Notices, Enters, Control
<1>8. ~More(recv')
  <2>1. Filling /\ recv.ptr >= 1
    BY <1>2, <1>3, <1>4 DEF Reads
  <2>2. recv.ptr \in Nat /\ recv.len \in Nat /\ recv.len <= 1 /\ recv.ptr >= 1
    BY <1>3, <1>4, <2>1 DEF Filling, RecvOK, RecvType
  <2> QED
    BY <1>1, <2>2 DEF More, Remaining
<1>9. Resumes' /\ ~Enters' /\ ~First' /\ ~Later' /\ (cma_rsize' < 0)
  BY <1>1 DEF Resumes, Enters, First, Later, Begun
<1>10. Control'
  BY <1>1, <1>2, <1>3, <1>7, <1>9 DEF Control
<1>11. Asked'
  <2>1. PGS_IN # NoFile => \E x \in Calls : x.port = "file" /\ x.frame = PGS_IN
    BY <1>2, <1>3 DEF Asked
  <2> QED
    BY <1>1, <1>3, <1>9, <2>1 DEF Asked
<1>12. Reads'
  BY <1>1, <1>8, <1>9 DEF Reads
<1>13. Where'
  BY <1>1, <1>9 DEF Where
<1>14. Sends'
  BY <1>1, <1>3, <1>6, <1>9 DEF Sends, AtHost
<1>15. Notices'
  BY <1>1, <1>3, <1>7, <1>9 DEF Notices, AtHost
<1> QED
  BY <1>1, <1>10, <1>11, <1>12, <1>13, <1>14, <1>15 DEF Conduct, Aborts

\* A refused password is reported; it was all there was of its request.
LEMMA RefusedStep ==
  ASSUME Announced, HInv, IInv', LongJump \/ HostRecover, pc = "refused"
  PROVE  Conduct'
<1>1. /\ TypeOK /\ Control /\ Asked /\ Reads /\ Where /\ Sends /\ Notices /\ send \in SendType
      /\ ~recv.reading /\ (notifyInterruptPending => Notifies)
      /\ is_wire /\ call.frame = <<"badp">> /\ cma_rsize \in Nat
      /\ ClientAuthInProgress /\ firstchar = "none" /\ whereToSendOutput = "Remote"
      /\ ~More(recv) /\ Placed(send, 2 + Len(call.frame))
  BY DEF HInv, Conduct, Settled, Refused, IInv, TypeOK
<1>2. /\ ClearError
      /\ UNCHANGED <<is_wire, is_repl, canary_ex, ClientAuthInProgress, MyProcPort, whereToSendOutput,
                     notifyInterruptPending, recv, PGS_IN, call>>
  BY <1>1 DEF LongJump, HostRecover, ClearError, cma, conn, files
<1>3. \/ Sjlj /\ pc' = "flush" /\ UNCHANGED <<firstchar, fp, cma_rsize>>
      \/ /\ ~Sjlj /\ pc' = "enter" /\ cma_rsize' = -1
         /\ firstchar' = "none" /\ peek' = "none" /\ fp' = FALSE /\ pipelining' = TRUE
  BY <1>1 DEF LongJump, HostRecover, Synchronised, locals, cma
<1>4. ~notifyInterruptPending
  <2>1. call \in Calls
    BY <1>1 DEF Control
  <2> QED
    BY <1>1, <2>1 DEF Announced, Unrefused
<1>5. Placed(send', 2 + Len(call.frame))
  <2>1. send' = Flushed(Put(send, "E"))
    BY <1>1, <1>2 DEF ClearError
  <2>2. Kept(send, Flushed(Put(send, "E")))
    BY <1>1, RepliesKept DEF Placed, Replies
  <2> QED
    BY <1>1, <2>1, <2>2 DEF Kept
<1>6. (pc' = "flush" \/ Resumes') /\ ~Enters' /\ ~First' /\ ~Later'
  BY <1>3 DEF Resumes, Enters, First, Later, Begun
<1>7. canary_ex = 0 \/ Sjlj
  BY <1>1 DEF Control
<1>8. Control'
  <2>1. ~(cma_rsize < 0)
    BY <1>1
  <2> QED
    BY <1>1, <1>2, <1>3, <1>6, <1>7, <2>1 DEF Control
<1>9. Asked'
  <2>1. pc \notin {"host", "returned", "enter", "request"} /\ pc' \in {"flush", "enter"}
    BY <1>3
  <2> QED
    BY <1>1, <1>2, <1>3, <1>6, <2>1 DEF Asked, Enters
<1>10. Reads' /\ Where'
  BY <1>1, <1>2, <1>3, <1>6 DEF Reads, Where, More, Remaining
<1>11. Sends'
  BY <1>1, <1>2, <1>3, <1>5, <1>6 DEF Sends, AtHost
<1>12. Notices'
  <2>1. MyProcPort
    BY <1>1 DEF Notices, Enters
  <2> QED
    BY <1>1, <1>2, <1>3, <1>4, <1>6, <2>1 DEF Notices, AtHost
<1> QED
  BY <1>3, <1>8, <1>9, <1>10, <1>11, <1>12 DEF Conduct, Aborts

-----------------------------------------------------------------------------
(* Leaving *)

\* The notifications and the ReadyForQuery of the reply are sent.
LEMMA LastReadyStep ==
  ASSUME HInv, IInv', LastReady
  PROVE  Conduct'
<1>1. /\ pc = "flush" /\ pc' = "publish"
      /\ ClientAuthInProgress => UNCHANGED <<send, send_ready_for_query, notifyInterruptPending>>
      /\ ~ClientAuthInProgress => /\ send' = LastReplies(send) /\ ~send_ready_for_query'
                                  /\ notifyInterruptPending' = (notifyInterruptPending /\ ~MayNotify)
      /\ UNCHANGED <<firstchar, peek, fp, pipelining, is_wire, is_repl, cma_rsize, canary_ex,
                     ClientAuthInProgress, MyProcPort, whereToSendOutput, transaction, recv, PGS_IN,
                     call>>
  BY DEF LastReady, locals, cma, conn, files, ready
<1>2. /\ TypeOK /\ Control /\ Asked /\ Reads /\ Sends /\ Notices /\ send \in SendType
  BY DEF HInv, Conduct, IInv, TypeOK
<1>3. Loose(send) /\ (is_wire => Placed(send, 2 + Len(call.frame)))
  BY <1>1, <1>2 DEF Sends, Placed
<1>4. Kept(send, send')
  <2>1. Kept(send, send) /\ Kept(send, LastReplies(send))
    BY <1>2, <1>3, RepliesKept
  <2> QED
    BY <1>1, <2>1
<1>5. Control'
  BY <1>1, <1>2 DEF Control, Later, Begun
<1>6. Asked'
  BY <1>1, <1>2 DEF Asked, Enters, First
<1>7. Reads'
  <2>1. ~More(recv')
    BY <1>1, <1>2 DEF Reads
  <2> QED
    BY <1>1, <2>1 DEF Reads, First, Later, Begun
<1>8. Where'
  BY <1>1 DEF Where, Later, Begun
<1>9. Sends'
  BY <1>1, <1>3, <1>4 DEF Sends, AtHost, Enters, First, Later, Begun, Resumes, Kept
<1>10. Notices'
  <2>1. MyProcPort
    BY <1>1, <1>2 DEF Notices, Enters
  <2>2. ~Noticed'
    BY <1>1 DEF Noticed, MayNotify
  <2>3. is_wire => (send_ready_for_query' => ClientAuthInProgress /\ ~notifyInterruptPending')
    BY <1>1, <1>2 DEF Notices
  <2>4. ~is_wire => (send_ready_for_query' => whereToSendOutput # "Remote")
    BY <1>1, <1>2 DEF Notices
  <2> QED
    BY <1>1, <2>1, <2>2, <2>3, <2>4 DEF Notices, AtHost, Enters, First, Later, Begun, Resumes
<1> QED
  BY <1>1, <1>5, <1>6, <1>7, <1>8, <1>9, <1>10 DEF Conduct, Aborts

\* What pgl_flush leaves of the send side.
LEMMA ClosedParts ==
  ASSUME NEW s \in SendType
  PROVE  /\ Closed(s).SOCKET_DATA = 0 /\ Closed(s).base = s.base /\ Closed(s).sent = s.sent
         /\ Closed(s).emitted = s.emitted /\ Closed(s).sockfiles = s.sockfiles
         /\ Closed(s).SOCKET_FILE => s.SOCKET_FILE /\ ~s.sockfiles /\ Closed(s).olock = s.olock
<1> DEFINE open  == s.SOCKET_FILE /\ s.SOCKET_DATA = 0 /\ ~s.sockfiles
           olock == IF Renames(s) THEN <<>> ELSE s.olock
<1>1. Closed(s) = [s EXCEPT !.SOCKET_DATA = 0, !.SOCKET_FILE = open, !.olock = olock]
  BY Zenon DEF Closed
<1>2. open => s.SOCKET_FILE /\ ~s.sockfiles /\ olock = s.olock
  BY DEF Renames
<1> HIDE DEF open, olock
<1>3. /\ Closed(s).SOCKET_DATA = 0 /\ Closed(s).base = s.base /\ Closed(s).sent = s.sent
      /\ Closed(s).emitted = s.emitted /\ Closed(s).sockfiles = s.sockfiles
      /\ Closed(s).SOCKET_FILE = open /\ Closed(s).olock = olock
  BY <1>1 DEF SendType
<1> QED
  BY <1>2, <1>3

\* The reply is published, and the send side is as a call finds it.
LEMMA PublishStep ==
  ASSUME HInv, IInv', Publish
  PROVE  Conduct'
<1>1. /\ pc = "publish" /\ send' = Closed(send)
      /\ pc' = IF send.SOCKET_DATA = 0 /\ send.sockfiles /\ ~send.SOCKET_FILE THEN "broken" ELSE "return"
      /\ UNCHANGED <<firstchar, peek, fp, pipelining, is_wire, is_repl, cma_rsize, canary_ex,
                     send_ready_for_query, ClientAuthInProgress, MyProcPort, whereToSendOutput,
                     notifyInterruptPending, transaction, recv, PGS_IN, call>>
  BY DEF Publish, locals, conn, ready, backend
<1>2. /\ TypeOK /\ Control /\ Asked /\ Reads /\ Sends /\ Notices /\ send \in SendType
  BY DEF HInv, Conduct, IInv, TypeOK
<1>3. Loose(send)
  BY <1>1, <1>2 DEF Sends, Placed
<1>4. pc' = "return"
  BY <1>1, <1>3 DEF Loose
<1>5. Shut(send')
  BY <1>1, <1>2, <1>3, ClosedParts DEF Shut, Loose
<1>6. Control'
  BY <1>1, <1>2, <1>4 DEF Control, Later, Begun
<1>7. Asked'
  BY <1>1, <1>2, <1>4 DEF Asked, Enters, First
<1>8. Reads'
  <2>1. ~More(recv')
    BY <1>1, <1>2 DEF Reads
  <2> QED
    BY <1>4, <2>1 DEF Reads, First, Later, Begun
<1>9. Where'
  BY <1>4 DEF Where, Later, Begun
<1>10. Sends'
  BY <1>4, <1>5 DEF Sends, AtHost, Enters, First, Later, Begun, Resumes
<1>11. Notices'
  <2>1. /\ MyProcPort /\ ~Noticed
        /\ is_wire => (send_ready_for_query => ClientAuthInProgress /\ ~notifyInterruptPending)
    BY <1>1, <1>2 DEF Notices, Enters
  <2>2. ~is_wire => (send_ready_for_query => whereToSendOutput # "Remote")
    BY <1>1, <1>2 DEF Notices
  <2>3. ~Noticed'
    BY <1>1, <2>1 DEF Noticed
  <2> QED
    BY <1>1, <1>4, <2>1, <2>2, <2>3 DEF Notices, AtHost, Enters, First, Later, Begun, Resumes
<1> QED
  BY <1>4, <1>6, <1>7, <1>8, <1>9, <1>10, <1>11 DEF Conduct, Aborts

\* The call returns: the request file is removed, the locals are gone.
LEMMA ReturnStep ==
  ASSUME HInv, IInv', Return
  PROVE  Conduct'
<1>1. /\ pc = "return" /\ pc' = "returned" /\ PGS_IN' = (IF fp THEN NoFile ELSE PGS_IN)
      /\ cma_rsize' = 0 /\ canary_ex' = 0 /\ recv' = [recv EXCEPT !.mem["cma"] = <<>>]
      /\ firstchar' = "none" /\ peek' = "none" /\ fp' = FALSE /\ pipelining' = TRUE
      /\ UNCHANGED <<is_wire, is_repl, send_ready_for_query, ClientAuthInProgress, MyProcPort,
                     whereToSendOutput, notifyInterruptPending, transaction, send, call>>
  BY DEF Return, Unlinked, NoErrors, conn, ready, backend
<1>2. /\ TypeOK /\ Control /\ Asked /\ Reads /\ Sends /\ Notices
  BY DEF HInv, Conduct, IInv
<1>3. recv'.mem["cma"] = <<>> /\ recv'.ptr = recv.ptr /\ recv'.len = recv.len
  BY <1>1, <1>2 DEF TypeOK, RecvType
<1>4. Control'
  BY <1>1, <1>2 DEF Control, Later, Begun
<1>5. Asked'
  <2>1. PGS_IN' # NoFile => ~Sjlj /\ PGS_IN' = PGS_IN
    BY <1>1, <1>2 DEF Asked, Enters
  <2>2. PGS_IN' # NoFile => \E x \in Calls : x.port = "file" /\ x.frame = PGS_IN'
    BY <1>2, <2>1 DEF Asked
  <2> QED
    BY <1>1, <1>3, <2>1, <2>2 DEF Asked, Enters, First
<1>6. Reads'
  BY <1>1, <1>2, <1>3 DEF Reads, More, Remaining, First, Later, Begun
<1>7. Where'
  BY <1>1 DEF Where, Later, Begun
<1>8. Sends'
  BY <1>1, <1>2 DEF Sends, AtHost, Enters, First, Later, Begun, Resumes
<1>9. Notices'
  <2>1. Noticed' = Noticed
    BY <1>1 DEF Noticed
  <2> QED
    BY <1>1, <1>2, <2>1 DEF Notices, AtHost, Enters, First, Later, Begun, Resumes
<1> QED
  BY <1>1, <1>4, <1>5, <1>6, <1>7, <1>8, <1>9 DEF Conduct, Aborts

-----------------------------------------------------------------------------
(* The invariant *)

LEMMA InitHost == Init => HInv
<1> SUFFICES ASSUME Init PROVE HInv
  OBVIOUS
<1>1. IInv
  BY InitInvariant
<1>2. /\ pc = "host" /\ firstchar = "none" /\ peek = "none" /\ fp = FALSE /\ pipelining = TRUE
      /\ cma_rsize = 0 /\ canary_ex = 0 /\ ClientAuthInProgress = FALSE /\ MyProcPort = FALSE
      /\ whereToSendOutput = "Debug" /\ notifyInterruptPending = FALSE /\ PGS_IN = NoFile
      /\ recv = [mem |-> [a \in {"cma", "static"} |-> <<>>], loc |-> "static", ptr |-> 0, len |-> 0,
                 reading |-> FALSE]
      /\ send = [sockfiles |-> FALSE, SOCKET_FILE |-> FALSE, SOCKET_DATA |-> 0, base |-> 0,
                 sent |-> <<>>, olock |-> <<>>, emitted |-> <<>>]
  BY DEF Init
<1>3. Control
  BY <1>2 DEF Control, Later, Begun
<1>4. Asked
  BY <1>2 DEF Asked, Enters, First
<1>5. Reads
  BY <1>2 DEF Reads, First, Later, Begun, More, Remaining
<1>6. Where
  BY <1>2 DEF Where, Later, Begun
<1>7. Sends
  BY <1>2 DEF Sends, AtHost, Enters, First, Later, Begun, Resumes, Shut
<1>8. Notices
  BY <1>2 DEF Notices, AtHost, Enters, First, Later, Begun, Resumes, Noticed
<1>9. Settled
  BY <1>2 DEF Settled, Refused
<1> QED
  BY <1>1, <1>2, <1>3, <1>4, <1>5, <1>6, <1>7, <1>8, <1>9 DEF HInv, Conduct, Aborts

\* No operation on the receive buffer begins a message and leaves it there.
LEMMA ReadingKept ==
  ASSUME NEW r, RecvOK(r), NEW s \in SendType, cma_rsize \in Nat
  PROVE  /\ Advanced(r).reading = r.reading
         /\ Advanced(RecvStart(r, s)).reading = r.reading
         /\ Drained(RecvStart(r, s)).reading = r.reading
<1>1. ASSUME NEW x, RecvOK(x)
      PROVE  Advanced(x).reading = x.reading /\ Drained(x).reading = x.reading
  BY <1>1 DEF Advanced, Drained, RecvOK, RecvType
<1>2. RecvOK(RecvStart(r, s))
  BY RecvStartType
<1>3. RecvStart(r, s).reading = r.reading
  BY DEF RecvStart, RecvOK, RecvType
<1> QED
  BY <1>1, <1>2, <1>3

LEMMA HandshakeReading ==
  ASSUME NEW r, RecvOK(r), NEW s \in SendType, cma_rsize \in Nat, NEW served, NEW refused,
         Handshake(r, s, served, refused)
  PROVE  recv'.reading = r.reading
<1>1. recv' \in {r, Drained(RecvStart(r, s)), Advanced(RecvStart(r, s))}
  BY DEF Handshake, StartupAuth, StartupPass, NoPassword
<1> QED
  BY <1>1, ReadingKept

\* No call leaves pq_startmsgread behind that no message followed.
LEMMA NeverReading ==
  ASSUME Announced, HInv, Next
  PROVE  ~recv'.reading
<1>1. RecvOK(recv) /\ send \in SendType /\ ~recv.reading /\ (pc \in Served => cma_rsize \in Nat)
  BY DEF HInv, IInv, TypeOK, RecvOK, Settled, RequestSized
<1>2. CASE \E c \in Calls : HostCall(c)
  <2>1. PICK c \in Calls : HostCall(c)
    BY <1>2
  <2>2. recv' \in {recv, [recv EXCEPT !.mem["cma"] = c.frame]}
    BY <2>1 DEF HostCall
  <2> QED
    BY <1>1, <2>2 DEF RecvOK, RecvType
<1>3. CASE Return
  BY <1>1, <1>3 DEF Return, RecvOK, RecvType
<1>4. CASE RequestFileRepl
  <2> DEFINE s == [send EXCEPT !.sockfiles = FALSE]
  <2>1. ServeFile(recv, s) /\ cma_rsize \in Nat /\ s \in SendType
    BY <1>1, <1>4 DEF RequestFileRepl, SendType
  <2> HIDE DEF s
  <2> QED
    BY <1>1, <2>1, HandshakeReading DEF ServeFile
<1>5. CASE RequestFileWire
  <2> DEFINE r == Filled(recv, PGS_IN)
             s == [send EXCEPT !.sockfiles = TRUE]
  <2>1. ServeFile(r, s) /\ cma_rsize \in Nat /\ s \in SendType /\ PGS_IN \in Frames
    BY <1>1, <1>5 DEF RequestFileWire, FileHasData, SendType, HInv, IInv, TypeOK
  <2>2. RecvOK(r) /\ ~r.reading
    BY <1>1, <2>1, FilledType, FilledReading
  <2> HIDE DEF r, s
  <2> QED
    BY <2>1, <2>2, HandshakeReading DEF ServeFile
<1>6. CASE LoopAuth
  <2>1. Handshake(recv, send, AfterLoop, "refused") /\ cma_rsize \in Nat
    BY <1>1, <1>6 DEF LoopAuth, Served
  <2> QED
    BY <1>1, <2>1, HandshakeReading
<1>7. CASE LoopRead
  <2>1. firstchar' # "EOF"
    BY <1>7, LoopReads DEF Plain, Extended, Copying
  <2> DEFINE a == Advanced(RecvStart(recv, send))
  <2>2. recv' = [a EXCEPT !.reading = @ \/ firstchar' = "EOF"] /\ cma_rsize \in Nat
    BY <1>1, <1>7 DEF LoopRead, Served
  <2>3. a \in RecvType /\ ~a.reading
    BY <1>1, <2>2, RecvStartType, AdvancedType, ReadingKept DEF RecvOK
  <2> HIDE DEF a
  <2> QED
    BY <2>1, <2>2, <2>3 DEF RecvType
<1>8. CASE (Proto \/ Copy) /\ ~Terminate
  <2>1. Executes
    BY <1>8, MessageStep, FailStep, CopyBeginStep, CopyStep DEF Proto, Copy
  <2>2. recv' \in {recv, Advanced(recv)} /\ cma_rsize \in Nat
    BY <1>1, <2>1 DEF Executes, Served
  <2> QED
    BY <1>1, <2>2, ReadingKept
<1>9. CASE HostRead \/ Enter \/ RequestCma \/ RequestMemory \/ RequestNothing \/ LoopEnds \/ LoopSql
           \/ AfterMessage \/ Terminate \/ LongJump \/ HostRecover \/ LastReady \/ Publish
  <2>1. recv' = recv
    BY <1>9 DEF HostRead, Enter, EnterResume, EnterInit, EnterBacklog, EnterRequest, RequestCma,
       RequestMemory, RequestNothing, LoopEnds, LoopSql, AfterMessage, Terminate, LongJump,
       HostRecover, LastReady, Publish
  <2> QED
    BY <1>1, <2>1
<1> QED
  BY <1>2, <1>3, <1>4, <1>5, <1>6, <1>7, <1>8, <1>9 DEF Next, Backend, Request, Loop, Leave

\* Only a commit raises a notification.
LEMMA NoticeOfCommit ==
  ASSUME Next
  PROVE  notifyInterruptPending' => notifyInterruptPending \/ Notifies
<1>1. CASE (\E c \in Calls : HostCall(c)) \/ HostRead \/ Enter
  BY <1>1 DEF HostCall, HostRead, Enter, EnterResume, EnterInit, EnterBacklog, EnterRequest, backend
<1>2. CASE Request
  BY <1>2 DEF Request, RequestCma, RequestFileRepl, RequestFileWire, RequestMemory, RequestNothing,
     backend
<1>3. CASE Loop
  BY <1>3 DEF Loop, LoopEnds, LoopAuth, LoopRead, LoopSql, AfterMessage, backend
<1>4. CASE Proto
  BY <1>4 DEF Proto, SimpleQuery, Parse, BindExecute, CloseDescribe, ExtendedQuery, FunctionCall,
     Flush, Sync, CopyStray, Terminate, Fail, CommitMayNotify, backend
<1>5. CASE Copy
  BY <1>5 DEF Copy, CopyBegin, CopyData, CopyDone, CopyFail, CommitMayNotify, backend
<1>6. CASE LongJump \/ HostRecover \/ Leave
  BY <1>6 DEF LongJump, HostRecover, ClearError, Leave, LastReady, Publish, Return, backend
<1> QED
  BY <1>1, <1>2, <1>3, <1>4, <1>5, <1>6 DEF Next, Backend

\* Only a handshake is refused.
LEMMA RefusedAt ==
  ASSUME Next, pc' = "refused"
  PROVE  RequestFileRepl \/ RequestFileWire \/ LoopAuth
<1>1. ~(\E c \in Calls : HostCall(c)) /\ ~HostRead /\ ~Enter
  BY DEF HostCall, HostRead, Enter, EnterResume, EnterInit, EnterBacklog, EnterRequest
<1>2. ~RequestCma /\ ~RequestMemory /\ ~RequestNothing
  BY DEF RequestCma, RequestMemory, RequestNothing
<1>3. ~LoopEnds /\ ~LoopRead /\ ~LoopSql /\ ~AfterMessage
  BY DEF LoopEnds, LoopRead, LoopSql, AfterMessage, AfterLoop
<1>4. ~Proto
  BY DEF Proto, SimpleQuery, Parse, BindExecute, CloseDescribe, ExtendedQuery, FunctionCall,
     Flush, Sync, CopyStray, Terminate, Fail, Executed
<1>5. ~Copy
  BY DEF Copy, CopyBegin, CopyData, CopyDone, CopyFail
<1>6. ~LongJump /\ ~HostRecover /\ ~Leave
  BY DEF LongJump, HostRecover, Synchronised, Leave, LastReady, Publish, Return
<1> QED
  BY <1>1, <1>2, <1>3, <1>4, <1>5, <1>6 DEF Next, Backend, Request, Loop

LEMMA SettledStep ==
  ASSUME Announced, HInv, IInv', Next
  PROVE  Settled'
<1>1. Refused'
  <2> SUFFICES ASSUME pc' = "refused" PROVE Refused'
    BY DEF Refused
  <2> QED
    BY RefusedAt, RequestFileReplStep, RequestFileWireStep, LoopAuthStep
<1>2. notifyInterruptPending' => Notifies
  BY NoticeOfCommit DEF HInv, Settled
<1> QED
  BY <1>1, <1>2, NeverReading DEF Settled

LEMMA StepHost ==
  ASSUME Announced, HInv, [Next]_vars
  PROVE  HInv'
<1>1. IInv'
  BY StepInvariant DEF HInv
<1>01. Next => Settled'
  BY <1>1, SettledStep
<1>2. CASE \E c \in Calls : HostCall(c)
  BY <1>1, <1>01, <1>2, HostCallStep DEF HInv, Next
<1>3. CASE HostRead
  BY <1>1, <1>01, <1>3, HostReadStep DEF HInv, Next
<1>4. CASE Enter
  BY <1>1, <1>01, <1>4, EnterResumeStep, EnterInitStep, EnterRequestStep, EnterBacklogStep
  DEF HInv, Enter, Next, Backend
<1>5. CASE Request
  BY <1>1, <1>01, <1>5, RequestCmaStep, RequestFileReplStep, RequestFileWireStep, RequestMemoryStep,
     RequestNothingStep DEF HInv, Request, Next, Backend
<1>6. CASE Loop
  BY <1>1, <1>01, <1>6, LoopEndsStep, LoopAuthStep, LoopReadStep, LoopSqlStep, AfterMessageStep
  DEF HInv, Loop, Next, Backend
<1>7. CASE Proto
  BY <1>1, <1>01, <1>7, MessageStep, FailStep, ExecutesStep, TerminateStep DEF HInv, Proto, Next, Backend
<1>8. CASE Copy
  BY <1>1, <1>01, <1>8, CopyBeginStep, CopyStep, ExecutesStep DEF HInv, Copy, Next, Backend
<1>9. CASE LongJump \/ HostRecover
  <2>1. pc = "error" \/ pc = "trapped" \/ pc = "refused"
    BY <1>9 DEF LongJump, HostRecover
  <2>2. (pc = "error" => LongJump) /\ (pc = "trapped" => HostRecover)
    BY <1>9 DEF LongJump, HostRecover
  <2> QED
    BY <1>1, <1>01, <1>9, <2>1, <2>2, LongJumpStep, HostRecoverStep, RefusedStep DEF HInv, Next, Backend
<1>11. CASE Leave
  BY <1>1, <1>01, <1>11, LastReadyStep, PublishStep, ReturnStep DEF HInv, Leave, Next, Backend
<1>12. CASE UNCHANGED vars
  <2>1. UNCHANGED <<pc, firstchar, peek, fp, pipelining, is_wire, is_repl, cma_rsize, canary_ex,
                    send_ready_for_query, ClientAuthInProgress, MyProcPort, whereToSendOutput,
                    notifyInterruptPending, transaction, recv, send, PGS_IN, call>>
    BY <1>12 DEF vars, locals, cma, conn, ready, backend, files
  <2>2. Control' /\ Asked'
    BY <2>1 DEF HInv, Conduct, Control, Asked, Enters, First, Later
  <2>3. Reads' /\ Where'
    BY <2>1 DEF HInv, Conduct, Reads, Where, First, Later, Filling, Frame, More, Remaining
  <2>4. Sends'
    BY <2>1 DEF HInv, Conduct, Sends, AtHost, Enters, Resumes, First, Later
  <2>5. Notices'
    BY <2>1 DEF HInv, Conduct, Notices, AtHost, Enters, Resumes, First, Later, Noticed
  <2>6. Settled'
    BY <2>1 DEF HInv, Settled, Refused, Placed, Loose, More, Remaining
  <2> QED
    BY <1>1, <2>1, <2>2, <2>3, <2>4, <2>5, <2>6 DEF HInv, Conduct, Aborts
<1> QED
  BY <1>2, <1>3, <1>4, <1>5, <1>6, <1>7, <1>8, <1>9, <1>11, <1>12 DEF Next, Backend

\* The inductive invariant of a backend whose hosts announce their requests.
THEOREM HostInvariant ==
  ASSUME Announced
  PROVE  Spec => []HInv
<1>1. Init => HInv
  BY InitHost
<1>2. HInv /\ [Next]_vars => HInv'
  BY StepHost
<1> QED
  BY <1>1, <1>2, PTL DEF Spec

-----------------------------------------------------------------------------
(* The theorems: what every call does with its request *)

\* When a call returns it has read its whole request: pq_startmsgread of the
\* next call finds an empty buffer.
THEOREM RequestAlwaysTaken ==
  ASSUME Announced
  PROVE  Spec => []RequestTaken
<1>1. HInv => RequestTaken
  <2> SUFFICES ASSUME HInv, pc = "returned" PROVE Remaining(recv) = 0
    BY DEF RequestTaken
  <2>1. recv.ptr \in Nat /\ recv.len \in Nat /\ recv.ptr <= recv.len
    BY DEF HInv, IInv, TypeOK, RecvType
  <2>2. ~More(recv)
    BY DEF HInv, Conduct, Reads
  <2> QED
    BY <2>1, <2>2 DEF More, Remaining
<1> QED
  BY <1>1, HostInvariant, PTL

\* No call finds replies of an earlier one, which interactive_one would flush
\* and then return without a look at the request.
THEOREM NeverBacklog ==
  ASSUME Announced
  PROVE  Spec => []NoBacklog
<1>1. HInv => NoBacklog
  BY DEF NoBacklog, HInv, Conduct, Sends, AtHost, Enters, Shut
<1> QED
  BY <1>1, HostInvariant, PTL

\* A notification that a commit raises is sent by the call that commits.
THEOREM NoticeNeverKept ==
  ASSUME Announced
  PROVE  Spec => []NoticeNotKept
<1>1. HInv => NoticeNotKept
  BY DEF NoticeNotKept, OnWire, HInv, Conduct, Notices, Noticed
<1> QED
  BY <1>1, HostInvariant, PTL

\* abort(), fclose(NULL), pfree(NULL), a jump into a frame that has returned and
\* a lost protocol are reached by announced requests in two of the ways that
\* NeverBroken lists (Aborts): errors in a request of more messages than errors
\* are tolerated, and a request file that begins with a password that is refused
\* or with SQL that begins with a p.
THEOREM NeverBreaks ==
  ASSUME Announced
  PROVE  Spec => [](NeverBroken /\ Aborts)
<1>1. HInv => NeverBroken /\ Aborts
  BY DEF NeverBroken, Hopeless, HInv, Conduct, Aborts
<1> QED
  BY <1>1, HostInvariant, PTL

\* With sigsetjmp no error leaves the request file behind, where the next call
\* would serve it again.
THEOREM RequestFileAlwaysGone ==
  ASSUME Announced, Sjlj
  PROVE  Spec => []RequestFileGone
<1>1. HInv => RequestFileGone
  <2> SUFFICES ASSUME HInv, pc = "returned" PROVE PGS_IN = NoFile
    BY DEF RequestFileGone
  <2>1. fp = FALSE
    BY DEF HInv, Conduct, Control
  <2>2. PGS_IN # NoFile => fp \/ ~Sjlj
    BY DEF HInv, Conduct, Asked, Enters
  <2> QED
    BY <2>1, <2>2
<1> QED
  BY <1>1, HostInvariant, PTL

\* A step never takes the read pointer back or to the other area, once a
\* message of the request was read.
LEMMA Forward ==
  ASSUME Announced, HInv, [Next]_vars, firstchar # "none"
  PROVE  recv'.loc = recv.loc /\ recv'.ptr >= recv.ptr
<1>1. /\ TypeOK /\ Control /\ Reads /\ recv.ptr \in Nat
  BY DEF HInv, Conduct, IInv, TypeOK, RecvType
<1>2. pc \notin {"host", "enter", "request", "returned"}
  BY <1>1 DEF Control
<1>3. ASSUME recv' = recv PROVE recv'.loc = recv.loc /\ recv'.ptr >= recv.ptr
  BY <1>1, <1>3
<1>4. ASSUME Executes PROVE recv'.loc = recv.loc /\ recv'.ptr >= recv.ptr
  <2>1. CASE recv' = recv
    BY <1>3, <2>1
  <2>2. CASE More(recv) /\ recv' = Advanced(recv)
    <3>1. recv' = [recv EXCEPT !.ptr = recv.ptr + 1]
      BY <2>2 DEF Advanced
    <3>2. recv'.loc = recv.loc /\ recv'.ptr = recv.ptr + 1
      BY <1>1, <3>1 DEF TypeOK, RecvType
    <3> QED
      BY <1>1, <3>2
  <2> QED
    BY <1>4, <2>1, <2>2 DEF Executes
<1>5. CASE (\E c \in Calls : HostCall(c)) \/ HostRead \/ Enter \/ Request
  BY <1>2, <1>5 DEF HostCall, HostRead, Enter, EnterResume, EnterInit, EnterBacklog, EnterRequest,
     Request, RequestCma, RequestFileRepl, RequestFileWire, RequestMemory, RequestNothing
<1>6. CASE LoopAuth
  <2>1. Later /\ is_wire /\ peek \in {"startup", "p"}
    BY <1>6 DEF LoopAuth, Later
  <2> QED
    BY <1>1, <2>1 DEF Reads
<1>7. CASE LoopRead
  <2>1. ~First
    BY DEF First
  <2>2. recv'.ptr = recv.ptr + 1 /\ recv'.loc = recv.loc
    BY <1>7, <2>1, LoopReads
  <2> QED
    BY <1>1, <2>2
<1>8. CASE LoopEnds \/ LoopSql \/ AfterMessage \/ Terminate \/ LongJump \/ HostRecover
           \/ LastReady \/ Publish
  <2>1. recv' = recv
    BY <1>8 DEF LoopEnds, LoopSql, AfterMessage, Terminate, LongJump, HostRecover, LastReady, Publish
  <2> QED
    BY <1>3, <2>1
<1>9. CASE Proto \/ Copy
  <2>1. Terminate \/ Executes
    BY <1>9, MessageStep, FailStep, CopyBeginStep, CopyStep DEF Proto, Copy
  <2> QED
    BY <1>4, <1>8, <2>1
<1>10. CASE Return
  <2>1. recv' = [recv EXCEPT !.mem["cma"] = <<>>]
    BY <1>10 DEF Return
  <2>2. recv'.loc = recv.loc /\ recv'.ptr = recv.ptr
    BY <1>1, <2>1 DEF TypeOK, RecvType
  <2> QED
    BY <1>1, <2>2
<1>11. CASE UNCHANGED vars
  <2>1. recv' = recv
    BY <1>11 DEF vars
  <2> QED
    BY <1>3, <2>1
<1> QED
  BY <1>5, <1>6, <1>7, <1>8, <1>9, <1>10, <1>11 DEF Next, Backend, Loop, Leave

\* No message is read twice: neither the loop nor a COPY inside a query turns
\* back to the start of the request when the buffer is empty.
THEOREM AlwaysReadsForward ==
  ASSUME Announced
  PROVE  Spec => ReadsForward
<1>1. HInv /\ [Next]_vars
        => [firstchar # "none" /\ ~(pc = "copying" /\ ~More(recv))
              => recv'.loc = recv.loc /\ recv'.ptr >= recv.ptr]_vars
  BY Forward
<1> QED
  BY <1>1, HostInvariant, PTL DEF Spec, ReadsForward

-----------------------------------------------------------------------------
(* The reply *)

\* A terminal's reply file is empty when there is no reply.
Empty(s) == s.SOCKET_DATA = 0 => s.olock = <<>>

\* A request that came in a file is answered in one.
Replying     == First \/ Later \/ Resumes \/ pc \in {"refused", "flush", "publish"}
FileAnswered == is_wire /\ call.port = "file" /\ Replying => send.sockfiles

\* Where the reply is from the moment it is published, and that there is
\* none before.
Delivered ==
  /\ ChannelHost => PGS_OUT \in {NoFile, <<>>} \/ (pc \in {"return", "returned"} /\ channel < 0)
  /\ pc \notin {"host", "return", "returned"} => cma_wsize = 0
  /\ ~is_wire /\ pc \in {"flush", "publish"} => Empty(send)
  /\ FileAnswered
  /\ is_wire /\ pc \in {"return", "returned"} => HostReply = IF Overlooked THEN <<>> ELSE send.emitted

\* Only the request decides that the replies go to memory again.
InFile(s) == s \in SendType /\ s.sockfiles

LEMMA RepliesInFile ==
  ASSUME NEW s, InFile(s)
  PROVE  /\ \A reply \in Replies : /\ InFile(Put(s, reply)) /\ InFile(Flushed(Put(s, reply)))
                                   /\ InFile(Answer(s, reply)) /\ InFile(Flushed(Answer(s, reply)))
         /\ InFile(Flushed(s)) /\ InFile(Notified(s)) /\ InFile(LastReplies(s))
         /\ InFile(Opened(s)) /\ Closed(s).sockfiles
<1>1. ASSUME NEW x, InFile(x), NEW reply \in Replies PROVE InFile(Put(x, reply))
  BY <1>1, PutType, PutParts DEF InFile
<1>2. ASSUME NEW x, InFile(x) PROVE InFile(Flushed(x))
  BY <1>2, FlushedParts DEF InFile
<1>3. \A reply \in Replies : /\ InFile(Put(s, reply)) /\ InFile(Flushed(Put(s, reply)))
                             /\ InFile(Answer(s, reply)) /\ InFile(Flushed(Answer(s, reply)))
  BY <1>1, <1>2 DEF Answer
<1>4. InFile(Notified(s)) /\ InFile(LastReplies(s))
  <2>1. InFile(Notified(s))
    BY <1>3 DEF Notified, Replies
  <2>2. InFile(Flushed(Put(Notified(s), "Z")))
    BY <1>1, <1>2, <2>1 DEF Replies
  <2> QED
    BY <2>1, <2>2 DEF LastReplies
<1>5. InFile(Opened(s))
  <2>1. <<>> \in Seq(Replies)
    OBVIOUS
  <2>2. Opened(s) = s \/ Opened(s) = [s EXCEPT !.SOCKET_FILE = TRUE, !.olock = <<>>]
    BY DEF Opened
  <2> QED
    BY <2>1, <2>2 DEF InFile, SendType
<1>6. Closed(s).sockfiles
  BY DEF InFile, Closed, SendType
<1> QED
  BY <1>2, <1>3, <1>4, <1>5, <1>6

LEMMA FileKept ==
  ASSUME IInv, [Next]_vars, pc # "request", send.sockfiles
  PROVE  send'.sockfiles
<1>1. /\ InFile(send) /\ recv \in RecvType
      /\ {"R", "E", "A", "Z", "ok"} \subseteq Replies
  BY DEF IInv, TypeOK, InFile, Replies
<1>2. SendStart(recv, send) = send \/ SendStart(recv, send) = [send EXCEPT !.base = 0]
  BY <1>1 DEF SendStart, InFile
<1>3. InFile(SendStart(recv, send))
  BY <1>1, <1>2 DEF InFile, SendType
<1>4. CASE (\E c \in Calls : HostCall(c)) \/ HostRead \/ EnterResume \/ EnterInit \/ EnterBacklog
  <2>1. \/ send' = send \/ send' = [send EXCEPT !.emitted = <<>>]
        \/ send' = [send EXCEPT !.SOCKET_FILE = FALSE, !.SOCKET_DATA = 0]
    BY <1>4 DEF HostCall, HostRead, EnterResume, EnterInit, EnterBacklog
  <2> QED
    BY <1>1, <2>1 DEF InFile, SendType
<1>5. CASE EnterRequest
  <2>1. send' \in {Notified(Opened(send)), Opened(send)}
    BY <1>5 DEF EnterRequest
  <2>2. InFile(Opened(send)) /\ InFile(Notified(Opened(send)))
    BY <1>1, RepliesInFile
  <2> QED
    BY <2>1, <2>2 DEF InFile
<1>6. CASE LoopAuth
  <2>1. send' \in {Flushed(Put(SendStart(recv, send), "R")), Flushed(Put(send, "R")),
                   Put(SendStart(recv, send), "R"), SendStart(recv, send)}
    BY <1>6 DEF LoopAuth, Handshake, StartupAuth, StartupPass, NoPassword
  <2>2. \A x \in {Flushed(Put(SendStart(recv, send), "R")), Flushed(Put(send, "R")),
                   Put(SendStart(recv, send), "R"), SendStart(recv, send)} : InFile(x)
    BY <1>1, <1>3, RepliesInFile
  <2> QED
    BY <2>1, <2>2 DEF InFile
<1>7. CASE LoopEnds \/ LoopRead \/ LoopSql \/ AfterMessage
  <2>1. send' \in {send, SendStart(recv, send), Flushed(Answer(send, "Z"))}
    BY <1>7 DEF LoopEnds, LoopRead, LoopSql, AfterMessage
  <2> QED
    BY <1>1, <1>3, <2>1, RepliesInFile DEF InFile
<1>8. CASE Proto \/ CopyBegin
  <2>1. send' \in {send, Answer(send, "ok"), Flushed(send), Flushed(Answer(send, "ok"))}
    BY <1>8 DEF Proto, SimpleQuery, Parse, BindExecute, CloseDescribe, ExtendedQuery, FunctionCall,
       Flush, Sync, CopyStray, Terminate, Fail, CopyBegin
  <2> QED
    BY <1>1, <2>1, RepliesInFile DEF InFile
<1>9. CASE CopyData \/ CopyDone \/ CopyFail
  <2>1. send' \in {SendStart(recv, send), Answer(SendStart(recv, send), "ok")}
    BY <1>9 DEF CopyData, CopyDone, CopyFail
  <2> QED
    BY <1>1, <1>3, <2>1, RepliesInFile DEF InFile
<1>10. CASE LongJump \/ HostRecover
  <2>1. send' \in {send, Flushed(Put(send, "E"))}
    BY <1>10 DEF LongJump, HostRecover, ClearError
  <2> QED
    BY <1>1, <2>1, RepliesInFile DEF InFile
<1>11. CASE Leave
  <2>1. send' \in {send, LastReplies(send), Closed(send)}
    BY <1>11 DEF Leave, LastReady, Publish, Return
  <2> QED
    BY <1>1, <2>1, RepliesInFile DEF InFile
<1>12. CASE Request
  BY <1>12 DEF Request, RequestCma, RequestFileRepl, RequestFileWire, RequestMemory, RequestNothing
<1>13. CASE UNCHANGED vars
  BY <1>13 DEF vars
<1> QED
  BY <1>4, <1>5, <1>6, <1>7, <1>8, <1>9, <1>10, <1>11, <1>12, <1>13 DEF Next, Backend, Enter, Loop, Copy

\* A client's request in a file is found there.
LEMMA FileRequested ==
  ASSUME Announced, HInv, Request, is_wire, call.port = "file"
  PROVE  RequestFileWire
<1>1. Control /\ Asked
  BY DEF HInv, Conduct
<1>2. pc = "request"
  BY DEF Request, RequestCma, RequestFileRepl, RequestFileWire, RequestMemory, RequestNothing
<1>3. call \in Calls /\ ~is_repl
  BY <1>1, <1>2, CallAtHand
<1>4. call.frame # <<>> /\ call.frame # NoFile
  BY <1>3, CallsAssumption, NoFileAssumption DEF CallsAssumption, CallType, NoFileAssumption
<1>5. PGS_IN = call.frame /\ cma_rsize = 0
  BY <1>1, <1>2 DEF Asked
<1>6. FileHasData /\ ~(cma_rsize > 0)
  BY <1>4, <1>5 DEF FileHasData
<1>7. ~RequestCma /\ ~RequestFileRepl /\ ~RequestMemory /\ ~RequestNothing
  BY <1>3, <1>6 DEF RequestCma, RequestFileRepl, RequestMemory, RequestNothing
<1> QED
  BY <1>7 DEF Request

LEMMA FileAnsweredStep ==
  ASSUME Announced, HInv, FileAnswered, [Next]_vars
  PROVE  FileAnswered'
<1> SUFFICES ASSUME is_wire', call'.port = "file", Replying' PROVE send'.sockfiles
  BY DEF FileAnswered
<1>1. /\ IInv /\ TypeOK /\ Control /\ Asked /\ Sends /\ InFile([send EXCEPT !.sockfiles = TRUE])
  BY DEF HInv, Conduct, IInv, TypeOK, InFile, SendType
<1>2. ASSUME UNCHANGED <<is_wire, call>>, Replying, pc # "request" PROVE send'.sockfiles
  BY <1>1, <1>2, FileKept DEF FileAnswered
<1>3. CASE (\E c \in Calls : HostCall(c)) \/ HostRead \/ EnterInit \/ EnterBacklog \/ EnterRequest
  <2>1. ~EnterBacklog
    <3>1. Enters => send.SOCKET_DATA = 0
      BY <1>1 DEF Sends, AtHost, Shut
    <3>2. EnterBacklog => Enters /\ send.SOCKET_DATA > 0
      BY DEF EnterBacklog, Enters
    <3> QED
      BY <3>1, <3>2
  <2>2. pc' \in {"host", "enter", "request"} /\ ~(cma_rsize' < 0)
    <3>1. CASE \E c \in Calls : HostCall(c)
      <4>1. PICK c \in Calls : HostCall(c)
        BY <3>1
      <4>2. Len(c.frame) \in Nat
        BY CallsAssumption DEF CallsAssumption, CallType
      <4> QED
        BY <4>1, <4>2 DEF HostCall
    <3>2. CASE HostRead \/ EnterInit \/ EnterRequest
      <4>1. cma_rsize' = cma_rsize
        BY <3>2 DEF HostRead, EnterInit, EnterRequest, cma
      <4>2. pc = "returned" \/ cma_rsize >= 0 => ~(cma_rsize < 0)
        BY <1>1 DEF Control, TypeOK
      <4> QED
        BY <3>2, <4>1, <4>2 DEF HostRead, EnterInit, EnterRequest
    <3> QED
      BY <1>3, <2>1, <3>1, <3>2
  <2> QED
    BY <2>2 DEF Replying, First, Later, Begun, Resumes
<1>4. CASE Publish \/ Return
  <2>1. pc' = "broken" \/ pc' = "return" \/ pc' = "returned"
    BY <1>4 DEF Publish, Return
  <2>2. ~First' /\ ~Later' /\ ~Resumes'
    BY <2>1 DEF First, Later, Begun, Resumes
  <2> QED
    BY <2>1, <2>2 DEF Replying
<1>5. CASE EnterResume \/ LastReady \/ LongJump \/ HostRecover
  <2>1. UNCHANGED <<is_wire, call>> /\ Replying /\ pc # "request"
    BY <1>5 DEF EnterResume, LastReady, LongJump, HostRecover, Replying, Later, Begun, Resumes
  <2> QED
    BY <1>2, <2>1
<1>6. CASE Loop \/ Proto \/ Copy
  <2>1. UNCHANGED <<is_wire, call>>
    BY <1>6 DEF Loop, LoopEnds, LoopAuth, LoopRead, LoopSql, AfterMessage, Proto, Copy, SimpleQuery,
       Parse, BindExecute, CloseDescribe, ExtendedQuery, FunctionCall, Flush, Sync, CopyStray, Executed,
       Terminate, Fail, CopyBegin, CopyData, CopyDone, CopyFail, CopyTake
  <2>2. pc \in {"incoming", "rfq", "dispatch", "copying"}
    BY <1>6 DEF Loop, LoopEnds, LoopAuth, LoopRead, LoopSql, AfterMessage, Proto, Copy, SimpleQuery,
       Parse, BindExecute, CloseDescribe, ExtendedQuery, FunctionCall, Flush, Sync, CopyStray, Dispatch,
       Terminate, Fail, CopyBegin, CopyData, CopyDone, CopyFail, CopyTake
  <2> QED
    BY <1>2, <2>1, <2>2 DEF Replying, First, Later, Begun
<1>7. CASE Request
  <2>1. UNCHANGED <<is_wire, call>>
    BY <1>7 DEF Request, RequestCma, RequestFileRepl, RequestFileWire, RequestMemory, RequestNothing
  <2>3. RequestFileWire
    BY <1>7, <2>1, FileRequested
  <2> DEFINE r == Filled(recv, PGS_IN)
             s == [send EXCEPT !.sockfiles = TRUE]
  <2>4. send' \in {s, Flushed(Put(SendStart(r, s), "R")), Flushed(Put(s, "R")),
                   Put(SendStart(r, s), "R"), SendStart(r, s)}
    BY <2>3 DEF RequestFileWire, ServeFile, Handshake, StartupAuth, StartupPass, NoPassword
  <2>5. InFile(s)
    BY <1>1
  <2> HIDE DEF r, s
  <2>6. InFile(SendStart(r, s))
    <3>1. SendStart(r, s) = s \/ SendStart(r, s) = [s EXCEPT !.base = 0]
      BY <2>5 DEF SendStart, InFile
    <3> QED
      BY <2>5, <3>1 DEF InFile, SendType
  <2> QED
    BY <2>4, <2>5, <2>6, RepliesInFile DEF InFile, Replies
<1>8. CASE UNCHANGED vars
  <2>1. UNCHANGED <<pc, is_wire, call, send, firstchar, cma_rsize>>
    BY <1>8 DEF vars, locals, cma
  <2> QED
    BY <2>1 DEF FileAnswered, Replying, First, Later, Resumes
<1> QED
  BY <1>3, <1>4, <1>5, <1>6, <1>7, <1>8 DEF Next, Backend, Enter, Leave

\* A last reply counts as a reply.
LEMMA LastRepliesEmpty ==
  ASSUME NEW s \in SendType, Empty(s)
  PROVE  Empty(LastReplies(s))
<1>1. ASSUME NEW x \in SendType, NEW reply \in Replies
      PROVE  Put(x, reply) \in SendType /\ Put(x, reply).SOCKET_DATA > 0
  <2>1. Put(x, reply) \in SendType
    BY PutType
  <2>2. Put(x, reply).SOCKET_DATA = x.SOCKET_DATA + 1 /\ x.SOCKET_DATA \in Nat
    BY PutParts DEF SendType
  <2> QED
    BY <2>1, <2>2
<1>2. "A" \in Replies /\ "Z" \in Replies
  BY DEF Replies
<1>3. /\ Notified(s) \in SendType /\ Empty(Notified(s))
  <2>1. Put(s, "A") \in SendType /\ Put(s, "A").SOCKET_DATA > 0
    BY <1>1, <1>2
  <2>2. Empty(Put(s, "A"))
    BY <2>1 DEF Empty
  <2> QED
    BY <2>1, <2>2 DEF Notified, Answer
<1> DEFINE last == Put(Notified(s), "Z")
<1>4. last \in SendType /\ last.SOCKET_DATA > 0
  BY <1>1, <1>2, <1>3
<1> HIDE DEF last
<1>5. Flushed(last).SOCKET_DATA = last.SOCKET_DATA
  BY <1>4, FlushedParts
<1>6. Empty(Flushed(last))
  BY <1>4, <1>5 DEF Empty
<1> QED
  BY <1>3, <1>6 DEF LastReplies, last

\* The reply is published where the host will look.
LEMMA PublishDelivers ==
  ASSUME Announced, HInv, HInv', Delivered, Publish
  PROVE  Delivered'
<1> DEFINE base == 2 + Len(call.frame)
<1>1. /\ pc = "publish" /\ send' = Closed(send)
      /\ channel' = CASE send.SOCKET_DATA = 0 -> channel
                      [] send.SOCKET_DATA > 0 /\ send.sockfiles -> -1
                      [] OTHER -> cma_rsize + 2
      /\ cma_wsize' = CASE send.SOCKET_DATA = 0 -> 0
                        [] send.SOCKET_DATA > 0 /\ send.sockfiles -> cma_wsize
                        [] OTHER -> send.SOCKET_DATA
      /\ PGS_OUT' = IF Renames(send) THEN send.olock ELSE PGS_OUT
      /\ UNCHANGED <<is_wire, cma_rsize, call>>
  BY DEF Publish
<1>2. pc' = "return"
  <2>1. Sends /\ is_wire \in BOOLEAN
    BY DEF HInv, Conduct, IInv, TypeOK
  <2>2. send.SOCKET_FILE
    BY <1>1, <2>1 DEF Sends, Placed, Loose
  <2> QED
    BY <2>2 DEF Publish
<1>3. /\ TypeOK /\ Sends /\ Control /\ send \in SendType /\ cma_rsize \in Nat \cup {-1}
      /\ send.SOCKET_DATA \in Nat /\ send.emitted \in Seq(Replies) /\ send.olock \in Seq(Replies)
  BY DEF HInv, Conduct, IInv, TypeOK, SendType
<1>4. Loose(send) /\ (is_wire => Placed(send, base))
  BY <1>1, <1>3 DEF Sends, Placed
<1>5. Empty(send)
  <2>1. CASE is_wire
    <3>1. send.SOCKET_DATA = Len(send.emitted) /\ (send.sockfiles => send.olock = send.emitted)
          /\ (~send.sockfiles => send.olock = <<>>)
      BY <1>4, <2>1 DEF Placed, Loose
    <3> QED
      BY <1>3, <3>1, EmptySeq DEF Empty
  <2>2. CASE ~is_wire
    BY <1>1, <2>2 DEF Delivered
  <2> QED
    BY <2>1, <2>2
<1>6. (ChannelHost => PGS_OUT \in {NoFile, <<>>}) /\ Len(call.frame) \in Nat
  BY <1>1, <1>3, CallAtHand DEF Delivered
<1>06. is_wire /\ call.port = "file" => send.sockfiles
  BY <1>1 DEF Delivered, FileAnswered, Replying
<1>7. Renames(send) <=> send.sockfiles
  BY <1>4 DEF Renames, Loose
<1>8. /\ send'.base = send.base /\ send'.sent = send.sent /\ send'.emitted = send.emitted
      /\ send'.sockfiles = send.sockfiles
  BY <1>1, <1>3, ClosedParts
<1>08. FileAnswered' /\ Overlooked' = Overlooked
  BY <1>1, <1>2, <1>8 DEF FileAnswered, Replying, First, Later, Begun, Resumes, Overlooked
<1>9. CASE send.SOCKET_DATA = 0
  <2>1. (ChannelHost \/ send.sockfiles => PGS_OUT' \in {NoFile, <<>>}) /\ cma_wsize' = 0
    BY <1>1, <1>5, <1>6, <1>7, <1>9 DEF Empty
  <2>2. is_wire => HostReply' = <<>>
    BY <1>1, <1>06, <2>1 DEF HostReply, ReadsFile
  <2>3. is_wire => send.emitted = <<>>
    BY <1>3, <1>4, <1>9, EmptySeq DEF Placed, Loose
  <2> QED
    BY <1>1, <1>2, <1>8, <1>08, <2>1, <2>2, <2>3 DEF Delivered
<1>10. CASE send.SOCKET_DATA > 0 /\ send.sockfiles
  <2>1. channel' = -1 /\ PGS_OUT' = send.olock
    BY <1>1, <1>3, <1>7, <1>10
  <2>2. channel' < 0
    BY <2>1
  <2>3. PGS_OUT' # NoFile
    BY <1>3, <2>1, NoFileAssumption DEF NoFileAssumption
  <2>4. cma_wsize' = 0
    BY <1>1, <1>10 DEF Delivered
  <2>5. HostReply' = IF Overlooked THEN <<>> ELSE PGS_OUT'
    BY <1>1, <1>10, <2>2, <2>3, <2>4 DEF HostReply, ReadsFile, Overlooked
  <2>6. is_wire => send.olock = send.emitted
    BY <1>4, <1>10 DEF Placed
  <2> QED
    BY <1>1, <1>2, <1>8, <1>08, <2>1, <2>2, <2>5, <2>6 DEF Delivered
<1>11. CASE send.SOCKET_DATA > 0 /\ ~send.sockfiles
  <2>1. channel' = cma_rsize + 2 /\ cma_wsize' = send.SOCKET_DATA /\ PGS_OUT' = PGS_OUT
    BY <1>1, <1>3, <1>7, <1>11
  <2>2. ~(channel' < 0) /\ cma_wsize' # 0
    BY <1>3, <1>11, <2>1
  <2>3. ASSUME is_wire PROVE HostReply' = send.emitted
    <3>1. /\ send.sent = send.emitted /\ send.base = base
          /\ send.SOCKET_DATA = Len(send.emitted)
      BY <1>4, <1>11, <2>3 DEF Placed, Loose
    <3>2. /\ send'.sent = send.emitted /\ send'.base = 2 + Len(call'.frame)
          /\ cma_wsize' = Len(send.emitted) /\ cma_wsize' <= Len(send'.sent)
      BY <1>1, <1>3, <1>8, <2>1, <3>1
    <3>03. ~ReadsFile'
      BY <1>1, <1>06, <1>11, <2>2, <2>3 DEF ReadsFile
    <3>3. HostReply' = SubSeq(send.emitted, 1, Len(send.emitted))
      BY <2>2, <3>2, <3>03 DEF HostReply
    <3>4. SubSeq(send.emitted, 1, Len(send.emitted)) = send.emitted
      BY <1>3
    <3> QED
      BY <3>3, <3>4
  <2>4. ~Overlooked
    BY <1>11 DEF Overlooked
  <2> QED
    BY <1>1, <1>2, <1>6, <1>8, <1>08, <2>1, <2>3, <2>4 DEF Delivered
<1> QED
  BY <1>3, <1>9, <1>10, <1>11

\* A step inside a call that publishes nothing, and ends at flush only with
\* an empty file or a client.
LEMMA QuietStep ==
  ASSUME Delivered, FileAnswered', pc \notin {"return", "returned"}, pc' \notin {"host", "return", "returned"},
         UNCHANGED <<channel, PGS_OUT>>, cma_wsize' = 0,
         pc' \in {"flush", "publish"} => is_wire' \/ Empty(send')
  PROVE  Delivered'
BY DEF Delivered

\* A step that ends a call without a reply.
LEMMA SilentStep ==
  ASSUME Delivered, FileAnswered', pc \notin {"host", "return", "returned"}, pc' = "return",
         UNCHANGED <<channel, PGS_OUT, cma_wsize>>,
         is_wire' => send'.emitted = <<>> /\ call'.port # "file"
  PROVE  Delivered'
<1>1. (ChannelHost => PGS_OUT' \in {NoFile, <<>>}) /\ cma_wsize' = 0
  BY DEF Delivered
<1>2. is_wire' => HostReply' = <<>>
  BY <1>1 DEF HostReply, ReadsFile
<1> QED
  BY <1>1, <1>2 DEF Delivered

LEMMA DeliveredStep ==
  ASSUME Announced, HInv, HInv', Delivered, [Next]_vars
  PROVE  Delivered'
<1>1. /\ TypeOK /\ Control /\ Reads /\ Sends /\ Asked
  BY DEF HInv, Conduct, IInv
<1>01. FileAnswered'
  BY FileAnsweredStep DEF Delivered
<1>02. IInv'
  BY DEF HInv
<1>2. CASE \E c \in Calls : HostCall(c)
  <2>1. pc = "host" /\ pc' = "enter" /\ cma_wsize' = 0 /\ UNCHANGED <<channel, PGS_OUT>>
    BY <1>2 DEF HostCall
  <2> QED
    BY <1>01, <2>1, QuietStep
<1>3. CASE HostRead
  <2>1. /\ pc = "returned" /\ pc' = "host"
        /\ ChannelHost => PGS_OUT' = IF channel < 0 THEN NoFile ELSE PGS_OUT
    BY <1>3 DEF HostRead, ReadsFile
  <2>2. ChannelHost => PGS_OUT' \in {NoFile, <<>>}
    BY <2>1 DEF Delivered
  <2> QED
    BY <1>01, <2>1, <2>2 DEF Delivered
<1>4. CASE Enter
  <2>1. ~EnterBacklog
    <3> SUFFICES ASSUME EnterBacklog PROVE FALSE
      OBVIOUS
    <3>1. send.SOCKET_DATA > 0 /\ Enters
      BY DEF EnterBacklog, Enters
    <3>2. send.SOCKET_DATA = 0
      BY <1>1, <3>1 DEF Sends, AtHost, Shut
    <3> QED
      BY <3>1, <3>2
  <2>2. /\ pc = "enter" /\ UNCHANGED <<channel, PGS_OUT, cma_wsize>>
        /\ (pc' \in {"enter", "request"} \/ EnterResume)
    BY <1>4, <2>1 DEF Enter, EnterResume, EnterInit, EnterRequest, cma, files
  <2>3. EnterResume => is_wire' /\ pc' = "flush"
    <3> SUFFICES ASSUME EnterResume PROVE is_wire' /\ pc' = "flush"
      OBVIOUS
    <3>1. ~Sjlj
      BY <1>1 DEF EnterResume, Control
    <3>2. is_wire /\ ~is_repl
      BY <1>1, <2>2, <3>1, CallAtHand
    <3> QED
      BY <3>2 DEF EnterResume
  <2>4. cma_wsize = 0
    BY <2>2 DEF Delivered
  <2> QED
    BY <1>01, <2>2, <2>3, <2>4, QuietStep
<1>5. CASE Request
  <2>1. /\ pc = "request" /\ UNCHANGED <<channel, PGS_OUT, cma_wsize>>
        /\ UNCHANGED <<is_wire, call>>
    BY <1>5 DEF Request, RequestCma, RequestFileRepl, RequestFileWire, RequestMemory, RequestNothing,
       cma, files
  <2>01. \/ pc' = "return" /\ send' \in {send, [send EXCEPT !.sockfiles = FALSE]} /\ ~RequestFileWire
         \/ pc' \in {"incoming", "broken"} \/ (pc' = "flush" /\ RequestFileWire)
    <3>1. CASE RequestCma \/ RequestMemory \/ RequestNothing
      <4>1. send' \in {send, [send EXCEPT !.sockfiles = FALSE]} /\ pc' \in {"return", "incoming"}
        BY <3>1 DEF RequestCma, RequestMemory, RequestNothing
      <4>2. ~RequestFileWire
        <5>1. RequestCma => cma_rsize # 0
          BY DEF RequestCma
        <5> QED
          BY <3>1, <5>1 DEF RequestMemory, RequestNothing, RequestFileWire
      <4> QED
        BY <4>1, <4>2
    <3>2. CASE RequestFileRepl
      BY <1>02, <3>2, RequestFileReplStep
    <3>3. CASE RequestFileWire
      <4>1. pc' \in {"incoming", "flush", "broken", "refused"}
        BY <3>3 DEF RequestFileWire, ServeFile, Handshake
      <4> QED
        BY <1>02, <3>3, <4>1, RequestFileWireStep
    <3> QED
      BY <1>5, <3>1, <3>2, <3>3 DEF Request
  <2>2. RequestFileWire => is_wire'
    <3>1. ~is_wire => is_repl
      BY <1>1, <2>1, CallAtHand
    <3> QED
      BY <3>1 DEF RequestFileWire
  <2>3. cma_wsize = 0
    BY <2>1 DEF Delivered
  <2>4. ASSUME pc' = "return" PROVE send'.emitted = <<>>
    <3>1. send' \in {send, [send EXCEPT !.sockfiles = FALSE]}
      BY <2>01, <2>4
    <3>2. send'.emitted = send.emitted
      BY <1>1, <3>1 DEF TypeOK, SendType
    <3> QED
      BY <1>1, <2>1, <3>2 DEF Sends, Fresh
  <2>5. pc' = "return" /\ is_wire' => call'.port # "file"
    BY <1>5, <2>1, <2>01, FileRequested
  <2> QED
    BY <1>01, <2>1, <2>01, <2>2, <2>3, <2>4, <2>5, QuietStep, SilentStep
<1>6. CASE Loop
  <2>1. /\ pc \in {"incoming", "rfq"} /\ UNCHANGED <<channel, PGS_OUT, cma_wsize>> /\ UNCHANGED is_wire
    BY <1>6 DEF Loop, LoopEnds, LoopAuth, LoopRead, LoopSql, AfterMessage, cma, files
  <2>2. pc' \in {"incoming", "dispatch", "broken", "refused", AfterLoop}
    <3>1. CASE LoopRead
      BY <3>1 DEF LoopRead
    <3>2. CASE LoopEnds \/ LoopAuth \/ LoopSql \/ AfterMessage
      BY <3>2 DEF LoopEnds, LoopAuth, Handshake, LoopSql, AfterMessage
    <3> QED
      BY <1>6, <3>1, <3>2 DEF Loop
  <2>3. (is_wire => AfterLoop = "flush") /\ (~is_wire => AfterLoop = "return")
    BY <1>1, <2>1, CallAtHand DEF AfterLoop
  <2>4. cma_wsize = 0
    BY <2>1 DEF Delivered
  <2> QED
    BY <1>01, <2>1, <2>2, <2>3, <2>4, QuietStep, SilentStep
<1>7. CASE Proto \/ Copy
  <2>1. CASE Executes /\ UNCHANGED <<channel, PGS_OUT, cma_wsize>>
    <3>1. /\ pc \in {"dispatch", "copying"} /\ pc' \in {"rfq", "copying", "error", "trapped"}
      BY <2>1 DEF Executes
    <3>2. cma_wsize = 0
      BY <3>1 DEF Delivered
    <3> QED
      BY <1>01, <2>1, <3>1, <3>2, QuietStep
  <2>2. CASE Terminate
    <3>1. pc = "dispatch" /\ pc' = "flush" /\ UNCHANGED <<channel, PGS_OUT, cma_wsize, is_wire>>
          /\ firstchar \in {"X", "EOF"}
      BY <2>2 DEF Terminate, Dispatch, cma, files
    <3>2. cma_wsize = 0 /\ is_wire
      BY <3>1, ServedReplies DEF Delivered
    <3> QED
      BY <1>01, <3>1, <3>2, QuietStep
  <2>3. UNCHANGED <<channel, PGS_OUT, cma_wsize>>
    BY <1>7 DEF Proto, Copy, SimpleQuery, Parse, BindExecute, CloseDescribe, ExtendedQuery, FunctionCall,
       Flush, Sync, CopyStray, Executed, Terminate, Fail, CopyBegin, CopyData, CopyDone, CopyFail, CopyTake,
       cma, files
  <2>4. Terminate \/ Executes
    BY <1>7, MessageStep, FailStep, CopyBeginStep, CopyStep DEF Proto, Copy
  <2> QED
    BY <2>1, <2>2, <2>3, <2>4
<1>8. CASE LongJump
  <2>1. /\ pc \in {"error", "refused"} /\ UNCHANGED <<channel, PGS_OUT, cma_wsize, is_wire>> /\ ClearError
        /\ pc' \in {"broken", "incoming", "flush"}
    BY <1>8 DEF LongJump, Synchronised, cma, files
  <2>2. cma_wsize = 0
    BY <2>1 DEF Delivered
  <2>3. ~is_wire => pc = "error" /\ Empty(send')
    BY <2>1, ServedReplies DEF ClearError, Empty, Fresh, HInv, Settled, Refused
  <2> QED
    BY <1>01, <2>1, <2>2, <2>3, QuietStep
<1>9. CASE HostRecover
  <2>1. /\ pc \in {"trapped", "refused"} /\ UNCHANGED <<channel, PGS_OUT>> /\ cma_wsize' = 0
        /\ pc' \in {"broken", "enter"}
    BY <1>9 DEF HostRecover, Synchronised, files
  <2> QED
    BY <1>01, <2>1, QuietStep
<1>10. CASE LastReady
  <2>1. /\ pc = "flush" /\ pc' = "publish" /\ UNCHANGED <<channel, PGS_OUT, cma_wsize, is_wire>>
        /\ send' \in {send, LastReplies(send)}
    BY <1>10 DEF LastReady, cma, files
  <2>2. cma_wsize = 0 /\ (~is_wire => Empty(send))
    BY <2>1 DEF Delivered
  <2>3. ~is_wire => Empty(send')
    BY <1>1, <2>1, <2>2, LastRepliesEmpty DEF TypeOK
  <2> QED
    BY <1>01, <2>1, <2>2, <2>3, QuietStep
<1>11. CASE Publish
  BY <1>11, PublishDelivers
<1>12. CASE Return
  <2>1. /\ pc = "return" /\ pc' = "returned"
        /\ UNCHANGED <<is_wire, cma_wsize, channel, send, PGS_OUT, call>>
    BY <1>12 DEF Return
  <2>2. HostReply' = HostReply /\ Overlooked' = Overlooked
    BY <2>1 DEF HostReply, ReadsFile, Overlooked
  <2> QED
    BY <1>01, <2>1, <2>2 DEF Delivered
<1>13. CASE UNCHANGED vars
  <2>1. UNCHANGED <<pc, is_wire, cma_wsize, channel, send, PGS_OUT, call>>
    BY <1>13 DEF vars, cma, files
  <2>2. HostReply' = HostReply /\ Overlooked' = Overlooked
    BY <2>1 DEF HostReply, ReadsFile, Overlooked
  <2> QED
    BY <1>01, <2>1, <2>2 DEF Delivered, Empty
<1> QED
  BY <1>2, <1>3, <1>4, <1>5, <1>6, <1>7, <1>8, <1>9, <1>10, <1>11, <1>12, <1>13 DEF Next, Backend, Leave

\* Every reply made during a call on the wire reaches the host exactly once and
\* in order: in memory, or in the file when the request came in one or the
\* memory became too small.  A host that does not ask get_channel finds nothing
\* at all of the reply to a CMA request that outgrew the memory.
THEOREM ReplyAlwaysReachesHost ==
  ASSUME Announced
  PROVE  Spec => []ReplyReachesHost
<1>1. Init => Delivered
  BY DEF Init, Delivered, FileAnswered, Replying, First, Later, Begun, Resumes
<1>2. HInv /\ HInv' /\ Delivered /\ [Next]_vars => Delivered'
  BY DeliveredStep
<1>3. Delivered => ReplyReachesHost
  BY DEF Delivered, ReplyReachesHost, OnWire
<1> QED
  BY <1>1, <1>2, <1>3, HostInvariant, PTL DEF Spec

-----------------------------------------------------------------------------
(* ReadyForQuery, where all hosts are clients *)

\* A call whose sync points are still to be answered.
Serving == ~ClientAuthInProgress /\ (Later \/ Resumes \/ pc \in {"flush", "broken"})

\* A password that comes in a file is served by the call it came with.
PasswordFile ==
  PGS_IN \in Passwords =>
    \/ (Enters \/ pc = "request") /\ call.port = "file" /\ PGS_IN = call.frame
    \/ fp /\ pc \in {"flush", "publish", "return", "broken"}

\* What the flags of SocketBackend say of the message at hand, and that no
\* more is to be sent than is owed.
Owing ==
  /\ PasswordFile
  /\ due \in Nat
  /\ Serving => (send_ready_for_query => due >= 1)
  /\ Later => (firstchar \in Extended <=> doing_extended_query_message)
  /\ pc \in Begun => ~ignore_till_sync

LEMMA ClientAtHand ==
  ASSUME Announced, OnlyClients, HInv, pc # "host"
  PROVE  is_wire /\ ~is_repl
<1>1. call \in Calls /\ is_wire = (call.mode = "wire")
  BY DEF HInv, Conduct, Control
<1>2. is_wire
  BY <1>1 DEF OnlyClients
<1> QED
  BY <1>2, CallAtHand DEF HInv, Conduct

\* No message is read while a password is awaited.
LEMMA LaterServes ==
  ASSUME Announced, OnlyClients
  PROVE  /\ HInv /\ Later => Serving
         /\ HInv' /\ Later' => Serving'
<1>1. ASSUME HInv, Later PROVE Serving
  <2>1. Control /\ Notices /\ pc # "host"
    BY <1>1 DEF HInv, Conduct, Later, Begun
  <2>2. is_wire
    BY <2>1 DEF Control, OnlyClients
  <2> QED
    BY <1>1, <2>1, <2>2 DEF Notices, Serving
<1>2. ASSUME HInv', Later' PROVE Serving'
  <2>1. Control' /\ Notices' /\ pc' # "host"
    BY <1>2 DEF HInv, Conduct, Later, Begun
  <2>2. is_wire'
    BY <2>1 DEF Control, OnlyClients
  <2> QED
    BY <1>2, <2>1, <2>2 DEF Notices, Serving
<1> QED
  BY <1>1, <1>2

LEMMA PasswordFileStep ==
  ASSUME Announced, OnlyClients, HInv, HInv', PasswordFile, [Next]_vars
  PROVE  PasswordFile'
<1> SUFFICES ASSUME PGS_IN' \in Passwords PROVE PasswordFile'
  BY DEF PasswordFile
<1>1. /\ TypeOK /\ Control /\ Asked /\ Sends /\ IInv'
  BY DEF HInv, Conduct, IInv
<1>2. NoFile \notin Passwords /\ <<>> \notin Passwords
  <2>1. Passwords \subseteq Seq(Kinds)
    BY DEF Passwords, Kinds, Wire
  <2>2. <<>> \notin Passwords
    BY DEF Passwords
  <2> QED
    BY <2>1, <2>2, NoFileAssumption DEF NoFileAssumption
<1>3. CASE \E c \in Calls : HostCall(c)
  <2>1. PICK c \in Calls : HostCall(c)
    BY <1>3
  <2>2. /\ pc = "host" /\ pc' = "enter" /\ call' = c
        /\ PGS_IN' = IF c.port = "file" THEN c.frame ELSE PGS_IN
        /\ c.port = "file" => cma_rsize' = 0
    BY <2>1 DEF HostCall
  <2>3. PGS_IN \notin Passwords
    BY <2>2 DEF PasswordFile, Enters
  <2>4. c.port = "file" /\ PGS_IN' = c.frame
    BY <2>2, <2>3
  <2> QED
    BY <2>2, <2>4 DEF PasswordFile, Enters
<1>4. CASE Return
  <2>1. pc = "return" /\ PGS_IN' = IF fp THEN NoFile ELSE PGS_IN
    BY <1>4 DEF Return, Unlinked
  <2> QED
    BY <1>2, <2>1 DEF PasswordFile, Enters
<1>5. ASSUME ~(\E c \in Calls : HostCall(c)), ~Return PROVE PGS_IN' = PGS_IN
  <2>1. CASE HostRead \/ Enter \/ Request \/ Loop
    BY <2>1 DEF HostRead, Enter, EnterResume, EnterInit, EnterBacklog, EnterRequest, Request, RequestCma,
       RequestFileRepl, RequestFileWire, RequestMemory, RequestNothing, Loop, LoopEnds, LoopAuth, LoopRead,
       LoopSql, AfterMessage, files
  <2>2. CASE Proto \/ Copy
    BY <2>2 DEF Proto, Copy, SimpleQuery, Parse, BindExecute, CloseDescribe, ExtendedQuery, FunctionCall,
       Flush, Sync, CopyStray, Executed, Terminate, Fail, CopyBegin, CopyData, CopyDone, CopyFail, CopyTake, files
  <2>3. CASE LongJump \/ HostRecover \/ LastReady \/ Publish
    BY <2>3 DEF LongJump, HostRecover, LastReady, Publish, files
  <2>4. CASE UNCHANGED vars
    BY <2>4 DEF vars, files
  <2> QED
    BY <1>5, <2>1, <2>2, <2>3, <2>4 DEF Next, Backend, Leave
<1>6. ASSUME ~(\E c \in Calls : HostCall(c)), ~Return PROVE PasswordFile'
  <2>1. PGS_IN' = PGS_IN /\ PGS_IN \in Passwords
    BY <1>5, <1>6
  <2>2. CASE UNCHANGED vars
    <3>1. UNCHANGED <<pc, fp, cma_rsize, PGS_IN, call>>
      BY <2>2 DEF vars, locals, cma, files
    <3> QED
      BY <3>1 DEF PasswordFile, Enters
  <2>3. CASE fp /\ pc \in {"flush", "publish", "return", "broken"} /\ Next
    <3>1. LastReady \/ Publish
      BY <1>6, <2>3 DEF Next, Backend, HostRead, Enter, EnterResume, EnterInit, EnterBacklog, EnterRequest,
         Request, RequestCma, RequestFileRepl, RequestFileWire, RequestMemory, RequestNothing, Loop, LoopEnds,
         LoopAuth, LoopRead, LoopSql, AfterMessage, Proto, Copy, SimpleQuery, Parse, BindExecute,
         CloseDescribe, ExtendedQuery, FunctionCall, Flush, Sync, CopyStray, Dispatch, Terminate, Fail,
         CopyBegin, CopyData, CopyDone, CopyFail, CopyTake, LongJump, HostRecover, Leave
    <3>2. fp' = fp /\ pc' \in {"publish", "return", "broken"}
      BY <3>1 DEF LastReady, Publish, locals
    <3> QED
      BY <2>3, <3>2 DEF PasswordFile
  <2>4. CASE (Enters \/ pc = "request") /\ call.port = "file" /\ PGS_IN = call.frame /\ Next
    <3>1. Enter \/ Request
      BY <1>6, <2>4 DEF Next, Backend, HostRead, Enters, Loop, LoopEnds,
         LoopAuth, LoopRead, LoopSql, AfterMessage, Proto, Copy, SimpleQuery, Parse, BindExecute,
         CloseDescribe, ExtendedQuery, FunctionCall, Flush, Sync, CopyStray, Dispatch, Terminate, Fail,
         CopyBegin, CopyData, CopyDone, CopyFail, CopyTake, LongJump, HostRecover, Leave, LastReady, Publish
    <3>2. CASE Enter
      <4>1. ~EnterBacklog /\ ~EnterResume
        <5>1. Enters
          BY <2>4, <3>2 DEF Enter, EnterResume, EnterInit, EnterBacklog, EnterRequest
        <5>2. ~(send.SOCKET_DATA > 0) /\ ~(cma_rsize < 0)
          <6>1. send.SOCKET_DATA = 0 /\ cma_rsize >= 0 /\ cma_rsize \in Nat \cup {-1}
            BY <1>1, <5>1 DEF Sends, AtHost, Shut, Enters, TypeOK
          <6> QED
            BY <6>1
        <5> QED
          BY <5>2 DEF EnterBacklog, EnterResume
      <4>2. CASE EnterInit
        <5>1. pc = "enter" /\ cma_rsize >= 0 /\ UNCHANGED <<pc, cma_rsize, call>>
          BY <4>2 DEF EnterInit, cma
        <5> QED
          BY <2>1, <2>4, <5>1 DEF PasswordFile, Enters
      <4>3. CASE EnterRequest
        <5>1. pc' = "request" /\ call' = call
          BY <4>3 DEF EnterRequest
        <5> QED
          BY <2>1, <2>4, <5>1 DEF PasswordFile
      <4> QED
        BY <3>2, <4>1, <4>2, <4>3 DEF Enter
    <3>3. CASE Request
      <4>1. is_wire
        <5>1. pc # "host"
          BY <2>4 DEF Enters
        <5> QED
          BY <5>1, ClientAtHand
      <4>2. RequestFileWire
        BY <2>4, <3>3, <4>1, FileRequested
      <4>3. pc' # "refused" /\ peek' = "p"
        BY <1>1, <2>1, <4>2, RequestFileWireStep
      <4>4. fp' /\ pc' \in {"flush", "broken"}
        BY <4>2, <4>3 DEF RequestFileWire, ServeFile, Handshake
      <4> QED
        BY <4>4 DEF PasswordFile
    <3> QED
      BY <3>1, <3>2, <3>3
  <2> QED
    BY <2>1, <2>2, <2>3, <2>4 DEF PasswordFile
<1> QED
  BY <1>3, <1>4, <1>6

\* What is added to the replies of a call.
LEMMA EmittedParts ==
  ASSUME NEW s \in SendType
  PROVE  /\ s.emitted \in Seq(Replies) /\ Flushed(s).emitted = s.emitted
         /\ \A reply \in Replies : /\ Put(s, reply).emitted = Append(s.emitted, reply)
                                   /\ Flushed(Put(s, reply)).emitted = Append(s.emitted, reply)
         /\ \A r : SendStart(r, s).emitted = s.emitted
         /\ Opened(s).emitted = s.emitted /\ Closed(s).emitted = s.emitted
         /\ \A b \in BOOLEAN : [s EXCEPT !.sockfiles = b].emitted = s.emitted
<1>1. s.emitted \in Seq(Replies)
  BY DEF SendType
<1>2. ASSUME NEW x \in SendType PROVE Flushed(x).emitted = x.emitted
  BY FlushedParts
<1>3. ASSUME NEW reply \in Replies
      PROVE  /\ Put(s, reply).emitted = Append(s.emitted, reply)
             /\ Flushed(Put(s, reply)).emitted = Append(s.emitted, reply)
  <2>1. Put(s, reply).emitted = Append(s.emitted, reply) /\ Put(s, reply) \in SendType
    BY PutParts, PutType
  <2> QED
    BY <1>2, <2>1
<1>4. ASSUME NEW r PROVE SendStart(r, s).emitted = s.emitted
  BY DEF SendStart, SendType
<1>5. Opened(s).emitted = s.emitted
  BY DEF Opened, SendType
<1>6. ASSUME NEW b \in BOOLEAN PROVE [s EXCEPT !.sockfiles = b].emitted = s.emitted
  BY DEF SendType
<1> QED
  BY <1>1, <1>2, <1>3, <1>4, <1>5, <1>6, ClosedParts

\* What reading a message does to the flags.
LEMMA LoopReadFlags ==
  ASSUME Announced, HInv, LoopRead
  PROVE  /\ firstchar' \in Extended <=> doing_extended_query_message'
         /\ pc' = "dispatch" => ~ignore_till_sync'
         /\ ignore_till_sync' \in {ignore_till_sync, FALSE}
         /\ UNCHANGED <<send_ready_for_query, due>>
<1>1. firstchar' \in Plain
  BY LoopReads
<1>2. /\ SocketBackend(firstchar') /\ UNCHANGED <<send_ready_for_query, due>>
      /\ pc' = "dispatch" => ~(ignore_till_sync' /\ firstchar' \in Readable /\ firstchar' \notin {"S", "EOF"})
  <2>1. ~recv.reading
    BY DEF HInv, Settled
  <2> QED
    BY <2>1 DEF LoopRead, ready
<1>3. firstchar' \in Readable /\ firstchar' # "EOF"
  BY <1>1 DEF Plain, Readable, Extended, Copying
<1>4. firstchar' \in Extended <=> doing_extended_query_message'
  BY <1>2, <1>3 DEF SocketBackend
<1>5. ignore_till_sync' = (ignore_till_sync /\ firstchar' \notin {"S", "X"})
  BY <1>2 DEF SocketBackend
<1>6. pc' = "dispatch" => ~ignore_till_sync'
  BY <1>2, <1>3, <1>5
<1>7. ignore_till_sync \in BOOLEAN
  BY DEF HInv, IInv, TypeOK
<1> QED
  BY <1>2, <1>4, <1>5, <1>6, <1>7

\* A message is a sync point that is complete, or is answered, or neither.
Completes == /\ send_ready_for_query' /\ due' = due + 1 /\ pc' = "rfq" /\ firstchar \in SyncPoints
             /\ send'.emitted \in {send.emitted, Append(send.emitted, "ok")}
Answers   == /\ due' = due /\ (send_ready_for_query' => send_ready_for_query)
             /\ firstchar \in Extended \cup {"copy"} /\ pc = "dispatch" /\ pc' \in {"rfq", "copying"}
             /\ send'.emitted = Append(send.emitted, "ok")
Passes    == /\ UNCHANGED <<due, send_ready_for_query>> /\ send'.emitted = send.emitted
             /\ pc' \in {"error", "trapped"} => firstchar \in Extended \cup SyncPoints

LEMMA MessageOwes ==
  ASSUME HInv, is_wire, Proto \/ Copy, ~Terminate
  PROVE  /\ Executes /\ UNCHANGED <<ignore_till_sync, doing_extended_query_message>>
         /\ Completes \/ Answers \/ Passes
<1>1. Executes
  BY MessageStep, FailStep, CopyBeginStep, CopyStep DEF Proto, Copy
<1>2. UNCHANGED <<ignore_till_sync, doing_extended_query_message>>
  BY DEF Proto, Copy, SimpleQuery, Parse, BindExecute, CloseDescribe, ExtendedQuery, FunctionCall,
     Flush, Sync, CopyStray, Executed, Fail, CopyBegin, CopyData, CopyDone, CopyFail, CopyTake, skipping
<1> DEFINE e == send.emitted
<1>3. /\ whereToSendOutput = "Remote" /\ send \in SendType
  BY <1>1, ServedReplies DEF Executes
<1>4. /\ Answer(send, "ok").emitted = Append(e, "ok") /\ Flushed(Answer(send, "ok")).emitted = Append(e, "ok")
      /\ Flushed(send).emitted = e
  BY <1>3, EmittedParts DEF Answer, Replies
<1> HIDE DEF e
<1>5. CASE SimpleQuery \/ FunctionCall
  <2>1. /\ send_ready_for_query' /\ due' = due + 1 /\ pc' = "rfq" /\ firstchar \in SyncPoints
        /\ send' = Answer(send, "ok")
    BY <1>3, <1>5 DEF SimpleQuery, FunctionCall, Executed, Owed, Dispatch, SyncPoints
  <2> QED
    BY <1>1, <1>2, <1>4, <2>1 DEF Completes, e
<1>6. CASE Sync
  <2>1. /\ send_ready_for_query' /\ due' = due + 1 /\ pc' = "rfq" /\ firstchar \in SyncPoints
        /\ send' = send
    BY <1>6 DEF Sync, Executed, Owed, Dispatch, SyncPoints
  <2> QED
    BY <1>1, <1>2, <2>1 DEF Completes
<1>7. CASE Parse \/ BindExecute \/ CloseDescribe
  <2>1. /\ due' = due /\ (send_ready_for_query' => send_ready_for_query)
        /\ firstchar \in Extended /\ pc = "dispatch" /\ pc' = "rfq" /\ send' = Answer(send, "ok")
    BY <1>7 DEF Parse, BindExecute, CloseDescribe, ExtendedQuery, Executed, Dispatch, Extended
  <2> QED
    BY <1>1, <1>2, <1>4, <2>1 DEF Answers, e
<1>8. CASE CopyBegin
  <2>1. /\ UNCHANGED <<due, send_ready_for_query>> /\ firstchar = "copy" /\ pc = "dispatch"
        /\ pc' = "copying" /\ send' = Flushed(Answer(send, "ok"))
    BY <1>8 DEF CopyBegin, Dispatch, ready
  <2> QED
    BY <1>1, <1>2, <1>4, <2>1 DEF Answers, e
<1>9. CASE Flush \/ CopyStray \/ Fail
  <2>1. /\ UNCHANGED <<due, send_ready_for_query>> /\ send' \in {send, Flushed(send)}
        /\ pc' \in {"error", "trapped"} => firstchar \in Extended \cup SyncPoints
    BY <1>9 DEF Flush, CopyStray, Fail, Executed, Dispatch, SyncPoints, ready
  <2> QED
    BY <1>1, <1>2, <1>4, <2>1 DEF Passes, e
<1>10. CASE CopyData \/ CopyDone \/ CopyFail
  <2>1. CopyTake
    BY <1>10 DEF CopyData, CopyDone, CopyFail
  <2>2. firstchar = "copy" /\ SendStart(recv, send) = send
    BY <2>1, CopyReads
  <2>3. CASE CopyDone
    <3>1. /\ send_ready_for_query' /\ due' = due + 1 /\ pc' = "rfq" /\ send' = Answer(send, "ok")
      BY <2>2, <2>3 DEF CopyDone, Owed
    <3> QED
      BY <1>1, <1>2, <1>4, <2>2, <3>1 DEF Completes, SyncPoints, e
  <2>4. CASE CopyData \/ CopyFail
    <3>1. UNCHANGED <<due, send_ready_for_query>> /\ send' = send
      BY <2>2, <2>4 DEF CopyData, CopyFail, ready
    <3> QED
      BY <1>1, <1>2, <2>2, <3>1 DEF Passes, SyncPoints
  <2> QED
    BY <1>10, <2>3, <2>4
<1> QED
  BY <1>5, <1>6, <1>7, <1>8, <1>9, <1>10 DEF Proto, Copy

\* What clear_error does: an error outside of an extended query is a sync
\* point, one inside begins the skipping.
LEMMA ErrorOwes ==
  ASSUME HInv, is_wire, Owing, LongJump \/ HostRecover, pc # "refused"
  PROVE  /\ pc \in {"error", "trapped"} /\ Later
         /\ UNCHANGED <<doing_extended_query_message, ClientAuthInProgress>>
         /\ send'.emitted = Append(send.emitted, "E")
         /\ \/ firstchar \in Extended /\ ignore_till_sync' /\ UNCHANGED <<due, send_ready_for_query>>
            \/ firstchar \notin Extended /\ ~ignore_till_sync' /\ due' = due + 1 /\ send_ready_for_query'
<1>1. pc \in {"error", "trapped"} /\ ClearError /\ UNCHANGED ClientAuthInProgress
  BY DEF LongJump, HostRecover, conn
<1>2. send \in SendType /\ whereToSendOutput = "Remote" /\ Later
  BY <1>1, ServedReplies
<1>3. send'.emitted = Append(send.emitted, "E")
  BY <1>1, <1>2, EmittedParts DEF ClearError, Replies
<1>4. /\ ~ignore_till_sync /\ (firstchar \in Extended <=> doing_extended_query_message)
      /\ send_ready_for_query \in BOOLEAN /\ doing_extended_query_message \in BOOLEAN
  BY <1>1, <1>2 DEF Owing, Begun, HInv, IInv, TypeOK
<1>5. CASE firstchar \in Extended
  BY <1>1, <1>2, <1>3, <1>4, <1>5 DEF ClearError, SkipFromNow
<1>6. CASE firstchar \notin Extended
  BY <1>1, <1>2, <1>3, <1>4, <1>6 DEF ClearError, SkipFromNow, Owed
<1> QED
  BY <1>5, <1>6

Replied(reply) == send'.emitted = Append(send.emitted, reply)
Silent == UNCHANGED <<due, ignore_till_sync, ClientAuthInProgress>> /\ send'.emitted = send.emitted

\* What the steps outside of the loop do.
Waits      == ~Serving /\ ~Serving' /\ Silent
Takes      == /\ ~Serving /\ ~Serving' /\ due' = 0 /\ send'.emitted = <<>>
              /\ UNCHANGED <<ignore_till_sync, ClientAuthInProgress>>
Challenges == /\ ~Serving /\ pc' = "flush" /\ ClientAuthInProgress' /\ due' = 0
              /\ Replied("R") /\ UNCHANGED ignore_till_sync
Admits     == /\ ~Serving /\ ClientAuthInProgress /\ pc' = "flush" /\ ~ClientAuthInProgress'
              /\ send_ready_for_query' /\ due' = 1 /\ Replied("R") /\ ~ignore_till_sync'
Refuses    == /\ ClientAuthInProgress /\ ClientAuthInProgress' /\ due' = due /\ Replied("E")
              /\ pc' \in {"flush", "enter"} /\ ignore_till_sync' \in {ignore_till_sync, TRUE}
Leaves     == Serving /\ Serving' /\ pc' = "flush" /\ Silent /\ UNCHANGED send_ready_for_query

\* A handshake packet is answered, and the call is over; or it is refused.
LEMMA AuthOwes ==
  ASSUME Announced, OnlyClients, HInv, HInv', PasswordFile, RequestFileWire \/ LoopAuth
  PROVE  Waits \/ Challenges \/ Admits
<1>1. /\ TypeOK /\ Control /\ Asked /\ Reads /\ pc \in {"request", "incoming"} /\ cma_rsize \in Nat
      /\ send \in SendType /\ IInv' /\ ~recv.reading
  BY DEF HInv, Conduct, Settled, IInv, RequestSized, Served, RequestFileWire, LoopAuth, TypeOK
<1>2. is_wire /\ ~is_repl
  BY <1>1, ClientAtHand
<1>4. CASE RequestFileWire
  <2> DEFINE r == Filled(recv, PGS_IN)
             s == [send EXCEPT !.sockfiles = TRUE]
  <2>1. /\ pc = "request" /\ cma_rsize = 0 /\ ServeFile(r, s)
        /\ UNCHANGED <<firstchar, cma_rsize, PGS_IN, is_wire, call>>
    BY <1>4 DEF RequestFileWire, cma, files
  <2>2. /\ s \in SendType /\ s.emitted = send.emitted
    BY <1>1, EmittedParts DEF SendType
  <2>3. ~r.reading
    BY <1>1, FilledReading DEF RecvOK, TypeOK
  <2>4. pc' # "refused" /\ peek' = IF PGS_IN \in Passwords THEN "p" ELSE "other"
    BY <1>1, <1>4, RequestFileWireStep
  <2>5. ~Serving /\ firstchar' = "none"
    BY <1>1, <2>1 DEF Serving, Later, Resumes, Begun, Control
  <2>6. PGS_IN \in Passwords => ClientAuthInProgress
    <3>1. PGS_IN \in Passwords => PGS_IN = call.frame
      BY <2>1 DEF PasswordFile
    <3> QED
      BY <1>1, <1>2, <2>1, <3>1 DEF Asked
  <2> HIDE DEF r, s
  <2>7. SendStart(r, s) \in SendType /\ SendStart(r, s).emitted = send.emitted
    BY <1>1, <2>2, EmittedParts, SendStartType
  <2>8. Put(SendStart(r, s), "R").emitted = Append(send.emitted, "R")
    BY <2>7, EmittedParts DEF Replies
  <2>9. CASE peek' = "other"
    <3>1. pc' = "incoming" /\ send' = s /\ NoStartup
      BY <2>1, <2>9 DEF ServeFile, Handshake
    <3> QED
      BY <2>2, <2>5, <3>1
      DEF NoStartup, Waits, Silent, Serving, Later, Resumes, Begun, ready, skipping, conn
  <2>10. CASE peek' = "p" /\ Password(r, s) = "p"
    <3>1. StartupPass(r, s) /\ pc' = "flush"
      BY <2>1, <2>10 DEF ServeFile, Handshake
    <3> QED
      BY <2>4, <2>5, <2>6, <2>8, <2>10, <3>1 DEF StartupPass, Admits, Replied
  <2>11. CASE peek' = "p" /\ Password(r, s) # "p"
    <3>1. NoPassword(r, s) /\ pc' = "broken" /\ ClientAuthInProgress
      BY <2>1, <2>4, <2>6, <2>11 DEF ServeFile, Handshake
    <3> QED
      BY <2>5, <2>7, <3>1 DEF NoPassword, NoStartup, Waits, Silent, Serving, ready, skipping, conn
  <2> QED
    BY <2>4, <2>9, <2>10, <2>11
<1>5. CASE LoopAuth
  <2>1. /\ pc = "incoming" /\ is_wire /\ peek \in {"startup", "p"} /\ UNCHANGED <<firstchar, peek>>
        /\ Handshake(recv, send, "flush", "refused")
    BY <1>2, <1>5 DEF LoopAuth, AfterLoop, locals
  <2>2. First /\ ~Serving
    BY <1>1, <2>1 DEF Reads, Serving, Resumes, Later, First
  <2>3. cma_rsize > 0 /\ cma_rsize # 0 /\ peek = Head1(recv.mem["cma"])
    <3>1. cma_rsize # 0
      BY <1>1, <1>2, <2>1, <2>2 DEF Reads
    <3>2. cma_rsize > 0
      BY <1>1, <3>1
    <3> QED
      BY <1>1, <1>2, <2>2, <3>1, <3>2 DEF Reads
  <2>4. peek = "p" => ClientAuthInProgress
    <3> SUFFICES ASSUME peek = "p" PROVE call.frame \in Passwords
      BY <1>1, <1>2, <2>2, <2>3 DEF Asked
    <3>1. recv.mem["cma"] = call.frame /\ Len(call.frame) > 0
      BY <1>1, <1>2, <2>2, <2>3 DEF Asked
    <3>2. call.frame \in Seq(Kinds) /\ WireRequest(call)
      BY <1>1, <1>2, CallAtHand
    <3>3. call.frame # <<>>
      <4>1. Len(<<>>) = 0
        OBVIOUS
      <4> QED
        BY <3>1, <4>1
    <3>4. ~WellFormed(call.frame)
      BY <2>3, <3>1, <3>2, <3>3, HeadOfPlain
    <3>5. call.frame # <<"startup">>
      BY <2>3, <3>1 DEF Head1
    <3> QED
      BY <3>2, <3>4, <3>5 DEF WireRequest
  <2>5. /\ SendStart(recv, send) \in SendType /\ SendStart(recv, send).emitted = send.emitted
    BY <1>1, EmittedParts, SendStartType
  <2>6. /\ Put(SendStart(recv, send), "R").emitted = Append(send.emitted, "R")
        /\ Flushed(Put(SendStart(recv, send), "R")).emitted = Append(send.emitted, "R")
    BY <2>5, EmittedParts DEF Replies
  <2>7. CASE peek = "startup"
    <3>1. StartupAuth(recv, send) /\ pc' = "flush"
      BY <1>1, <2>1, <2>7 DEF Handshake
    <3> QED
      BY <2>2, <2>3, <2>6, <3>1 DEF StartupAuth, Challenges, Replied, skipping
  <2>8. CASE peek = "p" /\ Password(recv, send) = "p"
    <3>1. StartupPass(recv, send) /\ pc' = "flush"
      BY <2>1, <2>8 DEF Handshake
    <3> QED
      BY <2>2, <2>4, <2>6, <2>8, <3>1 DEF StartupPass, Admits, Replied
  <2>9. CASE peek = "p" /\ Password(recv, send) # "p"
    <3>1. NoPassword(recv, send)
      BY <2>1, <2>9 DEF Handshake
    <3> QED
      BY <2>2, <2>4, <2>5, <2>9, <3>1 DEF NoPassword, NoStartup, Waits, Silent, Serving, ready, skipping, conn
  <2> QED
    BY <2>1, <2>7, <2>8, <2>9
<1> QED
  BY <1>4, <1>5

\* A refused password is answered with an ERROR, and is awaited still.
LEMMA RefusedOwes ==
  ASSUME HInv, LongJump \/ HostRecover, pc = "refused"
  PROVE  Refuses
<1>1. /\ ClientAuthInProgress /\ whereToSendOutput = "Remote" /\ send \in SendType /\ ~recv.reading
      /\ ~More(recv) /\ ignore_till_sync \in BOOLEAN /\ doing_extended_query_message \in BOOLEAN
  BY DEF HInv, Settled, Refused, IInv, TypeOK
<1>2. ClearError /\ UNCHANGED ClientAuthInProgress /\ pc' \in {"flush", "enter"}
  BY <1>1 DEF LongJump, HostRecover, Synchronised, conn
<1>3. Replied("E")
  BY <1>1, <1>2, EmittedParts DEF ClearError, Replied, Replies
<1> QED
  BY <1>1, <1>2, <1>3 DEF ClearError, SkipFromNow, Refuses

\* Before the request is read nothing is answered.
LEMMA EnterOwes ==
  ASSUME Announced, OnlyClients, HInv, HInv', Enter
  PROVE  Waits \/ Leaves
<1>1. /\ TypeOK /\ Control /\ Sends /\ Notices /\ pc = "enter" /\ send \in SendType
  BY DEF HInv, Conduct, IInv, TypeOK, Enter, EnterResume, EnterInit, EnterBacklog, EnterRequest
<1>2. ~is_repl
  BY <1>1, ClientAtHand
<1>3. CASE EnterResume
  <2>1. /\ Resumes /\ pc' = "flush"
        /\ UNCHANGED <<send_ready_for_query, due, ignore_till_sync, ClientAuthInProgress, send>>
    BY <1>2, <1>3 DEF EnterResume, Resumes, ready, skipping, conn
  <2> QED
    BY <2>1 DEF Leaves, Waits, Silent, Serving
<1>4. CASE EnterInit
  <2>1. /\ Enters /\ pc' = "enter" /\ UNCHANGED <<cma_rsize, due, ignore_till_sync>>
        /\ send' = [send EXCEPT !.SOCKET_FILE = FALSE, !.SOCKET_DATA = 0]
        /\ ClientAuthInProgress = FALSE /\ ClientAuthInProgress' = FALSE
    BY <1>1, <1>4 DEF EnterInit, Enters, Notices, TypeOK, cma, ready, skipping
  <2>2. send'.emitted = send.emitted
    BY <1>1, <2>1 DEF SendType
  <2>3. ~(cma_rsize < 0)
    BY <1>1, <2>1 DEF Enters, TypeOK
  <2> QED
    BY <1>1, <2>1, <2>2, <2>3 DEF Waits, Silent, Serving, Later, Resumes, Begun
<1>5. CASE EnterBacklog
  <2>1. Enters /\ send.SOCKET_DATA > 0
    BY <1>5 DEF EnterBacklog, Enters
  <2>2. send.SOCKET_DATA = 0
    BY <1>1, <2>1 DEF Sends, AtHost, Shut
  <2> QED
    BY <2>1, <2>2
<1>6. CASE EnterRequest
  <2>1. /\ Enters /\ pc' = "request" /\ UNCHANGED <<due, ignore_till_sync, ClientAuthInProgress>>
        /\ send' = IF send_ready_for_query THEN Notified(Opened(send)) ELSE Opened(send)
    BY <1>1, <1>6 DEF EnterRequest, Enters, skipping, conn
  <2>2. send' = Opened(send)
    <3>1. send_ready_for_query /\ whereToSendOutput = "Remote" => ~notifyInterruptPending
      BY <1>1, <2>1 DEF Notices, AtHost
    <3> QED
      BY <2>1, <3>1 DEF Notified, MayNotify, Answer
  <2>3. send'.emitted = send.emitted
    BY <1>1, <2>2, EmittedParts
  <2>4. ~(cma_rsize < 0)
    BY <1>1, <2>1 DEF Enters, TypeOK
  <2> QED
    BY <1>1, <2>1, <2>3, <2>4 DEF Waits, Silent, Serving, Later, Resumes, Begun
<1> QED
  BY <1>3, <1>4, <1>5, <1>6 DEF Enter

\* Reading a message leaves the replies alone.
LEMMA LoopReadOwes ==
  ASSUME Announced, OnlyClients, HInv, HInv', LoopRead
  PROVE  /\ pc = "incoming" /\ pc' \in {"incoming", "dispatch"} /\ firstchar' # "none"
         /\ (~First => Later) /\ Later' /\ Serving'
         /\ UNCHANGED <<due, send_ready_for_query, ClientAuthInProgress>> /\ send'.emitted = send.emitted
<1>1. /\ pc = "incoming" /\ send' = SendStart(recv, send) /\ send \in SendType
      /\ UNCHANGED <<due, send_ready_for_query, ClientAuthInProgress>>
  BY DEF LoopRead, ready, conn, HInv, IInv, TypeOK
<1>2. firstchar' \in Plain /\ pc' \in {"incoming", "dispatch"}
  BY LoopReads
<1>3. firstchar' # "none"
  BY <1>2 DEF Plain, Extended, Copying
<1>4. send'.emitted = send.emitted
  BY <1>1, EmittedParts
<1>5. Later'
  BY <1>2, <1>3 DEF Later, Begun
<1> QED
  BY <1>1, <1>2, <1>3, <1>4, <1>5, LaterServes DEF First, Later

\* A sync point inside a pipeline is answered, or nothing is done.
Ready1 == send_ready_for_query /\ ~send_ready_for_query' /\ due' = due - 1
LEMMA AfterMessageOwes ==
  ASSUME Announced, OnlyClients, HInv, HInv', AfterMessage
  PROVE  /\ pc = "rfq" /\ pc' = "incoming" /\ firstchar # "none" /\ Later /\ Later' /\ Serving'
         /\ UNCHANGED <<firstchar, ignore_till_sync, doing_extended_query_message,
                         ClientAuthInProgress, recv>>
         /\ \/ Ready1 /\ Replied("Z")
            \/ Silent /\ UNCHANGED send_ready_for_query
<1>1. /\ pc = "rfq" /\ pc' = "incoming" /\ Control
      /\ UNCHANGED <<firstchar, ignore_till_sync, doing_extended_query_message,
                      ClientAuthInProgress, recv>>
      /\ \/ /\ send_ready_for_query /\ ~send_ready_for_query' /\ send' = Flushed(Answer(send, "Z"))
            /\ due' = IF whereToSendOutput = "Remote" THEN due - 1 ELSE due
         \/ UNCHANGED <<send, send_ready_for_query, due>>
  BY DEF AfterMessage, locals, skipping, ready, conn, HInv, Conduct
<1>02. is_wire
  BY <1>1, ClientAtHand
<1>2. whereToSendOutput = "Remote" /\ Later /\ send \in SendType
  BY <1>02, <1>1, ServedReplies
<1>3. Flushed(Answer(send, "Z")).emitted = Append(send.emitted, "Z")
  BY <1>2, EmittedParts DEF Answer, Replies
<1>4. firstchar # "none" /\ Later'
  BY <1>1, <1>2 DEF Control, Later, Begun
<1>5. Serving'
  BY <1>4, LaterServes
<1> QED
  BY <1>1, <1>2, <1>3, <1>4, <1>5 DEF Ready1, Replied, Silent

\* The last replies of a call.
LEMMA LastReadyOwes ==
  ASSUME HInv, is_wire, LastReady, ~ClientAuthInProgress
  PROVE  /\ pc = "flush" /\ pc' = "publish" /\ Serving /\ ~Serving'
         /\ UNCHANGED <<ignore_till_sync, ClientAuthInProgress>>
         /\ \/ Ready1 /\ \E s \in {send.emitted, Append(send.emitted, "A")} :
                           send'.emitted = Append(s, "Z")
            \/ /\ ~send_ready_for_query /\ ~send_ready_for_query' /\ due' = due
               /\ send'.emitted \in {send.emitted, Append(send.emitted, "A")}
<1>1. /\ pc = "flush" /\ pc' = "publish" /\ Notices /\ send \in SendType
      /\ send_ready_for_query \in BOOLEAN /\ UNCHANGED <<ignore_till_sync, ClientAuthInProgress>>
      /\ send' = LastReplies(send) /\ ~send_ready_for_query'
      /\ due' = IF send_ready_for_query THEN due - 1 ELSE due
  BY DEF LastReady, skipping, ready, conn, HInv, Conduct, IInv, TypeOK
<1>3. /\ Serving /\ ~Serving'
  BY <1>1 DEF Serving, Later, Resumes, Begun
<1>4. /\ Notified(send) \in SendType
      /\ Notified(send).emitted \in {send.emitted, Append(send.emitted, "A")}
  <2>1. "A" \in Replies
    BY DEF Replies
  <2>2. Put(send, "A") \in SendType /\ Put(send, "A").emitted = Append(send.emitted, "A")
    BY <1>1, <2>1, PutType, EmittedParts
  <2> QED
    BY <1>1, <2>2 DEF Notified, Answer
<1>5. Flushed(Put(Notified(send), "Z")).emitted = Append(Notified(send).emitted, "Z")
  BY <1>4, EmittedParts DEF Replies
<1>7. CASE send_ready_for_query
  <2>1. send'.emitted = Append(Notified(send).emitted, "Z")
    BY <1>1, <1>5, <1>7 DEF LastReplies
  <2> QED
    BY <1>1, <1>3, <1>4, <1>7, <2>1 DEF Ready1
<1>8. CASE ~send_ready_for_query
  BY <1>1, <1>3, <1>4, <1>8 DEF LastReplies
<1> QED
  BY <1>7, <1>8

\* What a step does to the ReadyForQuery that is owed and to the replies.
LEMMA StepOwes ==
  ASSUME Announced, OnlyClients, HInv, HInv', PasswordFile, [Next]_vars
  PROVE  \/ UNCHANGED <<pc, firstchar, cma_rsize, due, send_ready_for_query, ignore_till_sync,
                        doing_extended_query_message, ClientAuthInProgress, recv, send>>
         \/ Waits \/ Takes \/ Challenges \/ Admits \/ Refuses \/ Leaves
         \/ is_wire /\ \/ LoopRead \/ AfterMessage \/ ((Proto \/ Copy) /\ ~Terminate) \/ Terminate
                       \/ (LongJump \/ HostRecover) /\ pc # "refused"
                       \/ LastReady /\ ~ClientAuthInProgress
<1>1. /\ TypeOK /\ Control /\ Sends /\ Notices /\ send \in SendType
  BY DEF HInv, Conduct, IInv, TypeOK
<1>2. pc # "host" => is_wire /\ ~is_repl
  BY ClientAtHand
<1>3. CASE \E c \in Calls : HostCall(c)
  <2>1. /\ pc = "host" /\ pc' = "enter" /\ UNCHANGED <<due, ignore_till_sync, ClientAuthInProgress, send>>
        /\ \E c \in Calls : cma_rsize' = IF c.port = "cma" THEN Len(c.frame) ELSE 0
    BY <1>3 DEF HostCall, ready, skipping, conn
  <2>2. \A c \in Calls : Len(c.frame) \in Nat
    BY CallsAssumption DEF CallType
  <2>3. ~(cma_rsize' < 0)
    BY <2>1, <2>2
  <2> QED
    BY <2>1, <2>3 DEF Waits, Silent, Serving, Later, Resumes, Begun
<1>4. CASE HostRead
  <2>1. /\ pc = "returned" /\ pc' = "host" /\ due' = 0 /\ UNCHANGED <<ignore_till_sync, ClientAuthInProgress>>
        /\ send' = [send EXCEPT !.emitted = <<>>]
    BY <1>4 DEF HostRead, skipping, conn
  <2>2. send'.emitted = <<>>
    BY <1>1, <2>1 DEF SendType
  <2> QED
    BY <2>1, <2>2 DEF Takes, Serving, Later, Resumes, Begun
<1>5. CASE Enter
  BY <1>5, EnterOwes
<1>6. CASE Request
  <2>1. CASE RequestFileWire
    BY <2>1, AuthOwes
  <2>2. CASE ~RequestFileWire
    <3>0. pc = "request" /\ ~RequestFileRepl
      BY <1>2, <1>6 DEF Request, RequestCma, RequestFileRepl, RequestFileWire, RequestMemory, RequestNothing
    <3>1. /\ pc' \in {"return", "incoming"} /\ NoStartup
          /\ firstchar' = firstchar /\ send' \in {send, [send EXCEPT !.sockfiles = FALSE]}
      BY <1>6, <2>2, <3>0 DEF Request, RequestCma, RequestMemory, RequestNothing
    <3>2. firstchar' = "none" /\ send'.emitted = send.emitted
      BY <1>1, <3>0, <3>1 DEF Control, SendType
    <3> QED
      BY <3>0, <3>1, <3>2 DEF NoStartup, Waits, Silent, Serving, Later, Resumes, Begun, ready, skipping, conn
  <2> QED
    BY <2>1, <2>2
<1>7. CASE Loop
  <2>1. pc \in {"incoming", "rfq"} /\ is_wire /\ ~is_repl
    BY <1>2, <1>7 DEF Loop, LoopEnds, LoopAuth, LoopRead, LoopSql, AfterMessage
  <2>2. CASE LoopEnds
    <3>1. /\ pc = "incoming" /\ ~pipelining /\ pc' = "flush"
          /\ UNCHANGED <<due, send_ready_for_query, ignore_till_sync, ClientAuthInProgress, send>>
      BY <2>1, <2>2 DEF LoopEnds, AfterLoop, ready, skipping, conn
    <3>2. Later
      BY <3>1 DEF HInv, Conduct, Reads, First, Later
    <3>3. Serving
      BY <3>2, LaterServes
    <3> QED
      BY <3>1, <3>3 DEF Leaves, Serving, Silent
  <2>3. CASE LoopAuth
    BY <2>3, AuthOwes
  <2>4. ~LoopSql
    BY <2>1 DEF LoopSql
  <2> QED
    BY <1>7, <2>1, <2>2, <2>3, <2>4 DEF Loop
<1>8. CASE Proto \/ Copy
  <2>1. pc \in {"dispatch", "copying"}
    BY <1>8 DEF Proto, Copy, SimpleQuery, Parse, BindExecute, CloseDescribe, ExtendedQuery, FunctionCall,
       Flush, Sync, CopyStray, Terminate, Fail, CopyBegin, CopyData, CopyDone, CopyFail, CopyTake, Dispatch
  <2> QED
    BY <1>2, <1>8, <2>1
<1>9. CASE LongJump \/ HostRecover
  <2>1. pc \in {"error", "trapped", "refused"}
    BY <1>9 DEF LongJump, HostRecover
  <2> QED
    BY <1>2, <1>9, <2>1, RefusedOwes
<1>10. CASE Leave
  <2>1. CASE LastReady
    <3>1. pc = "flush" /\ pc' = "publish"
      BY <2>1 DEF LastReady
    <3>2. CASE ClientAuthInProgress
      <4>1. UNCHANGED <<send, due, ignore_till_sync, ClientAuthInProgress>>
        BY <2>1, <3>2 DEF LastReady, ready, skipping, conn
      <4> QED
        BY <3>1, <3>2, <4>1 DEF Waits, Silent, Serving
    <3> QED
      BY <1>2, <2>1, <3>1, <3>2
  <2>2. CASE Publish
    <3>0. pc = "publish" /\ send.SOCKET_FILE
      BY <1>1, <1>2, <2>2 DEF Publish, Sends, Placed, Loose
    <3>1. pc' = "return" /\ send' = Closed(send) /\ UNCHANGED <<due, ignore_till_sync, ClientAuthInProgress>>
      BY <2>2, <3>0 DEF Publish, ready, skipping, conn
    <3>2. send'.emitted = send.emitted
      BY <1>1, <3>1, EmittedParts
    <3> QED
      BY <3>0, <3>1, <3>2 DEF Waits, Silent, Serving, Later, Resumes, Begun
  <2>3. CASE Return
    <3>1. /\ pc = "return" /\ pc' = "returned"
          /\ UNCHANGED <<due, ignore_till_sync, ClientAuthInProgress, send>>
      BY <2>3 DEF Return, ready, skipping, conn
    <3> QED
      BY <3>1 DEF Waits, Silent, Serving, Later, Resumes, Begun
  <2> QED
    BY <1>10, <2>1, <2>2, <2>3 DEF Leave
<1>11. CASE UNCHANGED vars
  BY <1>11 DEF vars, locals, cma, ready, skipping, conn
<1> QED
  BY <1>3, <1>4, <1>5, <1>6, <1>7, <1>8, <1>9, <1>10, <1>11 DEF Next, Backend

LEMMA OwingStep ==
  ASSUME Announced, OnlyClients, HInv, HInv', Owing, [Next]_vars
  PROVE  Owing'
<1>1. /\ Control /\ Notices /\ send_ready_for_query \in BOOLEAN /\ send_ready_for_query' \in BOOLEAN
      /\ due \in Nat /\ (Serving => (send_ready_for_query => due >= 1))
      /\ Later => (firstchar \in Extended <=> doing_extended_query_message)
      /\ pc \in Begun => ~ignore_till_sync
  BY DEF HInv, Conduct, IInv, TypeOK, Owing
<1>01. PasswordFile'
  BY PasswordFileStep DEF Owing
<1>02. /\ Later => Serving
       /\ Later' => Serving'
  BY LaterServes
<1>0. \A d \in Nat : d + 1 \in Nat /\ d + 1 >= 1 /\ (d >= 1 => d - 1 \in Nat)
  OBVIOUS
<1>2. pc' = "flush" => ~Later' /\ ~(pc' \in Begun)
  BY DEF Later, Begun
<1>3. ~Serving' => ~Later' /\ ~(pc' \in Begun)
  BY <1>02 DEF Later
<1>03. Later' => pc' \in Begun \cup {"incoming"}
  BY DEF Later
<1>4. CASE UNCHANGED <<pc, firstchar, cma_rsize, due, send_ready_for_query, ignore_till_sync,
                       doing_extended_query_message, ClientAuthInProgress, recv, send>>
  <2>1. UNCHANGED <<pc, firstchar, cma_rsize, due, send_ready_for_query, ignore_till_sync,
                    doing_extended_query_message, ClientAuthInProgress>>
    BY <1>4
  <2>2. (Later' = Later) /\ (Serving' = Serving)
    BY <2>1 DEF Serving, Later, Resumes, Begun
  <2> QED
    BY <1>1, <1>01, <2>1, <2>2 DEF Owing, Begun
<1>5. CASE Waits \/ Takes
  BY <1>1, <1>01, <1>3, <1>5 DEF Waits, Takes, Silent, Owing
<1>6. CASE Challenges \/ Admits
  <2>1. /\ pc' = "flush" /\ due' \in {0, 1} /\ (send_ready_for_query' /\ Serving' => due' = 1)
    BY <1>6 DEF Challenges, Admits, Serving
  <2> QED
    BY <1>01, <1>2, <2>1 DEF Owing
<1>07. CASE Refuses
  <2>1. ~Serving' /\ due' = due
    BY <1>07 DEF Refuses, Serving
  <2> QED
    BY <1>1, <1>01, <1>3, <2>1 DEF Owing
<1>7. CASE Leaves
  BY <1>1, <1>01, <1>2, <1>7 DEF Leaves, Silent, Owing
<1>8. CASE LoopRead
  <2>1. /\ pc = "incoming" /\ pc' \in {"incoming", "dispatch"} /\ (~First => Later)
        /\ UNCHANGED <<due, send_ready_for_query>>
    BY <1>8, LoopReadOwes
  <2>2. /\ firstchar' \in Extended <=> doing_extended_query_message'
        /\ pc' = "dispatch" => ~ignore_till_sync'
    BY <1>8, LoopReadFlags
  <2>3. First => ~send_ready_for_query
    BY <1>1 DEF Notices
  <2>4. send_ready_for_query' => due' >= 1
    BY <1>1, <1>02, <2>1, <2>3
  <2> QED
    BY <1>1, <1>01, <2>1, <2>2, <2>4 DEF Owing, Begun
<1>9. CASE is_wire /\ AfterMessage
  <2>1. /\ pc' = "incoming" /\ Later /\ Serving
        /\ UNCHANGED <<firstchar, doing_extended_query_message>>
        /\ Ready1 \/ (Silent /\ UNCHANGED send_ready_for_query)
    BY <1>02, <1>9, AfterMessageOwes
  <2>2. due' \in Nat /\ (send_ready_for_query' => due' >= 1)
    <3>1. CASE Ready1
      <4>1. due >= 1 /\ due' = due - 1 /\ ~send_ready_for_query'
        BY <1>1, <2>1, <3>1 DEF Ready1
      <4> QED
        BY <1>0, <1>1, <4>1
    <3>2. CASE Silent /\ UNCHANGED send_ready_for_query
      BY <1>1, <2>1, <3>2 DEF Silent
    <3> QED
      BY <2>1, <3>1, <3>2
  <2> QED
    BY <1>1, <1>01, <2>1, <2>2 DEF Owing, Begun
<1>10. CASE is_wire /\ (Proto \/ Copy) /\ ~Terminate
  <2>1. /\ Executes /\ UNCHANGED <<ignore_till_sync, doing_extended_query_message>>
        /\ Completes \/ Answers \/ Passes
    BY <1>10, MessageOwes
  <2>2. Later /\ pc \in Begun /\ UNCHANGED firstchar
    BY <2>1 DEF Executes, Later, Begun
  <2>3. due' \in Nat /\ (send_ready_for_query' => due' >= 1)
    <3>1. CASE Completes
      BY <1>0, <1>1, <3>1 DEF Completes
    <3>2. CASE Answers \/ Passes
      BY <1>1, <1>02, <2>2, <3>2 DEF Answers, Passes
    <3> QED
      BY <2>1, <3>1, <3>2
  <2> QED
    BY <1>1, <1>01, <2>1, <2>2, <2>3 DEF Owing
<1>11. CASE Terminate
  <2>1. pc' = "flush" /\ due' = 0 /\ ~send_ready_for_query'
    BY <1>11 DEF Terminate
  <2> QED
    BY <1>01, <1>2, <2>1 DEF Owing
<1>12. CASE is_wire /\ (LongJump \/ HostRecover) /\ pc # "refused"
  <2>1. /\ pc \in {"error", "trapped"} /\ Later /\ UNCHANGED doing_extended_query_message
        /\ \/ UNCHANGED <<due, send_ready_for_query>>
           \/ due' = due + 1
    BY <1>12, ErrorOwes
  <2>2. due' \in Nat /\ (send_ready_for_query' => due' >= 1)
    <3>1. CASE due' = due + 1
      BY <1>0, <1>1, <3>1
    <3>2. CASE UNCHANGED <<due, send_ready_for_query>>
      BY <1>1, <1>02, <2>1, <3>2
    <3> QED
      BY <2>1, <3>1, <3>2
  <2>3. pc' \notin Begun
    BY <1>12 DEF LongJump, HostRecover, Synchronised, Begun
  <2>4. Later' => UNCHANGED firstchar
    BY <1>12 DEF LongJump, HostRecover, Synchronised, Later, Begun, locals
  <2> QED
    BY <1>1, <1>01, <2>1, <2>2, <2>3, <2>4 DEF Owing
<1>13. CASE is_wire /\ LastReady /\ ~ClientAuthInProgress
  <2>1. /\ Serving /\ ~Serving' /\ (Ready1 \/ due' = due)
    BY <1>13, LastReadyOwes
  <2> QED
    BY <1>1, <1>01, <1>3, <2>1 DEF Ready1, Owing
<1>14. PasswordFile
  BY DEF Owing
<1> QED
  BY <1>14, <1>4, <1>5, <1>6, <1>07, <1>7, <1>8, <1>9, <1>10, <1>11, <1>12, <1>13, StepOwes

LEMMA InitOwing == Init => Owing
<1> SUFFICES ASSUME Init PROVE Owing
  OBVIOUS
<1>1. PGS_IN \notin Passwords
  <2>1. Passwords \subseteq Seq(Kinds)
    BY DEF Passwords, Kinds, Wire
  <2> QED
    BY <2>1, NoFileAssumption DEF Init
<1>2. pc = "host" /\ firstchar = "none" /\ due = 0
  BY DEF Init
<1> QED
  BY <1>1, <1>2 DEF Owing, PasswordFile, Serving, Later, Resumes, Begun

\* A client never gets a ReadyForQuery that no sync point of its asked for.
THEOREM NeverSpuriousReady ==
  ASSUME Announced, OnlyClients
  PROVE  Spec => []NoSpuriousReady
<1>1. Init => Owing
  BY InitOwing
<1>2. HInv /\ HInv' /\ Owing /\ [Next]_vars => Owing'
  BY OwingStep
<1>3. Owing => NoSpuriousReady
  BY DEF Owing, NoSpuriousReady
<1> QED
  BY <1>1, <1>2, <1>3, HostInvariant, PTL DEF Spec

-----------------------------------------------------------------------------
(* ReadyForQuery, where each request ends at its sync point *)

\* The messages of the request that were not read yet.
Rest == {Frame[i] : i \in recv.ptr + 1 .. recv.len}

\* A ReadyForQuery is owed exactly while one is to be sent, and behind the
\* message that asked for it nothing is left but the rest of a COPY.
Answered ==
  /\ due = IF send_ready_for_query /\ Serving THEN 1 ELSE 0
  /\ Later /\ (send_ready_for_query \/ firstchar \in SyncPoints) => Rest \subseteq Copying
  /\ Later /\ send_ready_for_query =>
       pc \in {"incoming", "rfq"} \/ (pc = "dispatch" /\ firstchar \in Copying)
  /\ pc \in {"error", "trapped"} => firstchar \in Extended \cup SyncPoints

LEMMA RestOfRequest ==
  ASSUME Announced, Unpipelined, HInv, LoopRead
  PROVE  /\ firstchar' \in SyncPoints => Rest' \subseteq Copying
         /\ ~First => Rest' \subseteq Rest /\ firstchar' \in Rest
<1>1. /\ Filling' /\ recv'.ptr \in 1 .. recv'.len /\ firstchar' = Frame'[recv'.ptr] /\ is_wire
      /\ ~First => recv'.ptr = recv.ptr + 1 /\ recv'.loc = recv.loc
  BY LoopReads
<1>2. SyncsLast(Frame') /\ recv'.len = Len(Frame') /\ Len(Frame') \in Nat
  <2>1. recv'.len = Len(Frame') /\ Len(Frame') \in Nat
    BY <1>1 DEF HInv, IInv, TypeOK, RecvType, Filling
  <2>2. CASE Sjlj
    <3>1. Frame' = call'.frame
      BY <1>1, <2>2 DEF Filling
    <3>2. call' = call /\ call \in Calls
      BY DEF LoopRead, HInv, Conduct, Control
    <3> QED
      BY <2>1, <3>1, <3>2 DEF Unpipelined
  <2>3. CASE ~Sjlj
    <3>1. Len(Frame') <= 1
      BY <1>1, <2>3 DEF Filling
    <3> QED
      BY <2>1, <3>1 DEF SyncsLast
  <2> QED
    BY <2>2, <2>3, <2>1, BuildAssumption
<1>3. recv'.ptr \in Nat
  BY <1>1, <1>2
<1>4. ASSUME firstchar' \in SyncPoints PROVE Rest' \subseteq Copying
  <2> SUFFICES ASSUME NEW i \in recv'.ptr + 1 .. recv'.len PROVE Frame'[i] \in Copying
    BY DEF Rest
  <2>1. recv'.ptr \in 1 .. Len(Frame') /\ i \in 1 .. Len(Frame') /\ recv'.ptr < i
    BY <1>1, <1>2, <1>3
  <2> QED
    BY <1>1, <1>2, <1>4, <2>1 DEF SyncsLast
<1>5. ASSUME ~First PROVE Rest' \subseteq Rest /\ firstchar' \in Rest
  <2>1. RecvOK(recv) /\ Reads /\ pc = "incoming" /\ pipelining
    BY DEF LoopRead, HInv, Conduct, IInv, TypeOK, RecvOK
  <2>2. More(recv) /\ recv.len = Len(Frame)
    BY <1>1, <1>5, <2>1 DEF First, Later, Reads, Filling
  <2>3. recv' = [Advanced(recv) EXCEPT !.reading = @ \/ Next1(recv) = "EOF"]
    BY <2>2 DEF LoopRead, RecvStart
  <2>03. Advanced(recv) \in RecvType
    <3>1. RecvOK(Advanced(recv))
      BY <2>1, AdvancedType
    <3> QED
      BY <3>1 DEF RecvOK
  <2>4. recv'.mem = recv.mem /\ recv'.loc = recv.loc /\ recv'.len = recv.len
    <3>1. LET a == Advanced(recv) IN a.mem = recv.mem /\ a.loc = recv.loc /\ a.len = recv.len
      BY <2>1, <2>2 DEF Advanced, RecvOK, RecvType
    <3> QED
      BY <2>3, <2>03, <3>1 DEF RecvType
  <2>5. Frame' = Frame
    BY <2>4 DEF Frame
  <2>6. recv.ptr \in Nat /\ recv.len \in Nat
    BY <2>1 DEF RecvOK, RecvType
  <2> QED
    BY <1>1, <1>5, <2>4, <2>5, <2>6 DEF Rest
<1> QED
  BY <1>4, <1>5

LEMMA RestKept ==
  ASSUME HInv, Executes
  PROVE  Rest' \subseteq Rest
<1>1. RecvOK(recv)
  BY DEF HInv, IInv, TypeOK, RecvOK
<1>2. recv.ptr \in Nat /\ recv.len \in Nat
  BY <1>1 DEF RecvOK, RecvType
<1>3. CASE recv' = recv
  BY <1>3 DEF Rest, Frame
<1>4. CASE is_wire /\ More(recv) /\ recv' = Advanced(recv)
  <2>1. recv' = [recv EXCEPT !.ptr = recv.ptr + 1]
    BY <1>4 DEF Advanced
  <2>2. recv'.mem = recv.mem /\ recv'.loc = recv.loc /\ recv'.len = recv.len /\ recv'.ptr = recv.ptr + 1
    BY <1>1, <2>1 DEF RecvOK, RecvType
  <2>3. Frame' = Frame
    BY <2>2 DEF Frame
  <2> QED
    BY <1>2, <2>2, <2>3 DEF Rest
<1> QED
  BY <1>3, <1>4 DEF Executes

\* Nothing is owed when a message is taken up, and a sync point is due once.
LEMMA AnsweredMessage ==
  ASSUME Announced, OnlyClients, HInv, HInv', is_wire, Answered, Proto \/ Copy, ~Terminate
  PROVE  /\ Answered'
         /\ Completes => due = 0
         /\ Answers => due = 0 /\ due' = 0
<1>1. /\ Executes /\ (Completes \/ Answers \/ Passes)
  BY MessageOwes
<1>02. /\ Later /\ Later' /\ UNCHANGED firstchar /\ Control /\ Control'
       /\ pc \in {"dispatch", "copying"} /\ pc' \in {"rfq", "copying", "error", "trapped"}
       /\ send_ready_for_query \in BOOLEAN /\ send_ready_for_query' \in BOOLEAN
  BY <1>1 DEF Executes, Later, Begun, HInv, Conduct, IInv, TypeOK
<1>2. /\ Later /\ Later' /\ Serving /\ Serving' /\ UNCHANGED firstchar /\ Control /\ Control'
      /\ pc \in {"dispatch", "copying"} /\ pc' \in {"rfq", "copying", "error", "trapped"}
      /\ send_ready_for_query \in BOOLEAN /\ send_ready_for_query' \in BOOLEAN
  BY <1>02, LaterServes
<1>3. Rest' \subseteq Rest
  BY <1>1, RestKept
<1>4. send_ready_for_query => pc = "dispatch" /\ firstchar \in Copying
  BY <1>2 DEF Answered
<1>5. Copying \cap (Extended \cup SyncPoints) = {} /\ "copy" \in SyncPoints
  BY DEF Copying, Extended, SyncPoints
<1>6. due = IF send_ready_for_query THEN 1 ELSE 0
  BY <1>2 DEF Answered
<1>7. send_ready_for_query \/ firstchar \in SyncPoints => Rest \subseteq Copying
  BY <1>2 DEF Answered
<1>8. pc' = "copying" => firstchar = "copy"
  BY <1>2 DEF Control
<1>9. CASE Completes
  <2>1. /\ firstchar \in SyncPoints /\ ~send_ready_for_query /\ due = 0
        /\ send_ready_for_query' /\ due' = due + 1 /\ pc' = "rfq"
    BY <1>4, <1>5, <1>6, <1>9 DEF Completes
  <2>2. due' = 1 /\ Rest' \subseteq Copying
    BY <1>3, <1>7, <2>1
  <2> QED
    BY <1>2, <1>5, <1>9, <2>1, <2>2 DEF Answered, Answers
<1>10. CASE Answers
  <2>1. /\ firstchar \in Extended \cup SyncPoints /\ ~send_ready_for_query /\ due = 0
        /\ ~send_ready_for_query' /\ due' = 0
    BY <1>4, <1>5, <1>6, <1>10 DEF Answers
  <2>2. firstchar \in SyncPoints => Rest' \subseteq Copying
    BY <1>3, <1>7
  <2> QED
    BY <1>2, <1>10, <2>1, <2>2 DEF Answered, Completes
<1>11. CASE Passes
  <2>1. /\ UNCHANGED <<due, send_ready_for_query>>
        /\ pc' \in {"error", "trapped"} => firstchar \in Extended \cup SyncPoints
    BY <1>11 DEF Passes
  <2>2. send_ready_for_query \/ firstchar \in SyncPoints => Rest' \subseteq Copying
    BY <1>3, <1>7
  <2>3. send_ready_for_query' => pc' = "rfq"
    BY <1>2, <1>4, <1>5, <1>8, <2>1
  <2>4. Answered'
    BY <1>2, <1>6, <2>1, <2>2, <2>3 DEF Answered
  <2> QED
    BY <1>9, <1>10, <2>4
<1> QED
  BY <1>1, <1>9, <1>10, <1>11

\* An error that is a sync point makes one ReadyForQuery due, never a second.
LEMMA AnsweredError ==
  ASSUME Announced, OnlyClients, HInv, HInv', is_wire, Owing, Answered,
         LongJump \/ HostRecover, pc # "refused"
  PROVE  Answered' /\ due = 0
<1>1. /\ pc \in {"error", "trapped"} /\ Later /\ Serving /\ UNCHANGED ClientAuthInProgress
      /\ \/ firstchar \in Extended /\ ignore_till_sync' /\ UNCHANGED <<due, send_ready_for_query>>
         \/ firstchar \notin Extended /\ ~ignore_till_sync' /\ due' = due + 1 /\ send_ready_for_query'
  BY ErrorOwes, LaterServes
<1>2. ~send_ready_for_query /\ due = 0 /\ firstchar \in Extended \cup SyncPoints
      /\ (firstchar \in SyncPoints => Rest \subseteq Copying)
  BY <1>1 DEF Answered
<1>4. /\ Serving' /\ pc' \notin Begun /\ UNCHANGED recv
      /\ Later' => pc' = "incoming" /\ UNCHANGED firstchar
  <2>0. ~ClientAuthInProgress' /\ ~recv.reading
    BY <1>1 DEF Serving, HInv, Settled
  <2>1. CASE LongJump
    <3>1. pc' \in {"incoming", "flush", "broken"} /\ UNCHANGED <<recv, firstchar>>
      BY <2>0, <2>1 DEF LongJump, Synchronised, locals
    <3>2. firstchar # "none"
      BY <1>1 DEF HInv, Conduct, Control
    <3> QED
      BY <2>0, <3>1, <3>2 DEF Serving, Later, Begun
  <2>2. CASE HostRecover
    <3>1. pc' = "enter" /\ cma_rsize' = -1 /\ UNCHANGED recv
      BY <2>0, <2>2 DEF HostRecover, Synchronised
    <3>2. cma_rsize' < 0
      BY <3>1
    <3> QED
      BY <2>0, <3>1, <3>2 DEF Serving, Resumes, Later, Begun
  <2> QED
    BY <2>1, <2>2
<1>5. Rest' = Rest
  BY <1>4 DEF Rest, Frame
<1>6. CASE firstchar \in Extended
  <2>1. firstchar \notin SyncPoints
    BY <1>6 DEF Extended, SyncPoints
  <2> QED
    BY <1>1, <1>2, <1>4, <1>6, <2>1 DEF Answered, Begun
<1>7. CASE firstchar \notin Extended
  <2>1. firstchar \in SyncPoints /\ due' = 1 /\ send_ready_for_query'
    BY <1>1, <1>2, <1>7
  <2> QED
    BY <1>2, <1>4, <1>5, <2>1 DEF Answered, Begun
<1> QED
  BY <1>2, <1>6, <1>7

LEMMA AnsweredStep ==
  ASSUME Announced, OnlyClients, Unpipelined, HInv, HInv', Owing, Answered, [Next]_vars
  PROVE  Answered'
<1>1. /\ Control /\ Notices /\ send_ready_for_query \in BOOLEAN /\ send_ready_for_query' \in BOOLEAN
      /\ due = IF send_ready_for_query /\ Serving THEN 1 ELSE 0
  BY DEF HInv, Conduct, IInv, TypeOK, Answered
<1>02. /\ Later => Serving
       /\ Later' => Serving'
  BY LaterServes
<1>03. PasswordFile
  BY DEF Owing
<1>2. pc' = "flush" => ~Later' /\ ~(pc' \in Begun) /\ (Serving' <=> ~ClientAuthInProgress')
  BY DEF Later, Begun, Serving
<1>3. ~Serving' => ~Later' /\ ~(pc' \in Begun)
  BY <1>02 DEF Later
<1>4. Later => Serving
  BY <1>02
<1>5. CASE UNCHANGED <<pc, firstchar, cma_rsize, due, send_ready_for_query, ignore_till_sync,
                       doing_extended_query_message, ClientAuthInProgress, recv, send>>
  <2>1. UNCHANGED <<pc, firstchar, cma_rsize, due, send_ready_for_query, ClientAuthInProgress, recv>>
    BY <1>5
  <2>2. (Later' = Later) /\ (Serving' = Serving) /\ Rest' = Rest
    BY <2>1 DEF Serving, Later, Resumes, Begun, Rest, Frame
  <2> QED
    BY <2>1, <2>2 DEF Answered
<1>6. CASE Waits \/ Takes
  <2>1. due' = 0 /\ ~Serving'
    BY <1>1, <1>6 DEF Waits, Takes, Silent
  <2> QED
    BY <1>3, <2>1 DEF Answered, Begun
<1>7. CASE Challenges \/ Admits
  <2>1. pc' = "flush" /\ due' = IF send_ready_for_query' /\ Serving' THEN 1 ELSE 0
    BY <1>2, <1>7 DEF Challenges, Admits
  <2> QED
    BY <1>2, <2>1 DEF Answered, Begun
<1>07. CASE Refuses
  <2>1. ~Serving /\ ~Serving' /\ due' = due
    BY <1>07 DEF Refuses, Serving
  <2> QED
    BY <1>1, <1>3, <2>1 DEF Answered, Begun
<1>8. CASE Leaves
  BY <1>1, <1>2, <1>8 DEF Leaves, Silent, Answered, Begun
<1>9. CASE LoopRead
  <2>1. /\ pc = "incoming" /\ pc' \in {"incoming", "dispatch"} /\ (~First => Later) /\ Later' /\ Serving'
        /\ UNCHANGED <<due, send_ready_for_query>>
    BY <1>9, LoopReadOwes
  <2>2. /\ firstchar' \in SyncPoints => Rest' \subseteq Copying
        /\ ~First => Rest' \subseteq Rest /\ firstchar' \in Rest
    BY <1>9, RestOfRequest
  <2>3. First => ~send_ready_for_query
    BY <1>1 DEF Notices
  <2>4. send_ready_for_query => ~First /\ Rest \subseteq Copying
    BY <2>1, <2>3 DEF Answered
  <2>5. due' = IF send_ready_for_query' /\ Serving' THEN 1 ELSE 0
    BY <1>1, <1>4, <2>1, <2>3
  <2>6. send_ready_for_query => Rest' \subseteq Copying /\ firstchar' \in Copying
    BY <2>2, <2>4
  <2> QED
    BY <2>1, <2>2, <2>5, <2>6 DEF Answered
<1>10. CASE is_wire /\ AfterMessage
  <2>1. /\ pc = "rfq" /\ pc' = "incoming" /\ Later /\ Later' /\ Serving' /\ UNCHANGED <<firstchar, recv>>
        /\ Ready1 \/ (Silent /\ UNCHANGED send_ready_for_query)
    BY <1>10, AfterMessageOwes
  <2>2. Rest' = Rest
    BY <2>1 DEF Rest, Frame
  <2>3. due' = IF send_ready_for_query' THEN 1 ELSE 0
    <3>1. CASE Ready1
      <4>1. due = 1 /\ due' = due - 1 /\ ~send_ready_for_query'
        BY <1>1, <1>4, <2>1, <3>1 DEF Ready1
      <4> QED
        BY <4>1
    <3>2. CASE Silent /\ UNCHANGED send_ready_for_query
      BY <1>1, <1>4, <2>1, <3>2 DEF Silent
    <3> QED
      BY <2>1, <3>1, <3>2
  <2>4. send_ready_for_query' => send_ready_for_query
    BY <2>1 DEF Ready1
  <2> QED
    BY <2>1, <2>2, <2>3, <2>4 DEF Answered
<1>11. CASE is_wire /\ (Proto \/ Copy) /\ ~Terminate
  BY <1>11, AnsweredMessage
<1>12. CASE Terminate
  <2>1. pc' = "flush" /\ due' = 0 /\ ~send_ready_for_query'
    BY <1>12 DEF Terminate
  <2> QED
    BY <1>2, <2>1 DEF Answered, Begun
<1>13. CASE is_wire /\ (LongJump \/ HostRecover) /\ pc # "refused"
  BY <1>13, AnsweredError
<1>14. CASE is_wire /\ LastReady /\ ~ClientAuthInProgress
  <2>1. /\ Serving /\ ~Serving' /\ (Ready1 \/ (~send_ready_for_query /\ due' = due))
    BY <1>14, LastReadyOwes
  <2>2. CASE Ready1
    <3>1. due = 1 /\ due' = due - 1
      BY <1>1, <2>1, <2>2 DEF Ready1
    <3>2. due' = 0
      BY <3>1
    <3> QED
      BY <1>3, <2>1, <3>2 DEF Answered, Begun
  <2>3. CASE ~send_ready_for_query /\ due' = due
    BY <1>1, <1>3, <2>1, <2>3 DEF Answered, Begun
  <2> QED
    BY <2>1, <2>2, <2>3
<1> QED
  BY <1>03, <1>5, <1>6, <1>7, <1>07, <1>8, <1>9, <1>10, <1>11, <1>12, <1>13, <1>14, StepOwes

LEMMA InitAnswered == Init => Owing /\ Answered
<1>1. Init => Answered
  BY DEF Init, Answered, Serving, Later, Resumes, Begun
<1> QED
  BY <1>1, InitOwing

\* A client whose requests end at their sync point has an answer to each of
\* them when the call returns, and never a ReadyForQuery too many.
THEOREM EachSyncAlwaysAnswered ==
  ASSUME Announced, OnlyClients, Unpipelined
  PROVE  Spec => []EachSyncAnswered
<1>1. Init => Owing /\ Answered
  BY InitAnswered
<1>2. HInv /\ HInv' /\ Owing /\ Answered /\ [Next]_vars => Owing' /\ Answered'
  BY OwingStep, AnsweredStep
<1>3. Owing /\ Answered => EachSyncAnswered
  <2> SUFFICES ASSUME Owing, Answered PROVE EachSyncAnswered
    OBVIOUS
  <2>1. due >= 0
    BY DEF Owing
  <2>2. pc = "returned" => ~Serving
    BY DEF Serving, Later, Resumes, Begun
  <2> QED
    BY <2>1, <2>2 DEF Answered, EachSyncAnswered
<1> QED
  BY <1>1, <1>2, <1>3, HostInvariant, PTL DEF Spec

-----------------------------------------------------------------------------
(* The frontend/backend protocol *)

\* A reply after others, and a notification before a ReadyForQuery.
LEMMA AddedReplies ==
  ASSUME NEW s \in Seq(Replies)
  PROVE  /\ s \o <<>> = s
         /\ \A reply \in Replies : Append(s, reply) = s \o <<reply>>
         /\ Append(s, "Z") = s \o (<<>> \o <<"Z">>)
         /\ Append(Append(s, "A"), "Z") = s \o (<<"A">> \o <<"Z">>)
<1>1. "A" \in Replies /\ "Z" \in Replies
  BY DEF Replies
<1>2. \A reply \in Replies : <<reply>> \in Seq(Replies)
  OBVIOUS
<1>3. s \o <<>> = s /\ <<>> \o <<"Z">> = <<"Z">>
  BY <1>1, <1>2, ConcatEmptySeq
<1>4. \A x \in Seq(Replies) : \A reply \in Replies : Append(x, reply) = x \o <<reply>>
  BY AppendIsConcat
<1>5. (s \o <<"A">>) \o <<"Z">> = s \o (<<"A">> \o <<"Z">>)
  BY <1>1, <1>2, ConcatAssociative
<1>6. s \o <<"A">> \in Seq(Replies)
  BY <1>1, <1>2
<1> QED
  BY <1>1, <1>3, <1>4, <1>5, <1>6

\* Every step of the backend is one of the protocol, or changes nothing a
\* client sees.
LEMMA ProtocolStep ==
  ASSUME Announced, OnlyClients, Unpipelined, HInv, HInv', Owing, Answered, [Next]_vars
  PROVE  [Protocol!Next]_(Protocol!vars)
<1>1. /\ send_ready_for_query \in BOOLEAN /\ ignore_till_sync \in BOOLEAN /\ ignore_till_sync' \in BOOLEAN
      /\ send \in SendType /\ send.emitted \in Seq(Replies)
      /\ due = IF send_ready_for_query /\ Serving THEN 1 ELSE 0
  BY DEF HInv, IInv, TypeOK, Answered, SendType
<1>2. /\ send.emitted \o <<>> = send.emitted
      /\ \A reply \in {"R", "E", "A", "ok"} : Append(send.emitted, reply) = send.emitted \o <<reply>>
      /\ Append(send.emitted, "Z") = send.emitted \o (<<>> \o <<"Z">>)
      /\ Append(Append(send.emitted, "A"), "Z") = send.emitted \o (<<"A">> \o <<"Z">>)
  BY <1>1, AddedReplies DEF Replies
<1>02. Later => Serving
  BY LaterServes
<1>03. PasswordFile /\ (pc \in Begun => ~ignore_till_sync)
  BY DEF Owing
<1>3. Later => Serving /\ ~ClientAuthInProgress /\ (pc \in Begun => ~ignore_till_sync)
  BY <1>02, <1>03 DEF Serving
<1>4. ASSUME UNCHANGED <<due, ignore_till_sync, ClientAuthInProgress>>, send'.emitted = send.emitted
      PROVE  UNCHANGED Protocol!vars
  BY <1>4 DEF Protocol!vars
<1>5. CASE \/ UNCHANGED <<pc, firstchar, cma_rsize, due, send_ready_for_query, ignore_till_sync,
                          doing_extended_query_message, ClientAuthInProgress, recv, send>>
           \/ Waits \/ Leaves
  BY <1>4, <1>5 DEF Waits, Leaves, Silent
<1>6. CASE Takes
  <2>1. Protocol!NewRequest
    BY <1>1, <1>6 DEF Takes, Protocol!NewRequest
  <2> QED
    BY <2>1 DEF Protocol!Next
<1>7. CASE Challenges
  <2>1. Protocol!AuthRequest
    BY <1>1, <1>2, <1>7 DEF Challenges, Replied, Protocol!AuthRequest, Protocol!Add
  <2> QED
    BY <2>1 DEF Protocol!Next
<1>8. CASE Admits
  <2>1. Protocol!AuthOk
    BY <1>1, <1>2, <1>8 DEF Admits, Replied, Protocol!AuthOk, Protocol!Add
  <2> QED
    BY <2>1 DEF Protocol!Next
<1>08. CASE Refuses
  <2>1. due = 0
    BY <1>1, <1>08 DEF Refuses, Serving
  <2>2. ignore_till_sync' \in {ignore_till_sync, TRUE} /\ UNCHANGED <<due, ClientAuthInProgress>>
    BY <1>08 DEF Refuses
  <2>02. ClientAuthInProgress /\ send'.emitted = send.emitted \o <<"E">>
    BY <1>2, <1>08 DEF Refuses, Replied
  <2>03. (IF ignore_till_sync' THEN "skip" ELSE "run")
           \in {IF ignore_till_sync THEN "skip" ELSE "run", "skip"}
    BY <1>1, <2>2
  <2>3. Protocol!AuthRefused
    BY <2>1, <2>02, <2>2, <2>03 DEF Protocol!AuthRefused, Protocol!Add
  <2> QED
    BY <2>3 DEF Protocol!Next
<1>9. CASE LoopRead
  <2>1. /\ ignore_till_sync' \in {ignore_till_sync, FALSE} /\ UNCHANGED <<due, ClientAuthInProgress>>
        /\ send'.emitted = send.emitted
    BY <1>9, LoopReadFlags, LoopReadOwes
  <2>2. CASE ignore_till_sync' = ignore_till_sync
    BY <1>4, <2>1, <2>2
  <2>3. CASE ignore_till_sync /\ ~ignore_till_sync'
    <3>1. Protocol!Resynchronise
      BY <2>1, <2>3 DEF Protocol!Resynchronise
    <3> QED
      BY <3>1 DEF Protocol!Next
  <2> QED
    BY <1>1, <2>1, <2>2, <2>3
<1>10. CASE is_wire /\ AfterMessage
  <2>1. /\ Later /\ UNCHANGED <<ignore_till_sync, ClientAuthInProgress>> /\ ((Ready1 /\ Replied("Z")) \/ Silent)
    BY <1>10, AfterMessageOwes
  <2>2. CASE Ready1 /\ Replied("Z")
    <3>1. due = 1 /\ due' = due - 1 /\ send'.emitted = send.emitted \o (<<>> \o <<"Z">>)
      BY <1>1, <1>2, <1>3, <2>1, <2>2 DEF Ready1, Replied
    <3>2. due' = 0
      BY <3>1
    <3>3. Protocol!Ready
      BY <2>1, <3>1, <3>2 DEF Protocol!Ready, Protocol!Notices, Protocol!Add
    <3> QED
      BY <3>3 DEF Protocol!Next
  <2>3. CASE Silent
    BY <1>4, <2>3 DEF Silent
  <2> QED
    BY <2>1, <2>2, <2>3
<1>11. CASE is_wire /\ (Proto \/ Copy) /\ ~Terminate
  <2>1. /\ Executes /\ UNCHANGED <<ignore_till_sync, ClientAuthInProgress>> /\ (Completes \/ Answers \/ Passes)
        /\ (Completes => due = 0) /\ (Answers => due = 0 /\ due' = 0)
    BY <1>11, MessageOwes, AnsweredMessage DEF Executes
  <2>02. Later /\ pc \in Begun
    BY <2>1 DEF Executes, Later, Begun
  <2>2. ~ignore_till_sync /\ ~ClientAuthInProgress
    BY <1>3, <2>02
  <2>3. CASE Completes
    <3>1. due = 0 /\ due' = due + 1 /\ send'.emitted \in {send.emitted, Append(send.emitted, "ok")}
      BY <2>1, <2>3 DEF Completes
    <3>2. due' = 1
      BY <3>1
    <3>3. \E s \in {<<>>, <<"ok">>} : send'.emitted = send.emitted \o s
      <4>1. send'.emitted \in {send.emitted \o <<>>, send.emitted \o <<"ok">>}
        BY <1>2, <3>1
      <4> QED
        BY <4>1
    <3>4. Protocol!Complete
      BY <2>1, <2>2, <3>1, <3>2, <3>3 DEF Protocol!Complete, Protocol!Answering, Protocol!Add
    <3> QED
      BY <3>4 DEF Protocol!Next
  <2>4. CASE Answers
    <3>1. Protocol!Result
      BY <1>2, <2>1, <2>2, <2>4 DEF Answers, Protocol!Result, Protocol!Answering, Protocol!Add
    <3> QED
      BY <3>1 DEF Protocol!Next
  <2>5. CASE Passes
    BY <1>4, <2>1, <2>5 DEF Passes
  <2> QED
    BY <2>1, <2>3, <2>4, <2>5
<1>12. CASE is_wire /\ Terminate
  <2>1. /\ pc = "dispatch" /\ firstchar \in {"X", "EOF"} /\ due' = 0 /\ ~ignore_till_sync' /\ send' = send
        /\ UNCHANGED ClientAuthInProgress
    BY <1>12 DEF Terminate, Dispatch
  <2>2. Later /\ pc \in Begun
    BY <2>1 DEF Later, Begun
  <2>3. ~send_ready_for_query
    BY <2>1, <2>2 DEF Answered, Copying
  <2> QED
    BY <1>1, <1>3, <1>4, <2>1, <2>2, <2>3
<1>13. CASE is_wire /\ (LongJump \/ HostRecover) /\ pc # "refused"
  <2>1. /\ pc \in {"error", "trapped"} /\ Later /\ send'.emitted = Append(send.emitted, "E") /\ due = 0
        /\ UNCHANGED ClientAuthInProgress
        /\ \/ ignore_till_sync' /\ due' = due
           \/ ~ignore_till_sync' /\ due' = due + 1
    BY <1>13, ErrorOwes, AnsweredError
  <2>2. ~ignore_till_sync /\ ~ClientAuthInProgress
    BY <1>3, <2>1 DEF Begun
  <2>3. (ignore_till_sync' /\ due' = 0) \/ (~ignore_till_sync' /\ due' = 1)
    BY <2>1
  <2>4. Protocol!Error
    BY <1>2, <2>1, <2>2, <2>3 DEF Protocol!Error, Protocol!Answering, Protocol!Add
  <2> QED
    BY <2>4 DEF Protocol!Next
<1>14. CASE is_wire /\ LastReady /\ ~ClientAuthInProgress
  <2>1. /\ Serving /\ UNCHANGED <<ignore_till_sync, ClientAuthInProgress>>
        /\ \/ Ready1 /\ \E s \in {send.emitted, Append(send.emitted, "A")} :
                          send'.emitted = Append(s, "Z")
           \/ /\ ~send_ready_for_query /\ due' = due
              /\ send'.emitted \in {send.emitted, Append(send.emitted, "A")}
    BY <1>14, LastReadyOwes
  <2>2. CASE Ready1 /\ \E s \in {send.emitted, Append(send.emitted, "A")} : send'.emitted = Append(s, "Z")
    <3>1. due = 1 /\ due' = due - 1
      BY <1>1, <2>1, <2>2 DEF Ready1
    <3>2. due' = 0
      BY <3>1
    <3>3. \E n \in Protocol!Notices : send'.emitted = send.emitted \o (n \o <<"Z">>)
      BY <1>2, <2>2 DEF Protocol!Notices
    <3>4. Protocol!Ready
      BY <2>1, <3>1, <3>2, <3>3 DEF Protocol!Ready, Protocol!Add
    <3> QED
      BY <3>4 DEF Protocol!Next
  <2>3. CASE ~send_ready_for_query /\ due' = due /\ send'.emitted = send.emitted
    BY <1>4, <2>1, <2>3
  <2>4. CASE ~send_ready_for_query /\ due' = due /\ send'.emitted = Append(send.emitted, "A")
    <3>1. Protocol!Notice
      BY <1>1, <1>2, <2>1, <2>4 DEF Protocol!Notice, Protocol!Add
    <3> QED
      BY <3>1 DEF Protocol!Next
  <2> QED
    BY <2>1, <2>2, <2>3, <2>4
<1> QED
  BY <1>03, <1>5, <1>6, <1>7, <1>8, <1>08, <1>9, <1>10, <1>11, <1>12, <1>13, <1>14, StepOwes

\* To a client whose requests end at their sync point the backend keeps the
\* frontend/backend protocol: the safety half of KeepsProtocol.
THEOREM FollowsProtocol ==
  ASSUME Announced, OnlyClients, Unpipelined
  PROVE  Spec => Protocol!Init /\ [][Protocol!Next]_(Protocol!vars)
<1>1. Init => Owing /\ Answered /\ Protocol!Init
  <2>1. Init => Owing /\ Answered
    BY InitAnswered
  <2>2. Init => Protocol!Init
    BY DEF Init, Protocol!Init
  <2> QED
    BY <2>1, <2>2
<1>2. HInv /\ HInv' /\ Owing /\ Answered /\ [Next]_vars => Owing' /\ Answered'
  BY OwingStep, AnsweredStep
<1>3. HInv /\ HInv' /\ Owing /\ Answered /\ [Next]_vars => [Protocol!Next]_(Protocol!vars)
  BY ProtocolStep
<1> QED
  BY <1>1, <1>2, <1>3, HostInvariant, PTL DEF Spec
=============================================================================
