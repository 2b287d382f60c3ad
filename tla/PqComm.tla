------------------------------- MODULE PqComm -------------------------------
(***************************************************************************)
(* The bytes below WireLoop: how libpq/pqcomm.c, as patched, reads the     *)
(* messages of a request and writes the replies.                           *)
(*                                                                         *)
(* A request lies in the shared memory area (CMA) at address 1, or in the  *)
(* request file, from which an 8K buffer is filled once before and, when a *)
(* message spans its end, again while the message is read.  A reply is     *)
(* written behind the request; what does not fit there moves to the reply  *)
(* file.  Bytes are identities: <<1, k>> is byte k of the request, <<2, n>> *)
(* byte n of the reply, and Foreign any byte of an earlier request or      *)
(* reply and the zero that frees the area.                                 *)
(*                                                                         *)
(* A host may fail to send all of a request.  Half a message ends the      *)
(* session, but not the process, and pqcomm.c remembers that it was in the *)
(* middle of a message.                                                    *)
(***************************************************************************)
EXTENDS Integers, Sequences, FiniteSetsExt, SequencesExt

CONSTANTS
  Requests,    \* what the host sends: sequences of the ends of its messages
  RecvSize,    \* PQ_RECV_BUFFER_SIZE
  CmaEnd,      \* CMA_MB * 1024 * 1024, the first address behind the CMA
  PutSizes,    \* lengths with which internal_putbytes is called
  SizeModulus, \* 2^32, the number of values of a size_t
  Cuts,        \* how many bytes are sent of a request that is cut short
  MaxReply     \* bound: bytes of one reply

\* A request has messages, and no message is empty.
ASSUME RequestsAssumption ==
  \A e \in Requests :
    /\ e \in Seq(Nat \ {0}) /\ e # <<>>
    /\ \A i, j \in DOMAIN e : i < j => e[i] < e[j]
ASSUME BufferAssumption ==
  /\ RecvSize \in Nat \ {0} /\ CmaEnd \in Nat /\ RecvSize < CmaEnd
  /\ PutSizes \subseteq Nat \ {0} /\ Cuts \subseteq Nat \ {0} /\ MaxReply \in Nat
  /\ SizeModulus \in Nat /\ SizeModulus > CmaEnd + MaxReply

\* The linear memory goes on behind the CMA, with the data of the program.
MemEnd == CmaEnd + MaxReply

Foreign == <<0, 0>>

VARIABLES
  pc,
  ends,        \* where the messages of the request end
  sent,        \* how many of its bytes the host sends
  cma_rsize, cma_wsize,
  recv,        \* buf: where PqRecvBuffer points, ptr, len; fp, querylen: see
               \* Filled; reading: PqCommReadingMsg
  send,        \* base (PqSendBuffer), size, ptr, sockfiles, SOCKET_DATA, olock
  memory,      \* the bytes from address 1 to MemEnd and in the static buffer
  PGS_IN,      \* what is left to read of the request file
  PGS_OUT,     \* the reply file
  pipelining,
  msg, need,   \* bytes read of the message at hand, and bytes missing
  served,      \* history: the messages of this request read so far
  emitted,     \* history: the number of reply bytes of this request
  halved,      \* history: was a request cut inside a message?
  skipped      \* history: was the last request file left before its end?

vars == <<pc, ends, sent, cma_rsize, cma_wsize, recv, send, memory, PGS_IN, PGS_OUT,
          pipelining, msg, need, served, emitted, halved, skipped>>

faults  == <<halved, skipped>>
history == <<served, emitted, faults>>
sizes   == <<cma_rsize, cma_wsize>>
host    == <<ends, sent, PGS_OUT>>

\* Memory m of area a with bytes written from offset on (offsets count from 0).
Written(m, a, offset, bytes) ==
  [m EXCEPT ![a] = [i \in DOMAIN m[a] |->
     IF i \in offset + 1 .. offset + Len(bytes) THEN bytes[i - offset] ELSE m[a][i]]]

ReadAt(m, a, offset, n) == [i \in 1..n |-> m[a][offset + i]]

RequestBytes(n) == [k \in 1..n |-> <<1, k>>]
ReplyBytes(from, n) == [k \in 1..n |-> <<2, from + k>>]

-----------------------------------------------------------------------------
(* The receive side *)

Remaining(r) == r.len - r.ptr

\* fread() of at most n bytes from what is left of the request file.
Got(n) == Min({n, Len(PGS_IN)})

\* Faults are mistakes of a kind the code could contain; no definition uses
\* them.  They show which property would notice.  Here the stream of an
\* earlier request is kept.
Fault_FilledKeepsFile(r, packetlen) ==
  IF packetlen > RecvSize
    THEN [r EXCEPT !.ptr = 0, !.len = Got(RecvSize), !.fp = "open", !.querylen = packetlen - Got(RecvSize)]
    ELSE [r EXCEPT !.ptr = 0, !.len = packetlen]

\* pq_recvbuf_fill: the buffer is filled where PqRecvBuffer points, and what
\* does not fit is remembered with the stream it will be read from.
Filled(r, packetlen) ==
  IF packetlen > RecvSize
    THEN [r EXCEPT !.ptr = 0, !.len = Got(RecvSize), !.fp = "open", !.querylen = packetlen - Got(RecvSize)]
    ELSE [r EXCEPT !.ptr = 0, !.len = packetlen, !.fp = "none", !.querylen = 0]

\* Faults: the pointer is kept; a short read is taken for a full one.
Fault_RefillKeepsPointer(r, got) ==
  [r EXCEPT !.len = got, !.querylen = @ - got, !.fp = IF r.querylen > got THEN @ ELSE "none"]
Fault_RefillFull(r, got) ==
  [r EXCEPT !.ptr = 0, !.len = IF got > 0 THEN RecvSize ELSE 0, !.querylen = @ - got,
            !.fp = IF r.querylen > got THEN @ ELSE "none"]

\* pq_recvbuf with an empty buffer: the next part of the file.
Refilled(r, got) ==
  [r EXCEPT !.ptr = 0, !.len = got, !.querylen = @ - got,
            !.fp = IF r.querylen > got THEN @ ELSE "none"]

\* pq_startmsgread: with an empty buffer, a request in memory is turned to.
StartRecv(r, s) ==
  CASE Remaining(r) > 0 -> r
    [] Remaining(r) <= 0 /\ s.sockfiles -> [r EXCEPT !.buf = "static"]
    [] OTHER -> [r EXCEPT !.buf = "cma", !.ptr = 0, !.len = cma_rsize]

\* The reply begins behind the request, and may use all that follows.
StartSend(r, s) ==
  CASE Remaining(r) > 0 \/ s.sockfiles -> s
    [] OTHER -> [s EXCEPT !.base = cma_rsize + 2, !.ptr = 0, !.size = CmaEnd - (cma_rsize + 2)]

-----------------------------------------------------------------------------
(* The send side *)

\* PqSendBufferSize is an int, which C compares with the size_t
\* PqSendPointer, and from which it takes it, as a size_t.
Unsigned(i) == IF i < 0 THEN i + SizeModulus ELSE i

\* Behind a request that fills the CMA the size is -1: no buffer is larger.
Room(s) == IF s.sockfiles THEN 0 ELSE Max({0, Unsigned(s.size) - s.ptr})

\* internal_putbytes: memory first; when that is full, everything written so
\* far is copied to the reply file, and the rest follows it there.
InMemory(s, bytes)    == SubSeq(bytes, 1, Min({Len(bytes), Room(s)}))
Overflowing(s, bytes) == SubSeq(bytes, Len(InMemory(s, bytes)) + 1, Len(bytes))

PutMemory(s, bytes) == Written(memory, "cma", s.base + s.ptr - 1, InMemory(s, bytes))

\* Fault: what was already in memory is not moved to the file.
Fault_PutNoMove(s, bytes) ==
  LET over == Overflowing(s, bytes)
  IN  [s EXCEPT !.ptr = @ + Len(InMemory(s, bytes)), !.sockfiles = @ \/ over # <<>>,
                !.olock = @ \o over, !.SOCKET_DATA = @ + Len(bytes)]

Put(s, bytes) ==
  LET ptr   == s.ptr + Len(InMemory(s, bytes))
      over  == Overflowing(s, bytes)
      moved == IF s.sockfiles \/ over = <<>> THEN <<>>
               ELSE ReadAt(PutMemory(s, bytes), "cma", s.base - 1, ptr)
  IN  [s EXCEPT !.ptr = ptr, !.sockfiles = @ \/ over # <<>>,
                !.olock = @ \o moved \o over, !.SOCKET_DATA = @ + Len(bytes)]

-----------------------------------------------------------------------------
(* The host *)

Total(e) == e[Len(e)]

\* The first n bytes of a request, all of them or fewer.
NewRequest(e, n) ==
  /\ pc = "host"
  /\ n \in {Total(e)} \cup {k \in Cuts : k < Total(e)}
  /\ ends' = e /\ sent' = n
  /\ halved' = (halved \/ \A i \in DOMAIN e : n # e[i])
  /\ cma_wsize' = 0
  /\ pc' = "enter"
  /\ UNCHANGED <<recv, send, PGS_OUT, pipelining, msg, need, served, emitted, skipped>>

\* The request is copied to address 1; get_buffer_size says what fits.
HostCma(e, n) ==
  /\ NewRequest(e, n)
  /\ n < CmaEnd
  /\ cma_rsize' = n
  /\ memory' = Written(memory, "cma", 0, RequestBytes(n))
  /\ UNCHANGED PGS_IN

HostFile(e, n) ==
  /\ NewRequest(e, n)
  /\ cma_rsize' = 0
  /\ PGS_IN' = RequestBytes(n)
  /\ UNCHANGED memory

\* The reply as get_channel and interactive_read describe it.
HostReply ==
  IF send.sockfiles THEN PGS_OUT ELSE ReadAt(memory, "cma", sent + 1, cma_wsize)

\* From here on the bytes in memory are those of an earlier request.
HostRead ==
  /\ pc = "returned"
  /\ PGS_OUT' = <<>>
  /\ memory' = [a \in DOMAIN memory |-> [i \in DOMAIN memory[a] |-> Foreign]]
  /\ served' = <<>> /\ emitted' = 0
  /\ pc' = "host"
  /\ UNCHANGED <<ends, sent, sizes, recv, send, PGS_IN, pipelining, msg, need, faults>>

-----------------------------------------------------------------------------
(* interactive_one *)

\* The reply file is opened in both modes, in case of an overflow.
EnterCma ==
  /\ pc = "enter" /\ cma_rsize > 0
  /\ send' = [send EXCEPT !.sockfiles = FALSE, !.olock = <<>>]
  /\ pipelining' = TRUE
  /\ pc' = "loop"
  /\ UNCHANGED <<host, sizes, recv, memory, PGS_IN, msg, need, history>>

EnterFile ==
  /\ pc = "enter" /\ cma_rsize = 0
  /\ recv' = Filled(recv, Len(PGS_IN))
  /\ memory' = Written(memory, recv.buf, 0, SubSeq(PGS_IN, 1, recv'.len))
  /\ PGS_IN' = SubSeq(PGS_IN, recv'.len + 1, Len(PGS_IN))
  /\ send' = [send EXCEPT !.sockfiles = TRUE, !.olock = <<>>]
  /\ skipped' = FALSE
  /\ pipelining' = TRUE
  /\ pc' = "loop"
  /\ UNCHANGED <<host, sizes, msg, need, served, emitted, halved>>

\* The bytes of message i of the request at hand.
Offset(i)  == IF i = 1 THEN 0 ELSE ends[i - 1]
Length(i)  == ends[i] - Offset(i)
Message(i) == [k \in 1 .. Length(i) |-> <<1, Offset(i) + k>>]

\* SocketBackend: a message begins with its type and length, which are found
\* only where a message begins.  In the middle of a message pq_startmsgread is
\* FATAL, and what follows a FATAL must not be reached.
StartMessage ==
  /\ pc = "loop" /\ pipelining /\ ~recv.reading
  /\ recv' = [StartRecv(recv, send) EXCEPT !.reading = TRUE]
  /\ send' = StartSend(recv, send)
  /\ msg' = <<>>
  /\ LET first  == IF Remaining(recv') > 0 THEN memory[recv'.buf][recv'.ptr + 1] ELSE Foreign
         starts == {i \in DOMAIN ends : first = <<1, Offset(i) + 1>>}
     IN  \/ /\ starts # {}
            /\ need' = Length(CHOOSE i \in starts : TRUE)
            /\ pc' = "reading"
         \/ /\ starts = {}
            /\ need' = 0
            /\ pc' = "lost"
  /\ UNCHANGED <<host, sizes, memory, PGS_IN, pipelining, history>>

StartInMessage ==
  /\ pc = "loop" /\ pipelining /\ recv.reading
  /\ pc' = "lost"
  /\ UNCHANGED <<host, sizes, recv, send, memory, PGS_IN, pipelining, msg, need, history>>

\* pq_getbytes takes what the buffer holds ...
Take ==
  /\ pc = "reading" /\ need > 0 /\ Remaining(recv) > 0
  /\ LET n == Min({need, Remaining(recv)})
     IN  /\ msg' = msg \o ReadAt(memory, recv.buf, recv.ptr, n)
         /\ need' = need - n
         /\ recv' = [recv EXCEPT !.ptr = @ + n]
  /\ UNCHANGED <<pc, host, sizes, send, memory, PGS_IN, pipelining, history>>

\* ... and fills it again when it is empty, be the stream open or closed.
WantsMore == pc = "reading" /\ need > 0 /\ Remaining(recv) <= 0
HasFile   == recv.fp # "none" /\ recv.querylen # 0

Refill ==
  /\ WantsMore /\ HasFile
  /\ LET got == IF recv.fp = "open" THEN Got(RecvSize) ELSE 0
     IN  /\ recv' = Refilled(recv, got)
         /\ memory' = Written(memory, recv.buf, 0, SubSeq(PGS_IN, 1, got))
         /\ PGS_IN' = SubSeq(PGS_IN, got + 1, Len(PGS_IN))
         /\ pc' = IF got > 0 THEN "reading" ELSE "stale"
  /\ UNCHANGED <<host, sizes, send, pipelining, msg, need, history>>

\* End of file inside a message ends the session, as a Terminate does.
EndOfFile ==
  /\ WantsMore /\ ~HasFile
  /\ recv' = [recv EXCEPT !.ptr = 0, !.len = 0]
  /\ pipelining' = FALSE
  /\ pc' = "ended"
  /\ UNCHANGED <<host, sizes, send, memory, PGS_IN, msg, need, history>>

Serve ==
  /\ pc = "reading" /\ need = 0
  /\ recv' = [recv EXCEPT !.reading = FALSE]
  /\ served' = Append(served, msg)
  /\ pc' = "serving"
  /\ UNCHANGED <<host, sizes, send, memory, PGS_IN, pipelining, msg, need, emitted, faults>>

\* Any number of replies; the last ones are those of wire_flush.
Reply ==
  /\ pc \in {"serving", "flush"}
  /\ \E n \in PutSizes :
       /\ emitted + n <= MaxReply
       /\ send' = Put(send, ReplyBytes(emitted, n))
       /\ memory' = PutMemory(send, ReplyBytes(emitted, n))
       /\ emitted' = emitted + n
  /\ UNCHANGED <<pc, host, sizes, recv, PGS_IN, pipelining, msg, need, served, faults>>

\* Fault: a single byte left is not seen.
Fault_MoreThanOne(r) == Remaining(r) > 1
More(r) == Remaining(r) > 0

\* The loop goes on while the buffer, not the file, holds more.
EndMessage ==
  /\ pc = "serving"
  /\ pipelining' = More(recv)
  /\ pc' = IF pipelining' THEN "loop" ELSE "flush"
  /\ UNCHANGED <<host, sizes, recv, send, memory, PGS_IN, msg, need, history>>

\* wire_flush and return_early: publish, close and unlink the request file,
\* of which pqcomm.c is not told, free the area.
Leave ==
  /\ pc \in {"flush", "ended"}
  /\ recv' = [recv EXCEPT !.fp = IF @ = "open" THEN "closed" ELSE @]
  /\ skipped' = (skipped \/ PGS_IN # <<>>)
  /\ cma_wsize' = IF send.sockfiles THEN cma_wsize ELSE send.SOCKET_DATA
  /\ PGS_OUT' = IF send.sockfiles THEN send.olock ELSE PGS_OUT
  /\ send' = [send EXCEPT !.SOCKET_DATA = 0, !.olock = <<>>]
  /\ PGS_IN' = <<>>
  /\ cma_rsize' = 0
  /\ memory' = Written(memory, "cma", 0, <<Foreign>>)
  /\ pc' = "returned"
  /\ UNCHANGED <<ends, sent, pipelining, msg, need, served, emitted, halved>>

-----------------------------------------------------------------------------
Init ==
  /\ pc = "host" /\ ends = <<>> /\ sent = 0 /\ cma_rsize = 0 /\ cma_wsize = 0
  /\ recv = [buf |-> "static", ptr |-> 0, len |-> 0, fp |-> "none", querylen |-> 0,
             reading |-> FALSE]
  /\ send = [base |-> 0, size |-> 0, ptr |-> 0, sockfiles |-> FALSE, SOCKET_DATA |-> 0, olock |-> <<>>]
  /\ memory = [cma    |-> [i \in 1 .. MemEnd |-> Foreign],
               static |-> [i \in 1 .. RecvSize |-> Foreign]]
  /\ PGS_IN = <<>> /\ PGS_OUT = <<>> /\ pipelining = TRUE
  /\ msg = <<>> /\ need = 0 /\ served = <<>> /\ emitted = 0
  /\ halved = FALSE /\ skipped = FALSE

Host == \/ \E e \in Requests : \E n \in {Total(e)} \cup Cuts : HostCma(e, n) \/ HostFile(e, n)
        \/ HostRead
Backend == EnterCma \/ EnterFile \/ StartMessage \/ StartInMessage \/ Take \/ Refill
           \/ EndOfFile \/ Serve \/ EndMessage \/ Leave
Next == Host \/ Reply \/ Backend

Spec == Init /\ [][Next]_vars
-----------------------------------------------------------------------------
(* Properties *)

\* Pointers stay in their buffers, and a reply in the CMA, unless the request
\* filled it: see StaysInCma of MCPqComm.
TypeOK ==
  /\ pc \in {"host", "enter", "loop", "reading", "serving", "flush", "ended", "returned",
             "lost", "stale"}
  /\ ends \in Requests \cup {<<>>} /\ sent \in Nat
  /\ cma_rsize \in 0 .. CmaEnd - 1 /\ cma_wsize \in Nat
  /\ recv \in [buf : {"cma", "static"}, ptr : Nat, len : Nat,
              fp : {"none", "open", "closed"}, querylen : Nat, reading : BOOLEAN]
  /\ recv.ptr <= recv.len /\ recv.len \in 0 .. CmaEnd - 1
  /\ recv.buf = "static" => recv.len <= RecvSize
  /\ send.base \in 0 .. CmaEnd + 1 /\ send.size \in -1 .. CmaEnd /\ send.ptr \in Nat
  /\ send.ptr > 0 /\ send.size >= 0 => send.base + send.ptr <= CmaEnd
  /\ send.sockfiles \in BOOLEAN /\ send.SOCKET_DATA \in Nat /\ send.olock \in Seq(Nat \X Nat)
  /\ \A a \in {"cma", "static"} : \A i \in DOMAIN memory[a] : memory[a][i] \in Nat \X Nat
  /\ {pipelining, halved, skipped} \subseteq BOOLEAN /\ need \in Nat /\ emitted \in 0..MaxReply

\* However a request reaches the buffer and wherever its messages are cut by
\* the end of the buffer or by the host, the messages served are those of the
\* request, whole and in order: none is served of which a part is missing.
MessagesIntact ==
  pc \in {"enter", "loop", "reading", "serving", "flush", "ended", "returned"} =>
    /\ Len(served) <= Len(ends)
    /\ \A i \in DOMAIN served : served[i] = Message(i) /\ ends[i] <= sent

\* The protocol is lost only after a host sent half a message, and a file that
\* is closed is read only when, besides, the request file before it was not
\* read to its end (which the boundary case of ServedUnlessCut does).
ProtocolKept ==
  /\ pc = "lost" => halved
  /\ pc = "stale" => halved /\ skipped

\* What the host reads are the bytes written, in order, once each, whether
\* they stayed in memory, were moved to the reply file, or went there at once;
\* behind a request that fills the CMA they lie where other data were.
ReplyExact == pc = "returned" => HostReply = ReplyBytes(0, emitted)

\* A request is served to its end, unless one of its messages ends exactly
\* where the buffer ends: the loop takes the empty buffer for the end.
ServedUnlessCut ==
  pc = "returned" /\ sent = Total(ends)
    => \/ Len(served) = Len(ends)
       \/ Offset(Len(served) + 1) % RecvSize = 0 /\ Total(ends) > RecvSize
=============================================================================
