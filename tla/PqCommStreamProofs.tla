-------------------------- MODULE PqCommStreamProofs --------------------------
(***************************************************************************)
(* The receive side of pqcomm.c as a stream: what is read are the bytes of *)
(* the request, in order, without a gap and none of them twice, across the *)
(* buffer, its refills, the two transports, and sessions that ended in the *)
(* middle of a message.                                                    *)
(***************************************************************************)
EXTENDS PqCommProofs, SequenceTheorems

-----------------------------------------------------------------------------
(* The invariant *)

\* From offset on, area a of memory m has the n bytes of the request that
\* follow byte number from.
Holds(m, a, offset, from, n) == \A j \in 1 .. n : m[a][offset + j] = <<1, from + j>>

\* So has a file.
Carries(file, from) == \A j \in 1 .. Len(file) : file[j] = <<1, from + j>>

\* A request of which nothing was read yet.
Untouched == pc = "enter" \/ (pc = "loop" /\ Remaining(recv) = 0)
Streaming == pc \in {"loop", "reading", "serving", "flush"} /\ ~Untouched

\* How many bytes of the request were taken from the buffer.
Taken == Offset(Len(served) + 1) + (IF pc = "reading" THEN Len(msg) ELSE 0)
\* How many were put there.
Seen  == Taken + Remaining(recv)

MessagesOK == served \in Seq(Bytes) /\ msg \in Bytes

\* What is sent ends with a message, unless the request was cut inside one.
SentOK ==
  pc # "host" => /\ ends \in Requests /\ sent \in 1 .. Total(ends)
                 /\ halved \/ \E i \in DOMAIN ends : sent = ends[i]

\* Between two requests nothing is left of either.
IdleOK ==
  /\ pc \in {"host", "enter", "returned"} => Remaining(recv) = 0
  /\ pc \in {"host", "returned"} => PGS_IN = <<>>
  /\ pc \in {"host", "enter"} => served = <<>>

\* What pqcomm.c remembers of an earlier request tells what happened to it.
RememberedOK ==
  /\ recv.reading /\ pc # "reading" => halved
  /\ recv.fp = "closed" => skipped
  /\ recv.fp = "open" => PGS_IN # <<>>
  /\ PGS_IN # <<>> => pc = "enter" \/ recv.fp = "open"

UntouchedOK ==
  Untouched =>
    /\ served = <<>>
    /\ cma_rsize > 0 => /\ PGS_IN = <<>> /\ cma_rsize = sent
                        /\ Holds(memory, "cma", 0, 0, sent)
    /\ cma_rsize = 0 => pc = "enter" /\ PGS_IN = RequestBytes(sent)

\* A request in memory lies below the reply to it.
PlaceOK ==
  /\ pc = "loop" /\ ~send.sockfiles => cma_rsize > 0
  /\ (Streaming \/ pc = "ended") /\ ~send.sockfiles =>
       recv.buf = "cma" /\ recv.len <= sent /\ cma_rsize = sent /\ send.base = sent + 2

\* The buffer has the bytes that come next, and the file those behind them.
StreamOK ==
  Streaming =>
    /\ Seen + Len(PGS_IN) = sent
    /\ Holds(memory, recv.buf, recv.ptr, Taken, Remaining(recv))
    /\ Carries(PGS_IN, Seen)

\* While some is left in the file, only whole buffers were read from it.
WholeBuffers ==
  Streaming /\ PGS_IN # <<>> => sent > RecvSize /\ \E q \in Nat : Seen = q * RecvSize

\* The message at hand, as far as it was read.
MessageOK ==
  LET i == Len(served) + 1
  IN  pc = "reading" =>
        /\ i \in DOMAIN ends
        /\ Len(msg) + need = Length(i) /\ \A j \in 1 .. Len(msg) : msg[j] = <<1, Offset(i) + j>>
        /\ msg # <<>> \/ Remaining(recv) > 0

EndOK ==
  /\ pc = "flush" => Remaining(recv) = 0
  /\ pc = "ended" => Remaining(recv) = 0 /\ \A i \in DOMAIN ends : sent # ends[i]

SInv == /\ MessagesOK /\ SentOK /\ IdleOK /\ RememberedOK /\ UntouchedOK /\ PlaceOK
        /\ StreamOK /\ WholeBuffers /\ MessageOK /\ EndOK
        /\ MessagesIntact /\ ServedUnlessCut /\ ProtocolKept

-----------------------------------------------------------------------------
(* Memory and files *)

\* What is in memory after bytes were written there.
LEMMA WrittenAt ==
  ASSUME NEW m, MemOK(m), NEW a \in {"cma", "static"}, NEW b \in {"cma", "static"},
         NEW offset \in Int, NEW bytes \in Bytes, NEW i \in DOMAIN m[b]
  PROVE  Written(m, a, offset, bytes)[b][i]
           = IF b = a /\ i \in offset + 1 .. offset + Len(bytes) THEN bytes[i - offset] ELSE m[b][i]
<1>1. a \in DOMAIN m /\ b \in DOMAIN m
  BY DEF MemOK
<1>2. CASE b = a
  BY <1>1, <1>2 DEF Written
<1>3. CASE b # a
  BY <1>1, <1>3 DEF Written
<1> QED
  BY <1>2, <1>3

LEMMA AreaSize ==
  ASSUME NEW m, MemOK(m), NEW a \in {"cma", "static"}
  PROVE  /\ 1 .. RecvSize \subseteq DOMAIN m[a]
         /\ DOMAIN m["cma"] = 1 .. MemEnd /\ MemEnd \in Nat /\ CmaEnd \in Nat /\ CmaEnd <= MemEnd
<1>1. /\ RecvSize \in Nat /\ CmaEnd \in Nat /\ RecvSize < CmaEnd
      /\ MemEnd \in Nat /\ CmaEnd <= MemEnd
  BY BufferAssumption, MemEndType DEF BufferAssumption
<1>2. DOMAIN m["cma"] = 1 .. MemEnd /\ DOMAIN m["static"] = 1 .. RecvSize
  BY DEF MemOK
<1> QED
  BY <1>1, <1>2

\* The beginning of a file, at the start of an area.
LEMMA WrittenHolds ==
  ASSUME NEW m, MemOK(m), NEW a \in {"cma", "static"}, NEW file \in Bytes, NEW from \in Nat,
         Carries(file, from), NEW n \in Nat, n <= Len(file), 1 .. n \subseteq DOMAIN m[a]
  PROVE  Holds(Written(m, a, 0, SubSeq(file, 1, n)), a, 0, from, n)
<1> DEFINE part == SubSeq(file, 1, n)
           new  == Written(m, a, 0, part)
<1>1. part \in Bytes /\ Len(part) = n
  BY PartType
<1>2. \A j \in 1 .. n : part[j] = file[j]
  BY DEF Bytes
<1> HIDE DEF part
<1>3. ASSUME NEW j \in 1 .. n PROVE new[a][0 + j] = <<1, from + j>>
  <2>1. j \in DOMAIN m[a] /\ 0 \in Int /\ 0 + j = j /\ j - 0 = j /\ j \in 0 + 1 .. 0 + Len(part)
    BY <1>1
  <2>2. new[a][j] = part[j]
    BY <1>1, <2>1, WrittenAt
  <2>3. j \in 1 .. Len(file)
    BY DEF Bytes
  <2>4. file[j] = <<1, from + j>>
    BY <2>3 DEF Carries
  <2> QED
    BY <1>2, <2>1, <2>2, <2>4
<1> QED
  BY <1>3 DEF Holds, part

\* The rest of a file.
LEMMA RestCarries ==
  ASSUME NEW file \in Bytes, NEW from \in Nat, Carries(file, from), NEW n \in Nat, n <= Len(file)
  PROVE  /\ Carries(SubSeq(file, n + 1, Len(file)), from + n)
         /\ Len(SubSeq(file, n + 1, Len(file))) = Len(file) - n
<1> DEFINE length == Len(file)
           rest   == SubSeq(file, n + 1, length)
<1>1. length \in Nat
  BY DEF Bytes
<1>2. Len(rest) = length - n /\ \A j \in 1 .. length - n : rest[j] = file[n + j]
  BY <1>1 DEF Bytes
<1>3. \A j \in 1 .. length - n : n + j \in 1 .. length /\ from + (n + j) = (from + n) + j
  BY <1>1
<1>4. \A j \in 1 .. length : file[j] = <<1, from + j>>
  BY DEF Carries
<1> HIDE DEF rest, length
<1>5. \A j \in 1 .. length - n : rest[j] = <<1, (from + n) + j>>
  BY <1>2, <1>3, <1>4
<1>6. Carries(rest, from + n)
  BY <1>2, <1>5 DEF Carries
<1> QED
  BY <1>2, <1>6 DEF rest, length

LEMMA FilledFields ==
  ASSUME NEW r \in RecvType, PGS_IN \in Bytes, NEW length \in Nat, length = Len(PGS_IN)
  PROVE  /\ Filled(r, length).ptr = 0 /\ Filled(r, length).buf = r.buf
         /\ Filled(r, length).reading = r.reading
         /\ Filled(r, length).len = IF length > RecvSize THEN RecvSize ELSE length
         /\ Filled(r, length).fp = IF length > RecvSize THEN "open" ELSE "none"
<1>0. RecvSize \in Nat
  BY BufferAssumption DEF BufferAssumption
<1>1. length > RecvSize => Got(RecvSize) = RecvSize
  BY <1>0, GotType
<1>2. CASE length > RecvSize
  <2>1. Filled(r, length) = [r EXCEPT !.ptr = 0, !.len = RecvSize, !.fp = "open", !.querylen = length - RecvSize]
    BY <1>1, <1>2 DEF Filled
  <2> QED
    BY <1>2, <2>1 DEF RecvType
<1>3. CASE ~(length > RecvSize)
  <2>1. Filled(r, length) = [r EXCEPT !.ptr = 0, !.len = length, !.fp = "none", !.querylen = 0]
    BY <1>3 DEF Filled
  <2> QED
    BY <1>3, <2>1 DEF RecvType
<1> QED
  BY <1>2, <1>3

LEMMA RefilledFields ==
  ASSUME NEW r \in RecvType, NEW got
  PROVE  /\ Refilled(r, got).ptr = 0 /\ Refilled(r, got).len = got
         /\ Refilled(r, got).buf = r.buf /\ Refilled(r, got).reading = r.reading
         /\ Refilled(r, got).fp = IF r.querylen > got THEN r.fp ELSE "none"
BY DEF Refilled, RecvType

-----------------------------------------------------------------------------
(* The steps of the host *)

LEMMA InitStream == Init => SInv
<1> SUFFICES ASSUME Init PROVE SInv
  OBVIOUS
<1>1. /\ pc = "host" /\ served = <<>> /\ msg = <<>> /\ PGS_IN = <<>>
      /\ recv.ptr = 0 /\ recv.len = 0 /\ recv.reading = FALSE /\ recv.fp = "none"
  BY DEF Init
<1>2. Remaining(recv) = 0
  BY <1>1 DEF Remaining
<1>3. MessagesOK
  BY <1>1 DEF MessagesOK, Bytes
<1>4. SentOK /\ IdleOK /\ RememberedOK
  BY <1>1, <1>2 DEF SentOK, IdleOK, RememberedOK
<1>5. UntouchedOK /\ PlaceOK /\ StreamOK /\ WholeBuffers /\ MessageOK /\ EndOK
  BY <1>1 DEF UntouchedOK, PlaceOK, StreamOK, WholeBuffers, MessageOK, EndOK, Untouched, Streaming
<1>6. MessagesIntact /\ ServedUnlessCut /\ ProtocolKept
  BY <1>1 DEF MessagesIntact, ServedUnlessCut, ProtocolKept
<1> QED
  BY <1>3, <1>4, <1>5, <1>6 DEF SInv

\* A new request, by either transport.
LEMMA NewRequestStream ==
  ASSUME IInv, SInv, NEW e \in Requests, NEW n, NewRequest(e, n),
         PGS_IN' # <<>> \/ PGS_IN' = PGS_IN, UntouchedOK'
  PROVE  SInv'
<1>1. /\ pc = "host" /\ pc' = "enter" /\ recv' = recv /\ served' = served /\ msg' = msg
      /\ ends' = e /\ sent' = n /\ skipped' = skipped
  BY DEF NewRequest
<1>2. Remaining(recv) = 0 /\ PGS_IN = <<>> /\ served = <<>> /\ recv.fp # "open"
  BY <1>1 DEF SInv, IdleOK, IInv, Typed, FilesOK
<1>3. MessagesOK'
  BY <1>1 DEF SInv, MessagesOK
<1>4. SentOK'
  <2>1. n \in 1 .. Total(e)
    <3>1. Total(e) \in Nat \ {0}
      BY RequestType
    <3>2. n = Total(e) \/ (n \in Cuts /\ n < Total(e))
      BY DEF NewRequest
    <3>3. n \in Nat \ {0}
      BY <3>1, <3>2, BufferAssumption DEF BufferAssumption
    <3> QED
      BY <3>1, <3>2, <3>3
  <2>2. halved' \/ \E i \in DOMAIN e : n = e[i]
    BY DEF NewRequest
  <2> QED
    BY <1>1, <2>1, <2>2 DEF SentOK
<1>5. IdleOK' /\ EndOK' /\ PlaceOK'
  BY <1>1, <1>2 DEF IdleOK, EndOK, PlaceOK, Streaming
<1>6. RememberedOK'
  <2>1. recv.reading => halved
    BY <1>1 DEF SInv, RememberedOK
  <2>2. recv.reading => halved'
    BY <2>1 DEF NewRequest
  <2>3. recv.fp = "closed" => skipped
    BY DEF SInv, RememberedOK
  <2> QED
    BY <1>1, <1>2, <2>2, <2>3 DEF RememberedOK
<1>7. StreamOK' /\ WholeBuffers' /\ MessageOK'
  BY <1>1 DEF StreamOK, WholeBuffers, MessageOK, Streaming
<1>8. MessagesIntact'
  <2>1. served' = <<>> /\ Len(e) \in Nat
    BY <1>1, <1>2, RequestType
  <2>2. Len(<<>>) = 0 /\ DOMAIN <<>> = {}
    OBVIOUS
  <2> QED
    BY <1>1, <2>1, <2>2 DEF MessagesIntact
<1>9. ServedUnlessCut' /\ ProtocolKept'
  BY <1>1 DEF ServedUnlessCut, ProtocolKept
<1> QED
  BY <1>3, <1>4, <1>5, <1>6, <1>7, <1>8, <1>9 DEF SInv

\* The number of bytes that are sent.
LEMMA SentType ==
  ASSUME NEW e \in Requests, NEW n, NewRequest(e, n)
  PROVE  n \in Nat \ {0}
BY RequestType, BufferAssumption DEF NewRequest, BufferAssumption

LEMMA HostCmaStream ==
  ASSUME IInv, SInv, NEW e \in Requests, NEW n, HostCma(e, n)
  PROVE  SInv'
<1>1. /\ NewRequest(e, n) /\ pc = "host" /\ cma_rsize' = n /\ PGS_IN' = PGS_IN /\ n < CmaEnd
      /\ sent' = n /\ served' = served /\ memory' = Written(memory, "cma", 0, RequestBytes(n))
  BY DEF HostCma, NewRequest
<1>2. n \in Nat \ {0} /\ CmaEnd \in Nat /\ 0 \in Nat
  BY <1>1, SentType, BufferAssumption DEF BufferAssumption
<1>3. PGS_IN = <<>> /\ served = <<>>
  BY <1>1 DEF SInv, IdleOK
<1>4. Holds(memory', "cma", 0, 0, n)
  <2> DEFINE file == RequestBytes(n)
  <2>1. file \in Bytes /\ Len(file) = n /\ Carries(file, 0)
    BY <1>2, BytesType DEF Carries, RequestBytes
  <2> HIDE DEF file
  <2>2. SubSeq(file, 1, n) = file
    BY <2>1, SubSeqFull DEF Bytes
  <2>3. 1 .. n \subseteq DOMAIN memory["cma"] /\ MemOK(memory)
    BY <1>1, <1>2, AreaSize DEF IInv, Typed
  <2>4. n <= Len(file) /\ "cma" \in {"cma", "static"}
    BY <1>2, <2>1
  <2>5. Holds(Written(memory, "cma", 0, SubSeq(file, 1, n)), "cma", 0, 0, n)
    BY <1>2, <2>1, <2>3, <2>4, WrittenHolds
  <2> QED
    BY <1>1, <2>2, <2>5 DEF file
<1>5. UntouchedOK'
  BY <1>1, <1>2, <1>3, <1>4 DEF UntouchedOK
<1> QED
  BY <1>1, <1>5, NewRequestStream

LEMMA HostFileStream ==
  ASSUME IInv, SInv, NEW e \in Requests, NEW n, HostFile(e, n)
  PROVE  SInv'
<1>1. /\ NewRequest(e, n) /\ pc = "host" /\ pc' = "enter" /\ cma_rsize' = 0 /\ PGS_IN' = RequestBytes(n)
      /\ sent' = n /\ served' = served
  BY DEF HostFile, NewRequest
<1>2. n \in Nat \ {0}
  BY <1>1, SentType
<1>3. served = <<>> /\ ~(0 > 0)
  BY <1>1 DEF SInv, IdleOK
<1>4. UntouchedOK'
  BY <1>1, <1>3 DEF UntouchedOK
<1>5. PGS_IN' # <<>>
  BY <1>1, <1>2, BytesType
<1> QED
  BY <1>1, <1>4, <1>5, NewRequestStream

LEMMA HostReadStream ==
  ASSUME IInv, SInv, HostRead
  PROVE  SInv'
<1>1. /\ pc = "returned" /\ pc' = "host" /\ served' = <<>> /\ recv' = recv /\ msg' = msg
      /\ PGS_IN' = PGS_IN /\ halved' = halved /\ skipped' = skipped
  BY DEF HostRead, faults
<1>2. Remaining(recv) = 0 /\ PGS_IN = <<>> /\ recv.fp # "open"
  BY <1>1 DEF SInv, IdleOK, IInv, Typed, FilesOK
<1>3. MessagesOK' /\ SentOK' /\ IdleOK'
  BY <1>1, <1>2 DEF SInv, MessagesOK, SentOK, IdleOK
<1>4. RememberedOK'
  BY <1>1, <1>2 DEF SInv, RememberedOK
<1>5. UntouchedOK' /\ PlaceOK' /\ StreamOK' /\ WholeBuffers' /\ MessageOK' /\ EndOK'
  BY <1>1 DEF UntouchedOK, PlaceOK, StreamOK, WholeBuffers, MessageOK, EndOK, Untouched, Streaming
<1>6. MessagesIntact' /\ ServedUnlessCut' /\ ProtocolKept'
  BY <1>1 DEF MessagesIntact, ServedUnlessCut, ProtocolKept
<1> QED
  BY <1>3, <1>4, <1>5, <1>6 DEF SInv

-----------------------------------------------------------------------------
(* The steps of the backend *)

LEMMA EnterCmaStream ==
  ASSUME IInv, SInv, EnterCma
  PROVE  SInv'
<1>1. /\ pc = "enter" /\ pc' = "loop" /\ served' = served /\ recv' = recv /\ msg' = msg /\ memory' = memory
      /\ ends' = ends /\ sent' = sent /\ PGS_IN' = PGS_IN /\ halved' = halved /\ skipped' = skipped
      /\ cma_rsize > 0 /\ cma_rsize' = cma_rsize
  BY DEF EnterCma, host, sizes, history, faults
<1>2. /\ Remaining(recv) = 0 /\ served = <<>> /\ PGS_IN = <<>> /\ cma_rsize = sent
      /\ Holds(memory, "cma", 0, 0, sent)
  BY <1>1 DEF SInv, IdleOK, UntouchedOK, Untouched
<1>3. MessagesOK' /\ SentOK' /\ IdleOK'
  BY <1>1, <1>2 DEF SInv, MessagesOK, SentOK, IdleOK
<1>4. RememberedOK'
  BY <1>1, <1>2 DEF SInv, RememberedOK
<1>5. UntouchedOK' /\ ~Streaming'
  <2>1. cma_rsize' # 0
    BY <1>1 DEF IInv, Typed, ControlOK
  <2>2. Untouched'
    BY <1>1, <1>2 DEF Untouched
  <2> QED
    BY <1>1, <1>2, <2>1, <2>2 DEF UntouchedOK, Streaming
<1>6. PlaceOK' /\ StreamOK' /\ WholeBuffers' /\ MessageOK' /\ EndOK'
  BY <1>1, <1>5 DEF PlaceOK, StreamOK, WholeBuffers, MessageOK, EndOK
<1>7. MessagesIntact' /\ ServedUnlessCut' /\ ProtocolKept'
  <2>1. MessagesIntact'
    BY <1>1 DEF SInv, MessagesIntact, Message, Length, Offset
  <2> QED
    BY <1>1, <2>1 DEF ServedUnlessCut, ProtocolKept
<1> QED
  BY <1>3, <1>4, <1>5, <1>6, <1>7 DEF SInv

LEMMA EnterFileStream ==
  ASSUME IInv, SInv, EnterFile
  PROVE  SInv'
<1> DEFINE length == Len(PGS_IN)
           len    == recv'.len
<1>1. /\ pc = "enter" /\ pc' = "loop" /\ served' = served /\ msg' = msg
      /\ ends' = ends /\ sent' = sent /\ halved' = halved /\ skipped' = FALSE
      /\ cma_rsize = 0 /\ cma_rsize' = cma_rsize /\ recv' = Filled(recv, length)
      /\ memory' = Written(memory, recv.buf, 0, SubSeq(PGS_IN, 1, len))
      /\ PGS_IN' = SubSeq(PGS_IN, len + 1, length)
  BY DEF EnterFile, host, sizes
<1>2. /\ served = <<>> /\ PGS_IN = RequestBytes(sent) /\ sent \in Nat \ {0}
      /\ ends \in Requests /\ sent \in 1 .. Total(ends)
  <2>1. ends \in Requests /\ sent \in 1 .. Total(ends)
    BY <1>1 DEF SInv, SentOK
  <2>2. sent \in Nat \ {0}
    BY <2>1, RequestType
  <2> QED
    BY <1>1, <2>1, <2>2 DEF SInv, IdleOK, UntouchedOK, Untouched
<1>3. PGS_IN \in Bytes /\ length = sent /\ Carries(PGS_IN, 0)
  BY <1>2, BytesType DEF Carries, RequestBytes
<1>4. recv \in RecvType /\ MemOK(memory) /\ recv.buf \in {"cma", "static"}
  BY DEF IInv, Typed, RecvOK, RecvType
<1>5. RecvSize \in Nat \ {0}
  BY BufferAssumption DEF BufferAssumption
<1>6. /\ recv'.ptr = 0 /\ recv'.buf = recv.buf /\ recv'.reading = recv.reading
      /\ len = IF length > RecvSize THEN RecvSize ELSE length
      /\ recv'.fp = IF length > RecvSize THEN "open" ELSE "none"
  <2>1. length \in Nat /\ PGS_IN \in Bytes
    BY <1>2, <1>3
  <2> HIDE DEF length
  <2>2. length = Len(PGS_IN)
    BY DEF length
  <2> QED
    BY <1>1, <1>4, <2>1, <2>2, FilledFields
<1>7. len \in Nat \ {0} /\ len <= length /\ len <= RecvSize
  BY <1>2, <1>3, <1>5, <1>6
<1>8. Remaining(recv') = len /\ Remaining(recv') > 0 /\ Remaining(recv') # 0
  BY <1>6, <1>7 DEF Remaining
<1>9. Taken' = 0 /\ Seen' = len
  <2>1. Taken' = 0
    BY <1>1, <1>2 DEF Taken, Offset
  <2> QED
    BY <1>7, <1>8, <2>1 DEF Seen
<1>10. /\ Carries(PGS_IN', len) /\ Len(PGS_IN') = length - len
       /\ (length > RecvSize <=> PGS_IN' # <<>>)
  <2>1. /\ Carries(SubSeq(PGS_IN, len + 1, Len(PGS_IN)), 0 + len)
        /\ Len(SubSeq(PGS_IN, len + 1, Len(PGS_IN))) = Len(PGS_IN) - len
    BY <1>3, <1>7, RestCarries
  <2>2. Carries(PGS_IN', len) /\ Len(PGS_IN') = length - len
    BY <1>1, <1>7, <2>1
  <2>3. PGS_IN' \in Bytes
    BY <1>1, <1>3, <1>7, PartType
  <2>4. PGS_IN' # <<>> <=> Len(PGS_IN') # 0
    BY <2>3 DEF Bytes
  <2> QED
    BY <1>2, <1>3, <1>5, <1>6, <2>2, <2>4
<1>11. Holds(memory', recv'.buf, 0, 0, len)
  <2>1. 1 .. len \subseteq DOMAIN memory[recv.buf]
    <3>1. 1 .. len \subseteq 1 .. RecvSize
      BY <1>5, <1>7
    <3> QED
      BY <1>4, <3>1, AreaSize
  <2> HIDE DEF len
  <2>2. len \in Nat /\ len <= Len(PGS_IN) /\ 0 \in Nat
    BY <1>7
  <2>3. Holds(Written(memory, recv.buf, 0, SubSeq(PGS_IN, 1, len)), recv.buf, 0, 0, len)
    BY <1>3, <1>4, <2>1, <2>2, WrittenHolds
  <2> QED
    BY <1>1, <1>6, <2>3
<1> HIDE DEF length, len
<1>12. Streaming' /\ ~Untouched' /\ send'.sockfiles
  <2>1. send \in SendType
    BY DEF IInv, Typed, SendOK
  <2>2. send'.sockfiles
    BY <2>1 DEF EnterFile, SendType
  <2> QED
    BY <1>1, <1>8, <2>2 DEF Streaming, Untouched
<1>13. MessagesOK' /\ SentOK' /\ IdleOK' /\ EndOK' /\ MessageOK'
  BY <1>1, <1>2 DEF SInv, MessagesOK, SentOK, IdleOK, EndOK, MessageOK
<1>14. RememberedOK'
  BY <1>1, <1>6, <1>10 DEF SInv, RememberedOK
<1>15. UntouchedOK' /\ PlaceOK'
  BY <1>1, <1>12 DEF UntouchedOK, PlaceOK
<1>16. StreamOK'
  <2>1. Seen' + Len(PGS_IN') = sent'
    BY <1>1, <1>2, <1>3, <1>7, <1>9, <1>10
  <2> QED
    BY <1>6, <1>8, <1>9, <1>10, <1>11, <2>1 DEF StreamOK
<1>17. WholeBuffers'
  <2>1. ASSUME PGS_IN' # <<>> PROVE sent' > RecvSize /\ Seen' = 1 * RecvSize
    <3>1. length > RecvSize
      BY <1>10, <2>1
    <3>2. sent' > RecvSize /\ Seen' = RecvSize
      BY <1>1, <1>3, <1>6, <1>9, <3>1
    <3>3. 1 * RecvSize = RecvSize
      BY <1>5
    <3> QED
      BY <3>2, <3>3
  <2> QED
    BY <2>1 DEF WholeBuffers
<1>18. MessagesIntact' /\ ServedUnlessCut' /\ ProtocolKept'
  <2>1. MessagesIntact'
    BY <1>1 DEF SInv, MessagesIntact, Message, Length, Offset
  <2> QED
    BY <1>1, <2>1 DEF ServedUnlessCut, ProtocolKept
<1> QED
  BY <1>13, <1>14, <1>15, <1>16, <1>17, <1>18 DEF SInv

\* Where the messages served end, and the next one begins.
Reached == Offset(Len(served) + 1)

\* How many messages were served, and of how many.
LEMMA ReachedType ==
  ASSUME SInv, pc \in {"loop", "reading", "serving", "flush"}
  PROVE  /\ ends \in Requests /\ Len(served) \in 0 .. Len(ends) /\ Len(ends) \in Nat \ {0}
         /\ Reached \in Nat /\ sent \in Nat \ {0} /\ sent <= Total(ends) /\ Total(ends) \in Nat
         /\ served \in Seq(Bytes) /\ msg \in Bytes /\ Len(msg) \in Nat
<1>1. ends \in Requests /\ sent \in 1 .. Total(ends)
  BY DEF SInv, SentOK
<1>2. Len(served) <= Len(ends) /\ Len(served) \in Nat
  BY DEF SInv, MessagesIntact, MessagesOK
<1>3. Len(ends) \in Nat \ {0} /\ Total(ends) \in Nat \ {0}
  BY <1>1, RequestType
<1>4. Reached \in Nat
  <2>1. Len(served) + 1 \in 1 .. Len(ends) + 1
    BY <1>2, <1>3
  <2> QED
    BY <1>1, <2>1, OffsetType DEF Reached
<1>5. served \in Seq(Bytes) /\ msg \in Bytes /\ Len(msg) \in Nat
  BY DEF SInv, MessagesOK, Bytes
<1> QED
  BY <1>1, <1>2, <1>3, <1>4, <1>5

\* While bytes are left behind it, that is where a message begins.
LEMMA NextMessage ==
  ASSUME SInv, pc \in {"loop", "reading", "serving", "flush"}, Reached < sent
  PROVE  /\ Len(served) + 1 \in DOMAIN ends
         /\ {i \in DOMAIN ends : <<1, Reached + 1>> = <<1, Offset(i) + 1>>} = {Len(served) + 1}
<1> DEFINE k == Len(served)
           n == Len(ends)
<1>1. /\ k \in 0 .. n /\ n \in Nat \ {0} /\ Reached \in Nat /\ sent \in Nat /\ sent <= Total(ends)
      /\ Total(ends) \in Nat /\ ends \in Requests /\ Reached = Offset(k + 1)
  BY ReachedType DEF Reached
<1>2. DOMAIN ends = 1 .. n
  BY <1>1, RequestType
<1>3. /\ \A i \in 1 .. n + 1 : Offset(i) \in Nat
      /\ \A i, j \in 1 .. n + 1 : i < j => Offset(i) < Offset(j)
      /\ Offset(n + 1) = Total(ends)
  BY <1>1, OffsetType
<1> HIDE DEF k, n
<1>4. k # n
  BY <1>1, <1>3
<1>5. k + 1 \in 1 .. n /\ k + 1 \in 1 .. n + 1 /\ \A i \in 1 .. n : i \in 1 .. n + 1
  BY <1>1, <1>4
<1>6. ASSUME NEW i \in 1 .. n, <<1, Reached + 1>> = <<1, Offset(i) + 1>> PROVE i = k + 1
  <2>1. Reached + 1 = Offset(i) + 1
    BY <1>6
  <2>2. Offset(i) = Offset(k + 1) /\ Offset(i) \in Nat
    BY <1>1, <1>3, <1>5, <2>1
  <2>3. ~(i < k + 1) /\ ~(k + 1 < i)
    BY <1>3, <1>5, <2>2
  <2> QED
    BY <1>1, <2>3
<1>7. {i \in 1 .. n : <<1, Reached + 1>> = <<1, Offset(i) + 1>>} = {k + 1}
  <2>1. <<1, Reached + 1>> = <<1, Offset(k + 1) + 1>>
    BY <1>1
  <2> QED
    BY <1>5, <1>6, <2>1
<1> QED
  BY <1>2, <1>5, <1>7 DEF k

\* What pq_startmsgread leaves in the buffer: the bytes behind those served.
LEMMA StartMessageBuffer ==
  ASSUME IInv, SInv, StartMessage
  PROVE  /\ Remaining(recv') \in Nat \ {0} /\ recv'.ptr \in Nat
         /\ Holds(memory, recv'.buf, recv'.ptr, Reached, Remaining(recv'))
         /\ Carries(PGS_IN, Reached + Remaining(recv'))
         /\ Reached + Remaining(recv') + Len(PGS_IN) = sent
         /\ recv'.fp = recv.fp /\ recv'.reading = TRUE
         /\ PGS_IN # <<>> => /\ sent > RecvSize
                             /\ \E q \in Nat : Reached + Remaining(recv') = q * RecvSize
         /\ ~send'.sockfiles => /\ recv'.buf = "cma" /\ recv'.len <= sent
                                /\ cma_rsize = sent /\ send'.base = sent + 2
<1> DEFINE started == StartRecv(recv, send)
<1>1. /\ pc = "loop" /\ recv' = [started EXCEPT !.reading = TRUE] /\ send' = StartSend(recv, send)
  BY DEF StartMessage
<1>2. /\ recv \in RecvType /\ send \in SendType /\ send.sockfiles \in BOOLEAN
      /\ Remaining(recv) > 0 \/ ~send.sockfiles
      /\ recv.ptr \in Nat /\ recv.len \in Nat /\ recv.ptr <= recv.len
  BY <1>1 DEF IInv, Typed, FilesOK, RecvOK, RecvType, SendOK, SendType
<1>3. Remaining(recv) \in Nat /\ Remaining(recv) = recv.len - recv.ptr
  BY <1>2 DEF Remaining
<1>4. CASE Remaining(recv) > 0
  <2>1. started = recv /\ send' = send
    BY <1>1, <1>3, <1>4 DEF StartRecv, StartSend
  <2>2. /\ recv'.ptr = recv.ptr /\ recv'.len = recv.len /\ recv'.buf = recv.buf /\ recv'.fp = recv.fp
        /\ recv'.reading = TRUE /\ Remaining(recv') = Remaining(recv)
    BY <1>1, <1>2, <2>1 DEF RecvType, Remaining
  <2>3. Streaming /\ Taken = Reached /\ Seen = Reached + Remaining(recv)
    <3>1. Reached \in Nat
      BY <1>1, ReachedType
    <3>2. Remaining(recv) # 0 /\ Taken = Reached + 0
      BY <1>1, <1>4 DEF Taken, Reached
    <3> QED
      BY <1>1, <3>1, <3>2 DEF Streaming, Untouched, Seen
  <2>4. /\ Seen + Len(PGS_IN) = sent /\ Holds(memory, recv.buf, recv.ptr, Taken, Remaining(recv))
        /\ Carries(PGS_IN, Seen)
    BY <2>3 DEF SInv, StreamOK
  <2>5. PGS_IN # <<>> => sent > RecvSize /\ \E q \in Nat : Seen = q * RecvSize
    BY <2>3 DEF SInv, WholeBuffers
  <2>6. ~send.sockfiles => /\ recv.buf = "cma" /\ recv.len <= sent
                           /\ cma_rsize = sent /\ send.base = sent + 2
    BY <2>3 DEF SInv, PlaceOK
  <2> QED
    BY <1>2, <1>3, <1>4, <2>1, <2>2, <2>3, <2>4, <2>5, <2>6
<1>5. CASE ~(Remaining(recv) > 0)
  <2>1. Remaining(recv) = 0 /\ Remaining(recv) <= 0 /\ ~send.sockfiles /\ Untouched
    BY <1>1, <1>2, <1>3, <1>5 DEF Untouched
  <2>2. cma_rsize > 0
    BY <1>1, <2>1 DEF SInv, PlaceOK
  <2>3. served = <<>> /\ PGS_IN = <<>> /\ cma_rsize = sent /\ Holds(memory, "cma", 0, 0, sent)
    BY <2>1, <2>2 DEF SInv, UntouchedOK
  <2>4. /\ started = [recv EXCEPT !.buf = "cma", !.ptr = 0, !.len = cma_rsize]
        /\ send' = [send EXCEPT !.base = cma_rsize + 2, !.ptr = 0, !.size = CmaEnd - (cma_rsize + 2)]
    BY <1>1, <1>5, <2>1 DEF StartRecv, StartSend
  <2>5. /\ recv'.ptr = 0 /\ recv'.len = sent /\ recv'.buf = "cma" /\ recv'.fp = recv.fp
        /\ recv'.reading = TRUE
    BY <1>1, <1>2, <2>3, <2>4 DEF RecvType
  <2>6. sent \in Nat \ {0}
    BY <1>1, ReachedType
  <2>7. Remaining(recv') = sent /\ send'.base = sent + 2
    BY <1>2, <2>3, <2>4, <2>5, <2>6 DEF Remaining, SendType
  <2>8. Reached = 0
    BY <2>3 DEF Reached, Offset
  <2>9. Len(PGS_IN) = 0 /\ Carries(PGS_IN, Reached + Remaining(recv'))
    BY <2>3 DEF Carries
  <2> QED
    BY <2>3, <2>5, <2>6, <2>7, <2>8, <2>9
<1> QED
  BY <1>4, <1>5

LEMMA StartMessageStream ==
  ASSUME IInv, SInv, StartMessage
  PROVE  SInv'
<1> DEFINE left == Remaining(recv')
           i    == Len(served) + 1
<1>1. /\ pc = "loop" /\ ends' = ends /\ sent' = sent /\ memory' = memory /\ PGS_IN' = PGS_IN
      /\ msg' = <<>> /\ served' = served /\ halved' = halved /\ skipped' = skipped
      /\ cma_rsize' = cma_rsize
  BY DEF StartMessage, host, sizes, history, faults
<1>2. /\ left \in Nat \ {0} /\ recv'.ptr \in Nat
      /\ Holds(memory, recv'.buf, recv'.ptr, Reached, left)
      /\ Carries(PGS_IN, Reached + left)
      /\ Reached + left + Len(PGS_IN) = sent
      /\ recv'.fp = recv.fp /\ recv'.reading = TRUE
      /\ PGS_IN # <<>> => sent > RecvSize /\ \E q \in Nat : Reached + left = q * RecvSize
      /\ ~send'.sockfiles => /\ recv'.buf = "cma" /\ recv'.len <= sent
                             /\ cma_rsize = sent /\ send'.base = sent + 2
  BY StartMessageBuffer
<1> HIDE DEF left
<1>3. Reached < sent /\ Reached \in Nat /\ ends \in Requests
  <2>1. Len(PGS_IN) \in Nat
    BY DEF IInv, Typed, FilesOK, Bytes
  <2>2. Reached \in Nat /\ sent \in Nat /\ ends \in Requests
    BY <1>1, ReachedType
  <2> QED
    BY <1>2, <2>1, <2>2
<1>4. pc' = "reading" /\ need' = Length(i) /\ i \in DOMAIN ends
  <2> DEFINE first  == IF Remaining(recv') > 0 THEN memory[recv'.buf][recv'.ptr + 1] ELSE Foreign
             starts == {j \in DOMAIN ends : first = <<1, Offset(j) + 1>>}
  <2>1. first = <<1, Reached + 1>>
    <3>1. Remaining(recv') > 0 /\ 1 \in 1 .. left
      BY <1>2 DEF left
    <3>2. memory[recv'.buf][recv'.ptr + 1] = <<1, Reached + 1>>
      BY <1>2, <3>1 DEF Holds
    <3> QED
      BY <3>1, <3>2
  <2>2. i \in DOMAIN ends /\ {j \in DOMAIN ends : <<1, Reached + 1>> = <<1, Offset(j) + 1>>} = {i}
    BY <1>1, <1>3, NextMessage
  <2>3. starts = {i}
    BY <2>1, <2>2
  <2>4. \/ starts # {} /\ need' = Length(CHOOSE j \in starts : TRUE) /\ pc' = "reading"
        \/ starts = {}
    BY DEF StartMessage
  <2> HIDE DEF starts
  <2>5. (CHOOSE j \in {i} : TRUE) = i
    OBVIOUS
  <2> QED
    BY <2>2, <2>3, <2>4, <2>5
<1>5. Taken' = Reached /\ Seen' = Reached + left
  <2>1. Taken' = Reached + 0
    BY <1>1, <1>4 DEF Taken, Reached, Offset
  <2> QED
    BY <1>3, <2>1 DEF Seen, left
<1>6. Streaming' /\ ~Untouched'
  BY <1>4 DEF Streaming, Untouched
<1>7. MessagesOK' /\ SentOK' /\ IdleOK' /\ EndOK'
  BY <1>1, <1>4 DEF SInv, MessagesOK, SentOK, IdleOK, EndOK, Bytes
<1>8. RememberedOK' /\ UntouchedOK' /\ PlaceOK'
  BY <1>1, <1>2, <1>4, <1>6 DEF SInv, RememberedOK, UntouchedOK, PlaceOK
<1>9. StreamOK' /\ WholeBuffers'
  BY <1>1, <1>2, <1>5 DEF StreamOK, WholeBuffers, left
<1>10. MessageOK'
  <2>1. Length(i) \in Nat \ {0}
    BY <1>3, <1>4, RequestType, OffsetType
  <2>2. Len(msg') + need' = Length(i)
    BY <1>1, <1>4, <2>1
  <2>3. Remaining(recv') > 0
    BY <1>2 DEF left
  <2>4. \A j \in 1 .. Len(msg') : msg'[j] = <<1, Offset(i) + j>>
    BY <1>1
  <2> QED
    BY <1>1, <1>4, <2>2, <2>3, <2>4 DEF MessageOK, Length, Offset
<1>11. MessagesIntact' /\ ServedUnlessCut' /\ ProtocolKept'
  <2>1. MessagesIntact'
    BY <1>1, <1>4 DEF SInv, MessagesIntact, Message, Length, Offset
  <2> QED
    BY <1>4, <2>1 DEF ServedUnlessCut, ProtocolKept
<1> QED
  BY <1>7, <1>8, <1>9, <1>10, <1>11 DEF SInv

LEMMA StartInMessageStream ==
  ASSUME IInv, SInv, StartInMessage
  PROVE  SInv'
<1>1. /\ pc = "loop" /\ pc' = "lost" /\ recv.reading /\ recv' = recv /\ ends' = ends /\ sent' = sent
      /\ PGS_IN' = PGS_IN /\ msg' = msg /\ served' = served /\ halved' = halved /\ skipped' = skipped
  BY DEF StartInMessage, host, sizes, history, faults
<1>2. halved
  BY <1>1 DEF SInv, RememberedOK
<1>3. MessagesOK' /\ SentOK' /\ IdleOK' /\ EndOK' /\ MessageOK' /\ RememberedOK'
  BY <1>1, <1>2 DEF SInv, MessagesOK, SentOK, IdleOK, EndOK, MessageOK, RememberedOK
<1>4. UntouchedOK' /\ PlaceOK' /\ StreamOK' /\ WholeBuffers'
  BY <1>1 DEF UntouchedOK, PlaceOK, StreamOK, WholeBuffers, Untouched, Streaming
<1>5. MessagesIntact' /\ ServedUnlessCut' /\ ProtocolKept'
  BY <1>1, <1>2 DEF MessagesIntact, ServedUnlessCut, ProtocolKept
<1> QED
  BY <1>3, <1>4, <1>5 DEF SInv

\* What is read from where the request lies are bytes of the request.
LEMMA ReadCarries ==
  ASSUME NEW m, NEW a, NEW offset \in Nat, NEW from \in Nat, NEW n \in Nat,
         \A j \in 1 .. n : m[a][offset + j] = <<1, from + j>>
  PROVE  /\ ReadAt(m, a, offset, n) \in Bytes /\ Len(ReadAt(m, a, offset, n)) = n
         /\ Carries(ReadAt(m, a, offset, n), from)
<1> DEFINE part == ReadAt(m, a, offset, n)
<1>1. part = [j \in 1 .. n |-> <<1, from + j>>]
  BY DEF ReadAt
<1>2. \A j \in 1 .. n : <<1, from + j>> \in Byte
  BY DEF Byte
<1>3. part \in Bytes /\ Len(part) = n
  <2>1. part \in [1 .. n -> Byte]
    BY <1>1, <1>2
  <2> HIDE DEF part
  <2> QED
    BY <2>1 DEF Bytes
<1>4. Carries(part, from)
  BY <1>1, <1>3 DEF Carries
<1> QED
  BY <1>3, <1>4

\* The message at hand, and where it lies.
LEMMA ReadingFacts ==
  ASSUME IInv, SInv, pc = "reading"
  PROVE  /\ Streaming /\ ~Untouched /\ Reached \in Nat /\ Len(msg) \in Nat
         /\ Taken = Reached + Len(msg) /\ Seen = Taken + Remaining(recv) /\ Taken \in Nat
         /\ Len(served) + 1 \in 1 .. Len(ends) /\ Length(Len(served) + 1) \in Nat \ {0}
         /\ Len(msg) + need = Length(Len(served) + 1)
         /\ Carries(msg, Reached)
         /\ msg # <<>> \/ Remaining(recv) > 0
         /\ Seen + Len(PGS_IN) = sent
         /\ Holds(memory, recv.buf, recv.ptr, Taken, Remaining(recv))
         /\ Carries(PGS_IN, Seen)
         /\ ends \in Requests /\ need \in Nat /\ PGS_IN \in Bytes /\ Len(PGS_IN) \in Nat
         /\ recv \in RecvType /\ recv.ptr \in Nat /\ recv.len \in Nat /\ recv.ptr <= recv.len
         /\ Remaining(recv) = recv.len - recv.ptr /\ Remaining(recv) \in Nat
<1>1. Streaming /\ ~Untouched
  BY DEF Streaming, Untouched
<1>2. Reached \in Nat /\ Len(msg) \in Nat /\ ends \in Requests
  BY ReachedType
<1>3. Taken = Reached + Len(msg) /\ Taken \in Nat
  BY <1>2 DEF Taken, Reached
<1>4. /\ Len(served) + 1 \in DOMAIN ends /\ Len(msg) + need = Length(Len(served) + 1)
      /\ Carries(msg, Reached) /\ (msg # <<>> \/ Remaining(recv) > 0)
  BY DEF SInv, MessageOK, Carries, Reached
<1>5. Len(served) + 1 \in 1 .. Len(ends) /\ Length(Len(served) + 1) \in Nat \ {0}
  BY <1>2, <1>4, RequestType, OffsetType
<1>6. /\ Seen + Len(PGS_IN) = sent /\ Holds(memory, recv.buf, recv.ptr, Taken, Remaining(recv))
      /\ Carries(PGS_IN, Seen)
  BY <1>1 DEF SInv, StreamOK
<1>7. need \in Nat /\ PGS_IN \in Bytes /\ Len(PGS_IN) \in Nat
  BY DEF IInv, Typed, ControlOK, FilesOK, Bytes
<1>8. recv \in RecvType /\ recv.ptr \in Nat /\ recv.len \in Nat /\ recv.ptr <= recv.len
  BY DEF IInv, Typed, RecvOK, RecvType
<1>9. Remaining(recv) = recv.len - recv.ptr /\ Remaining(recv) \in Nat
  BY <1>8 DEF Remaining
<1> QED
  BY <1>1, <1>2, <1>3, <1>4, <1>5, <1>6, <1>7, <1>8, <1>9 DEF Seen

LEMMA TakeStream ==
  ASSUME IInv, SInv, Take
  PROVE  SInv'
<1> DEFINE left == Remaining(recv)
           n    == Min({need, left})
           part == ReadAt(memory, recv.buf, recv.ptr, n)
           i    == Len(served) + 1
<1>1. /\ pc = "reading" /\ pc' = "reading" /\ need > 0 /\ left > 0
      /\ ends' = ends /\ sent' = sent /\ memory' = memory /\ PGS_IN' = PGS_IN
      /\ msg' = msg \o part /\ need' = need - n /\ recv' = [recv EXCEPT !.ptr = @ + n]
      /\ served' = served /\ halved' = halved /\ skipped' = skipped /\ send' = send
      /\ cma_rsize' = cma_rsize
  BY DEF Take, host, sizes, history, faults
<1>2. /\ Streaming /\ Reached \in Nat /\ Len(msg) \in Nat /\ Taken = Reached + Len(msg) /\ Taken \in Nat
      /\ Seen = Taken + left /\ need \in Nat /\ left \in Nat /\ left = recv.len - recv.ptr
      /\ recv \in RecvType /\ recv.ptr \in Nat /\ recv.len \in Nat
      /\ Holds(memory, recv.buf, recv.ptr, Taken, left) /\ Carries(msg, Reached)
      /\ Len(msg) + need = Length(i) /\ i \in 1 .. Len(ends) /\ Seen + Len(PGS_IN) = sent
      /\ Carries(PGS_IN, Seen)
  BY <1>1, ReadingFacts
<1> HIDE DEF left
<1>3. n \in 1 .. left /\ n \in Nat /\ need - n \in Nat
  <2>1. need \in Int /\ left \in Int
    BY <1>2
  <2>2. Min({need, left}) \in {need, left} /\ Min({need, left}) <= need /\ Min({need, left}) <= left
    BY <2>1, MinOfTwo
  <2> HIDE DEF n
  <2>3. (n = need \/ n = left) /\ n <= need /\ n <= left
    BY <2>2 DEF n
  <2>4. need \in Nat /\ left \in Nat /\ need > 0 /\ left > 0
    BY <1>1, <1>2
  <2> QED
    BY <2>3, <2>4
<1> HIDE DEF n
<1>4. /\ part \in Bytes /\ Len(part) = n /\ Carries(part, Taken)
      /\ Holds(memory, recv.buf, recv.ptr + n, Taken + n, left - n)
  <2> DEFINE offset == recv.ptr
             a      == recv.buf
             from   == Taken
  <2>1. offset \in Nat /\ from \in Nat /\ left \in Nat /\ Holds(memory, a, offset, from, left)
    BY <1>2
  <2>2. n \in Nat /\ n <= left
    BY <1>3, <2>1
  <2>3. part = ReadAt(memory, a, offset, n)
    OBVIOUS
  <2> HIDE DEF offset, a, from, part
  <2>4. /\ Holds(memory, a, offset + n, from + n, left - n)
        /\ \A j \in 1 .. n : memory[a][offset + j] = <<1, from + j>>
    <3>1. \A j \in 1 .. n : j \in 1 .. left
      BY <2>1, <2>2
    <3>2. \A j \in 1 .. left - n : /\ n + j \in 1 .. left
                                   /\ (offset + n) + j = offset + (n + j) /\ (from + n) + j = from + (n + j)
      BY <2>1, <2>2
    <3>3. \A j \in 1 .. left : memory[a][offset + j] = <<1, from + j>>
      BY <2>1 DEF Holds
    <3>4. \A j \in 1 .. left - n : memory[a][(offset + n) + j] = <<1, (from + n) + j>>
      BY <3>2, <3>3
    <3> QED
      BY <3>1, <3>3, <3>4 DEF Holds
  <2>5. /\ ReadAt(memory, a, offset, n) \in Bytes /\ Len(ReadAt(memory, a, offset, n)) = n
        /\ Carries(ReadAt(memory, a, offset, n), from)
    <3>1. \A j \in 1 .. n : memory[a][offset + j] = <<1, from + j>>
      BY <2>4
    <3> QED
      BY <2>1, <2>2, <3>1, ReadCarries
  <2> QED
    BY <2>3, <2>4, <2>5 DEF offset, a, from
<1> HIDE DEF part
<1>5. /\ msg' \in Bytes /\ Len(msg') = Len(msg) + n /\ Carries(msg', Reached)
  <2>1. msg \in Bytes
    BY DEF SInv, MessagesOK
  <2> DEFINE length == Len(msg)
             all == msg \o part
  <2>2. all \in Bytes /\ Len(all) = length + Len(part)
    BY <1>4, <2>1, ConcatProperties DEF Bytes
  <2>3. \A j \in 1 .. length : all[j] = msg[j]
    BY <1>4, <2>1, ConcatProperties DEF Bytes
  <2>4. \A j \in length + 1 .. length + Len(part) : all[j] = part[j - length]
    BY <1>4, <2>1, ConcatProperties DEF Bytes
  <2> HIDE DEF length, all
  <2>0. length \in Nat /\ n \in Nat
    BY <1>2, <1>3 DEF length
  <2>5. ASSUME NEW j \in 1 .. length + n PROVE all[j] = <<1, Reached + j>>
    <3>1. CASE j <= length
      <4>1. j \in 1 .. length
        BY <1>2, <3>1
      <4> QED
        BY <1>2, <2>3, <4>1 DEF Carries, length
    <3>2. CASE j > length
      <4>1. /\ j \in length + 1 .. length + n /\ j - length \in 1 .. n
            /\ Taken + (j - length) = Reached + j
        BY <1>2, <1>3, <3>2 DEF length
      <4>2. part[j - length] = <<1, Taken + (j - length)>>
        BY <1>4, <4>1 DEF Carries
      <4> QED
        BY <1>4, <2>4, <4>1, <4>2
    <3> QED
      BY <2>0, <3>1, <3>2
  <2>6. msg' = all
    BY <1>1 DEF all
  <2>7. Len(all) = length + n
    BY <1>4, <2>2
  <2>8. Carries(all, Reached)
    BY <2>5, <2>7 DEF Carries
  <2> QED
    BY <2>2, <2>6, <2>7, <2>8 DEF length
<1>6. /\ recv'.ptr = recv.ptr + n /\ recv'.len = recv.len /\ recv'.buf = recv.buf /\ recv'.fp = recv.fp
      /\ recv'.reading = recv.reading /\ Remaining(recv') = left - n
  BY <1>1, <1>2, <1>3 DEF RecvType, Remaining
<1>7. Taken' = Taken + n /\ Seen' = Seen
  <2>1. Taken' = Reached + Len(msg')
    BY <1>1 DEF Taken, Reached, Offset
  <2>2. Taken' = Taken + n
    BY <1>2, <1>3, <1>5, <2>1
  <2>3. Seen' = Taken' + Remaining(recv')
    BY DEF Seen
  <2> QED
    BY <1>2, <1>3, <1>6, <2>2, <2>3
<1>8. Streaming' /\ ~Untouched'
  BY <1>1 DEF Streaming, Untouched
<1>9. MessagesOK' /\ SentOK' /\ IdleOK' /\ EndOK'
  BY <1>1, <1>5 DEF SInv, MessagesOK, SentOK, IdleOK, EndOK
<1>10. RememberedOK' /\ UntouchedOK' /\ PlaceOK'
  BY <1>1, <1>2, <1>6, <1>8 DEF SInv, RememberedOK, UntouchedOK, PlaceOK
<1>11. StreamOK'
  BY <1>1, <1>2, <1>4, <1>6, <1>7 DEF StreamOK
<1>12. WholeBuffers'
  BY <1>1, <1>2, <1>7 DEF SInv, WholeBuffers
<1>13. MessageOK'
  <2>1. Len(msg') + need' = Length(i)
    BY <1>1, <1>2, <1>3, <1>5
  <2>2. i \in DOMAIN ends
    BY <1>1 DEF SInv, MessageOK
  <2>3. msg' # <<>>
    BY <1>2, <1>3, <1>5
  <2>4. \A j \in 1 .. Len(msg') : msg'[j] = <<1, Offset(i) + j>>
    BY <1>5 DEF Carries, Reached
  <2> QED
    BY <1>1, <2>1, <2>2, <2>3, <2>4 DEF MessageOK, Length, Offset
<1>14. MessagesIntact' /\ ServedUnlessCut' /\ ProtocolKept'
  <2>1. MessagesIntact'
    BY <1>1 DEF SInv, MessagesIntact, Message, Length, Offset
  <2> QED
    BY <1>1, <2>1 DEF ServedUnlessCut, ProtocolKept
<1> QED
  BY <1>9, <1>10, <1>11, <1>12, <1>13, <1>14 DEF SInv

\* A message of which a part is missing is one the host has cut.
LEMMA CutInside ==
  ASSUME IInv, SInv, WantsMore, PGS_IN = <<>>
  PROVE  halved /\ \A j \in DOMAIN ends : sent # ends[j]
<1> DEFINE i == Len(served) + 1
           n == Len(ends)
<1>1. pc = "reading" /\ need > 0 /\ Remaining(recv) <= 0
  BY DEF WantsMore
<1>2. /\ Reached \in Nat /\ Len(msg) \in Nat /\ Taken = Reached + Len(msg) /\ Seen = Taken + Remaining(recv)
      /\ Remaining(recv) \in Nat /\ need \in Nat /\ i \in 1 .. n /\ ends \in Requests
      /\ Len(msg) + need = Length(i) /\ Seen + Len(PGS_IN) = sent
      /\ (msg # <<>> \/ Remaining(recv) > 0)
  BY <1>1, ReadingFacts
<1>3. Len(msg) > 0 /\ sent = Reached + Len(msg)
  <2>1. msg # <<>>
    BY <1>1, <1>2
  <2>2. msg \in Bytes
    BY DEF SInv, MessagesOK
  <2>3. Len(msg) # 0
    BY <2>1, <2>2 DEF Bytes
  <2>4. Len(PGS_IN) = 0
    OBVIOUS
  <2> QED
    BY <1>1, <1>2, <2>3, <2>4
<1>4. /\ n \in Nat \ {0} /\ DOMAIN ends = 1 .. n
      /\ \A j \in 1 .. n + 1 : Offset(j) \in Nat
      /\ \A j, k \in 1 .. n + 1 : j < k => Offset(j) < Offset(k)
      /\ \A j \in 1 .. n : Offset(j + 1) = ends[j] /\ Offset(j) + Length(j) = ends[j]
  BY <1>2, RequestType, OffsetType
<1>5. Reached = Offset(i)
  BY DEF Reached
<1> DEFINE length == Len(msg)
<1> HIDE DEF i, n
<1>9. i \in 1 .. n /\ n \in Nat /\ i \in 1 .. n + 1 /\ i + 1 \in 1 .. n + 1 /\ sent \in Nat
  <2>1. length \in Nat /\ Reached \in Nat /\ sent = Reached + length
    BY <1>2, <1>3
  <2>2. i \in 1 .. n /\ n \in Nat
    BY <1>2, <1>4
  <2> HIDE DEF length
  <2> QED
    BY <2>1, <2>2
<1>6. Offset(i) < sent /\ sent < Offset(i + 1) /\ i \in 1 .. n + 1 /\ i + 1 \in 1 .. n + 1
  <2>1. /\ length \in Nat /\ length > 0 /\ need \in Nat /\ need > 0 /\ sent = Offset(i) + length
        /\ length + need = Length(i)
    BY <1>1, <1>2, <1>3, <1>5
  <2>2. Offset(i) \in Nat /\ Offset(i) + Length(i) = Offset(i + 1)
    BY <1>4, <1>9
  <2> HIDE DEF length
  <2> QED
    BY <1>9, <2>1, <2>2
<1>7. ASSUME NEW j \in 1 .. n PROVE sent # ends[j]
  <2>1. j + 1 \in 1 .. n + 1 /\ Offset(j + 1) = ends[j] /\ sent \in Nat
    BY <1>4, <1>9
  <2>2. CASE j + 1 <= i
    <3>1. Offset(j + 1) <= Offset(i)
      <4>1. CASE j + 1 = i
        BY <1>4, <1>6, <4>1
      <4>2. CASE j + 1 < i
        BY <1>4, <1>6, <2>1, <4>2
      <4> QED
        BY <1>6, <2>2, <4>1, <4>2
    <3> QED
      BY <1>4, <1>6, <2>1, <3>1
  <2>3. CASE i + 1 <= j + 1
    <3>1. Offset(i + 1) <= Offset(j + 1)
      <4>1. CASE i = j
        BY <1>4, <1>6, <4>1
      <4>2. CASE i < j
        <5>1. i + 1 < j + 1
          BY <1>6, <4>2
        <5> QED
          BY <1>4, <1>6, <2>1, <5>1
      <4> QED
        BY <1>6, <2>3, <4>1, <4>2
    <3> QED
      BY <1>4, <1>6, <2>1, <3>1
  <2> QED
    BY <1>9, <2>2, <2>3
<1>8. halved \/ \E j \in DOMAIN ends : sent = ends[j]
  BY <1>1 DEF SInv, SentOK
<1> QED
  BY <1>4, <1>7, <1>8

\* The next part of an open file.
LEMMA RefillOpen ==
  ASSUME IInv, SInv, Refill, recv.fp = "open"
  PROVE  SInv'
<1> DEFINE got  == Got(RecvSize)
           left == Len(PGS_IN)
           i    == Len(served) + 1
<1>1. /\ pc = "reading" /\ Remaining(recv) <= 0 /\ WantsMore
      /\ ends' = ends /\ sent' = sent /\ msg' = msg /\ need' = need /\ served' = served
      /\ halved' = halved /\ skipped' = skipped /\ send' = send /\ cma_rsize' = cma_rsize
      /\ recv' = Refilled(recv, got) /\ memory' = Written(memory, recv.buf, 0, SubSeq(PGS_IN, 1, got))
      /\ PGS_IN' = SubSeq(PGS_IN, got + 1, left) /\ pc' = IF got > 0 THEN "reading" ELSE "stale"
  BY DEF Refill, WantsMore, host, sizes, history, faults
<1>2. /\ Streaming /\ Reached \in Nat /\ Len(msg) \in Nat /\ Taken = Reached + Len(msg) /\ Taken \in Nat
      /\ Remaining(recv) = 0 /\ Seen = Taken /\ left \in Nat /\ PGS_IN \in Bytes
      /\ recv \in RecvType /\ Carries(PGS_IN, Taken) /\ Taken + left = sent
  <2>1. /\ Streaming /\ Reached \in Nat /\ Len(msg) \in Nat /\ Taken = Reached + Len(msg) /\ Taken \in Nat
        /\ Remaining(recv) \in Nat /\ Seen = Taken + Remaining(recv) /\ left \in Nat /\ PGS_IN \in Bytes
        /\ recv \in RecvType /\ Carries(PGS_IN, Seen) /\ Seen + left = sent
    BY <1>1, ReadingFacts
  <2>2. Remaining(recv) = 0 /\ Seen = Taken
    BY <1>1, <2>1
  <2> QED
    BY <2>1, <2>2
<1>3. MemOK(memory) /\ recv.buf \in {"cma", "static"} /\ RecvSize \in Nat \ {0} /\ recv.querylen = left
  <2>1. MemOK(memory) /\ recv.buf \in {"cma", "static"}
    BY DEF IInv, Typed, RecvOK, RecvType
  <2>2. recv.querylen = left
    BY DEF IInv, Typed, FilesOK, FileOK
  <2> QED
    BY <2>1, <2>2, BufferAssumption DEF BufferAssumption
<1>4. PGS_IN # <<>> /\ left > 0
  <2>1. PGS_IN # <<>>
    BY DEF SInv, RememberedOK
  <2> QED
    BY <1>2, <2>1 DEF Bytes
<1>5. /\ got \in Nat \ {0} /\ got <= RecvSize /\ got <= left
      /\ got < left => got = RecvSize
  <2>1. got \in {RecvSize, left} /\ got <= RecvSize /\ got <= left
    <3>1. RecvSize \in Int /\ left \in Int
      BY <1>2, <1>3
    <3> HIDE DEF left
    <3>2. Min({RecvSize, left}) \in {RecvSize, left} /\ Min({RecvSize, left}) <= RecvSize /\ Min({RecvSize, left}) <= left
      BY <3>1, MinOfTwo
    <3>3. got = Min({RecvSize, left})
      BY DEF Got, left
    <3> QED
      BY <3>2, <3>3
  <2> HIDE DEF got, left
  <2>2. got = RecvSize \/ got = left
    BY <2>1
  <2> QED
    BY <1>2, <1>3, <1>4, <2>1, <2>2
<1> HIDE DEF got
<1>6. /\ recv'.ptr = 0 /\ recv'.len = got /\ recv'.buf = recv.buf /\ recv'.reading = recv.reading
      /\ recv'.fp = IF left > got THEN "open" ELSE "none"
  BY <1>1, <1>2, <1>3, RefilledFields
<1>7. pc' = "reading" /\ Remaining(recv') = got /\ Remaining(recv') > 0
  BY <1>1, <1>5, <1>6 DEF Remaining
<1>8. /\ Carries(PGS_IN', Taken + got) /\ Len(PGS_IN') = left - got
      /\ (left > got <=> PGS_IN' # <<>>)
  <2>1. /\ Carries(SubSeq(PGS_IN, got + 1, Len(PGS_IN)), Taken + got)
        /\ Len(SubSeq(PGS_IN, got + 1, Len(PGS_IN))) = Len(PGS_IN) - got
    BY <1>2, <1>5, RestCarries
  <2>2. Carries(PGS_IN', Taken + got) /\ Len(PGS_IN') = left - got
    BY <1>1, <2>1
  <2>3. PGS_IN' \in Bytes
    BY <1>1, <1>2, <1>5, PartType
  <2>4. PGS_IN' # <<>> <=> Len(PGS_IN') # 0
    BY <2>3 DEF Bytes
  <2> HIDE DEF left
  <2> QED
    BY <1>2, <1>5, <2>2, <2>4
<1>9. Holds(memory', recv'.buf, 0, Taken, got)
  <2>1. 1 .. got \subseteq DOMAIN memory[recv.buf]
    <3>1. 1 .. got \subseteq 1 .. RecvSize
      BY <1>3, <1>5
    <3> QED
      BY <1>3, <3>1, AreaSize
  <2>2. Holds(Written(memory, recv.buf, 0, SubSeq(PGS_IN, 1, got)), recv.buf, 0, Taken, got)
    BY <1>2, <1>3, <1>5, <2>1, WrittenHolds
  <2> QED
    BY <1>1, <1>6, <2>2
<1>10. Taken' = Taken /\ Seen' = Taken + got
  <2>1. Taken' = Taken
    BY <1>1, <1>7 DEF Taken, Offset
  <2> QED
    BY <1>7, <2>1 DEF Seen
<1> HIDE DEF left
<1>11. Streaming' /\ ~Untouched'
  BY <1>7 DEF Streaming, Untouched
<1>12. MessagesOK' /\ SentOK' /\ IdleOK' /\ EndOK'
  BY <1>1, <1>7 DEF SInv, MessagesOK, SentOK, IdleOK, EndOK
<1>13. RememberedOK'
  BY <1>1, <1>6, <1>7, <1>8 DEF RememberedOK
<1>14. UntouchedOK' /\ PlaceOK'
  <2>1. ~send.sockfiles => recv.buf = "cma" /\ cma_rsize = sent /\ send.base = sent + 2
    BY <1>2 DEF SInv, PlaceOK
  <2>2. got <= sent
    BY <1>2, <1>5
  <2> QED
    BY <1>1, <1>6, <1>7, <1>11, <2>1, <2>2 DEF UntouchedOK, PlaceOK
<1>15. StreamOK'
  <2>1. Seen' + Len(PGS_IN') = sent'
    BY <1>1, <1>2, <1>5, <1>8, <1>10
  <2> QED
    BY <1>6, <1>7, <1>8, <1>9, <1>10, <2>1 DEF StreamOK
<1>16. WholeBuffers'
  <2>1. PICK q \in Nat : sent > RecvSize /\ Taken = q * RecvSize
    BY <1>2, <1>4 DEF SInv, WholeBuffers
  <2>2. ASSUME PGS_IN' # <<>> PROVE sent' > RecvSize /\ Seen' = (q + 1) * RecvSize
    <3>1. got = RecvSize
      BY <1>2, <1>5, <1>8, <2>2
    <3>2. (q + 1) * RecvSize = q * RecvSize + RecvSize
      BY <1>3
    <3> QED
      BY <1>1, <1>10, <2>1, <3>1, <3>2
  <2>3. q + 1 \in Nat
    OBVIOUS
  <2> QED
    BY <2>2, <2>3 DEF WholeBuffers
<1>17. MessageOK'
  BY <1>1, <1>7 DEF SInv, MessageOK, Length, Offset
<1>18. MessagesIntact' /\ ServedUnlessCut' /\ ProtocolKept'
  <2>1. MessagesIntact'
    BY <1>1, <1>7 DEF SInv, MessagesIntact, Message, Length, Offset
  <2> QED
    BY <1>7, <2>1 DEF ServedUnlessCut, ProtocolKept
<1> QED
  BY <1>12, <1>13, <1>14, <1>15, <1>16, <1>17, <1>18 DEF SInv

LEMMA RefillStream ==
  ASSUME IInv, SInv, Refill
  PROVE  SInv'
<1>1. CASE recv.fp = "open"
  BY <1>1, RefillOpen
<1>2. CASE recv.fp # "open"
  <2>1. /\ pc = "reading" /\ pc' = "stale" /\ recv.fp # "none" /\ WantsMore
        /\ ends' = ends /\ sent' = sent /\ msg' = msg /\ served' = served
        /\ halved' = halved /\ skipped' = skipped
        /\ recv' = Refilled(recv, 0) /\ PGS_IN' = SubSeq(PGS_IN, 1, Len(PGS_IN))
    BY <1>2 DEF Refill, WantsMore, HasFile, host, sizes, history, faults
  <2>2. PGS_IN = <<>>
    BY <1>2, <2>1 DEF SInv, RememberedOK
  <2>3. halved
    BY <2>1, <2>2, CutInside
  <2>4. recv \in RecvType /\ recv.fp = "closed"
    BY <1>2, <2>1 DEF IInv, Typed, RecvOK, RecvType
  <2>5. skipped
    BY <2>4 DEF SInv, RememberedOK
  <2>6. PGS_IN' = <<>>
    <3>1. PGS_IN \in Seq(Byte)
      BY DEF IInv, Typed, FilesOK, Bytes
    <3> QED
      BY <2>1, <2>2, <3>1, SubSeqFull
  <2>7. recv'.fp \in {"closed", "none"}
    BY <2>1, <2>4, RefilledFields
  <2>8. MessagesOK' /\ SentOK' /\ IdleOK' /\ EndOK' /\ MessageOK'
    BY <2>1 DEF SInv, MessagesOK, SentOK, IdleOK, EndOK, MessageOK
  <2>9. RememberedOK'
    BY <2>1, <2>3, <2>5, <2>6, <2>7 DEF RememberedOK
  <2>10. UntouchedOK' /\ PlaceOK' /\ StreamOK' /\ WholeBuffers'
    BY <2>1 DEF UntouchedOK, PlaceOK, StreamOK, WholeBuffers, Untouched, Streaming
  <2>11. MessagesIntact' /\ ServedUnlessCut' /\ ProtocolKept'
    BY <2>1, <2>3, <2>5 DEF MessagesIntact, ServedUnlessCut, ProtocolKept
  <2> QED
    BY <2>8, <2>9, <2>10, <2>11 DEF SInv
<1> QED
  BY <1>1, <1>2

LEMMA EndOfFileStream ==
  ASSUME IInv, SInv, EndOfFile
  PROVE  SInv'
<1>1. /\ pc = "reading" /\ pc' = "ended" /\ WantsMore /\ ~HasFile
      /\ ends' = ends /\ sent' = sent /\ msg' = msg /\ served' = served
      /\ halved' = halved /\ skipped' = skipped /\ send' = send /\ cma_rsize' = cma_rsize
      /\ recv' = [recv EXCEPT !.ptr = 0, !.len = 0] /\ PGS_IN' = PGS_IN
  BY DEF EndOfFile, WantsMore, host, sizes, history, faults
<1>2. recv \in RecvType /\ PGS_IN \in Bytes
  BY DEF IInv, Typed, FilesOK, RecvOK
<1>3. PGS_IN = <<>> /\ recv.fp # "open"
  <2>1. CASE recv.fp = "open"
    <3>1. recv.querylen = Len(PGS_IN) /\ recv.querylen = 0
      BY <1>1, <2>1 DEF IInv, Typed, FilesOK, FileOK, HasFile
    <3>2. PGS_IN # <<>>
      BY <2>1 DEF SInv, RememberedOK
    <3>3. Len(PGS_IN) # 0
      BY <1>2, <3>2 DEF Bytes
    <3> QED
      BY <3>1, <3>3
  <2>2. CASE recv.fp # "open"
    BY <1>1, <2>2 DEF SInv, RememberedOK
  <2> QED
    BY <2>1, <2>2
<1>4. halved /\ \A j \in DOMAIN ends : sent # ends[j]
  BY <1>1, <1>3, CutInside
<1>5. /\ recv'.ptr = 0 /\ recv'.len = 0 /\ recv'.buf = recv.buf /\ recv'.fp = recv.fp
      /\ Remaining(recv') = 0
  BY <1>1, <1>2 DEF RecvType, Remaining
<1>6. MessagesOK' /\ SentOK' /\ IdleOK' /\ MessageOK'
  BY <1>1 DEF SInv, MessagesOK, SentOK, IdleOK, MessageOK
<1>7. EndOK'
  BY <1>1, <1>4, <1>5 DEF EndOK
<1>8. RememberedOK'
  BY <1>1, <1>3, <1>4, <1>5 DEF SInv, RememberedOK
<1>9. UntouchedOK' /\ StreamOK' /\ WholeBuffers'
  BY <1>1 DEF UntouchedOK, StreamOK, WholeBuffers, Untouched, Streaming
<1>10. PlaceOK'
  <2>1. ~send.sockfiles => recv.buf = "cma" /\ cma_rsize = sent /\ send.base = sent + 2
    BY <1>1 DEF SInv, PlaceOK, Streaming, Untouched
  <2>2. 0 <= sent
    BY <1>1, ReachedType
  <2> QED
    BY <1>1, <1>5, <2>1, <2>2 DEF PlaceOK
<1>11. MessagesIntact' /\ ServedUnlessCut' /\ ProtocolKept'
  <2>1. MessagesIntact'
    BY <1>1 DEF SInv, MessagesIntact, Message, Length, Offset
  <2> QED
    BY <1>1, <2>1 DEF ServedUnlessCut, ProtocolKept
<1> QED
  BY <1>6, <1>7, <1>8, <1>9, <1>10, <1>11 DEF SInv

LEMMA ServeStream ==
  ASSUME IInv, SInv, Serve
  PROVE  SInv'
<1> DEFINE i == Len(served) + 1
           n == Len(ends)
<1>1. /\ pc = "reading" /\ pc' = "serving" /\ need = 0
      /\ ends' = ends /\ sent' = sent /\ msg' = msg /\ served' = Append(served, msg)
      /\ halved' = halved /\ skipped' = skipped /\ send' = send /\ cma_rsize' = cma_rsize
      /\ recv' = [recv EXCEPT !.reading = FALSE] /\ PGS_IN' = PGS_IN /\ memory' = memory
  BY DEF Serve, host, sizes, faults
<1>2. /\ Streaming /\ Reached \in Nat /\ Len(msg) \in Nat /\ Taken = Reached + Len(msg) /\ Taken \in Nat
      /\ Seen = Taken + Remaining(recv) /\ Remaining(recv) \in Nat /\ ends \in Requests
      /\ i \in 1 .. n /\ Len(msg) + need = Length(i) /\ Carries(msg, Reached)
      /\ Len(PGS_IN) \in Nat /\ Seen + Len(PGS_IN) = sent /\ recv \in RecvType
      /\ Holds(memory, recv.buf, recv.ptr, Taken, Remaining(recv)) /\ Carries(PGS_IN, Seen)
  BY <1>1, ReadingFacts
<1>3. served \in Seq(Bytes) /\ msg \in Bytes /\ Len(served) \in Nat
  BY DEF SInv, MessagesOK
<1>4. /\ Len(served') = i /\ served' \in Seq(Bytes) /\ DOMAIN served' = 1 .. i
      /\ served'[i] = msg /\ \A j \in DOMAIN served : served'[j] = served[j]
      /\ \A j \in 1 .. i : j # i => j \in DOMAIN served
  <2>1. DOMAIN served = 1 .. Len(served)
    BY <1>3
  <2>2. \A j \in 1 .. i : j # i => j \in 1 .. Len(served)
    BY <1>3
  <2> QED
    BY <1>1, <1>3, <2>1, <2>2, AppendProperties
<1>5. Offset(i) = Reached /\ Offset(i + 1) = ends[i] /\ Offset(i) + Length(i) = ends[i] /\ n \in Nat
  BY <1>2, RequestType, OffsetType DEF Reached
<1>6. Len(msg) = Length(i) /\ Taken = ends[i] /\ ends[i] <= sent
  BY <1>1, <1>2, <1>5
<1>7. msg = Message(i)
  <2>1. msg = [k \in 1 .. Len(msg) |-> msg[k]]
    BY <1>3 DEF Bytes
  <2>2. \A k \in 1 .. Len(msg) : msg[k] = <<1, Offset(i) + k>>
    BY <1>2, <1>5 DEF Carries
  <2> QED
    BY <1>6, <2>1, <2>2 DEF Message
<1>8. /\ recv'.ptr = recv.ptr /\ recv'.len = recv.len /\ recv'.buf = recv.buf /\ recv'.fp = recv.fp
      /\ recv'.reading = FALSE /\ Remaining(recv') = Remaining(recv)
  BY <1>1, <1>2 DEF RecvType, Remaining
<1>9. Streaming' /\ ~Untouched'
  BY <1>1 DEF Streaming, Untouched
<1>10. Taken' = Taken /\ Seen' = Seen
  <2>1. Taken' = Offset(i + 1) + 0
    BY <1>1, <1>4 DEF Taken, Offset
  <2>2. Taken' = Taken
    BY <1>2, <1>5, <1>6, <2>1
  <2> QED
    BY <1>8, <2>2 DEF Seen
<1>11. MessagesOK' /\ SentOK' /\ IdleOK' /\ EndOK' /\ MessageOK'
  BY <1>1, <1>3, <1>4 DEF SInv, MessagesOK, SentOK, IdleOK, EndOK, MessageOK
<1>12. RememberedOK' /\ UntouchedOK' /\ PlaceOK'
  BY <1>1, <1>2, <1>8, <1>9 DEF SInv, RememberedOK, UntouchedOK, PlaceOK
<1>13. StreamOK' /\ WholeBuffers'
  BY <1>1, <1>2, <1>8, <1>10 DEF SInv, StreamOK, WholeBuffers
<1>14. MessagesIntact'
  <2>1. i <= n
    BY <1>2, <1>5
  <2>2. \A j \in DOMAIN served : served[j] = Message(j) /\ ends[j] <= sent
    BY <1>1 DEF SInv, MessagesIntact
  <2>3. ASSUME NEW j \in 1 .. i PROVE served'[j] = Message(j) /\ ends[j] <= sent
    BY <1>4, <1>6, <1>7, <2>2
  <2> QED
    BY <1>1, <1>4, <2>1, <2>3 DEF MessagesIntact, Message, Length, Offset
<1>15. ServedUnlessCut' /\ ProtocolKept'
  BY <1>1 DEF ServedUnlessCut, ProtocolKept
<1> QED
  BY <1>11, <1>12, <1>13, <1>14, <1>15 DEF SInv

\* A reply is written behind the request, or to the reply file.
LEMMA PutAside ==
  ASSUME IInv, NEW bytes \in Bytes, NEW end \in Nat,
         ~send.sockfiles => send.base = end + 2
  PROVE  /\ Put(send, bytes).base = send.base
         /\ send.sockfiles => Put(send, bytes).sockfiles
         /\ send.sockfiles => \A a \in {"cma", "static"} : \A i \in DOMAIN memory[a] :
                                PutMemory(send, bytes)[a][i] = memory[a][i]
         /\ \A i \in 1 .. end : i \in DOMAIN memory["cma"]
                                  => PutMemory(send, bytes)["cma"][i] = memory["cma"][i]
<1>1. send \in SendType /\ MemOK(memory) /\ send.sockfiles \in BOOLEAN /\ send.ptr \in Nat /\ send.base \in Int
  BY BufferAssumption DEF IInv, Typed, SendOK, SendType, BufferAssumption
<1>2. Put(send, bytes).base = send.base /\ (send.sockfiles => Put(send, bytes).sockfiles)
  BY <1>1 DEF Put, SendType
<1> DEFINE here == InMemory(send, bytes)
<1>3. here \in Bytes
  <2> DEFINE n == Min({Len(bytes), Room(send)})
  <2>1. Len(bytes) \in Nat
    BY DEF Bytes
  <2>2. Room(send) \in Nat
    BY <1>1, RoomType DEF IInv, Typed
  <2>3. n \in Nat /\ n <= Len(bytes)
    <3> DEFINE length == Len(bytes)
               room   == Room(send)
    <3>1. length \in Nat /\ room \in Nat /\ length \in Int /\ room \in Int
      BY <2>1, <2>2
    <3> HIDE DEF length, room
    <3>2. Min({length, room}) \in {length, room} /\ Min({length, room}) <= length
      BY <3>1, MinOfTwo
    <3>3. Min({length, room}) \in Nat
      BY <3>1, <3>2
    <3> QED
      BY <3>2, <3>3 DEF length, room
  <2> HIDE DEF n
  <2>4. here = SubSeq(bytes, 1, n)
    BY DEF InMemory, n
  <2> QED
    BY <2>3, <2>4, PartType
<1>4. ASSUME send.sockfiles, NEW a \in {"cma", "static"}, NEW i \in DOMAIN memory[a]
      PROVE  PutMemory(send, bytes)[a][i] = memory[a][i]
  <2>1. here = <<>>
    <3>1. Room(send) = 0
      BY <1>4 DEF Room
    <3>2. Len(bytes) \in Nat
      BY DEF Bytes
    <3> DEFINE length == Len(bytes)
    <3>3. Min({length, 0}) = 0
      <4>1. length \in Nat /\ length \in Int /\ 0 \in Int
        BY <3>2
      <4> HIDE DEF length
      <4>2. Min({length, 0}) \in {length, 0} /\ Min({length, 0}) <= 0
        BY <4>1, MinOfTwo
      <4> QED
        BY <4>1, <4>2
    <3>4. here = SubSeq(bytes, 1, 0)
      BY <3>1, <3>3 DEF InMemory
    <3> QED
      BY <3>4, SubSeqEmpty
  <2> DEFINE at == send.base + send.ptr - 1
  <2>2. PutMemory(send, bytes) = Written(memory, "cma", at, <<>>)
    BY <2>1 DEF PutMemory
  <2>3. at \in Int
    BY <1>1
  <2> HIDE DEF at
  <2>4. at + 1 .. at + Len(<<>>) = {}
    <3>1. at + 1 .. at + 0 = {}
      BY <2>3
    <3>2. Len(<<>>) = 0
      OBVIOUS
    <3> QED
      BY <3>1, <3>2
  <2>5. <<>> \in Bytes
    BY DEF Bytes
  <2>6. Written(memory, "cma", at, <<>>)[a][i] = memory[a][i]
    BY <1>1, <1>4, <2>3, <2>4, <2>5, WrittenAt
  <2> QED
    BY <2>2, <2>6
<1>5. ASSUME NEW i \in 1 .. end, i \in DOMAIN memory["cma"], ~send.sockfiles
      PROVE  PutMemory(send, bytes)["cma"][i] = memory["cma"][i]
  <2> DEFINE at == send.base + send.ptr - 1
             last == at + Len(here)
  <2>1. at \in Int /\ i < at + 1 /\ PutMemory(send, bytes) = Written(memory, "cma", at, here)
    BY <1>1, <1>5 DEF PutMemory
  <2>2. i \notin at + 1 .. last
    BY <2>1
  <2> HIDE DEF at, here
  <2>3. Written(memory, "cma", at, here)["cma"][i] = memory["cma"][i]
    BY <1>1, <1>3, <1>5, <2>1, <2>2, WrittenAt
  <2> QED
    BY <2>1, <2>3
<1> QED
  BY <1>1, <1>2, <1>4, <1>5

LEMMA ReplyStream ==
  ASSUME IInv, SInv, Reply
  PROVE  SInv'
<1>1. PICK n \in PutSizes :
        /\ send' = Put(send, ReplyBytes(emitted, n)) /\ memory' = PutMemory(send, ReplyBytes(emitted, n))
  BY DEF Reply
<1>2. /\ pc \in {"serving", "flush"} /\ pc' = pc
      /\ ends' = ends /\ sent' = sent /\ msg' = msg /\ served' = served
      /\ halved' = halved /\ skipped' = skipped /\ cma_rsize' = cma_rsize
      /\ recv' = recv /\ PGS_IN' = PGS_IN
  BY DEF Reply, host, sizes, faults
<1>3. Streaming /\ Streaming' /\ ~Untouched'
  BY <1>2 DEF Streaming, Untouched
<1>4. /\ Reached \in Nat /\ Taken = Reached /\ Seen = Taken + Remaining(recv) /\ sent \in Nat
      /\ Seen + Len(PGS_IN) = sent /\ Holds(memory, recv.buf, recv.ptr, Taken, Remaining(recv))
      /\ Carries(PGS_IN, Seen)
  <2>1. Reached \in Nat /\ sent \in Nat
    BY <1>2, ReachedType
  <2>2. Taken = Reached + 0
    BY <1>2 DEF Taken, Reached
  <2> QED
    BY <1>3, <2>1, <2>2 DEF SInv, StreamOK, Seen
<1>5. ~send.sockfiles => /\ recv.buf = "cma" /\ recv.len <= sent
                         /\ cma_rsize = sent /\ send.base = sent + 2
  BY <1>3 DEF SInv, PlaceOK
<1> DEFINE bytes == ReplyBytes(emitted, n)
<1>6. bytes \in Bytes
  <2>1. n \in Nat /\ emitted \in Nat
    BY BufferAssumption DEF BufferAssumption, IInv, Typed, ControlOK
  <2> QED
    BY <2>1, BytesType
<1>7. send' = Put(send, bytes) /\ memory' = PutMemory(send, bytes)
  BY <1>1
<1> HIDE DEF bytes
<1>8. /\ send'.base = send.base
      /\ send.sockfiles => send'.sockfiles
      /\ send.sockfiles => \A a \in {"cma", "static"} : \A i \in DOMAIN memory[a] :
                             memory'[a][i] = memory[a][i]
      /\ \A i \in 1 .. sent : i \in DOMAIN memory["cma"] => memory'["cma"][i] = memory["cma"][i]
  BY <1>4, <1>5, <1>6, <1>7, PutAside
<1>9. Holds(memory', recv.buf, recv.ptr, Taken, Remaining(recv))
  <2>1. CASE send.sockfiles
    <3> DEFINE left == Remaining(recv)
               ptr  == recv.ptr
               len  == recv.len
               a    == recv.buf
    <3>1. /\ ptr \in Nat /\ len \in Nat /\ len \in 0 .. CmaEnd - 1 /\ left = len - ptr /\ CmaEnd \in Nat
          /\ a \in {"cma", "static"} /\ (a = "static" => len <= RecvSize) /\ RecvSize \in Nat
      BY BufferAssumption DEF IInv, Typed, RecvOK, RecvType, Remaining, BufferAssumption
    <3>2. /\ DOMAIN memory["cma"] = 1 .. MemEnd /\ MemEnd \in Nat /\ CmaEnd <= MemEnd
          /\ 1 .. RecvSize \subseteq DOMAIN memory[a]
      BY <3>1, AreaSize DEF IInv, Typed
    <3>3. \A j \in 1 .. left : memory[a][ptr + j] = <<1, Taken + j>>
      BY <1>4 DEF Holds
    <3> HIDE DEF left, ptr, len, a
    <3>4. \A j \in 1 .. left : ptr + j \in DOMAIN memory[a]
      <4>1. CASE a = "cma"
        BY <3>1, <3>2, <4>1
      <4>2. CASE a = "static"
        BY <3>1, <3>2, <4>2
      <4> QED
        BY <3>1, <4>1, <4>2
    <3>5. \A j \in 1 .. left : memory'[a][ptr + j] = memory[a][ptr + j]
      BY <1>8, <2>1, <3>1, <3>4
    <3>6. Holds(memory', a, ptr, Taken, left)
      BY <3>3, <3>5 DEF Holds
    <3> QED
      BY <3>6 DEF left, ptr, a
  <2>2. CASE ~send.sockfiles
    <3> DEFINE left == Remaining(recv)
               ptr  == recv.ptr
               len  == recv.len
    <3>1. /\ ptr \in Nat /\ len \in Nat /\ len \in 0 .. CmaEnd - 1 /\ left = len - ptr /\ CmaEnd \in Nat
          /\ len <= sent /\ sent \in Nat /\ ptr <= len
      BY <1>4, <1>5, <2>2, BufferAssumption DEF IInv, Typed, RecvOK, RecvType, Remaining, BufferAssumption
    <3>2. DOMAIN memory["cma"] = 1 .. MemEnd /\ MemEnd \in Nat /\ CmaEnd <= MemEnd
      BY AreaSize DEF IInv, Typed
    <3> HIDE DEF left, ptr, len
    <3>3. \A j \in 1 .. left : ptr + j \in 1 .. sent /\ ptr + j \in 1 .. MemEnd
      BY <3>1, <3>2
    <3>4. \A j \in 1 .. left : memory'["cma"][ptr + j] = memory["cma"][ptr + j]
      BY <1>8, <3>2, <3>3
    <3>5. \A j \in 1 .. left : memory["cma"][ptr + j] = <<1, Taken + j>>
      BY <1>4, <1>5, <2>2 DEF Holds, left, ptr
    <3>6. Holds(memory', "cma", ptr, Taken, left)
      BY <3>4, <3>5 DEF Holds
    <3> QED
      BY <1>5, <2>2, <3>6 DEF ptr, left
  <2> QED
    BY <2>1, <2>2
<1>10. Taken' = Taken /\ Seen' = Seen
  BY <1>2 DEF Taken, Seen, Offset
<1>11. MessagesOK' /\ SentOK' /\ IdleOK' /\ EndOK' /\ MessageOK' /\ RememberedOK'
  BY <1>2 DEF SInv, MessagesOK, SentOK, IdleOK, EndOK, MessageOK, RememberedOK
<1>12. UntouchedOK' /\ PlaceOK'
  <2>1. ~send'.sockfiles => ~send.sockfiles
    BY <1>8
  <2> QED
    BY <1>2, <1>3, <1>5, <1>8, <2>1 DEF UntouchedOK, PlaceOK
<1>13. StreamOK' /\ WholeBuffers'
  BY <1>2, <1>3, <1>4, <1>9, <1>10 DEF SInv, StreamOK, WholeBuffers
<1>14. MessagesIntact' /\ ServedUnlessCut' /\ ProtocolKept'
  <2>1. MessagesIntact'
    BY <1>2 DEF SInv, MessagesIntact, Message, Length, Offset
  <2> QED
    BY <1>2, <2>1 DEF ServedUnlessCut, ProtocolKept
<1> QED
  BY <1>11, <1>12, <1>13, <1>14 DEF SInv

LEMMA EndMessageStream ==
  ASSUME IInv, SInv, EndMessage
  PROVE  SInv'
<1>1. /\ pc = "serving" /\ pc' = IF More(recv) THEN "loop" ELSE "flush"
      /\ ends' = ends /\ sent' = sent /\ msg' = msg /\ served' = served
      /\ halved' = halved /\ skipped' = skipped /\ send' = send /\ cma_rsize' = cma_rsize
      /\ recv' = recv /\ PGS_IN' = PGS_IN /\ memory' = memory
  BY DEF EndMessage, host, sizes, history, faults
<1>2. Remaining(recv) \in Nat
  BY DEF IInv, Typed, RecvOK, RecvType, Remaining
<1>3. pc' = "loop" => Remaining(recv) # 0
  BY <1>1 DEF More
<1>4. pc' = "flush" => Remaining(recv) = 0
  BY <1>1, <1>2 DEF More
<1>5. Streaming /\ Streaming' /\ ~Untouched' /\ pc' \in {"loop", "flush"}
  BY <1>1, <1>3 DEF Streaming, Untouched
<1>6. Taken' = Taken /\ Seen' = Seen
  BY <1>1, <1>5 DEF Taken, Seen, Offset
<1>7. MessagesOK' /\ SentOK' /\ IdleOK' /\ EndOK' /\ MessageOK' /\ RememberedOK'
  BY <1>1, <1>4, <1>5 DEF SInv, MessagesOK, SentOK, IdleOK, EndOK, MessageOK, RememberedOK
<1>8. UntouchedOK' /\ PlaceOK'
  <2>1. ~send.sockfiles => /\ recv.buf = "cma" /\ recv.len <= sent /\ cma_rsize = sent
                           /\ send.base = sent + 2
    BY <1>5 DEF SInv, PlaceOK
  <2>2. sent \in Nat \ {0}
    BY <1>1, ReachedType
  <2>3. ~send.sockfiles => cma_rsize > 0
    BY <2>1, <2>2
  <2> QED
    BY <1>1, <1>5, <2>1, <2>3 DEF UntouchedOK, PlaceOK
<1>9. StreamOK' /\ WholeBuffers'
  BY <1>1, <1>5, <1>6 DEF SInv, StreamOK, WholeBuffers
<1>10. MessagesIntact' /\ ServedUnlessCut' /\ ProtocolKept'
  <2>1. MessagesIntact'
    BY <1>1 DEF SInv, MessagesIntact, Message, Length, Offset
  <2> QED
    BY <1>5, <2>1 DEF ServedUnlessCut, ProtocolKept
<1> QED
  BY <1>7, <1>8, <1>9, <1>10 DEF SInv

LEMMA MultipleRemainder ==
  ASSUME NEW q \in Nat, NEW n \in Nat \ {0}
  PROVE  (q * n) % n = 0
OBVIOUS

LEMMA LeaveStream ==
  ASSUME IInv, SInv, Leave
  PROVE  SInv'
<1>1. /\ pc \in {"flush", "ended"} /\ pc' = "returned"
      /\ ends' = ends /\ sent' = sent /\ msg' = msg /\ served' = served /\ halved' = halved
      /\ skipped' = (skipped \/ PGS_IN # <<>>) /\ PGS_IN' = <<>>
      /\ recv' = [recv EXCEPT !.fp = IF @ = "open" THEN "closed" ELSE @]
  BY DEF Leave
<1>2. recv \in RecvType /\ PGS_IN \in Bytes
  BY DEF IInv, Typed, FilesOK, RecvOK
<1>3. /\ recv'.ptr = recv.ptr /\ recv'.len = recv.len /\ recv'.reading = recv.reading
      /\ recv'.fp = IF recv.fp = "open" THEN "closed" ELSE recv.fp
      /\ Remaining(recv') = Remaining(recv)
  BY <1>1, <1>2 DEF RecvType, Remaining
<1>4. Remaining(recv) = 0
  BY <1>1 DEF SInv, EndOK
<1>5. MessagesOK' /\ SentOK' /\ IdleOK' /\ EndOK' /\ MessageOK'
  BY <1>1, <1>3, <1>4 DEF SInv, MessagesOK, SentOK, IdleOK, EndOK, MessageOK
<1>6. RememberedOK'
  <2>1. recv.reading => halved
    BY <1>1 DEF SInv, RememberedOK
  <2>2. (recv.fp = "closed" => skipped) /\ (recv.fp = "open" => PGS_IN # <<>>)
    BY DEF SInv, RememberedOK
  <2>3. recv'.reading => halved'
    BY <1>1, <1>3, <2>1
  <2>4. recv'.fp # "open"
    BY <1>3
  <2>5. recv'.fp = "closed" => skipped'
    BY <1>1, <1>3, <2>2
  <2> QED
    BY <1>1, <2>3, <2>4, <2>5 DEF RememberedOK
<1>7. UntouchedOK' /\ PlaceOK' /\ StreamOK' /\ WholeBuffers'
  BY <1>1 DEF UntouchedOK, PlaceOK, StreamOK, WholeBuffers, Untouched, Streaming
<1>8. MessagesIntact' /\ ProtocolKept'
  <2>1. MessagesIntact'
    BY <1>1 DEF SInv, MessagesIntact, Message, Length, Offset
  <2> QED
    BY <1>1, <2>1 DEF ProtocolKept
<1>9. ServedUnlessCut'
  <2> SUFFICES ASSUME sent = Total(ends)
               PROVE  \/ Len(served) = Len(ends)
                      \/ Offset(Len(served) + 1) % RecvSize = 0 /\ Total(ends) > RecvSize
    BY <1>1 DEF ServedUnlessCut, Total, Offset
  <2>1. ends \in Requests
    BY <1>1 DEF SInv, SentOK
  <2>2. CASE pc = "ended"
    <3>1. \A j \in DOMAIN ends : sent # ends[j]
      BY <2>2 DEF SInv, EndOK
    <3>2. Len(ends) \in DOMAIN ends
      BY <2>1, RequestType
    <3> QED
      BY <3>1, <3>2 DEF Total
  <2>3. CASE pc = "flush"
    <3>1. /\ Streaming /\ Len(served) \in 0 .. Len(ends) /\ Len(ends) \in Nat \ {0}
          /\ Reached \in Nat /\ sent \in Nat
      BY <2>3, ReachedType DEF Streaming, Untouched
    <3>2. Taken = Reached /\ Seen = Reached
      <4>1. Taken = Reached + 0
        BY <2>3 DEF Taken, Reached
      <4> QED
        BY <1>4, <3>1, <4>1 DEF Seen
    <3>3. Reached + Len(PGS_IN) = sent
      BY <3>1, <3>2 DEF SInv, StreamOK
    <3>4. CASE PGS_IN = <<>>
      <4>1. Reached = Total(ends)
        <5>1. Len(PGS_IN) = 0
          BY <3>4
        <5> QED
          BY <3>1, <3>3, <5>1
      <4>2. Len(served) = Len(ends)
        <5> DEFINE k == Len(served)
                   n == Len(ends)
        <5>1. /\ k \in 0 .. n /\ n \in Nat \ {0} /\ Offset(k + 1) = Offset(n + 1)
              /\ \A i \in 1 .. n + 1 : Offset(i) \in Nat
              /\ \A i, j \in 1 .. n + 1 : i < j => Offset(i) < Offset(j)
          BY <2>1, <3>1, <4>1, OffsetType DEF Reached
        <5> HIDE DEF k, n
        <5>2. k + 1 \in 1 .. n + 1 /\ n + 1 \in 1 .. n + 1
          BY <5>1
        <5>3. ~(k + 1 < n + 1)
          BY <5>1, <5>2
        <5>4. k = n
          BY <5>1, <5>3
        <5> QED
          BY <5>4 DEF k, n
      <4> QED
        BY <4>2
    <3>5. CASE PGS_IN # <<>>
      <4>1. PICK q \in Nat : sent > RecvSize /\ Reached = q * RecvSize
        BY <3>1, <3>2, <3>5 DEF SInv, WholeBuffers
      <4>2. Reached % RecvSize = 0
        BY <4>1, MultipleRemainder, BufferAssumption DEF BufferAssumption
      <4> QED
        BY <4>1, <4>2 DEF Reached
    <3> QED
      BY <3>4, <3>5
  <2> QED
    BY <1>1, <2>2, <2>3
<1> QED
  BY <1>5, <1>6, <1>7, <1>8, <1>9 DEF SInv

-----------------------------------------------------------------------------
\* Every step keeps the invariant.
LEMMA NextStream == IInv /\ SInv /\ [Next]_vars => SInv'
<1> SUFFICES ASSUME IInv, SInv, [Next]_vars PROVE SInv'
  OBVIOUS
<1>1. CASE Host
  BY <1>1, HostCmaStream, HostFileStream, HostReadStream DEF Host
<1>2. CASE Reply
  BY <1>2, ReplyStream
<1>3. CASE Backend
  BY <1>3, EnterCmaStream, EnterFileStream, StartMessageStream, StartInMessageStream, TakeStream,
     RefillStream, EndOfFileStream, ServeStream, EndMessageStream, LeaveStream DEF Backend
<1>4. CASE UNCHANGED vars
  <2>1. /\ pc' = pc /\ ends' = ends /\ sent' = sent /\ msg' = msg /\ need' = need /\ served' = served
        /\ halved' = halved /\ skipped' = skipped /\ send' = send /\ cma_rsize' = cma_rsize
        /\ recv' = recv /\ PGS_IN' = PGS_IN /\ memory' = memory
    BY <1>4 DEF vars, history, faults
  <2>2. MessagesOK' /\ SentOK' /\ IdleOK' /\ EndOK' /\ MessageOK' /\ RememberedOK' /\ PlaceOK'
    BY <2>1 DEF SInv, MessagesOK, SentOK, IdleOK, EndOK, MessageOK, RememberedOK, PlaceOK, Streaming,
       Untouched, Length, Offset
  <2>3. UntouchedOK' /\ StreamOK' /\ WholeBuffers'
    BY <2>1 DEF SInv, UntouchedOK, StreamOK, WholeBuffers, Streaming, Untouched, Taken, Seen, Offset
  <2>4. MessagesIntact' /\ ServedUnlessCut' /\ ProtocolKept'
    BY <2>1 DEF SInv, MessagesIntact, ServedUnlessCut, ProtocolKept, Message, Length, Offset
  <2> QED
    BY <2>2, <2>3, <2>4 DEF SInv
<1> QED
  BY <1>1, <1>2, <1>3, <1>4 DEF Next

LEMMA StreamInvariant == Spec => [](IInv /\ SInv)
<1>1. Init => IInv /\ SInv
  BY InitInv, InitRoom, InitStream DEF IInv
<1>2. (IInv /\ SInv) /\ [Next]_vars => (IInv /\ SInv)'
  BY NextTyped, NextRoom, NextStream DEF IInv
<1> QED
  BY <1>1, <1>2, PTL DEF Spec

\* The messages that are served are those of the request, whole and in order,
\* whatever the length of the buffer and of the messages, by either transport,
\* after any number of earlier requests, of which some may have been cut short.
THEOREM MessagesStayIntact == Spec => []MessagesIntact
BY StreamInvariant, PTL DEF SInv

\* Only a request that was cut inside a message makes pqcomm.c lose the
\* protocol, and it reads a closed file only when it also left the file before
\* that one unread.
THEOREM ProtocolIsKept == Spec => []ProtocolKept
BY StreamInvariant, PTL DEF SInv

\* Of a request that was sent whole messages are left out only where a message
\* ends at a multiple of the size of the buffer.
THEOREM ServedToTheEnd == Spec => []ServedUnlessCut
BY StreamInvariant, PTL DEF SInv
=============================================================================
