---------------------------- MODULE PqCommProofs ----------------------------
(***************************************************************************)
(* The buffers of pqcomm.c, whatever requests a host sends, whole or cut   *)
(* short, in memory or in files, and whatever the sizes of the buffers:    *)
(* nothing is read or written outside of them, but for the reply to a      *)
(* request that fills the shared memory area.                              *)
(***************************************************************************)
EXTENDS PqComm, TLAPS

Byte  == Nat \X Nat
Bytes == Seq(Byte)

-----------------------------------------------------------------------------
(* Sequences of bytes, and memory *)

\* The smaller and the larger of two numbers are such.
LEMMA MinOfTwo ==
  ASSUME NEW a \in Int, NEW b \in Int
  PROVE  Min({a, b}) \in {a, b} /\ Min({a, b}) <= a /\ Min({a, b}) <= b
<1>1. \E x \in {a, b} : \A y \in {a, b} : x <= y
  <2>1. CASE a <= b
    BY <2>1
  <2>2. CASE b <= a
    BY <2>2
  <2> QED
    BY <2>1, <2>2
<1>2. Min({a, b}) \in {a, b} /\ \A y \in {a, b} : Min({a, b}) <= y
  BY <1>1 DEF Min
<1> QED
  BY <1>2

LEMMA MaxOfTwo ==
  ASSUME NEW a \in Int, NEW b \in Int
  PROVE  Max({a, b}) \in {a, b} /\ Max({a, b}) >= a /\ Max({a, b}) >= b
<1>1. \E x \in {a, b} : \A y \in {a, b} : x >= y
  <2>1. CASE a <= b
    BY <2>1
  <2>2. CASE b <= a
    BY <2>2
  <2> QED
    BY <2>1, <2>2
<1>2. Max({a, b}) \in {a, b} /\ \A y \in {a, b} : Max({a, b}) >= y
  BY <1>1 DEF Max
<1> QED
  BY <1>2

\* A part of a sequence of bytes.
LEMMA PartType ==
  ASSUME NEW s \in Bytes, NEW m \in Nat \ {0}, NEW n \in Nat, n <= Len(s)
  PROVE  /\ SubSeq(s, m, n) \in Bytes
         /\ m <= n => Len(SubSeq(s, m, n)) = n - m + 1
         /\ m > n => Len(SubSeq(s, m, n)) = 0
BY DEF Bytes

\* The addresses of the CMA are some of the memory's.
LEMMA MemEndType == MemEnd \in Nat /\ CmaEnd \in Nat /\ MemEnd = CmaEnd + MaxReply /\ MaxReply \in Nat
BY BufferAssumption DEF BufferAssumption, MemEnd

\* The two areas, each of its size.
MemOK(m) ==
  /\ DOMAIN m = {"cma", "static"}
  /\ m["cma"] \in [1 .. MemEnd -> Byte] /\ m["static"] \in [1 .. RecvSize -> Byte]

\* Writing bytes changes no size, wherever they are written.
LEMMA WrittenType ==
  ASSUME NEW m, MemOK(m), NEW a \in {"cma", "static"}, NEW offset \in Int, NEW bytes \in Bytes
  PROVE  MemOK(Written(m, a, offset, bytes))
<1> DEFINE new == [i \in DOMAIN m[a] |->
                     IF i \in offset + 1 .. offset + Len(bytes) THEN bytes[i - offset] ELSE m[a][i]]
<1>1. ASSUME NEW size \in Int, m[a] \in [1 .. size -> Byte]
      PROVE  new \in [1 .. size -> Byte]
  <2>1. ASSUME NEW i \in 1 .. size, i \in offset + 1 .. offset + Len(bytes)
        PROVE  bytes[i - offset] \in Byte
    <3>1. i - offset \in 1 .. Len(bytes)
      BY <2>1 DEF Bytes
    <3> QED
      BY <3>1 DEF Bytes
  <2>2. \A i \in 1 .. size : m[a][i] \in Byte
    BY <1>1
  <2>3. DOMAIN m[a] = 1 .. size
    BY <1>1
  <2> QED
    BY <2>1, <2>2, <2>3
<1>2. Written(m, a, offset, bytes) = [m EXCEPT ![a] = new]
  BY DEF Written
<1> HIDE DEF new
<1>3. CASE a = "cma"
  <2>1. new \in [1 .. MemEnd -> Byte]
    BY <1>1, <1>3, MemEndType DEF MemOK
  <2> QED
    BY <1>2, <1>3, <2>1 DEF MemOK
<1>4. CASE a = "static"
  <2>1. new \in [1 .. RecvSize -> Byte]
    BY <1>1, <1>4, BufferAssumption DEF MemOK, BufferAssumption
  <2> QED
    BY <1>2, <1>4, <2>1 DEF MemOK
<1> QED
  BY <1>3, <1>4

\* Bytes read from within an area.
LEMMA ReadType ==
  ASSUME NEW m, MemOK(m), NEW offset \in Int, NEW n \in Nat,
         n > 0 => offset >= 0 /\ offset + n <= MemEnd
  PROVE  ReadAt(m, "cma", offset, n) \in Bytes
<1>1. \A i \in 1 .. n : m["cma"][offset + i] \in Byte
  <2>1. \A i \in 1 .. n : offset + i \in 1 .. MemEnd
    BY MemEndType
  <2> QED
    BY <2>1 DEF MemOK
<1>2. [i \in 1 .. n |-> m["cma"][offset + i]] \in [1 .. n -> Byte]
  BY <1>1
<1> QED
  BY <1>2 DEF ReadAt, Bytes

\* The bytes of a request and of a reply.
LEMMA BytesType ==
  ASSUME NEW n \in Nat, NEW from \in Nat
  PROVE  /\ RequestBytes(n) \in Bytes /\ Len(RequestBytes(n)) = n
         /\ ReplyBytes(from, n) \in Bytes /\ Len(ReplyBytes(from, n)) = n
<1>1. [k \in 1 .. n |-> <<1, k>>] \in [1 .. n -> Byte]
  BY DEF Byte
<1>2. [k \in 1 .. n |-> <<2, from + k>>] \in [1 .. n -> Byte]
  BY DEF Byte
<1> QED
  BY <1>1, <1>2 DEF RequestBytes, ReplyBytes, Bytes

-----------------------------------------------------------------------------
(* Requests *)

LEMMA RequestType ==
  ASSUME NEW e \in Requests
  PROVE  /\ Len(e) \in Nat \ {0} /\ DOMAIN e = 1 .. Len(e)
         /\ \A i \in 1 .. Len(e) : e[i] \in Nat \ {0} /\ e[i] <= Total(e)
         /\ \A i, j \in 1 .. Len(e) : i < j => e[i] < e[j]
         /\ Total(e) \in Nat \ {0}
<1>1. e \in Seq(Nat \ {0}) /\ e # <<>> /\ \A i, j \in DOMAIN e : i < j => e[i] < e[j]
  BY RequestsAssumption DEF RequestsAssumption
<1>2. Len(e) \in Nat \ {0} /\ DOMAIN e = 1 .. Len(e)
  BY <1>1
<1>3. \A i \in 1 .. Len(e) : e[i] \in Nat \ {0}
  BY <1>1, <1>2
<1> DEFINE n == Len(e)
           last == e[n]
<1>4. n \in Nat \ {0} /\ n \in 1 .. n /\ last \in Nat
  BY <1>2, <1>3
<1>5. \A i, j \in 1 .. n : i < j => e[i] < e[j]
  BY <1>1, <1>2
<1>6. \A i \in 1 .. n : i < n => e[i] < last
  BY <1>4, <1>5
<1>7. \A i \in 1 .. n : e[i] \in Nat \ {0}
  BY <1>3
<1> HIDE DEF last
<1>8. ASSUME NEW i \in 1 .. n PROVE e[i] <= last
  <2>1. CASE i = n
    BY <1>4, <2>1 DEF last
  <2>2. CASE i # n
    <3> HIDE DEF n
    <3>1. i < n
      BY <1>4, <2>2
    <3> QED
      BY <1>4, <1>6, <1>7, <3>1
  <2> QED
    BY <2>1, <2>2
<1> QED
  BY <1>2, <1>3, <1>4, <1>5, <1>8 DEF Total, last

\* The messages of a request follow each other, and none of them is empty.
LEMMA OffsetType ==
  ASSUME ends \in Requests
  PROVE  /\ \A i \in 1 .. Len(ends) + 1 : Offset(i) \in Nat /\ Offset(i) <= Total(ends)
         /\ \A i \in 1 .. Len(ends) : /\ Length(i) \in Nat \ {0} /\ Offset(i) + Length(i) = ends[i]
                                     /\ Offset(i) < ends[i] /\ Offset(i + 1) = ends[i]
         /\ \A i, j \in 1 .. Len(ends) + 1 : i < j => Offset(i) < Offset(j)
         /\ Offset(1) = 0 /\ Offset(Len(ends) + 1) = Total(ends)
<1> DEFINE n == Len(ends)
<1>1. /\ n \in Nat \ {0} /\ Total(ends) \in Nat \ {0} /\ Total(ends) = ends[n]
      /\ \A i \in 1 .. n : ends[i] \in Nat \ {0} /\ ends[i] <= Total(ends)
      /\ \A i, j \in 1 .. n : i < j => ends[i] < ends[j]
  BY RequestType DEF Total
<1>2. \A i \in 1 .. n + 1 : Offset(i) = IF i = 1 THEN 0 ELSE ends[i - 1]
  BY DEF Offset
<1> HIDE DEF n
<1>3. \A i \in 1 .. n + 1 : i # 1 => i - 1 \in 1 .. n
  BY <1>1
<1>4. \A i \in 1 .. n + 1 : Offset(i) \in Nat /\ Offset(i) <= Total(ends)
  BY <1>1, <1>2, <1>3
<1>5. \A i, j \in 1 .. n + 1 : i < j => Offset(i) < Offset(j)
  <2> SUFFICES ASSUME NEW i \in 1 .. n + 1, NEW j \in 1 .. n + 1, i < j PROVE Offset(i) < Offset(j)
    OBVIOUS
  <2>1. j # 1 /\ j - 1 \in 1 .. n /\ Offset(j) = ends[j - 1]
    BY <1>1, <1>2, <1>3
  <2>2. CASE i = 1
    BY <1>1, <1>2, <2>1, <2>2
  <2>3. CASE i # 1
    <3>1. i - 1 \in 1 .. n /\ Offset(i) = ends[i - 1] /\ i - 1 < j - 1
      BY <1>1, <1>2, <1>3, <2>3
    <3> QED
      BY <1>1, <2>1, <3>1
  <2> QED
    BY <2>2, <2>3
<1>6. ASSUME NEW i \in 1 .. n
      PROVE  /\ Length(i) \in Nat \ {0} /\ Offset(i) + Length(i) = ends[i]
             /\ Offset(i) < ends[i] /\ Offset(i + 1) = ends[i]
  <2>1. i \in 1 .. n + 1 /\ i + 1 \in 1 .. n + 1 /\ i < i + 1 /\ i + 1 # 1 /\ (i + 1) - 1 = i
    BY <1>1
  <2>2. Offset(i + 1) = ends[i]
    BY <1>2, <2>1
  <2>3. Offset(i) < ends[i] /\ Offset(i) \in Nat /\ ends[i] \in Nat
    BY <1>1, <1>4, <1>5, <2>1, <2>2
  <2> QED
    BY <2>2, <2>3 DEF Length
<1>7. Offset(1) = 0 /\ Offset(n + 1) = Total(ends)
  <2>1. n + 1 \in 1 .. n + 1 /\ n + 1 # 1 /\ (n + 1) - 1 = n /\ 1 \in 1 .. n + 1
    BY <1>1
  <2> QED
    BY <1>1, <1>2, <2>1
<1> QED
  BY <1>4, <1>5, <1>6, <1>7 DEF n

-----------------------------------------------------------------------------
(* The receive side *)

\* The read pointer is within the data, and the data within their area.
RecvType == [buf : {"cma", "static"}, ptr : Nat, len : Nat,
             fp : {"none", "open", "closed"}, querylen : Nat, reading : BOOLEAN]

RecvOK(r) ==
  /\ r \in RecvType
  /\ r.ptr <= r.len /\ r.len \in 0 .. CmaEnd - 1
  /\ r.buf = "static" => r.len <= RecvSize

\* While a file is open, querylen is what is left to read of it.
FileOK(r, rest) == r.fp = "open" => r.querylen = Len(rest)

\* fread() reads no more than it is asked to, or than there is.
LEMMA GotType ==
  ASSUME NEW n \in Nat, PGS_IN \in Bytes
  PROVE  /\ Got(n) \in Nat /\ Got(n) <= n /\ Got(n) <= Len(PGS_IN)
         /\ n <= Len(PGS_IN) => Got(n) = n
<1> DEFINE left == Len(PGS_IN)
<1>1. left \in Nat
  BY DEF Bytes
<1>2. Got(n) = Min({n, left})
  BY DEF Got
<1> HIDE DEF left
<1>3. Min({n, left}) \in {n, left} /\ Min({n, left}) <= n /\ Min({n, left}) <= left
  BY <1>1, MinOfTwo
<1> QED
  BY <1>1, <1>2, <1>3 DEF left

\* A buffer that was filled anew.
Anew(r, len, fp, querylen) ==
  [r EXCEPT !.ptr = 0, !.len = len, !.fp = fp, !.querylen = querylen]

LEMMA AnewFields ==
  ASSUME NEW r \in RecvType, NEW len, NEW fp, NEW querylen
  PROVE  /\ Anew(r, len, fp, querylen).len = len /\ Anew(r, len, fp, querylen).ptr = 0
         /\ Anew(r, len, fp, querylen).fp = fp /\ Anew(r, len, fp, querylen).querylen = querylen
         /\ Anew(r, len, fp, querylen).reading = r.reading
BY DEF Anew, RecvType

LEMMA AnewType ==
  ASSUME NEW r, RecvOK(r), NEW len \in Nat, len <= RecvSize,
         NEW fp \in {"none", "open", "closed"}, NEW querylen \in Nat
  PROVE  RecvOK(Anew(r, len, fp, querylen))
<1> DEFINE s == Anew(r, len, fp, querylen)
<1>0. r \in RecvType
  BY DEF RecvOK
<1>1. s \in RecvType
  BY <1>0 DEF Anew, RecvType
<1>2. s.len = len /\ s.ptr = 0
  BY <1>0, AnewFields
<1>3. 0 <= len /\ len \in 0 .. CmaEnd - 1
  BY BufferAssumption DEF BufferAssumption
<1> HIDE DEF s
<1>4. RecvOK(s)
  BY <1>1, <1>2, <1>3 DEF RecvOK
<1> QED
  BY <1>4 DEF s

\* Such a buffer, together with what is left of the file.
LEMMA AnewFileType ==
  ASSUME NEW r, RecvOK(r), NEW file \in Bytes, NEW len \in Nat, len <= RecvSize, len <= Len(file),
         NEW fp \in {"none", "open", "closed"}, NEW querylen \in Nat,
         fp = "open" => querylen = Len(file) - len
  PROVE  /\ FileOK(Anew(r, len, fp, querylen), SubSeq(file, len + 1, Len(file)))
         /\ SubSeq(file, len + 1, Len(file)) \in Bytes
<1> DEFINE s == Anew(r, len, fp, querylen)
           rest == SubSeq(file, len + 1, Len(file))
<1>1. s.fp = fp /\ s.querylen = querylen
  BY AnewFields DEF RecvOK
<1>2. rest \in Bytes /\ Len(rest) = Len(file) - len
  <2>1. Len(file) \in Nat
    BY DEF Bytes
  <2> QED
    BY <2>1, PartType
<1> HIDE DEF s, rest
<1>3. FileOK(s, rest)
  BY <1>1, <1>2 DEF FileOK
<1> QED
  BY <1>2, <1>3 DEF s, rest

\* pq_recvbuf_fill keeps it so, and leaves something to read.
LEMMA FilledType ==
  ASSUME NEW r, RecvOK(r), NEW length \in Nat \ {0}, PGS_IN \in Bytes, length = Len(PGS_IN)
  PROVE  /\ RecvOK(Filled(r, length)) /\ Remaining(Filled(r, length)) > 0
         /\ Filled(r, length).len \in Nat /\ Filled(r, length).len <= length
         /\ Filled(r, length).reading = r.reading
         /\ FileOK(Filled(r, length), SubSeq(PGS_IN, Filled(r, length).len + 1, length))
         /\ SubSeq(PGS_IN, Filled(r, length).len + 1, length) \in Bytes
<1>0. RecvSize \in Nat \ {0} /\ CmaEnd \in Nat /\ RecvSize < CmaEnd
  BY BufferAssumption DEF BufferAssumption
<1> DEFINE len == IF length > RecvSize THEN RecvSize ELSE length
           fp  == IF length > RecvSize THEN "open" ELSE "none"
           left == length - len
           new == Anew(r, len, fp, left)
<1>1. Filled(r, length) = new
  <2>1. length > RecvSize => Got(RecvSize) = RecvSize
    BY <1>0, GotType
  <2>2. CASE length > RecvSize
    BY <1>0, <2>1, <2>2 DEF Filled, Anew
  <2>3. CASE ~(length > RecvSize)
    <3>1. len = length /\ fp = "none" /\ left = 0
      BY <2>3
    <3> HIDE DEF len, fp, left
    <3> QED
      BY <2>3, <3>1 DEF Filled, Anew
  <2> QED
    BY <2>2, <2>3
<1>2. len \in Nat \ {0} /\ len <= RecvSize /\ len <= length /\ left \in Nat
  BY <1>0
<1>3. fp \in {"none", "open", "closed"}
  OBVIOUS
<1> HIDE DEF len, fp, left
<1>4. RecvOK(new) /\ new.len = len /\ new.ptr = 0 /\ new.reading = r.reading
  <2>1. RecvOK(new)
    BY <1>2, <1>3, AnewType
  <2>2. new.len = len /\ new.ptr = 0 /\ new.reading = r.reading
    BY AnewFields DEF RecvOK
  <2> QED
    BY <2>1, <2>2
<1>5. FileOK(new, SubSeq(PGS_IN, len + 1, length)) /\ SubSeq(PGS_IN, len + 1, length) \in Bytes
  <2>1. left = Len(PGS_IN) - len
    BY DEF left
  <2> QED
    BY <1>2, <1>3, <2>1, AnewFileType
<1> HIDE DEF new
<1>6. Remaining(new) > 0
  BY <1>2, <1>4 DEF Remaining
<1> QED
  BY <1>1, <1>2, <1>4, <1>5, <1>6

\* So does pq_recvbuf, with a file that is open or closed.
LEMMA RefilledType ==
  ASSUME NEW r, RecvOK(r), PGS_IN \in Bytes, FileOK(r, PGS_IN), r.fp # "none",
         NEW got, got = IF r.fp = "open" THEN Got(RecvSize) ELSE 0
  PROVE  /\ RecvOK(Refilled(r, got)) /\ got \in Nat /\ got <= Len(PGS_IN)
         /\ FileOK(Refilled(r, got), SubSeq(PGS_IN, got + 1, Len(PGS_IN)))
         /\ SubSeq(PGS_IN, got + 1, Len(PGS_IN)) \in Bytes
<1>0. RecvSize \in Nat \ {0} /\ CmaEnd \in Nat /\ RecvSize < CmaEnd
  BY BufferAssumption DEF BufferAssumption
<1>1. r.querylen \in Nat /\ r.fp \in {"open", "closed"}
  BY DEF RecvOK, RecvType
<1>2. Len(PGS_IN) \in Nat
  BY DEF Bytes
<1>3. got \in Nat /\ got <= Len(PGS_IN) /\ got <= RecvSize /\ (r.fp # "open" => got = 0)
  <2>1. /\ Got(RecvSize) \in Nat /\ Got(RecvSize) <= RecvSize /\ Got(RecvSize) <= Len(PGS_IN)
    BY <1>0, GotType
  <2> QED
    BY <1>0, <1>2, <2>1
<1> DEFINE fp == IF r.querylen > got THEN r.fp ELSE "none"
           left == r.querylen - got
           new == Anew(r, got, fp, left)
<1>4. Refilled(r, got) = new
  BY DEF Refilled, Anew
<1>5. fp \in {"none", "open", "closed"} /\ left \in Nat /\ (fp = "open" => left = Len(PGS_IN) - got)
  <2>1. fp \in {"none", "open", "closed"}
    BY <1>1
  <2>2. CASE r.fp = "open"
    <3>1. r.querylen = Len(PGS_IN)
      BY <2>2 DEF FileOK
    <3> QED
      BY <1>1, <1>2, <1>3, <2>1, <3>1
  <2>3. CASE r.fp # "open"
    <3>1. got = 0 /\ left = r.querylen /\ fp # "open"
      BY <1>1, <1>3, <2>3
    <3> QED
      BY <1>1, <2>1, <3>1
  <2> QED
    BY <2>2, <2>3
<1> HIDE DEF fp, left
<1>6. RecvOK(new)
  BY <1>3, <1>5, AnewType
<1>7. /\ FileOK(new, SubSeq(PGS_IN, got + 1, Len(PGS_IN)))
      /\ SubSeq(PGS_IN, got + 1, Len(PGS_IN)) \in Bytes
  BY <1>3, <1>5, AnewFileType
<1> HIDE DEF new
<1> QED
  BY <1>3, <1>4, <1>6, <1>7

\* pq_startmsgread, unless a request in a file has left the buffer empty.
LEMMA StartRecvType ==
  ASSUME NEW r, RecvOK(r), NEW s, s.sockfiles \in BOOLEAN, Remaining(r) > 0 \/ ~s.sockfiles,
         cma_rsize \in 0 .. CmaEnd - 1
  PROVE  /\ RecvOK(StartRecv(r, s)) /\ StartRecv(r, s).fp = r.fp
         /\ StartRecv(r, s).querylen = r.querylen
<1> DEFINE n == Remaining(r)
<1>1. n \in Int
  BY DEF Remaining, RecvOK, RecvType
<1> HIDE DEF n
<1>2. CASE n > 0
  <2>1. ~(n <= 0)
    BY <1>1, <1>2
  <2>2. StartRecv(r, s) = r
    BY <1>2, <2>1 DEF StartRecv, n
  <2> QED
    BY <2>2
<1>3. CASE n <= 0
  <2>1. StartRecv(r, s) = [r EXCEPT !.buf = "cma", !.ptr = 0, !.len = cma_rsize]
    <3>1. ~(n > 0)
      BY <1>1, <1>3
    <3> QED
      BY <1>3, <3>1 DEF StartRecv, n
  <2>2. r \in RecvType
    BY DEF RecvOK
  <2> DEFINE new == [r EXCEPT !.buf = "cma", !.ptr = 0, !.len = cma_rsize]
  <2>3. cma_rsize \in Nat
    BY BufferAssumption DEF BufferAssumption
  <2>4. /\ new \in RecvType
        /\ new.buf = "cma" /\ new.ptr = 0 /\ new.len = cma_rsize
        /\ new.fp = r.fp /\ new.querylen = r.querylen
    BY <2>2, <2>3 DEF RecvType
  <2> HIDE DEF new
  <2>5. RecvOK(new)
    BY <2>3, <2>4 DEF RecvOK
  <2> QED
    BY <2>1, <2>4, <2>5 DEF new
<1> QED
  BY <1>1, <1>2, <1>3

-----------------------------------------------------------------------------
(* The send side *)

SendType == [base : 0 .. CmaEnd + 1, size : -1 .. CmaEnd, ptr : Nat, sockfiles : BOOLEAN,
             SOCKET_DATA : Nat, olock : Bytes]

\* The buffer and what is written of it end inside the CMA, unless the size
\* of the buffer is negative.
SendOK(s) ==
  /\ s \in SendType
  /\ s.base + s.size <= CmaEnd
  /\ s.ptr > 0 /\ s.size >= 0 => s.base + s.ptr <= CmaEnd
  /\ s.base = 0 => s.size = 0 /\ s.ptr = 0

\* pq_startmsgread may put the buffer behind a request in memory.
LEMMA StartSendType ==
  ASSUME NEW r, NEW s, SendOK(s), cma_rsize \in 0 .. CmaEnd - 1
  PROVE  SendOK(StartSend(r, s))
<1> DEFINE stays == Remaining(r) > 0 \/ s.sockfiles
<1>1. CASE stays
  <2>1. StartSend(r, s) = s
    BY <1>1 DEF StartSend
  <2> QED
    BY <2>1
<1>2. CASE ~stays
  <2> DEFINE new == [s EXCEPT !.base = cma_rsize + 2, !.ptr = 0, !.size = CmaEnd - (cma_rsize + 2)]
  <2>1. StartSend(r, s) = new
    BY <1>2 DEF StartSend
  <2>2. CmaEnd \in Nat /\ cma_rsize \in Nat /\ cma_rsize < CmaEnd
    BY BufferAssumption DEF BufferAssumption
  <2> DEFINE base == cma_rsize + 2
             size == CmaEnd - (cma_rsize + 2)
  <2>3. base \in 0 .. CmaEnd + 1 /\ size \in -1 .. CmaEnd /\ base + size <= CmaEnd /\ base # 0
    BY <2>2
  <2>4. s \in SendType
    BY DEF SendOK
  <2>5. new = [s EXCEPT !.base = base, !.ptr = 0, !.size = size]
    OBVIOUS
  <2> HIDE DEF new, base, size
  <2>6. new \in SendType /\ new.base = base /\ new.size = size /\ new.ptr = 0
    BY <2>3, <2>4, <2>5 DEF SendType
  <2>7. SendOK(new)
    BY <2>3, <2>6 DEF SendOK
  <2> QED
    BY <2>1, <2>7
<1> QED
  BY <1>1, <1>2

\* What is left of the buffer in memory; a negative size is taken for one that
\* leaves room for any reply.
LEMMA RoomType ==
  ASSUME NEW s, SendOK(s)
  PROVE  /\ Room(s) \in Nat
         /\ Room(s) > 0 /\ s.size >= 0 => s.ptr + Room(s) <= s.size
         /\ ~s.sockfiles /\ s.size < 0 => s.ptr + Room(s) >= MaxReply
<1> DEFINE room == Room(s)
           size == s.size
<1>0. /\ size \in Int /\ -1 <= size /\ s.ptr \in Nat /\ s.sockfiles \in BOOLEAN
      /\ SizeModulus \in Nat /\ MaxReply \in Nat /\ CmaEnd \in Nat /\ SizeModulus > CmaEnd + MaxReply
  BY BufferAssumption DEF SendOK, SendType, BufferAssumption
<1>1. CASE s.sockfiles
  BY <1>1 DEF Room
<1>2. CASE ~s.sockfiles
  <2> DEFINE left == Unsigned(size) - s.ptr
  <2>1. /\ left \in Int /\ (size >= 0 => s.ptr + left = size)
        /\ (size < 0 => s.ptr + left >= MaxReply)
    <3>1. CASE size < 0
      BY <1>0, <3>1 DEF Unsigned
    <3>2. CASE ~(size < 0)
      BY <1>0, <3>2 DEF Unsigned
    <3> QED
      BY <3>1, <3>2
  <2>2. room = Max({0, left})
    BY <1>2 DEF Room
  <2> HIDE DEF left, room, size
  <2>3. Max({0, left}) \in {0, left} /\ Max({0, left}) >= 0 /\ Max({0, left}) >= left
    BY <2>1, MaxOfTwo
  <2>4. room \in Nat /\ (room > 0 => room = left) /\ room >= left
    BY <2>1, <2>2, <2>3
  <2>5. /\ room \in Nat
        /\ room > 0 /\ size >= 0 => s.ptr + room <= size
        /\ size < 0 => s.ptr + room >= MaxReply
    BY <1>0, <2>1, <2>4
  <2> QED
    BY <2>5 DEF room, size
<1> QED
  BY <1>1, <1>2

\* Of a reply that fits the bound, nothing moves from a buffer of negative size.
RoomFor(s, k) == ~s.sockfiles /\ s.size < 0 => s.ptr + k <= MaxReply

\* internal_putbytes writes where there is room, and moves what is there.
LEMMA PutType ==
  ASSUME NEW s, SendOK(s), NEW bytes \in Bytes, MemOK(memory), RoomFor(s, Len(bytes))
  PROVE  SendOK(Put(s, bytes)) /\ MemOK(PutMemory(s, bytes))
<1> DEFINE room == Room(s)
           n    == Min({Len(bytes), room})
           ptr  == s.ptr + Len(InMemory(s, bytes))
           over == Overflowing(s, bytes)
           moved == IF s.sockfiles \/ over = <<>> THEN <<>>
                    ELSE ReadAt(PutMemory(s, bytes), "cma", s.base - 1, ptr)
           sockfiles == s.sockfiles \/ over # <<>>
           olock == s.olock \o moved \o over
           data  == s.SOCKET_DATA + Len(bytes)
<1>0. CmaEnd \in Nat
  BY BufferAssumption DEF BufferAssumption
<1>1. s \in SendType
  BY DEF SendOK
<1>2. /\ s.base \in Nat /\ s.size \in Int /\ s.ptr \in Nat /\ s.sockfiles \in BOOLEAN
      /\ s.SOCKET_DATA \in Nat /\ s.olock \in Bytes
  BY <1>0, <1>1 DEF SendType
<1>3. Len(bytes) \in Nat
  BY DEF Bytes
<1>4. /\ room \in Nat /\ (room > 0 /\ s.size >= 0 => s.ptr + room <= s.size)
      /\ ~s.sockfiles /\ s.size < 0 => Len(bytes) <= room
  <2>1. /\ room \in Nat /\ (room > 0 /\ s.size >= 0 => s.ptr + room <= s.size)
        /\ ~s.sockfiles /\ s.size < 0 => s.ptr + room >= MaxReply
    BY RoomType
  <2>2. ~s.sockfiles /\ s.size < 0 => s.ptr + Len(bytes) <= MaxReply
    BY DEF RoomFor
  <2> HIDE DEF room
  <2>3. MaxReply \in Nat
    BY MemEndType
  <2>4. ~s.sockfiles /\ s.size < 0 => Len(bytes) <= room
    BY <1>2, <1>3, <2>1, <2>2, <2>3
  <2> QED
    BY <2>1, <2>4
<1> HIDE DEF room
<1>5. n \in Nat /\ n <= room /\ n <= Len(bytes) /\ (Len(bytes) <= room => n = Len(bytes))
  <2> DEFINE length == Len(bytes)
  <2>1. length \in Int /\ room \in Int /\ length >= 0 /\ room >= 0
    BY <1>3, <1>4
  <2> HIDE DEF length
  <2>2. Min({length, room}) \in {length, room} /\ Min({length, room}) <= length /\ Min({length, room}) <= room
    BY <2>1, MinOfTwo
  <2> QED
    BY <2>1, <2>2 DEF length
<1>6. InMemory(s, bytes) = SubSeq(bytes, 1, n)
  BY DEF InMemory, room
<1> HIDE DEF n
<1>7. InMemory(s, bytes) \in Bytes /\ Len(InMemory(s, bytes)) = n
  BY <1>3, <1>5, <1>6, PartType
<1>8. over \in Bytes /\ (~s.sockfiles /\ s.size < 0 => over = <<>>)
  <2>1. over = SubSeq(bytes, n + 1, Len(bytes))
    BY <1>7 DEF Overflowing
  <2>2. n + 1 \in Nat \ {0}
    BY <1>5
  <2>3. over \in Bytes /\ (n + 1 > Len(bytes) => Len(over) = 0)
    BY <1>3, <2>1, <2>2, PartType
  <2>4. ~s.sockfiles /\ s.size < 0 => n + 1 > Len(bytes)
    BY <1>3, <1>4, <1>5
  <2> HIDE DEF over
  <2>5. Len(over) = 0 => over = <<>>
    BY <2>3 DEF Bytes
  <2> QED
    BY <2>3, <2>4, <2>5
<1>9. ptr \in Nat /\ (s.size >= 0 => (ptr > 0 => s.base + ptr <= CmaEnd /\ s.base # 0) /\ (s.base = 0 => ptr = 0))
  <2>1. ptr = s.ptr + n
    BY <1>7
  <2>2. s.base + s.size <= CmaEnd
    BY DEF SendOK
  <2>3. s.base = 0 => s.size = 0 /\ s.ptr = 0
    BY DEF SendOK
  <2>4. s.ptr > 0 /\ s.size >= 0 => s.base + s.ptr <= CmaEnd
    BY DEF SendOK
  <2> HIDE DEF ptr
  <2>0. CASE s.size < 0
    BY <1>2, <1>5, <2>0, <2>1
  <2>5. CASE n = 0 /\ s.size >= 0
    BY <1>0, <1>2, <2>1, <2>3, <2>4, <2>5
  <2>6. CASE n > 0 /\ s.size >= 0
    <3>1. s.ptr + n <= s.size /\ s.size > 0
      BY <1>2, <1>4, <1>5, <2>6
    <3>2. s.base + ptr <= CmaEnd /\ ptr \in Nat
      BY <1>0, <1>2, <1>5, <2>1, <2>2, <3>1
    <3>3. s.base # 0
      BY <2>3, <3>1
    <3> QED
      BY <3>2, <3>3
  <2> QED
    BY <1>2, <1>5, <2>0, <2>5, <2>6
<1>10. MemOK(PutMemory(s, bytes))
  <2>1. s.base + s.ptr - 1 \in Int
    BY <1>2
  <2> QED
    BY <1>7, <2>1, WrittenType DEF PutMemory
<1> HIDE DEF ptr, over
<1>11. moved \in Bytes
  <2>1. /\ s.base - 1 \in Int
        /\ s.size >= 0 => (ptr > 0 => s.base - 1 >= 0 /\ s.base - 1 + ptr <= MemEnd)
    BY <1>0, <1>2, <1>9, MemEndType
  <2>2. s.size >= 0 => ReadAt(PutMemory(s, bytes), "cma", s.base - 1, ptr) \in Bytes
    BY <1>9, <1>10, <2>1, ReadType
  <2>3. <<>> \in Bytes
    BY DEF Bytes
  <2>4. s.size < 0 => s.sockfiles \/ over = <<>>
    BY <1>8
  <2>5. s.size >= 0 \/ s.size < 0
    BY <1>2
  <2> QED
    BY <2>2, <2>3, <2>4, <2>5
<1>12. Put(s, bytes) = [s EXCEPT !.ptr = ptr, !.sockfiles = sockfiles, !.olock = olock, !.SOCKET_DATA = data]
  BY DEF Put, ptr, over
<1> HIDE DEF moved
<1>13. sockfiles \in BOOLEAN /\ olock \in Bytes /\ data \in Nat
  <2>1. olock \in Bytes
    BY <1>2, <1>8, <1>11 DEF Bytes
  <2> QED
    BY <1>2, <1>3, <2>1
<1> HIDE DEF sockfiles, olock, data
<1> DEFINE new == [s EXCEPT !.ptr = ptr, !.sockfiles = sockfiles, !.olock = olock, !.SOCKET_DATA = data]
<1>14. new \in SendType /\ new.base = s.base /\ new.size = s.size /\ new.ptr = ptr
  BY <1>1, <1>9, <1>13 DEF SendType
<1> HIDE DEF new
<1>15. SendOK(new)
  <2>1. s.base = 0 => s.size = 0 /\ s.size >= 0
    BY DEF SendOK
  <2> QED
    BY <1>9, <1>14, <2>1 DEF SendOK
<1> QED
  BY <1>10, <1>12, <1>15 DEF new

-----------------------------------------------------------------------------
(* The invariant *)

Pcs == {"host", "enter", "loop", "reading", "serving", "flush", "ended", "returned", "lost", "stale"}

ControlOK ==
  /\ pc \in Pcs
  /\ ends \in Requests \cup {<<>>} /\ sent \in Nat
  /\ cma_rsize \in 0 .. CmaEnd - 1 /\ cma_wsize \in Nat
  /\ pipelining \in BOOLEAN /\ halved \in BOOLEAN /\ skipped \in BOOLEAN
  /\ need \in Nat /\ emitted \in 0 .. MaxReply

\* A request that enters is not empty; a file is open only while a request is
\* served; and the loop looks for a message in an empty buffer only where a
\* request in memory waits.
FilesOK ==
  /\ PGS_IN \in Bytes
  /\ FileOK(recv, PGS_IN)
  /\ pc = "enter" /\ cma_rsize = 0 => PGS_IN # <<>>
  /\ pc \in {"host", "enter", "returned"} => recv.fp # "open"
  /\ pc = "loop" => Remaining(recv) > 0 \/ ~send.sockfiles

Typed == ControlOK /\ RecvOK(recv) /\ SendOK(send) /\ MemOK(memory) /\ FilesOK

\* A request begins with an empty buffer, and from its first message on no more
\* lies in memory than was written in reply.
RoomOK ==
  /\ pc \in {"host", "enter", "flush", "ended", "returned"} => Remaining(recv) <= 0
  /\ pc \in {"reading", "serving", "flush"} /\ ~send.sockfiles => send.ptr <= emitted
  /\ pc = "loop" /\ Remaining(recv) > 0 /\ ~send.sockfiles => send.ptr <= emitted

IInv == Typed /\ RoomOK

LEMMA InvImpliesTypeOK == Typed => TypeOK
<1> SUFFICES ASSUME Typed PROVE TypeOK
  OBVIOUS
<1>1. RecvOK(recv) /\ SendOK(send) /\ ControlOK
  BY DEF Typed
<1>2. \A a \in {"cma", "static"} : \A i \in DOMAIN memory[a] : memory[a][i] \in Nat \X Nat
  BY DEF Typed, MemOK, Byte
<1>3. /\ send.base \in 0 .. CmaEnd + 1 /\ send.size \in -1 .. CmaEnd /\ send.ptr \in Nat
      /\ send.sockfiles \in BOOLEAN /\ send.SOCKET_DATA \in Nat /\ send.olock \in Seq(Nat \X Nat)
  BY <1>1 DEF SendOK, SendType, Bytes, Byte
<1>4. send.ptr > 0 /\ send.size >= 0 => send.base + send.ptr <= CmaEnd
  BY <1>1 DEF SendOK
<1>5. /\ recv \in [buf : {"cma", "static"}, ptr : Nat, len : Nat,
                   fp : {"none", "open", "closed"}, querylen : Nat, reading : BOOLEAN]
      /\ recv.ptr <= recv.len /\ recv.len \in 0 .. CmaEnd - 1
      /\ recv.buf = "static" => recv.len <= RecvSize
  BY <1>1 DEF RecvOK, RecvType
<1>6. /\ pc \in Pcs
      /\ ends \in Requests \cup {<<>>} /\ sent \in Nat
      /\ cma_rsize \in 0 .. CmaEnd - 1 /\ cma_wsize \in Nat
      /\ {pipelining, halved, skipped} \subseteq BOOLEAN /\ need \in Nat /\ emitted \in 0 .. MaxReply
  BY <1>1 DEF ControlOK
<1> QED
  BY <1>2, <1>3, <1>4, <1>5, <1>6 DEF TypeOK, Pcs

LEMMA InitInv == Init => Typed
<1> SUFFICES ASSUME Init PROVE Typed
  OBVIOUS
<1>0. CmaEnd \in Nat /\ RecvSize \in Nat \ {0} /\ RecvSize < CmaEnd /\ MaxReply \in Nat
  BY BufferAssumption DEF BufferAssumption
<1>1. ControlOK
  <2>1. /\ pc = "host" /\ ends = <<>> /\ sent = 0 /\ cma_rsize = 0 /\ cma_wsize = 0
        /\ pipelining = TRUE /\ halved = FALSE /\ skipped = FALSE /\ need = 0 /\ emitted = 0
    BY DEF Init
  <2>2. 0 \in 0 .. CmaEnd - 1 /\ 0 \in 0 .. MaxReply
    BY <1>0
  <2> QED
    BY <2>1, <2>2 DEF ControlOK, Pcs
<1>2. RecvOK(recv)
  <2>1. recv \in RecvType
    BY DEF Init, RecvType
  <2>2. recv.ptr = 0 /\ recv.len = 0
    BY DEF Init
  <2> QED
    BY <1>0, <2>1, <2>2 DEF RecvOK
<1>3. SendOK(send)
  <2>1. <<>> \in Bytes
    BY DEF Bytes
  <2>2. /\ send.base = 0 /\ send.size = 0 /\ send.ptr = 0
    BY DEF Init
  <2>3. 0 \in 0 .. CmaEnd + 1 /\ 0 \in -1 .. CmaEnd /\ 0 \in Nat
    BY <1>0
  <2>4. send \in SendType
    BY <2>1, <2>3 DEF Init, SendType
  <2> QED
    BY <1>0, <2>2, <2>4 DEF SendOK
<1>4. MemOK(memory)
  BY DEF Init, MemOK, Foreign, Byte
<1>5. FilesOK
  <2>1. <<>> \in Bytes
    BY DEF Bytes
  <2> QED
    BY <2>1 DEF Init, FilesOK, FileOK
<1> QED
  BY <1>1, <1>2, <1>3, <1>4, <1>5 DEF Typed

-----------------------------------------------------------------------------
(* The steps of the host *)

LEMMA NewRequestInv ==
  ASSUME ControlOK, NEW e \in Requests, NEW n, NewRequest(e, n)
  PROVE  n \in Nat \ {0} /\ n = sent' /\ (cma_rsize' \in 0 .. CmaEnd - 1 => ControlOK')
<1>1. n \in Nat \ {0}
  BY RequestType, BufferAssumption DEF NewRequest, BufferAssumption
<1>2. halved' \in BOOLEAN
  BY DEF NewRequest, ControlOK
<1>3. ASSUME cma_rsize' \in 0 .. CmaEnd - 1 PROVE ControlOK'
  BY <1>1, <1>2, <1>3 DEF NewRequest, ControlOK, Pcs
<1> QED
  BY <1>1, <1>3 DEF NewRequest

LEMMA HostCmaInv ==
  ASSUME Typed, NEW e \in Requests, NEW n, HostCma(e, n)
  PROVE  Typed'
<1>0. CmaEnd \in Nat
  BY BufferAssumption DEF BufferAssumption
<1>1. n \in Nat \ {0} /\ n < CmaEnd /\ cma_rsize' = n
  BY NewRequestInv DEF Typed, HostCma
<1>2. ControlOK'
  BY <1>0, <1>1, NewRequestInv DEF Typed, HostCma
<1>3. MemOK(memory')
  BY <1>1, BytesType, WrittenType DEF Typed, HostCma
<1>4. FilesOK'
  BY <1>1 DEF Typed, FilesOK, HostCma, NewRequest
<1> QED
  BY <1>2, <1>3, <1>4 DEF Typed, HostCma, NewRequest

LEMMA HostFileInv ==
  ASSUME Typed, NEW e \in Requests, NEW n, HostFile(e, n)
  PROVE  Typed'
<1>0. CmaEnd \in Nat /\ RecvSize \in Nat \ {0} /\ RecvSize < CmaEnd
  BY BufferAssumption DEF BufferAssumption
<1>1. n \in Nat \ {0}
  BY NewRequestInv DEF Typed, HostFile
<1>2. ControlOK'
  BY <1>0, NewRequestInv DEF Typed, HostFile
<1>3. FilesOK'
  <2>1. PGS_IN' \in Bytes /\ Len(PGS_IN') = n
    BY <1>1, BytesType DEF HostFile
  <2>2. PGS_IN' # <<>>
    BY <1>1, <2>1
  <2>3. recv' = recv /\ recv.fp # "open" /\ pc' = "enter"
    BY DEF Typed, FilesOK, HostFile, NewRequest
  <2> QED
    BY <2>1, <2>2, <2>3 DEF FilesOK, FileOK
<1> QED
  BY <1>2, <1>3 DEF Typed, HostFile, NewRequest

LEMMA HostReadInv ==
  ASSUME Typed, HostRead
  PROVE  Typed'
<1>0. MaxReply \in Nat
  BY BufferAssumption DEF BufferAssumption
<1>1. ControlOK'
  BY <1>0 DEF Typed, HostRead, ControlOK, Pcs, sizes, faults
<1>2. MemOK(memory')
  BY DEF Typed, HostRead, MemOK, Foreign, Byte
<1>3. FilesOK'
  BY DEF Typed, HostRead, FilesOK, sizes, faults
<1> QED
  BY <1>1, <1>2, <1>3 DEF Typed, HostRead

-----------------------------------------------------------------------------
(* The steps of the backend *)

LEMMA EnterCmaInv ==
  ASSUME Typed, EnterCma
  PROVE  Typed'
<1>1. ControlOK'
  BY DEF Typed, EnterCma, ControlOK, Pcs, host, sizes, history, faults
<1>2. SendOK(send')
  <2> DEFINE new == [send EXCEPT !.sockfiles = FALSE, !.olock = <<>>]
  <2>1. <<>> \in Bytes
    BY DEF Bytes
  <2>2. send \in SendType
    BY DEF Typed, SendOK
  <2>3. new \in SendType /\ new.base = send.base /\ new.size = send.size /\ new.ptr = send.ptr
    BY <2>1, <2>2 DEF SendType
  <2> HIDE DEF new
  <2>4. SendOK(new)
    BY <2>3 DEF Typed, SendOK
  <2> QED
    BY <2>4 DEF EnterCma, new
<1>3. ~send'.sockfiles
  BY DEF Typed, EnterCma, SendOK, SendType
<1>4. FilesOK'
  BY <1>3 DEF Typed, EnterCma, FilesOK
<1> QED
  BY <1>1, <1>2, <1>4 DEF Typed, EnterCma

LEMMA EnterFileInv ==
  ASSUME Typed, EnterFile
  PROVE  Typed'
<1> DEFINE length == Len(PGS_IN)
<1>0. PGS_IN \in Bytes /\ length \in Nat \ {0}
  <2>1. PGS_IN \in Bytes /\ PGS_IN # <<>>
    BY DEF Typed, EnterFile, FilesOK
  <2> QED
    BY <2>1 DEF Bytes
<1>1. ControlOK'
  BY DEF Typed, EnterFile, ControlOK, Pcs, host, sizes
<1>2. SendOK(send')
  <2> DEFINE new == [send EXCEPT !.sockfiles = TRUE, !.olock = <<>>]
  <2>1. <<>> \in Bytes
    BY DEF Bytes
  <2>2. send \in SendType
    BY DEF Typed, SendOK
  <2>3. new \in SendType /\ new.base = send.base /\ new.size = send.size /\ new.ptr = send.ptr
    BY <2>1, <2>2 DEF SendType
  <2> HIDE DEF new
  <2>4. SendOK(new)
    BY <2>3 DEF Typed, SendOK
  <2> QED
    BY <2>4 DEF EnterFile, new
<1>3. recv' = Filled(recv, length)
  BY DEF EnterFile
<1> DEFINE rest == SubSeq(PGS_IN, recv'.len + 1, length)
           new  == Filled(recv, length)
<1>4. /\ RecvOK(recv') /\ Remaining(recv') > 0 /\ recv'.len \in Nat /\ recv'.len <= length
      /\ FileOK(recv', rest) /\ rest \in Bytes
  <2> HIDE DEF length
  <2>1. /\ RecvOK(new) /\ Remaining(new) > 0 /\ new.len \in Nat /\ new.len <= length
        /\ FileOK(new, SubSeq(PGS_IN, new.len + 1, length)) /\ SubSeq(PGS_IN, new.len + 1, length) \in Bytes
    BY <1>0, FilledType DEF Typed, length
  <2> HIDE DEF new
  <2> QED
    BY <1>3, <2>1 DEF new
<1>5. MemOK(memory')
  <2>1. SubSeq(PGS_IN, 1, recv'.len) \in Bytes
    BY <1>0, <1>4, PartType
  <2>2. recv.buf \in {"cma", "static"} /\ MemOK(memory) /\ 0 \in Int
    BY DEF Typed, RecvOK, RecvType
  <2> DEFINE part == SubSeq(PGS_IN, 1, recv'.len)
  <2>3. memory' = Written(memory, recv.buf, 0, part)
    BY DEF EnterFile
  <2> HIDE DEF part
  <2>4. MemOK(Written(memory, recv.buf, 0, part))
    BY <2>1, <2>2, WrittenType DEF part
  <2> QED
    BY <2>3, <2>4
<1>6. PGS_IN' = rest /\ pc' = "loop"
  BY DEF EnterFile
<1> HIDE DEF rest, length
<1>7. FilesOK'
  BY <1>4, <1>6 DEF FilesOK
<1> QED
  BY <1>1, <1>2, <1>4, <1>5, <1>7 DEF Typed

LEMMA StartMessageInv ==
  ASSUME Typed, StartMessage
  PROVE  Typed'
<1>1. ControlOK'
  <2>1. /\ need' \in Nat /\ pc' \in Pcs
    <3>1. ASSUME NEW starts, starts \subseteq DOMAIN ends, starts # {},
                 need' = Length(CHOOSE i \in starts : TRUE)
          PROVE  need' \in Nat
      <4>1. PICK i : i \in DOMAIN ends /\ need' = Length(i)
        BY <3>1
      <4>2. ends \in Requests
        <5>1. ends # <<>>
          BY <4>1
        <5> QED
          BY <5>1 DEF Typed, ControlOK
      <4> QED
        BY <4>1, <4>2, RequestType, OffsetType
    <3> DEFINE first  == IF Remaining(recv') > 0 THEN memory[recv'.buf][recv'.ptr + 1] ELSE Foreign
               starts == {i \in DOMAIN ends : first = <<1, Offset(i) + 1>>}
    <3>2. \/ starts # {} /\ need' = Length(CHOOSE i \in starts : TRUE) /\ pc' = "reading"
          \/ need' = 0 /\ pc' = "lost"
      BY DEF StartMessage
    <3>3. starts \subseteq DOMAIN ends
      OBVIOUS
    <3> HIDE DEF starts
    <3> QED
      BY <3>1, <3>2, <3>3 DEF Pcs
  <2> QED
    BY <2>1 DEF Typed, StartMessage, ControlOK, host, sizes, history, faults
<1>2. Remaining(recv) > 0 \/ ~send.sockfiles
  BY DEF Typed, StartMessage, FilesOK
<1>3. cma_rsize \in 0 .. CmaEnd - 1 /\ RecvOK(recv) /\ SendOK(send) /\ send.sockfiles \in BOOLEAN
  BY DEF Typed, ControlOK, SendOK, SendType
<1> DEFINE started == StartRecv(recv, send)
<1>4. RecvOK(started) /\ started.fp = recv.fp /\ started.querylen = recv.querylen
  BY <1>2, <1>3, StartRecvType
<1>5. recv' = [started EXCEPT !.reading = TRUE] /\ PGS_IN' = PGS_IN /\ memory' = memory
  BY DEF StartMessage
<1>6. pc' \in {"reading", "lost"}
  BY DEF StartMessage
<1> HIDE DEF started
<1>7. RecvOK(recv') /\ recv'.fp = recv.fp /\ recv'.querylen = recv.querylen
  <2>1. started \in RecvType
    BY <1>4 DEF RecvOK
  <2>2. /\ recv' \in RecvType /\ recv'.ptr = started.ptr /\ recv'.len = started.len
        /\ recv'.buf = started.buf /\ recv'.fp = started.fp /\ recv'.querylen = started.querylen
    BY <1>5, <2>1 DEF RecvType
  <2> QED
    BY <1>4, <2>2 DEF RecvOK
<1>8. SendOK(send')
  BY <1>3, StartSendType DEF StartMessage
<1>9. FilesOK'
  BY <1>5, <1>6, <1>7 DEF Typed, FilesOK, FileOK
<1> QED
  BY <1>1, <1>5, <1>7, <1>8, <1>9 DEF Typed

LEMMA StartInMessageInv ==
  ASSUME Typed, StartInMessage
  PROVE  Typed'
<1>1. ControlOK'
  BY DEF Typed, StartInMessage, ControlOK, Pcs, host, sizes, history, faults
<1>2. FilesOK'
  BY DEF Typed, StartInMessage, FilesOK
<1> QED
  BY <1>1, <1>2 DEF Typed, StartInMessage

LEMMA TakeInv ==
  ASSUME Typed, Take
  PROVE  Typed'
<1> DEFINE left == Remaining(recv)
           n    == Min({need, left})
<1>1. /\ need \in Nat /\ left \in Nat /\ recv.ptr \in Nat /\ recv.len \in Nat
      /\ recv.ptr + left = recv.len /\ recv \in RecvType
  BY DEF Typed, ControlOK, RecvOK, RecvType, Remaining, Take
<1>2. /\ need' = need - n /\ recv' = [recv EXCEPT !.ptr = @ + n]
  BY DEF Take
<1> HIDE DEF left
<1>3. n \in {need, left} /\ n <= need /\ n <= left
  <2>1. need \in Int /\ left \in Int
    BY <1>1
  <2>2. Min({need, left}) \in {need, left} /\ Min({need, left}) <= need /\ Min({need, left}) <= left
    BY <2>1, MinOfTwo
  <2> QED
    BY <2>2
<1> HIDE DEF n
<1>4. n \in Nat /\ need - n \in Nat /\ recv.ptr + n \in Nat /\ recv.ptr + n <= recv.len
  BY <1>1, <1>3
<1>5. ControlOK'
  BY <1>2, <1>4 DEF Typed, Take, ControlOK, Pcs, host, sizes, history, faults
<1>6. RecvOK(recv') /\ recv'.fp = recv.fp /\ recv'.querylen = recv.querylen
  <2> DEFINE ptr == recv.ptr + n
  <2>1. recv' = [recv EXCEPT !.ptr = ptr]
    BY <1>2
  <2>2. ptr \in Nat /\ ptr <= recv.len
    BY <1>4
  <2> HIDE DEF ptr
  <2>3. /\ recv' \in RecvType /\ recv'.ptr = ptr /\ recv'.len = recv.len
        /\ recv'.buf = recv.buf /\ recv'.fp = recv.fp /\ recv'.querylen = recv.querylen
    BY <1>1, <2>1, <2>2 DEF RecvType
  <2> QED
    BY <2>2, <2>3 DEF Typed, RecvOK
<1>7. FilesOK'
  BY <1>6 DEF Typed, Take, FilesOK, FileOK
<1> QED
  BY <1>5, <1>6, <1>7 DEF Typed, Take

LEMMA RefillInv ==
  ASSUME Typed, Refill
  PROVE  Typed'
<1> DEFINE got  == IF recv.fp = "open" THEN Got(RecvSize) ELSE 0
           part == SubSeq(PGS_IN, 1, got)
           rest == SubSeq(PGS_IN, got + 1, Len(PGS_IN))
<1>1. /\ RecvOK(recv) /\ PGS_IN \in Bytes /\ FileOK(recv, PGS_IN) /\ recv.fp # "none" /\ MemOK(memory)
      /\ recv.buf \in {"cma", "static"} /\ 0 \in Int
  BY DEF Typed, FilesOK, Refill, HasFile, RecvOK, RecvType
<1>2. /\ recv' = Refilled(recv, got) /\ memory' = Written(memory, recv.buf, 0, part)
      /\ PGS_IN' = rest /\ pc' \in {"reading", "stale"}
  BY DEF Refill
<1> HIDE DEF part, rest
<1>3. /\ RecvOK(Refilled(recv, got)) /\ got \in Nat /\ got <= Len(PGS_IN)
      /\ FileOK(Refilled(recv, got), rest) /\ rest \in Bytes
  <2> HIDE DEF got
  <2>1. got = IF recv.fp = "open" THEN Got(RecvSize) ELSE 0
    BY DEF got
  <2> QED
    BY <1>1, <2>1, RefilledType DEF rest
<1> HIDE DEF got
<1>4. MemOK(memory')
  <2>1. part \in Bytes
    BY <1>1, <1>3, PartType DEF part
  <2>2. MemOK(Written(memory, recv.buf, 0, part))
    BY <1>1, <2>1, WrittenType
  <2> QED
    BY <1>2, <2>2
<1>5. ControlOK'
  BY <1>2 DEF Typed, Refill, ControlOK, Pcs, host, sizes, history, faults
<1>6. FilesOK'
  BY <1>2, <1>3 DEF FilesOK
<1>7. RecvOK(recv') /\ send' = send
  BY <1>2, <1>3 DEF Refill
<1> QED
  BY <1>4, <1>5, <1>6, <1>7 DEF Typed

LEMMA EndOfFileInv ==
  ASSUME Typed, EndOfFile
  PROVE  Typed'
<1>0. CmaEnd \in Nat /\ RecvSize \in Nat \ {0} /\ RecvSize < CmaEnd
  BY BufferAssumption DEF BufferAssumption
<1>1. ControlOK'
  BY DEF Typed, EndOfFile, ControlOK, Pcs, host, sizes, history, faults
<1>2. RecvOK(recv') /\ recv'.fp = recv.fp /\ recv'.querylen = recv.querylen
  <2>1. recv \in RecvType
    BY DEF Typed, RecvOK
  <2>2. /\ recv' \in RecvType /\ recv'.ptr = 0 /\ recv'.len = 0
        /\ recv'.fp = recv.fp /\ recv'.querylen = recv.querylen
    BY <2>1 DEF EndOfFile, RecvType
  <2> QED
    BY <1>0, <2>2 DEF RecvOK
<1>3. FilesOK'
  BY <1>2 DEF Typed, EndOfFile, FilesOK, FileOK
<1> QED
  BY <1>1, <1>2, <1>3 DEF Typed, EndOfFile

LEMMA ServeInv ==
  ASSUME Typed, Serve
  PROVE  Typed'
<1>1. ControlOK'
  BY DEF Typed, Serve, ControlOK, Pcs, host, sizes, faults
<1>2. RecvOK(recv') /\ recv'.fp = recv.fp /\ recv'.querylen = recv.querylen
  <2>1. recv \in RecvType
    BY DEF Typed, RecvOK
  <2>2. /\ recv' \in RecvType /\ recv'.ptr = recv.ptr /\ recv'.len = recv.len /\ recv'.buf = recv.buf
        /\ recv'.fp = recv.fp /\ recv'.querylen = recv.querylen
    BY <2>1 DEF Serve, RecvType
  <2> QED
    BY <2>2 DEF Typed, RecvOK
<1>3. FilesOK'
  BY <1>2 DEF Typed, Serve, FilesOK, FileOK
<1> QED
  BY <1>1, <1>2, <1>3 DEF Typed, Serve

LEMMA ReplyInv ==
  ASSUME IInv, Reply
  PROVE  Typed'
<1>1. PICK n \in PutSizes :
        /\ emitted + n <= MaxReply
        /\ send' = Put(send, ReplyBytes(emitted, n))
        /\ memory' = PutMemory(send, ReplyBytes(emitted, n))
        /\ emitted' = emitted + n
  BY DEF Reply
<1>2. n \in Nat /\ emitted \in Nat /\ MaxReply \in Nat
  BY BufferAssumption DEF BufferAssumption, IInv, Typed, ControlOK
<1>3. ControlOK'
  <2>1. emitted' \in 0 .. MaxReply
    BY <1>1, <1>2
  <2> QED
    BY <2>1 DEF IInv, Typed, Reply, ControlOK, Pcs, host, sizes, faults
<1>4. SendOK(send') /\ MemOK(memory')
  <2> DEFINE bytes == ReplyBytes(emitted, n)
  <2>1. bytes \in Bytes /\ Len(bytes) = n
    BY <1>2, BytesType
  <2>2. send' = Put(send, bytes) /\ memory' = PutMemory(send, bytes)
    BY <1>1
  <2> HIDE DEF bytes
  <2>3. RoomFor(send, Len(bytes))
    <3>1. ~send.sockfiles => send.ptr <= emitted
      BY DEF IInv, RoomOK, Reply
    <3>2. send.ptr \in Nat
      BY DEF IInv, Typed, SendOK, SendType
    <3> QED
      BY <1>1, <1>2, <2>1, <3>1, <3>2 DEF RoomFor
  <2>4. SendOK(Put(send, bytes)) /\ MemOK(PutMemory(send, bytes))
    BY <2>1, <2>3, PutType DEF IInv, Typed
  <2> QED
    BY <2>2, <2>4
<1>5. FilesOK'
  BY DEF IInv, Typed, Reply, FilesOK
<1> QED
  BY <1>3, <1>4, <1>5 DEF IInv, Typed, Reply

LEMMA EndMessageInv ==
  ASSUME Typed, EndMessage
  PROVE  Typed'
<1>1. ControlOK'
  <2>1. pipelining' \in BOOLEAN
    BY DEF EndMessage, More
  <2> QED
    BY <2>1 DEF Typed, EndMessage, ControlOK, Pcs, host, sizes, history, faults
<1>2. FilesOK'
  BY DEF Typed, EndMessage, FilesOK, More
<1> QED
  BY <1>1, <1>2 DEF Typed, EndMessage

LEMMA LeaveInv ==
  ASSUME Typed, Leave
  PROVE  Typed'
<1>0. CmaEnd \in Nat /\ RecvSize \in Nat \ {0} /\ RecvSize < CmaEnd
  BY BufferAssumption DEF BufferAssumption
<1>1. send \in SendType /\ <<>> \in Bytes /\ recv \in RecvType
  BY DEF Typed, SendOK, RecvOK, Bytes
<1>2. ControlOK'
  <2>1. cma_wsize' \in Nat /\ skipped' \in BOOLEAN
    BY <1>1 DEF Typed, Leave, ControlOK, SendType
  <2>2. 0 \in 0 .. CmaEnd - 1
    BY <1>0
  <2> QED
    BY <2>1, <2>2 DEF Typed, Leave, ControlOK, Pcs
<1>3. SendOK(send')
  <2>1. /\ send' \in SendType /\ send'.base = send.base /\ send'.size = send.size /\ send'.ptr = send.ptr
    BY <1>1 DEF Leave, SendType
  <2> QED
    BY <2>1 DEF Typed, SendOK
<1>4. RecvOK(recv') /\ recv'.fp # "open"
  <2> DEFINE fp == IF recv.fp = "open" THEN "closed" ELSE recv.fp
  <2>1. recv' = [recv EXCEPT !.fp = fp]
    BY DEF Leave
  <2>2. fp \in {"none", "closed"}
    BY <1>1 DEF RecvType
  <2> HIDE DEF fp
  <2>3. /\ recv' \in RecvType /\ recv'.ptr = recv.ptr /\ recv'.len = recv.len /\ recv'.buf = recv.buf
        /\ recv'.fp = fp
    BY <1>1, <2>1, <2>2 DEF RecvType
  <2> QED
    BY <2>2, <2>3 DEF Typed, RecvOK
<1>5. MemOK(memory')
  <2>1. <<Foreign>> \in Bytes
    BY DEF Foreign, Bytes, Byte
  <2>2. MemOK(memory) /\ memory' = Written(memory, "cma", 0, <<Foreign>>)
    BY DEF Typed, Leave
  <2>3. 0 \in Int /\ "cma" \in {"cma", "static"}
    OBVIOUS
  <2> QED
    BY <2>1, <2>2, <2>3, WrittenType
<1>6. FilesOK'
  <2>1. PGS_IN' = <<>> /\ pc' = "returned"
    BY DEF Leave
  <2> QED
    BY <1>1, <1>4, <2>1 DEF FilesOK, FileOK
<1> QED
  BY <1>2, <1>3, <1>4, <1>5, <1>6 DEF Typed

-----------------------------------------------------------------------------
\* Every step keeps the types ...
LEMMA NextTyped == IInv /\ [Next]_vars => Typed'
<1> SUFFICES ASSUME IInv, [Next]_vars PROVE Typed'
  OBVIOUS
<1>0. Typed
  BY DEF IInv
<1>1. CASE Host
  BY <1>0, <1>1, HostCmaInv, HostFileInv, HostReadInv DEF Host
<1>2. CASE Reply
  BY <1>2, ReplyInv
<1>3. CASE Backend
  BY <1>0, <1>3, EnterCmaInv, EnterFileInv, StartMessageInv, StartInMessageInv, TakeInv, RefillInv,
     EndOfFileInv, ServeInv, EndMessageInv, LeaveInv DEF Backend
<1>4. CASE UNCHANGED vars
  BY <1>0, <1>4 DEF vars, Typed, ControlOK, FilesOK, host, sizes, history, faults
<1> QED
  BY <1>1, <1>2, <1>3, <1>4 DEF Next

\* ... and writes no more into memory than it counts.
LEMMA PutPointer ==
  ASSUME NEW s, SendOK(s), NEW bytes \in Bytes
  PROVE  Put(s, bytes).ptr <= s.ptr + Len(bytes) /\ Put(s, bytes).ptr \in Nat
<1> DEFINE room == Room(s)
           length == Len(bytes)
           n    == Min({length, room})
           ptr  == s.ptr + Len(InMemory(s, bytes))
<1>1. length \in Nat /\ s.ptr \in Nat /\ s \in SendType
  BY DEF Bytes, SendOK, SendType
<1>2. room \in Nat
  BY RoomType
<1>3. InMemory(s, bytes) = SubSeq(bytes, 1, n)
  BY DEF InMemory
<1> HIDE DEF room
<1>4. n \in Nat /\ n <= Len(bytes)
  <2> HIDE DEF length
  <2>0. length \in Int /\ room \in Int
    BY <1>1, <1>2
  <2>1. Min({length, room}) \in {length, room} /\ Min({length, room}) <= length
    BY <2>0, MinOfTwo
  <2> HIDE DEF n
  <2>2. (n = length \/ n = room) /\ n <= length
    BY <2>1 DEF n
  <2>3. n \in Nat /\ n <= length
    BY <1>1, <1>2, <2>2
  <2> QED
    BY <2>3 DEF length
<1> HIDE DEF n
<1>5. Len(InMemory(s, bytes)) = n
  BY <1>1, <1>3, <1>4, PartType
<1>6. Put(s, bytes).ptr = ptr
  BY <1>1 DEF Put, SendType
<1> QED
  BY <1>1, <1>4, <1>5, <1>6

LEMMA NextRoom == IInv /\ [Next]_vars => RoomOK'
<1> SUFFICES ASSUME IInv, [Next]_vars PROVE RoomOK'
  OBVIOUS
<1>0. /\ RoomOK /\ RecvOK(recv) /\ SendOK(send) /\ emitted \in Nat
      /\ recv \in RecvType /\ send \in SendType /\ Remaining(recv) \in Int
  BY BufferAssumption DEF BufferAssumption, IInv, Typed, ControlOK, RecvOK, SendOK, RecvType, Remaining
<1>1. CASE Host
  <2>1. recv' = recv /\ pc \in {"host", "returned"} /\ pc' \in {"host", "enter"}
    BY <1>1 DEF Host, HostCma, HostFile, HostRead, NewRequest
  <2> QED
    BY <1>0, <2>1 DEF RoomOK, Remaining
<1>2. CASE Reply
  <2>1. PICK n \in PutSizes : send' = Put(send, ReplyBytes(emitted, n)) /\ emitted' = emitted + n
    BY <1>2 DEF Reply
  <2>2. pc' = pc /\ recv' = recv /\ pc \in {"serving", "flush"} /\ n \in Nat
    BY <1>2, BufferAssumption DEF BufferAssumption, Reply
  <2> DEFINE bytes == ReplyBytes(emitted, n)
  <2>3. bytes \in Bytes /\ Len(bytes) = n /\ send' = Put(send, bytes)
    BY <1>0, <2>1, <2>2, BytesType
  <2> HIDE DEF bytes
  <2>4. send'.ptr <= send.ptr + n /\ send'.ptr \in Nat /\ send.ptr \in Nat
    BY <1>0, <2>3, PutPointer DEF SendType
  <2>5. send'.sockfiles = (send.sockfiles \/ Overflowing(send, bytes) # <<>>)
    BY <1>0, <2>3 DEF Put, SendType
  <2>6. ~send'.sockfiles => send'.ptr <= emitted'
    <3>1. ~send'.sockfiles => send.ptr <= emitted
      BY <1>0, <2>2, <2>5 DEF RoomOK
    <3>2. send.ptr <= emitted => send'.ptr <= emitted + n
      BY <1>0, <2>2, <2>4
    <3> QED
      BY <2>1, <3>1, <3>2
  <2>7. Remaining(recv') = Remaining(recv) /\ (pc = "flush" => Remaining(recv) <= 0)
    BY <1>0, <2>2 DEF RoomOK
  <2> QED
    BY <2>2, <2>6, <2>7 DEF RoomOK
<1>3. CASE Backend
  <2>1. CASE EnterCma
    <3>1. recv' = recv /\ pc = "enter" /\ pc' = "loop"
      BY <2>1 DEF EnterCma
    <3>2. ~(Remaining(recv') > 0)
      BY <1>0, <3>1 DEF RoomOK
    <3> QED
      BY <3>1, <3>2 DEF RoomOK
  <2>2. CASE EnterFile
    <3>1. pc' = "loop" /\ send'.sockfiles
      BY <1>0, <2>2 DEF EnterFile, SendType
    <3> QED
      BY <3>1 DEF RoomOK
  <2>3. CASE StartMessage
    <3>1. pc = "loop" /\ pc' \in {"reading", "lost"} /\ emitted' = emitted /\ send' = StartSend(recv, send)
      BY <2>3 DEF StartMessage, history
    <3>2. ~send'.sockfiles => send'.ptr <= emitted
      <4>1. CASE Remaining(recv) > 0 \/ send.sockfiles
        BY <1>0, <3>1, <4>1 DEF StartSend, RoomOK
      <4>2. CASE ~(Remaining(recv) > 0 \/ send.sockfiles)
        <5>1. send' = [send EXCEPT !.base = cma_rsize + 2, !.ptr = 0, !.size = CmaEnd - (cma_rsize + 2)]
          BY <3>1, <4>2 DEF StartSend
        <5>2. send'.ptr = 0
          BY <1>0, <5>1 DEF SendType
        <5> QED
          BY <1>0, <5>2
      <4> QED
        BY <4>1, <4>2
    <3> QED
      BY <3>1, <3>2 DEF RoomOK
  <2>4. CASE Take \/ Refill \/ Serve
    <3>1. /\ pc = "reading" /\ pc' \in {"reading", "stale", "serving"}
          /\ send' = send /\ emitted' = emitted
      BY <2>4 DEF Take, Refill, WantsMore, Serve, history
    <3> QED
      BY <1>0, <3>1 DEF RoomOK
  <2>5. CASE EndOfFile
    <3>1. recv' = [recv EXCEPT !.ptr = 0, !.len = 0] /\ pc' = "ended"
      BY <2>5 DEF EndOfFile
    <3>2. Remaining(recv') = 0
      BY <1>0, <3>1 DEF Remaining, RecvType
    <3> QED
      BY <3>1, <3>2 DEF RoomOK
  <2>6. CASE EndMessage
    <3>1. /\ pc = "serving" /\ pc' = IF Remaining(recv) > 0 THEN "loop" ELSE "flush"
          /\ recv' = recv /\ send' = send /\ emitted' = emitted
      BY <2>6 DEF EndMessage, More, history
    <3>2. Remaining(recv') = Remaining(recv) /\ (pc' = "flush" => Remaining(recv) <= 0)
      BY <1>0, <3>1
    <3>3. ~send'.sockfiles => send'.ptr <= emitted'
      BY <1>0, <3>1 DEF RoomOK
    <3> QED
      BY <3>1, <3>2, <3>3 DEF RoomOK
  <2>7. CASE Leave
    <3>1. pc \in {"flush", "ended"} /\ pc' = "returned"
      BY <2>7 DEF Leave
    <3>2. recv'.ptr = recv.ptr /\ recv'.len = recv.len
      BY <1>0, <2>7 DEF Leave, RecvType
    <3> QED
      BY <1>0, <3>1, <3>2 DEF RoomOK, Remaining
  <2>8. CASE StartInMessage
    BY <2>8 DEF StartInMessage, RoomOK
  <2> QED
    BY <1>3, <2>1, <2>2, <2>3, <2>4, <2>5, <2>6, <2>7, <2>8 DEF Backend
<1>4. CASE UNCHANGED vars
  <2>1. recv' = recv /\ send' = send /\ pc' = pc /\ emitted' = emitted
    BY <1>4 DEF vars
  <2> QED
    BY <1>0, <2>1 DEF RoomOK, Remaining
<1> QED
  BY <1>1, <1>2, <1>3, <1>4 DEF Next

LEMMA InitRoom == Init => RoomOK
BY DEF Init, RoomOK, Remaining

\* Pointers stay in their buffers: whatever is sent, by whichever transport and
\* however short of the lengths it announces, pqcomm.c reads nothing outside of
\* the shared memory area and its own buffer, and writes nothing there but the
\* reply to a request that fills the area, for which the size is negative.
THEOREM TypeCorrect == Spec => []TypeOK
<1>1. Init => IInv
  BY InitInv, InitRoom DEF IInv
<1>2. IInv /\ [Next]_vars => IInv'
  BY NextTyped, NextRoom DEF IInv
<1>3. Spec => []IInv
  BY <1>1, <1>2, PTL DEF Spec
<1>4. IInv => TypeOK
  BY InvImpliesTypeOK DEF IInv
<1> QED
  BY <1>3, <1>4, PTL
=============================================================================
