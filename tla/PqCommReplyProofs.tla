-------------------------- MODULE PqCommReplyProofs --------------------------
(***************************************************************************)
(* The send side of pqcomm.c: what the host reads are the bytes written,   *)
(* in order and once each, wherever the end of the memory area falls.      *)
(***************************************************************************)
EXTENDS PqCommStreamProofs

-----------------------------------------------------------------------------
(* The invariant *)

Replying == pc \in {"loop", "reading", "serving", "flush", "ended"}

\* From offset on, the shared memory has the first n bytes of the reply.
ReplyHolds(m, offset, n) == \A j \in 1 .. n : m["cma"][offset + j] = <<2, j>>

\* A reply begins with nothing.
NothingSent ==
  /\ pc = "host" \/ Untouched => emitted = 0 /\ send.SOCKET_DATA = 0
  /\ pc = "returned" => send.SOCKET_DATA = 0

\* All of the reply is in its file, or none of it.
InFile ==
  /\ Replying => send.olock = ReplyBytes(0, IF send.sockfiles THEN emitted ELSE 0)
  /\ Replying /\ recv.fp = "open" => send.sockfiles

\* In the other case it is in memory, and counted twice.
InArea ==
  Replying /\ ~Untouched /\ ~send.sockfiles =>
    /\ send.ptr = emitted /\ send.SOCKET_DATA = emitted
    /\ ReplyHolds(memory, send.base - 1, emitted)

RInv == NothingSent /\ InFile /\ InArea /\ ReplyExact

-----------------------------------------------------------------------------
(* The bytes of a reply *)

LEMMA ReplyType ==
  ASSUME NEW from \in Nat, NEW n \in Nat
  PROVE  /\ ReplyBytes(from, n) \in Seq(Byte) /\ Len(ReplyBytes(from, n)) = n
         /\ \A j \in 1 .. n : ReplyBytes(from, n)[j] = <<2, from + j>>
<1>1. ReplyBytes(from, n) \in Seq(Byte) /\ Len(ReplyBytes(from, n)) = n
  BY BytesType DEF Bytes
<1> QED
  BY <1>1 DEF ReplyBytes

LEMMA ReplyEqual ==
  ASSUME NEW from \in Nat, NEW s \in Seq(Byte), \A j \in 1 .. Len(s) : s[j] = <<2, from + j>>
  PROVE  s = ReplyBytes(from, Len(s))
<1> DEFINE n == Len(s)
           t == ReplyBytes(from, n)
<1>0. n \in Nat
  OBVIOUS
<1> HIDE DEF n
<1>1. t \in Seq(Byte) /\ Len(t) = n /\ \A j \in 1 .. n : t[j] = <<2, from + j>>
  BY <1>0, ReplyType
<1> HIDE DEF t
<1>2. \A j \in 1 .. Len(s) : s[j] = t[j]
  BY <1>1 DEF n
<1>3. s = t
  BY <1>1, <1>2, SeqEqual DEF n
<1> QED
  BY <1>3 DEF t, n

LEMMA ReplyConcat ==
  ASSUME NEW from \in Nat, NEW n \in Nat, NEW k \in Nat
  PROVE  ReplyBytes(from, n) \o ReplyBytes(from + n, k) = ReplyBytes(from, n + k)
<1> DEFINE a == ReplyBytes(from, n)
           b == ReplyBytes(from + n, k)
<1>1. a \in Seq(Byte) /\ Len(a) = n /\ \A j \in 1 .. n : a[j] = <<2, from + j>>
  BY ReplyType
<1>2. b \in Seq(Byte) /\ Len(b) = k /\ \A j \in 1 .. k : b[j] = <<2, (from + n) + j>>
  <2> DEFINE at == from + n
  <2>1. at \in Nat
    OBVIOUS
  <2> HIDE DEF at
  <2>2. /\ ReplyBytes(at, k) \in Seq(Byte) /\ Len(ReplyBytes(at, k)) = k
        /\ \A j \in 1 .. k : ReplyBytes(at, k)[j] = <<2, at + j>>
    BY <2>1, ReplyType
  <2> QED
    BY <2>2 DEF at
<1> HIDE DEF a, b
<1>3. /\ a \o b \in Seq(Byte) /\ Len(a \o b) = n + k
      /\ \A j \in 1 .. n + k : (a \o b)[j] = IF j <= n THEN a[j] ELSE b[j - n]
  BY <1>1, <1>2, ConcatProperties
<1>4. ASSUME NEW j \in 1 .. n + k PROVE (a \o b)[j] = <<2, from + j>>
  <2>1. CASE j <= n
    BY <1>1, <1>3, <2>1
  <2>2. CASE ~(j <= n)
    <3>1. j - n \in 1 .. k /\ (from + n) + (j - n) = from + j
      BY <2>2
    <3> QED
      BY <1>2, <1>3, <2>2, <3>1
  <2> QED
    BY <2>1, <2>2
<1>5. a \o b = ReplyBytes(from, n + k)
  <2> DEFINE c == a \o b
             l == n + k
  <2>1. l \in Nat /\ c \in Seq(Byte) /\ Len(c) = l /\ \A j \in 1 .. l : c[j] = <<2, from + j>>
    <3>1. l \in Nat
      OBVIOUS
    <3>2. c \in Seq(Byte) /\ Len(c) = l
      BY <1>3
    <3>3. \A j \in 1 .. l : c[j] = <<2, from + j>>
      BY <1>4
    <3> QED
      BY <3>1, <3>2, <3>3
  <2> HIDE DEF c, l
  <2>2. \A j \in 1 .. Len(c) : c[j] = <<2, from + j>>
    <3>1. Len(c) = l /\ \A j \in 1 .. l : c[j] = <<2, from + j>>
      BY <2>1
    <3> QED
      BY <3>1
  <2>3. c = ReplyBytes(from, Len(c))
    BY <2>1, <2>2, ReplyEqual
  <2> QED
    BY <2>1, <2>3 DEF c, l
<1> QED
  BY <1>5 DEF a, b

\* A reply is split where the memory ends.
LEMMA ReplySplit ==
  ASSUME NEW from \in Nat, NEW n \in Nat, NEW k \in Nat, k <= n
  PROVE  /\ SubSeq(ReplyBytes(from, n), 1, k) = ReplyBytes(from, k)
         /\ SubSeq(ReplyBytes(from, n), k + 1, n) = ReplyBytes(from + k, n - k)
<1> DEFINE s == ReplyBytes(from, n)
           a == SubSeq(s, 1, k)
           b == SubSeq(s, k + 1, n)
<1>1. s \in Seq(Byte) /\ Len(s) = n /\ \A j \in 1 .. n : s[j] = <<2, from + j>>
  BY ReplyType
<1> HIDE DEF s
<1>2. a \in Seq(Byte) /\ Len(a) = k /\ \A j \in 1 .. k : a[j] = s[j]
  <2>1. a \in Bytes /\ (1 <= k => Len(a) = k) /\ (1 > k => Len(a) = 0)
    BY <1>1, PartType DEF Bytes
  <2>2. \A j \in 1 .. k : a[j] = s[j]
    BY <1>1
  <2> HIDE DEF a
  <2>3. Len(a) = k
    BY <2>1
  <2> QED
    BY <2>1, <2>2, <2>3 DEF Bytes
<1>3. b \in Seq(Byte) /\ Len(b) = n - k /\ \A j \in 1 .. n - k : b[j] = s[k + j]
  BY <1>1
<1> HIDE DEF a, b
<1>4. a = ReplyBytes(from, k)
  <2>1. \A j \in 1 .. Len(a) : a[j] = <<2, from + j>>
    BY <1>1, <1>2
  <2>2. a = ReplyBytes(from, Len(a))
    BY <1>2, <2>1, ReplyEqual
  <2> QED
    BY <1>2, <2>2
<1>5. b = ReplyBytes(from + k, n - k)
  <2>1. \A j \in 1 .. n - k : k + j \in 1 .. n /\ from + (k + j) = (from + k) + j
    OBVIOUS
  <2> DEFINE at == from + k
  <2>2. \A j \in 1 .. Len(b) : b[j] = <<2, at + j>>
    BY <1>1, <1>3, <2>1
  <2>3. at \in Nat
    OBVIOUS
  <2> HIDE DEF at
  <2>4. b = ReplyBytes(at, Len(b))
    BY <1>3, <2>2, <2>3, ReplyEqual
  <2> QED
    BY <1>3, <2>4 DEF at
<1> QED
  BY <1>4, <1>5 DEF a, b, s

-----------------------------------------------------------------------------
(* internal_putbytes *)

\* How much of a reply of n bytes stays in memory.
Kept(s, n) == Min({n, Room(s)})

LEMMA InMemoryReply ==
  ASSUME NEW s, SendOK(s), NEW from \in Nat, NEW n \in Nat
  PROVE  /\ Kept(s, n) \in Nat /\ Kept(s, n) <= n /\ Kept(s, n) <= Room(s)
         /\ s.sockfiles => Kept(s, n) = 0
         /\ InMemory(s, ReplyBytes(from, n)) = ReplyBytes(from, Kept(s, n))
         /\ Len(InMemory(s, ReplyBytes(from, n))) = Kept(s, n)
         /\ Overflowing(s, ReplyBytes(from, n)) = ReplyBytes(from + Kept(s, n), n - Kept(s, n))
         /\ Overflowing(s, ReplyBytes(from, n)) = <<>> <=> Kept(s, n) = n
<1> DEFINE bytes == ReplyBytes(from, n)
           room  == Room(s)
           k     == Min({n, room})
<1>1. Len(bytes) = n /\ room \in Nat
  BY ReplyType, RoomType
<1>2. s.sockfiles => room = 0
  BY DEF Room
<1> HIDE DEF room
<1>3. k \in Nat /\ k <= n /\ k <= room
  <2>1. n \in Int /\ room \in Int
    BY <1>1
  <2>2. Min({n, room}) \in {n, room} /\ Min({n, room}) <= n /\ Min({n, room}) <= room
    BY <2>1, MinOfTwo
  <2> HIDE DEF k
  <2>3. k = n \/ k = room
    BY <2>2 DEF k
  <2>4. k <= n /\ k <= room
    BY <2>2 DEF k
  <2> QED
    BY <1>1, <2>3, <2>4
<1>4. InMemory(s, bytes) = SubSeq(bytes, 1, k)
  BY <1>1 DEF InMemory, room
<1> HIDE DEF k
<1>5. InMemory(s, bytes) = ReplyBytes(from, k)
  BY <1>3, <1>4, ReplySplit
<1>6. Len(InMemory(s, bytes)) = k
  BY <1>3, <1>5, ReplyType
<1>7. Overflowing(s, bytes) = ReplyBytes(from + k, n - k)
  <2>1. Overflowing(s, bytes) = SubSeq(bytes, k + 1, n)
    BY <1>1, <1>6 DEF Overflowing
  <2> QED
    BY <1>3, <2>1, ReplySplit
<1>8. Overflowing(s, bytes) = <<>> <=> k = n
  <2> DEFINE over == ReplyBytes(from + k, n - k)
  <2>1. n - k \in Nat /\ from + k \in Nat
    BY <1>3
  <2>2. over \in Seq(Byte) /\ Len(over) = n - k
    BY <2>1, ReplyType
  <2> HIDE DEF over
  <2>3. over = <<>> <=> n - k = 0
    BY <2>2
  <2> QED
    BY <1>3, <1>7, <2>3 DEF over
<1>9. s.sockfiles => k = 0
  BY <1>1, <1>2, <1>3
<1>10. Kept(s, n) = k
  BY DEF Kept, k, room
<1> QED
  BY <1>3, <1>5, <1>6, <1>7, <1>8, <1>9, <1>10 DEF room

LEMMA PutFields ==
  ASSUME NEW s \in SendType, NEW bytes
  PROVE  /\ Put(s, bytes).base = s.base
         /\ Put(s, bytes).ptr = s.ptr + Len(InMemory(s, bytes))
         /\ Put(s, bytes).sockfiles = (s.sockfiles \/ Overflowing(s, bytes) # <<>>)
         /\ Put(s, bytes).SOCKET_DATA = s.SOCKET_DATA + Len(bytes)
         /\ Put(s, bytes).olock = s.olock \o (IF s.sockfiles \/ Overflowing(s, bytes) = <<>> THEN <<>>
                                              ELSE ReadAt(PutMemory(s, bytes), "cma", s.base - 1,
                                                          s.ptr + Len(InMemory(s, bytes))))
                                          \o Overflowing(s, bytes)
BY DEF Put, SendType

\* A reply of n bytes in memory is continued there.
LEMMA PutMemoryHolds ==
  ASSUME NEW s, SendOK(s), MemOK(memory), NEW n \in Nat, NEW k \in Nat, s.ptr = n,
         k <= Room(s), NEW bytes, InMemory(s, bytes) = ReplyBytes(n, k),
         ReplyHolds(memory, s.base - 1, n), n + k <= MaxReply
  PROVE  /\ ReplyHolds(PutMemory(s, bytes), s.base - 1, n + k)
         /\ n + k > 0 => s.base - 1 + (n + k) <= MemEnd
<1> DEFINE base == s.base
           at   == base + n - 1
           here == ReplyBytes(n, k)
           room == Room(s)
<1>1. /\ base \in Nat /\ base <= CmaEnd + 1 /\ MemEnd = CmaEnd + MaxReply /\ CmaEnd \in Nat /\ MaxReply \in Nat
      /\ room \in Nat /\ k <= room
  BY MemEndType, RoomType DEF SendOK, SendType
<1>2. base = 0 => n = 0 /\ room = 0
  <2>1. base = 0 => s.size = 0 /\ n = 0
    BY DEF SendOK
  <2>2. room > 0 /\ s.size >= 0 => n + room <= s.size
    BY RoomType
  <2> HIDE DEF base, room
  <2>3. CASE base = 0
    <3>1. room > 0 => n + room <= 0
      BY <2>1, <2>2, <2>3
    <3> QED
      BY <1>1, <2>1, <2>3, <3>1
  <2> QED
    BY <2>3
<1> HIDE DEF base, room
<1>3. base \in Nat /\ MemEnd \in Nat /\ CmaEnd \in Nat
  BY <1>1
<1>4. n + k > 0 => base - 1 + (n + k) <= MemEnd /\ base > 0
  BY <1>1, <1>2
<1>5. at \in Int /\ here \in Bytes /\ Len(here) = k /\ \A j \in 1 .. k : here[j] = <<2, n + j>>
  <2>1. at \in Int
    BY <1>3
  <2>2. here \in Bytes /\ Len(here) = k /\ \A j \in 1 .. k : here[j] = <<2, n + j>>
    BY ReplyType DEF Bytes
  <2> QED
    BY <2>1, <2>2
<1>6. PutMemory(s, bytes) = Written(memory, "cma", at, here)
  BY DEF PutMemory, base
<1> HIDE DEF at, here
<1>7. ASSUME NEW j \in 1 .. n + k PROVE Written(memory, "cma", at, here)["cma"][base - 1 + j] = <<2, j>>
  <2> DEFINE i == base - 1 + j
  <2>1. i \in DOMAIN memory["cma"]
    <3>1. n + k > 0
      OBVIOUS
    <3>2. i \in 1 .. MemEnd
      BY <1>3, <1>4, <3>1
    <3> QED
      BY <3>2, AreaSize
  <2>2. at = base + n - 1
    BY DEF at
  <2> HIDE DEF i
  <2>3. Written(memory, "cma", at, here)["cma"][i]
          = IF i \in at + 1 .. at + Len(here) THEN here[i - at] ELSE memory["cma"][i]
    <3>1. at \in Int /\ here \in Bytes /\ MemOK(memory)
      BY <1>5
    <3>2. Written(memory, "cma", at, here)["cma"][i]
            = IF "cma" = "cma" /\ i \in at + 1 .. at + Len(here)
                THEN here[i - at] ELSE memory["cma"][i]
      BY <2>1, <3>1, WrittenAt
    <3> QED
      BY <3>2
  <2>4. CASE j <= n
    <3>1. i \notin at + 1 .. at + Len(here) /\ j \in 1 .. n
      BY <1>3, <1>5, <2>2, <2>4 DEF i
    <3>2. memory["cma"][i] = <<2, j>>
      BY <3>1 DEF ReplyHolds, i, base
    <3> QED
      BY <2>3, <3>1, <3>2 DEF i
  <2>5. CASE n < j
    <3>1. i \in at + 1 .. at + Len(here) /\ i - at \in 1 .. k /\ n + (i - at) = j
      BY <1>3, <1>5, <2>2, <2>5 DEF i
    <3>2. here[i - at] = <<2, j>>
      BY <1>5, <3>1
    <3> QED
      BY <2>3, <3>1, <3>2 DEF i
  <2> QED
    BY <2>4, <2>5
<1> QED
  BY <1>4, <1>6, <1>7 DEF ReplyHolds, base

\* Whether a reply stays in memory, moves to the file or goes on there, what
\* was written before it is still there, and it follows that.
LEMMA PutExact ==
  ASSUME NEW s, SendOK(s), MemOK(memory), NEW n \in Nat, NEW k \in Nat, n + k <= MaxReply,
         s.olock = ReplyBytes(0, IF s.sockfiles THEN n ELSE 0),
         ~s.sockfiles => s.ptr = n /\ s.SOCKET_DATA = n /\ ReplyHolds(memory, s.base - 1, n)
  PROVE  LET t == Put(s, ReplyBytes(n, k))
         IN  /\ t.olock = ReplyBytes(0, IF t.sockfiles THEN n + k ELSE 0)
             /\ ~t.sockfiles => /\ t.ptr = n + k /\ t.SOCKET_DATA = n + k
                                /\ ReplyHolds(PutMemory(s, ReplyBytes(n, k)), t.base - 1, n + k)
             /\ s.sockfiles => t.sockfiles
<1> DEFINE bytes == ReplyBytes(n, k)
           t     == Put(s, bytes)
           over  == Overflowing(s, bytes)
           moved == IF s.sockfiles \/ over = <<>> THEN <<>>
                    ELSE ReadAt(PutMemory(s, bytes), "cma", s.base - 1, s.ptr + Len(InMemory(s, bytes)))
<1> DEFINE here == Kept(s, k)
<1>1. /\ here \in Nat /\ here <= k /\ here <= Room(s) /\ (s.sockfiles => here = 0)
      /\ InMemory(s, bytes) = ReplyBytes(n, here) /\ Len(InMemory(s, bytes)) = here
      /\ over = ReplyBytes(n + here, k - here) /\ (over = <<>> <=> here = k)
  BY InMemoryReply
<1> HIDE DEF here
<1>2. s \in SendType /\ s.sockfiles \in BOOLEAN
  BY DEF SendOK, SendType
<1>3. Len(bytes) = k
  BY ReplyType
<1>4. /\ t.base = s.base /\ t.ptr = s.ptr + here /\ t.SOCKET_DATA = s.SOCKET_DATA + k
      /\ t.sockfiles = (s.sockfiles \/ over # <<>>) /\ t.olock = s.olock \o moved \o over
  BY <1>1, <1>2, <1>3, PutFields
<1>5. CASE s.sockfiles
  <2>1. here = 0 /\ moved = <<>> /\ t.sockfiles
    BY <1>1, <1>4, <1>5
  <2>2. over = ReplyBytes(n, k)
    <3>1. n + 0 = n /\ k - 0 = k
      OBVIOUS
    <3> QED
      BY <1>1, <2>1, <3>1
  <2>3. s.olock = ReplyBytes(0, n) /\ s.olock \in Seq(Byte)
    <3>1. s.olock = ReplyBytes(0, n)
      BY <1>5
    <3> QED
      BY <3>1, ReplyType
  <2>4. s.olock \o <<>> = s.olock
    BY <2>3, ConcatEmptySeq
  <2>5. t.olock = ReplyBytes(0, n) \o ReplyBytes(0 + n, k)
    <3>1. 0 + n = n
      OBVIOUS
    <3> QED
      BY <1>4, <2>1, <2>2, <2>3, <2>4, <3>1
  <2>6. t.olock = ReplyBytes(0, n + k)
    BY <2>5, ReplyConcat
  <2> QED
    BY <2>1, <2>6
<1>6. CASE ~s.sockfiles
  <2>1. s.ptr = n /\ s.SOCKET_DATA = n /\ s.olock = ReplyBytes(0, 0) /\ ReplyHolds(memory, s.base - 1, n)
    BY <1>6
  <2>2. ReplyBytes(0, 0) = <<>> /\ <<>> \in Seq(Byte)
    <3>1. ReplyBytes(0, 0) \in Seq(Byte) /\ Len(ReplyBytes(0, 0)) = 0
      BY ReplyType
    <3> QED
      BY <3>1
  <2>3. /\ ReplyHolds(PutMemory(s, bytes), s.base - 1, n + here)
        /\ n + here > 0 => s.base - 1 + (n + here) <= MemEnd
    <3>1. n + here <= MaxReply
      BY <1>1, MemEndType
    <3> QED
      BY <1>1, <2>1, <3>1, PutMemoryHolds
  <2>4. CASE over = <<>>
    <3>1. here = k /\ moved = <<>> /\ ~t.sockfiles
      BY <1>1, <1>4, <1>6, <2>4
    <3>2. t.ptr = n + k /\ t.SOCKET_DATA = n + k
      BY <1>4, <2>1, <3>1
    <3>3. ReplyHolds(PutMemory(s, bytes), t.base - 1, n + k)
      BY <1>4, <2>3, <3>1
    <3>4. t.olock = ReplyBytes(0, 0)
      <4>1. <<>> \o <<>> = <<>>
        BY <2>2, ConcatEmptySeq
      <4> QED
        BY <1>4, <2>1, <2>2, <2>4, <3>1, <4>1
    <3> QED
      BY <1>6, <3>1, <3>2, <3>3, <3>4
  <2>5. CASE over # <<>>
    <3>1. t.sockfiles
      BY <1>4, <2>5
    <3> DEFINE all == n + here
    <3>2. all \in Nat /\ k - here \in Nat /\ all + (k - here) = n + k
      BY <1>1
    <3>3. moved = ReadAt(PutMemory(s, bytes), "cma", s.base - 1, all)
      BY <1>1, <1>6, <2>1, <2>5
    <3>4. \A j \in 1 .. all : PutMemory(s, bytes)["cma"][s.base - 1 + j] = <<2, j>>
      BY <2>3 DEF ReplyHolds
    <3>5. moved = ReplyBytes(0, all)
      <4>1. \A j \in 1 .. all : <<2, j>> = <<2, 0 + j>>
        BY <3>2
      <4> HIDE DEF all
      <4>2. [j \in 1 .. all |-> PutMemory(s, bytes)["cma"][s.base - 1 + j]] = [j \in 1 .. all |-> <<2, 0 + j>>]
        BY <3>4, <4>1
      <4> QED
        BY <3>3, <4>2 DEF ReadAt, ReplyBytes
    <3>6. <<>> \o moved = moved
      <4>1. moved \in Seq(Byte)
        BY <3>2, <3>5, ReplyType
      <4> QED
        BY <4>1, ConcatEmptySeq
    <3>7. moved \o over = ReplyBytes(0, n + k)
      <4>1. over = ReplyBytes(0 + all, k - here)
        <5>1. 0 + all = n + here
          BY <3>2
        <5> QED
          BY <1>1, <5>1
      <4> DEFINE m == k - here
      <4>2. m \in Nat /\ all \in Nat /\ all + m = n + k
        BY <3>2
      <4> HIDE DEF all, m
      <4>3. ReplyBytes(0, all) \o ReplyBytes(0 + all, m) = ReplyBytes(0, all + m)
        BY <4>2, ReplyConcat
      <4> QED
        BY <3>5, <4>1, <4>2, <4>3 DEF m
    <3>8. t.olock = ReplyBytes(0, n + k)
      BY <1>4, <2>1, <2>2, <3>6, <3>7
    <3> QED
      BY <1>6, <3>1, <3>8
  <2> QED
    BY <2>4, <2>5
<1> QED
  BY <1>2, <1>5, <1>6

-----------------------------------------------------------------------------
(* The steps of the host *)

LEMMA InitReply == Init => RInv
<1> SUFFICES ASSUME Init PROVE RInv
  OBVIOUS
<1>1. pc = "host" /\ emitted = 0 /\ send.SOCKET_DATA = 0
  BY DEF Init
<1>2. ~Replying /\ pc # "returned"
  BY <1>1 DEF Replying
<1> QED
  BY <1>1, <1>2 DEF RInv, NothingSent, InFile, InArea, ReplyExact

LEMMA NewRequestReply ==
  ASSUME RInv, NEW e \in Requests, NEW n, NewRequest(e, n)
  PROVE  RInv'
<1>1. pc = "host" /\ pc' = "enter" /\ emitted' = emitted /\ send' = send
  BY DEF NewRequest
<1>2. emitted = 0 /\ send.SOCKET_DATA = 0
  BY <1>1 DEF RInv, NothingSent
<1>3. ~Replying'
  BY <1>1 DEF Replying
<1> QED
  BY <1>1, <1>2, <1>3 DEF RInv, NothingSent, InFile, InArea, ReplyExact

LEMMA HostReadReply ==
  ASSUME RInv, HostRead
  PROVE  RInv'
<1>1. pc = "returned" /\ pc' = "host" /\ emitted' = 0 /\ send' = send
  BY DEF HostRead
<1>2. send.SOCKET_DATA = 0
  BY <1>1 DEF RInv, NothingSent
<1>3. ~Replying'
  BY <1>1 DEF Replying
<1> QED
  BY <1>1, <1>2, <1>3 DEF RInv, NothingSent, InFile, InArea, ReplyExact

-----------------------------------------------------------------------------
(* The steps of interactive_one *)

\* No reply yet.
LEMMA NoReply == ReplyBytes(0, 0) = <<>>
<1>1. ReplyBytes(0, 0) \in Seq(Byte) /\ Len(ReplyBytes(0, 0)) = 0
  BY ReplyType
<1> QED
  BY <1>1

LEMMA EnterCmaReply ==
  ASSUME IInv, SInv, RInv, EnterCma
  PROVE  RInv'
<1>1. /\ pc = "enter" /\ pc' = "loop" /\ emitted' = emitted /\ recv' = recv
      /\ send' = [send EXCEPT !.sockfiles = FALSE, !.olock = <<>>]
  BY DEF EnterCma, history
<1>2. send \in SendType
  BY DEF IInv, Typed, SendOK
<1>3. send'.sockfiles = FALSE /\ send'.olock = <<>> /\ send'.SOCKET_DATA = send.SOCKET_DATA
  BY <1>1, <1>2 DEF SendType
<1>4. emitted = 0 /\ send.SOCKET_DATA = 0
  BY <1>1 DEF RInv, NothingSent, Untouched
<1>5. Remaining(recv) = 0 /\ recv.fp # "open"
  BY <1>1 DEF SInv, IdleOK, IInv, Typed, FilesOK
<1>6. Untouched' /\ Remaining(recv') = 0
  BY <1>1, <1>5 DEF Untouched, Remaining
<1>7. NothingSent'
  BY <1>1, <1>3, <1>4 DEF NothingSent
<1>8. InFile'
  BY <1>1, <1>3, <1>5, NoReply DEF InFile
<1>9. InArea' /\ ReplyExact'
  BY <1>1, <1>6 DEF InArea, ReplyExact
<1> QED
  BY <1>7, <1>8, <1>9 DEF RInv

LEMMA EnterFileReply ==
  ASSUME IInv, SInv, RInv, EnterFile
  PROVE  RInv'
<1>1. /\ pc = "enter" /\ pc' = "loop" /\ emitted' = emitted
      /\ send' = [send EXCEPT !.sockfiles = TRUE, !.olock = <<>>]
  BY DEF EnterFile
<1>2. send \in SendType
  BY DEF IInv, Typed, SendOK
<1>3. send'.sockfiles = TRUE /\ send'.olock = <<>> /\ send'.SOCKET_DATA = send.SOCKET_DATA
  BY <1>1, <1>2 DEF SendType
<1>4. emitted = 0 /\ send.SOCKET_DATA = 0
  BY <1>1 DEF RInv, NothingSent, Untouched
<1>5. NothingSent'
  BY <1>1, <1>3, <1>4 DEF NothingSent
<1>6. InFile'
  BY <1>1, <1>3, <1>4, NoReply DEF InFile
<1>7. InArea' /\ ReplyExact'
  BY <1>1, <1>3 DEF InArea, ReplyExact
<1> QED
  BY <1>5, <1>6, <1>7 DEF RInv

LEMMA StartMessageReply ==
  ASSUME IInv, SInv, RInv, StartMessage
  PROVE  RInv'
<1>1. /\ pc = "loop" /\ pc' \in {"reading", "lost"} /\ send' = StartSend(recv, send)
      /\ memory' = memory /\ emitted' = emitted
  BY DEF StartMessage, history
<1>2. recv'.fp = recv.fp
  BY StartMessageBuffer
<1>3. send \in SendType /\ Replying /\ pc' # "returned" /\ pc' # "host" /\ ~Untouched'
  BY <1>1 DEF IInv, Typed, SendOK, Replying, Untouched
<1>4. send'.olock = send.olock /\ send'.sockfiles = send.sockfiles /\ send'.SOCKET_DATA = send.SOCKET_DATA
  BY <1>1, <1>3 DEF StartSend, SendType
<1>5. NothingSent' /\ ReplyExact'
  BY <1>3 DEF NothingSent, ReplyExact
<1>6. InFile'
  BY <1>1, <1>2, <1>3, <1>4 DEF RInv, InFile
<1>7. InArea'
  <2> SUFFICES ASSUME ~send.sockfiles
               PROVE  /\ send'.ptr = emitted /\ send'.SOCKET_DATA = emitted
                      /\ ReplyHolds(memory, send'.base - 1, emitted)
    BY <1>1, <1>4 DEF InArea
  <2>1. CASE Remaining(recv) > 0
    <3>1. ~Untouched
      BY <1>1, <2>1 DEF Untouched
    <3>2. send' = send
      BY <1>1, <2>1 DEF StartSend
    <3> QED
      BY <1>3, <3>1, <3>2 DEF RInv, InArea
  <2>2. CASE ~(Remaining(recv) > 0)
    <3>1. Remaining(recv) = 0
      BY <2>2 DEF IInv, Typed, RecvOK, RecvType, Remaining
    <3>2. emitted = 0 /\ send.SOCKET_DATA = 0
      BY <1>1, <3>1 DEF RInv, NothingSent, Untouched
    <3>3. send'.ptr = 0
      BY <1>1, <1>3, <2>2 DEF StartSend, SendType
    <3>4. ReplyHolds(memory, send'.base - 1, 0)
      BY DEF ReplyHolds
    <3> QED
      BY <1>4, <3>2, <3>3, <3>4
  <2> QED
    BY <2>1, <2>2
<1> QED
  BY <1>5, <1>6, <1>7 DEF RInv

\* A step that only reads.
LEMMA ReadOnlyReply ==
  ASSUME RInv, Replying, ~Untouched, ~Untouched', pc' \notin {"host", "returned"},
         send' = send, memory' = memory, emitted' = emitted, recv'.fp = "open" => recv.fp = "open"
  PROVE  RInv'
<1>1. NothingSent' /\ ReplyExact'
  BY DEF NothingSent, ReplyExact
<1>2. InFile' /\ InArea'
  BY DEF RInv, InFile, InArea
<1> QED
  BY <1>1, <1>2 DEF RInv

LEMMA TakeReply ==
  ASSUME IInv, RInv, Take
  PROVE  RInv'
<1>1. /\ pc = "reading" /\ pc' = pc /\ send' = send /\ memory' = memory /\ emitted' = emitted
      /\ recv' = [recv EXCEPT !.ptr = @ + Min({need, Remaining(recv)})]
  BY DEF Take, history
<1>2. recv'.fp = recv.fp
  BY <1>1 DEF IInv, Typed, RecvOK, RecvType
<1>3. Replying /\ ~Untouched /\ ~Untouched'
  BY <1>1 DEF Replying, Untouched
<1> QED
  BY <1>1, <1>2, <1>3, ReadOnlyReply

LEMMA EndOfFileReply ==
  ASSUME IInv, RInv, EndOfFile
  PROVE  RInv'
<1>1. /\ pc = "reading" /\ pc' = "ended" /\ send' = send /\ memory' = memory /\ emitted' = emitted
      /\ recv' = [recv EXCEPT !.ptr = 0, !.len = 0]
  BY DEF EndOfFile, WantsMore, history
<1>2. recv'.fp = recv.fp
  BY <1>1 DEF IInv, Typed, RecvOK, RecvType
<1>3. Replying /\ ~Untouched /\ ~Untouched'
  BY <1>1 DEF Replying, Untouched
<1> QED
  BY <1>1, <1>2, <1>3, ReadOnlyReply

LEMMA ServeReply ==
  ASSUME IInv, RInv, Serve
  PROVE  RInv'
<1>1. /\ pc = "reading" /\ pc' = "serving" /\ send' = send /\ memory' = memory /\ emitted' = emitted
      /\ recv' = [recv EXCEPT !.reading = FALSE]
  BY DEF Serve
<1>2. recv'.fp = recv.fp
  BY <1>1 DEF IInv, Typed, RecvOK, RecvType
<1>3. Replying /\ ~Untouched /\ ~Untouched'
  BY <1>1 DEF Replying, Untouched
<1> QED
  BY <1>1, <1>2, <1>3, ReadOnlyReply

LEMMA EndMessageReply ==
  ASSUME IInv, RInv, EndMessage
  PROVE  RInv'
<1>1. /\ pc = "serving" /\ pc' = IF More(recv) THEN "loop" ELSE "flush"
      /\ send' = send /\ memory' = memory /\ emitted' = emitted /\ recv' = recv
  BY DEF EndMessage, history
<1>2. Replying /\ ~Untouched /\ pc' \notin {"host", "returned"}
  BY <1>1 DEF Replying, Untouched
<1>3. ~Untouched'
  BY <1>1 DEF Untouched, More
<1> QED
  BY <1>1, <1>2, <1>3, ReadOnlyReply

\* Only a request file fills the buffer again, and the reply to it is a file.
LEMMA RefillReply ==
  ASSUME IInv, RInv, Refill
  PROVE  RInv'
<1>1. /\ pc = "reading" /\ pc' \in {"reading", "stale"} /\ send' = send /\ emitted' = emitted
      /\ recv.fp # "open" => pc' = "stale"
      /\ \E got : recv' = Refilled(recv, got)
  BY DEF Refill, WantsMore, history
<1>2. recv'.fp = "open" => recv.fp = "open"
  BY <1>1, RefilledFields DEF IInv, Typed, RecvOK
<1>3. Replying /\ ~Untouched' /\ pc' \notin {"host", "returned"}
  BY <1>1 DEF Replying, Untouched
<1>4. NothingSent' /\ ReplyExact'
  BY <1>3 DEF NothingSent, ReplyExact
<1>5. InFile'
  BY <1>1, <1>2, <1>3 DEF RInv, InFile
<1>6. InArea'
  <2>1. CASE recv.fp = "open"
    BY <1>1, <1>3, <2>1 DEF RInv, InFile, InArea
  <2>2. CASE recv.fp # "open"
    BY <1>1, <2>2 DEF InArea, Replying
  <2> QED
    BY <2>1, <2>2
<1> QED
  BY <1>4, <1>5, <1>6 DEF RInv

LEMMA ReplyReply ==
  ASSUME IInv, RInv, Reply
  PROVE  RInv'
<1>1. PICK n \in PutSizes :
        /\ send' = Put(send, ReplyBytes(emitted, n)) /\ memory' = PutMemory(send, ReplyBytes(emitted, n))
        /\ emitted' = emitted + n /\ emitted + n <= MaxReply
  BY DEF Reply
<1>2. pc \in {"serving", "flush"} /\ pc' = pc /\ recv' = recv
  BY DEF Reply
<1>3. Replying /\ Replying' /\ ~Untouched /\ ~Untouched'
  BY <1>2 DEF Replying, Untouched
<1>4. n \in Nat /\ emitted \in Nat /\ SendOK(send) /\ MemOK(memory) /\ send.sockfiles \in BOOLEAN
  BY BufferAssumption DEF BufferAssumption, IInv, Typed, ControlOK, SendOK, SendType
<1>5. /\ send.olock = ReplyBytes(0, IF send.sockfiles THEN emitted ELSE 0)
      /\ ~send.sockfiles => /\ send.ptr = emitted /\ send.SOCKET_DATA = emitted
                            /\ ReplyHolds(memory, send.base - 1, emitted)
  BY <1>3 DEF RInv, InFile, InArea
<1>6. /\ send'.olock = ReplyBytes(0, IF send'.sockfiles THEN emitted' ELSE 0)
      /\ ~send'.sockfiles => /\ send'.ptr = emitted' /\ send'.SOCKET_DATA = emitted'
                             /\ ReplyHolds(memory', send'.base - 1, emitted')
      /\ send.sockfiles => send'.sockfiles
  BY <1>1, <1>4, <1>5, PutExact
<1>7. NothingSent' /\ ReplyExact'
  BY <1>2, <1>3 DEF NothingSent, ReplyExact
<1>8. InFile'
  BY <1>2, <1>3, <1>6 DEF RInv, InFile
<1>9. InArea'
  BY <1>6 DEF InArea
<1> QED
  BY <1>7, <1>8, <1>9 DEF RInv

\* What is published is the reply: the byte that frees the area is not in it.
LEMMA LeaveReply ==
  ASSUME IInv, SInv, RInv, Leave
  PROVE  RInv'
<1>1. /\ pc \in {"flush", "ended"} /\ pc' = "returned" /\ sent' = sent /\ emitted' = emitted
      /\ send' = [send EXCEPT !.SOCKET_DATA = 0, !.olock = <<>>]
      /\ cma_wsize' = IF send.sockfiles THEN cma_wsize ELSE send.SOCKET_DATA
      /\ PGS_OUT' = IF send.sockfiles THEN send.olock ELSE PGS_OUT
      /\ memory' = Written(memory, "cma", 0, <<Foreign>>)
  BY DEF Leave
<1>2. send \in SendType /\ send.sockfiles \in BOOLEAN /\ emitted \in Nat /\ MemOK(memory) /\ CmaEnd \in Nat
  BY BufferAssumption DEF BufferAssumption, IInv, Typed, ControlOK, SendOK, SendType
<1>3. send'.SOCKET_DATA = 0 /\ send'.sockfiles = send.sockfiles
  BY <1>1, <1>2 DEF SendType
<1>4. Replying /\ ~Replying' /\ ~Untouched /\ ~Untouched'
  BY <1>1 DEF Replying, Untouched
<1>5. NothingSent' /\ InFile' /\ InArea'
  BY <1>1, <1>3, <1>4 DEF NothingSent, InFile, InArea
<1>6. HostReply' = ReplyBytes(0, emitted)
  <2>1. CASE send.sockfiles
    <3>1. send.olock = ReplyBytes(0, emitted)
      BY <1>4, <2>1 DEF RInv, InFile
    <3> QED
      BY <1>1, <1>3, <2>1, <3>1 DEF HostReply
  <2>2. CASE ~send.sockfiles
    <3>1. /\ send.ptr = emitted /\ send.SOCKET_DATA = emitted
          /\ ReplyHolds(memory, send.base - 1, emitted)
      BY <1>4, <2>2 DEF RInv, InArea
    <3>2. send.base = sent + 2 /\ sent \in Nat
      <4>1. Streaming \/ pc = "ended"
        BY <1>1, <1>4 DEF Streaming
      <4> QED
        BY <2>2, <4>1 DEF SInv, PlaceOK, IInv, Typed, ControlOK
    <3>3. sent + 1 + emitted <= MemEnd /\ MemEnd \in Nat
      <4>1. sent + 2 <= CmaEnd + 1
        BY <1>2, <3>2 DEF IInv, Typed, SendOK, SendType
      <4>2. emitted <= MaxReply
        BY MemEndType DEF IInv, Typed, ControlOK
      <4> QED
        BY <1>2, <3>2, <4>1, <4>2, MemEndType
    <3>4. \A j \in 1 .. emitted : memory["cma"][sent + 1 + j] = <<2, j>>
      <4>1. send.base - 1 = sent + 1
        BY <3>2
      <4> QED
        BY <3>1, <4>1 DEF ReplyHolds
    <3>5. ASSUME NEW j \in 1 .. emitted
          PROVE  memory'["cma"][sent + 1 + j] = <<2, 0 + j>>
      <4> DEFINE i == sent + 1 + j
                 zero == <<Foreign>>
      <4>1. i \in 1 .. MemEnd /\ i \notin 0 + 1 .. 0 + 1 /\ 0 + j = j
        BY <1>2, <3>2, <3>3
      <4>2. i \in DOMAIN memory["cma"]
        BY <1>2, <4>1, AreaSize
      <4>3. zero \in Bytes /\ Len(zero) = 1 /\ 0 \in Int
        BY DEF Bytes, Byte, Foreign
      <4> HIDE DEF i, zero
      <4>4. Written(memory, "cma", 0, zero)["cma"][i] = memory["cma"][i]
        <5>1. Written(memory, "cma", 0, zero)["cma"][i]
                = IF "cma" = "cma" /\ i \in 0 + 1 .. 0 + Len(zero) THEN zero[i - 0] ELSE memory["cma"][i]
          BY <1>2, <4>2, <4>3, WrittenAt
        <5> QED
          BY <4>1, <4>3, <5>1
      <4>5. memory["cma"][i] = <<2, j>>
        BY <3>4 DEF i
      <4> QED
        BY <1>1, <4>1, <4>4, <4>5 DEF i, zero
    <3>6. HostReply' = [j \in 1 .. emitted |-> memory'["cma"][sent + 1 + j]]
      BY <1>1, <1>3, <2>2, <3>1 DEF HostReply, ReadAt
    <3> QED
      BY <3>5, <3>6 DEF ReplyBytes
  <2> QED
    BY <1>2, <2>1, <2>2
<1>7. ReplyExact'
  BY <1>1, <1>6 DEF ReplyExact
<1> QED
  BY <1>5, <1>7 DEF RInv

-----------------------------------------------------------------------------
LEMMA NextReply == IInv /\ SInv /\ RInv /\ [Next]_vars => RInv'
<1> SUFFICES ASSUME IInv, SInv, RInv, [Next]_vars PROVE RInv'
  OBVIOUS
<1>1. CASE Host
  <2>1. ASSUME NEW e \in Requests, NEW n, HostCma(e, n) \/ HostFile(e, n) PROVE RInv'
    <3>1. NewRequest(e, n)
      BY <2>1 DEF HostCma, HostFile
    <3> QED
      BY <3>1, NewRequestReply
  <2> QED
    BY <1>1, <2>1, HostReadReply DEF Host
<1>2. CASE Reply
  BY <1>2, ReplyReply
<1>3. CASE Backend
  <2>1. CASE EnterCma
    BY <2>1, EnterCmaReply
  <2>2. CASE EnterFile
    BY <2>2, EnterFileReply
  <2>3. CASE StartMessage
    BY <2>3, StartMessageReply
  <2>4. CASE StartInMessage
    <3>1. pc' = "lost"
      BY <2>4 DEF StartInMessage
    <3> QED
      BY <3>1 DEF RInv, NothingSent, InFile, InArea, ReplyExact, Replying, Untouched
  <2>5. CASE Take
    BY <2>5, TakeReply
  <2>6. CASE Refill
    BY <2>6, RefillReply
  <2>7. CASE EndOfFile
    BY <2>7, EndOfFileReply
  <2>8. CASE Serve
    BY <2>8, ServeReply
  <2>9. CASE EndMessage
    BY <2>9, EndMessageReply
  <2>10. CASE Leave
    BY <2>10, LeaveReply
  <2> QED
    BY <1>3, <2>1, <2>2, <2>3, <2>4, <2>5, <2>6, <2>7, <2>8, <2>9, <2>10 DEF Backend
<1>4. CASE UNCHANGED vars
  <2>1. /\ pc' = pc /\ recv' = recv /\ send' = send /\ memory' = memory /\ emitted' = emitted
        /\ sent' = sent /\ cma_wsize' = cma_wsize /\ PGS_OUT' = PGS_OUT
    BY <1>4 DEF vars, sizes, history, faults
  <2>2. Replying' = Replying /\ Untouched' = Untouched
    BY <2>1 DEF Replying, Untouched, Remaining
  <2>3. ReplyExact'
    BY <2>1 DEF RInv, ReplyExact, HostReply
  <2>4. NothingSent' /\ InFile' /\ InArea'
    BY <2>1, <2>2 DEF RInv, NothingSent, InFile, InArea
  <2> QED
    BY <2>3, <2>4 DEF RInv
<1> QED
  BY <1>1, <1>2, <1>3, <1>4 DEF Next

\* However often the reply outgrows the memory, and by whichever transport the
\* request came: the host reads the bytes that were written, in order and once
\* each, and no byte of an earlier request or reply among them.
THEOREM ReplyIsExact == Spec => []ReplyExact
<1>1. Init => IInv /\ SInv /\ RInv
  BY InitInv, InitRoom, InitStream, InitReply DEF IInv
<1>2. (IInv /\ SInv /\ RInv) /\ [Next]_vars => (IInv /\ SInv /\ RInv)'
  BY NextTyped, NextRoom, NextStream, NextReply DEF IInv
<1>3. IInv /\ SInv /\ RInv => ReplyExact
  BY DEF RInv
<1> QED
  BY <1>1, <1>2, <1>3, PTL DEF Spec
=============================================================================
