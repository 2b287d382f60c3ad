--------------------------- MODULE WireLoopProofs ---------------------------
(***************************************************************************)
(* What holds of interactive_one for every set of requests, every size of  *)
(* the CMA and both builds: its globals and buffers stay in their types    *)
(* (TypeCorrect), and the reply file is open whenever a reply could be     *)
(* written to it (StreamAlwaysOpen).                                       *)
(***************************************************************************)
EXTENDS WireLoop, TLAPS

Served == {"request", "incoming", "dispatch", "copying", "rfq", "error", "trapped", "refused"}

\* The size of the request is negative only where an error is being resumed.
RequestSized == pc \in Served => cma_rsize \in Nat

\* The inductive invariant.  pq_startmsgread makes cma_rsize the length of the
\* receive buffer, so TypeOK needs RequestSized.
IInv == TypeOK /\ RequestSized /\ StreamOpen

-----------------------------------------------------------------------------
(* The operations on the buffers *)

\* internal_putbytes keeps the send side in its type and its stream open.
LEMMA PutType ==
  ASSUME NEW s \in SendType, NEW reply \in Replies
  PROVE  Put(s, reply) \in SendType /\ Put(s, reply).SOCKET_FILE = s.SOCKET_FILE
<1> DEFINE memory == ~s.sockfiles /\ Len(s.sent) < CmaRoom
           before == IF s.sockfiles THEN s.olock ELSE s.olock \o s.sent
<1>1. s.olock \o s.sent \in Seq(Replies)
  BY DEF SendType
<1>2. /\ Append(s.sent, reply) \in Seq(Replies)
      /\ Append(before, reply) \in Seq(Replies)
      /\ Append(s.emitted, reply) \in Seq(Replies)
      /\ s.SOCKET_DATA + 1 \in Nat
  BY <1>1 DEF SendType
<1>3. CASE memory
  <2>1. Put(s, reply) = [s EXCEPT !.sockfiles = FALSE, !.sent = Append(s.sent, reply),
                                  !.olock = s.olock, !.SOCKET_DATA = s.SOCKET_DATA + 1,
                                  !.emitted = Append(s.emitted, reply)]
    BY <1>3 DEF Put
  <2> QED
    BY <2>1, <1>2 DEF SendType
<1>4. CASE ~memory
  <2>1. Put(s, reply) = [s EXCEPT !.sockfiles = TRUE, !.sent = s.sent,
                                  !.olock = Append(before, reply),
                                  !.SOCKET_DATA = s.SOCKET_DATA + 1,
                                  !.emitted = Append(s.emitted, reply)]
    BY <1>4 DEF Put
  <2> HIDE DEF before
  <2> QED
    BY <2>1, <1>2 DEF SendType
<1> QED
  BY <1>3, <1>4

\* The same of a reply made only when the destination is the client.
LEMMA AnswerType ==
  ASSUME NEW s \in SendType, NEW reply \in Replies
  PROVE  Answer(s, reply) \in SendType /\ Answer(s, reply).SOCKET_FILE = s.SOCKET_FILE
BY PutType DEF Answer

\* The same of internal_flush.
LEMMA FlushedType ==
  ASSUME NEW s \in SendType
  PROVE  Flushed(s) \in SendType /\ Flushed(s).SOCKET_FILE = s.SOCKET_FILE
<1>1. <<>> \in Seq(Replies)
  OBVIOUS
<1> QED
  BY <1>1 DEF Flushed, SendType

\* The same of ProcessNotifyInterrupt.
LEMMA NotifiedType ==
  ASSUME NEW s \in SendType
  PROVE  Notified(s) \in SendType /\ Notified(s).SOCKET_FILE = s.SOCKET_FILE
BY AnswerType DEF Notified, Replies

\* The same of the last replies of a call.
LEMMA LastRepliesType ==
  ASSUME NEW s \in SendType
  PROVE  LastReplies(s) \in SendType
<1>1. Notified(s) \in SendType
  BY NotifiedType
<1>2. Put(Notified(s), "Z") \in SendType
  BY <1>1, PutType DEF Replies
<1>3. Flushed(Put(Notified(s), "Z")) \in SendType
  BY <1>2, FlushedType
<1> QED
  BY <1>1, <1>3 DEF LastReplies

\* pq_startmsgread keeps the send side in its type and its stream open.
LEMMA SendStartType ==
  ASSUME NEW s \in SendType, NEW r, cma_rsize \in Nat
  PROVE  SendStart(r, s) \in SendType /\ SendStart(r, s).SOCKET_FILE = s.SOCKET_FILE
<1>1. CASE More(r)
  BY <1>1 DEF SendStart
<1>2. CASE ~More(r) /\ s.sockfiles
  BY <1>2 DEF SendStart, SendType
<1>3. CASE ~More(r) /\ ~s.sockfiles
  <2>1. SendStart(r, s) = [s EXCEPT !.base = 2 + cma_rsize, !.sent = <<>>]
    BY <1>3 DEF SendStart
  <2>2. 2 + cma_rsize \in Nat /\ <<>> \in Seq(Replies)
    OBVIOUS
  <2> QED
    BY <2>1, <2>2 DEF SendType
<1> QED
  BY <1>1, <1>2, <1>3 DEF SendType

\* A receive buffer whose read pointer is inside its data.
RecvOK(r) == r \in RecvType /\ r.ptr <= r.len

\* pq_startmsgread, pq_getmessage and discard_input keep it so.
LEMMA RecvStartType ==
  ASSUME NEW r, RecvOK(r), NEW s \in SendType, cma_rsize \in Nat
  PROVE  RecvOK(RecvStart(r, s))
<1>1. CASE More(r)
  BY <1>1 DEF RecvStart
<1>2. CASE ~More(r) /\ s.sockfiles
  BY <1>2 DEF RecvStart, RecvType, RecvOK
<1>3. CASE ~More(r) /\ ~s.sockfiles
  <2>1. RecvStart(r, s) = [r EXCEPT !.loc = "cma", !.ptr = 0, !.len = cma_rsize]
    BY <1>3 DEF RecvStart
  <2>2. RecvStart(r, s) = [mem |-> r.mem, loc |-> "cma", ptr |-> 0, len |-> cma_rsize,
                            reading |-> r.reading]
    BY <2>1 DEF RecvType, RecvOK
  <2> QED
    BY <2>1, <2>2 DEF RecvType, RecvOK
<1> QED
  BY <1>1, <1>2, <1>3 DEF SendType

\* The read pointer stays within the data when pq_getmessage moves on and
\* when discard_input empties the buffer.
LEMMA AdvancedType ==
  ASSUME NEW r, RecvOK(r)
  PROVE  RecvOK(Advanced(r)) /\ RecvOK(Drained(r))
BY DEF Advanced, Drained, More, Remaining, RecvType, RecvOK

\* pq_recvbuf_fill keeps the receive side in order: pointer 0, a new length.
LEMMA FilledType ==
  ASSUME NEW r, RecvOK(r), NEW frame \in Frames
  PROVE  RecvOK(Filled(r, frame))
<1>1. Len(frame) \in Nat
  BY DEF Frames
<1>2. [r.mem EXCEPT ![r.loc] = frame] \in [{"cma", "static"} -> Frames]
  BY DEF RecvOK, RecvType
<1>3. Filled(r, frame) = [mem |-> [r.mem EXCEPT ![r.loc] = frame], loc |-> r.loc,
                          ptr |-> 0, len |-> Len(frame), reading |-> r.reading]
  <2> DEFINE mem == [r.mem EXCEPT ![r.loc] = frame]
  <2>1. Filled(r, frame) = [r EXCEPT !.mem = mem, !.ptr = 0, !.len = Len(frame)]
    BY Zenon DEF Filled
  <2> HIDE DEF mem
  <2>2. Filled(r, frame) = [mem |-> mem, loc |-> r.loc, ptr |-> 0, len |-> Len(frame),
                              reading |-> r.reading]
    BY <2>1 DEF RecvOK, RecvType
  <2> QED
    BY <2>2 DEF mem
<1> QED
  BY <1>1, <1>2, <1>3 DEF RecvOK, RecvType

\* The host may write the CMA without disturbing the receive side.
LEMMA CmaType ==
  ASSUME NEW r, RecvOK(r), NEW frame \in Frames
  PROVE  RecvOK([r EXCEPT !.mem["cma"] = frame])
<1>1. [r.mem EXCEPT !["cma"] = frame] \in [{"cma", "static"} -> Frames]
  BY DEF RecvOK, RecvType
<1> QED
  BY <1>1 DEF RecvOK, RecvType

\* The message read next is of a known kind, or nothing, or none.
LEMMA Next1Type ==
  ASSUME NEW r, RecvOK(r)
  PROVE  Next1(r) \in Kinds \cup {"EOF", "junk"}
<1>1. r.mem[r.loc] \in Seq(Kinds) /\ r.ptr \in Nat
  BY DEF RecvOK, RecvType, Frames
<1>2. ASSUME r.ptr < Len(r.mem[r.loc]) PROVE r.mem[r.loc][r.ptr + 1] \in Kinds
  BY <1>1, <1>2
<1> QED
  BY <1>2 DEF Next1

-----------------------------------------------------------------------------
(* The invariant *)

\* The updates of the send side that interactive_one makes in place.
LEMMA UpdateType ==
  ASSUME NEW s \in SendType
  PROVE  /\ [s EXCEPT !.emitted = <<>>] \in SendType
         /\ [s EXCEPT !.SOCKET_FILE = FALSE, !.SOCKET_DATA = 0] \in SendType
         /\ Opened(s) \in SendType /\ Opened(s).SOCKET_FILE
         /\ \A b \in BOOLEAN : /\ [s EXCEPT !.sockfiles = b] \in SendType
                               /\ [s EXCEPT !.sockfiles = b].SOCKET_FILE = s.SOCKET_FILE
         /\ Closed(s) \in SendType
<1>1. <<>> \in Seq(Replies)
  OBVIOUS
<1>2. [s EXCEPT !.emitted = <<>>] \in SendType
  BY <1>1 DEF SendType
<1>3. [s EXCEPT !.SOCKET_FILE = FALSE, !.SOCKET_DATA = 0] \in SendType
  BY DEF SendType
<1>4. Opened(s) \in SendType /\ Opened(s).SOCKET_FILE
  <2>1. CASE s.SOCKET_FILE
    BY <2>1 DEF Opened
  <2>2. CASE ~s.SOCKET_FILE
    BY <2>2, <1>1 DEF Opened, SendType
  <2> QED
    BY <2>1, <2>2
<1>5. ASSUME NEW b \in BOOLEAN
      PROVE  /\ [s EXCEPT !.sockfiles = b] \in SendType
             /\ [s EXCEPT !.sockfiles = b].SOCKET_FILE = s.SOCKET_FILE
  BY DEF SendType
<1>6. Closed(s) \in SendType
  <2>1. ASSUME NEW open \in BOOLEAN, NEW olock \in Seq(Replies)
        PROVE  [s EXCEPT !.SOCKET_DATA = 0, !.SOCKET_FILE = open, !.olock = olock] \in SendType
    BY <2>1 DEF SendType
  <2>2. (IF Renames(s) THEN <<>> ELSE s.olock) \in Seq(Replies)
    BY <1>1 DEF SendType
  <2>3. (s.SOCKET_FILE /\ s.SOCKET_DATA = 0 /\ ~s.sockfiles) \in BOOLEAN
    OBVIOUS
  <2> QED
    BY <2>1, <2>2, <2>3, Zenon DEF Closed
<1> QED
  BY <1>2, <1>3, <1>4, <1>5, <1>6

\* What startup_auth and startup_pass leave behind.
StartupKept(s) ==
  /\ RecvOK(recv')
  /\ send' \in SendType /\ send'.SOCKET_FILE = s.SOCKET_FILE
  /\ send_ready_for_query' \in BOOLEAN /\ due' \in Int
  /\ ignore_till_sync' \in BOOLEAN /\ doing_extended_query_message' \in BOOLEAN
  /\ ClientAuthInProgress' \in BOOLEAN /\ sf_connected' \in Nat /\ MyProcPort' \in BOOLEAN

\* startup_auth keeps every variable it changes in its type, and the stream open.
LEMMA StartupAuthType ==
  ASSUME TypeOK, cma_rsize \in Nat, NEW r, RecvOK(r), NEW s \in SendType, StartupAuth(r, s)
  PROVE  StartupKept(s)
<1>1. RecvOK(RecvStart(r, s)) /\ SendStart(r, s) \in SendType
      /\ SendStart(r, s).SOCKET_FILE = s.SOCKET_FILE
  BY RecvStartType, SendStartType
<1>2. RecvOK(recv')
  BY <1>1, AdvancedType DEF StartupAuth
<1>3. "R" \in Replies
  BY DEF Replies
<1>4. /\ Put(SendStart(r, s), "R") \in SendType /\ Put(s, "R") \in SendType
      /\ Put(SendStart(r, s), "R").SOCKET_FILE = s.SOCKET_FILE
      /\ Put(s, "R").SOCKET_FILE = s.SOCKET_FILE
  BY <1>1, <1>3, PutType
<1>5. send' \in SendType /\ send'.SOCKET_FILE = s.SOCKET_FILE
  BY <1>4, FlushedType DEF StartupAuth
<1>6. due' \in Int /\ sf_connected' \in Nat
  BY DEF StartupAuth, TypeOK
<1>7. send_ready_for_query' \in BOOLEAN /\ ClientAuthInProgress' \in BOOLEAN
  BY DEF StartupAuth
<1>8. /\ ignore_till_sync' \in BOOLEAN /\ doing_extended_query_message' \in BOOLEAN
      /\ MyProcPort' \in BOOLEAN
  BY DEF StartupAuth, TypeOK, skipping
<1> QED
  BY <1>2, <1>5, <1>6, <1>7, <1>8 DEF StartupKept

\* startup_pass keeps every variable it changes in its type, and the stream open.
LEMMA StartupPassType ==
  ASSUME TypeOK, cma_rsize \in Nat, NEW r, RecvOK(r), NEW s \in SendType, StartupPass(r, s)
  PROVE  StartupKept(s)
<1>1. RecvOK(recv')
  BY RecvStartType, AdvancedType DEF StartupPass
<1>2. send' \in SendType /\ send'.SOCKET_FILE = s.SOCKET_FILE
  BY SendStartType, PutType DEF StartupPass, Replies
<1>3. due' \in Int /\ sf_connected' \in Nat
  BY DEF StartupPass, TypeOK
<1>4. /\ send_ready_for_query' \in BOOLEAN /\ ClientAuthInProgress' \in BOOLEAN
      /\ ignore_till_sync' \in BOOLEAN
  BY DEF StartupPass
<1>5. doing_extended_query_message' \in BOOLEAN /\ MyProcPort' \in BOOLEAN
  BY DEF StartupPass, TypeOK
<1> QED
  BY <1>1, <1>2, <1>3, <1>4, <1>5 DEF StartupKept

\* A packet of the handshake does, whatever is found in the place of a password.
LEMMA HandshakeType ==
  ASSUME TypeOK, cma_rsize \in Nat, NEW r, RecvOK(r), NEW s \in SendType,
         NEW served, NEW refused, Handshake(r, s, served, refused)
  PROVE  StartupKept(s) /\ pc' \in {served, refused, "broken"}
<1>1. ASSUME NoPassword(r, s) PROVE StartupKept(s)
  <2>1. RecvOK(recv')
    BY <1>1, RecvStartType, AdvancedType DEF NoPassword
  <2>2. send' \in SendType /\ send'.SOCKET_FILE = s.SOCKET_FILE
    BY <1>1, SendStartType DEF NoPassword
  <2> QED
    BY <1>1, <2>1, <2>2 DEF NoPassword, NoStartup, ready, skipping, conn, StartupKept, TypeOK
<1>2. StartupAuth(r, s) \/ StartupPass(r, s) \/ NoPassword(r, s)
  BY DEF Handshake
<1>3. pc' \in {served, refused, "broken"}
  BY DEF Handshake
<1> QED
  BY <1>1, <1>2, <1>3, StartupAuthType, StartupPassType

\* So does a request file.
LEMMA ServeFileType ==
  ASSUME TypeOK, cma_rsize \in Nat, NEW r, RecvOK(r), NEW s \in SendType, ServeFile(r, s)
  PROVE  StartupKept(s) /\ pc' \in {"incoming", "flush", "refused", "broken"}
<1>1. CASE recv' = r /\ send' = s /\ NoStartup /\ pc' = "incoming"
  BY <1>1 DEF NoStartup, ready, skipping, conn, StartupKept, TypeOK
<1>2. ASSUME NEW refused \in {"broken", "refused"}, Handshake(r, s, "flush", refused)
      PROVE  StartupKept(s) /\ pc' \in {"flush", "refused", "broken"}
  BY <1>2, HandshakeType
<1> QED
  BY <1>1, <1>2 DEF ServeFile

\* What clear_error leaves behind.
ClearErrorOK ==
  /\ send' \in SendType /\ send'.SOCKET_FILE = send.SOCKET_FILE
  /\ send_ready_for_query' \in BOOLEAN /\ due' \in Int /\ ignore_till_sync' \in BOOLEAN
  /\ transaction' \in {"none", "open", "block"}

\* clear_error keeps every variable it changes in its type, and the stream open.
LEMMA ClearErrorType ==
  ASSUME TypeOK, send \in SendType, ClearError
  PROVE  ClearErrorOK
<1>1. Put(send, "E") \in SendType /\ Put(send, "E").SOCKET_FILE = send.SOCKET_FILE
  BY PutType DEF Replies
<1>2. send' \in SendType /\ send'.SOCKET_FILE = send.SOCKET_FILE
  BY <1>1, FlushedType DEF ClearError
<1>3. SkipFromNow \in BOOLEAN
  BY DEF SkipFromNow, TypeOK
<1> QED
  BY <1>2, <1>3 DEF ClearError, ClearErrorOK, Owed, TypeOK

\* The invariant holds when main() has set the globals.
LEMMA InitInvariant == Init => IInv
<1> SUFFICES ASSUME Init PROVE IInv
  OBVIOUS
<1>1. <<>> \in Seq(Replies) /\ <<>> \in Frames
  BY DEF Frames
<1>2. RecvOK(recv)
  <2>1. recv.mem \in [{"cma", "static"} -> Frames]
    BY <1>1 DEF Init
  <2> QED
    BY <2>1 DEF Init, RecvOK, RecvType
<1>3. send \in SendType
  BY <1>1 DEF Init, SendType
<1>4. /\ fp \in BOOLEAN /\ pipelining \in BOOLEAN /\ is_wire \in BOOLEAN /\ is_repl \in BOOLEAN
      /\ send_ready_for_query \in BOOLEAN /\ ignore_till_sync \in BOOLEAN
      /\ doing_extended_query_message \in BOOLEAN /\ ClientAuthInProgress \in BOOLEAN
      /\ MyProcPort \in BOOLEAN /\ notifyInterruptPending \in BOOLEAN
  BY DEF Init
<1>5. /\ cma_rsize = 0 /\ cma_wsize = 0 /\ channel = 0 /\ canary_ex = 0
      /\ due = 0 /\ sf_connected = 0
  BY DEF Init
<1>6. /\ pc = "host" /\ firstchar = "none" /\ peek = "none" /\ whereToSendOutput = "Debug"
      /\ transaction = "none" /\ PGS_IN = NoFile /\ PGS_OUT = NoFile /\ call = Idle
  BY DEF Init
<1> QED
  BY <1>2, <1>3, <1>4, <1>5, <1>6 DEF RecvOK, IInv, TypeOK, RequestSized, StreamOpen, Served, Controls

\* Every step of the host, of a call and of the error handler keeps the invariant.
LEMMA StepInvariant == IInv /\ [Next]_vars => IInv'
<1> SUFFICES ASSUME IInv, [Next]_vars PROVE IInv'
  OBVIOUS
<1> USE DEF locals, cma, skipping, backend, conn, files, ready, NoStartup
<1>t. TypeOK /\ RequestSized /\ StreamOpen
  BY DEF IInv
<1>b. RecvOK(recv) /\ send \in SendType
  BY <1>t DEF TypeOK, RecvOK
<1>1. CASE \E c \in Calls : HostCall(c)
  <2>1. PICK c \in Calls : HostCall(c)
    BY <1>1
  <2>2. c.frame \in Frames /\ Len(c.frame) \in Nat /\ c.mode \in {"wire", "repl", "keep"}
    BY CallsAssumption DEF CallType, Frames
  <2>3. RecvOK(recv')
    BY <2>1, <2>2, <1>b, CmaType DEF HostCall
  <2>4. PGS_IN' \in Frames \cup {NoFile} /\ cma_rsize' \in Nat
    BY <2>1, <2>2, <1>t DEF HostCall, TypeOK
  <2>5. is_wire' \in BOOLEAN /\ is_repl' \in BOOLEAN
    BY <2>1, <2>2, <1>t DEF HostCall, TypeOK
  <2>6. cma_wsize' \in Nat /\ call' \in Calls /\ pc' = "enter"
    BY <2>1 DEF HostCall
  <2>7. UNCHANGED <<locals, pipelining, send, channel, canary_ex, ready, skipping, conn, whereToSendOutput, backend, PGS_OUT>>
    BY <2>1 DEF HostCall
  <2> QED
    BY <2>3, <2>4, <2>5, <2>6, <2>7, <1>t DEF RecvOK, IInv, TypeOK, RequestSized, StreamOpen, Served, Controls
<1>2. CASE HostRead
  <2>s. send' \in SendType
    BY <1>2, <1>b, <1>t, UpdateType DEF HostRead
  <2> QED
    BY <1>2, <1>t, <2>s DEF HostRead, RecvOK, IInv, TypeOK, RequestSized, StreamOpen, Served, Controls, Idle
<1>3. CASE EnterResume
  BY <1>3, <1>t, <1>b DEF EnterResume, IInv, TypeOK, RequestSized, StreamOpen, Served, Controls
<1>4. CASE EnterInit
  <2>1. send' \in SendType
    BY <1>4, <1>b, UpdateType DEF EnterInit
  <2>2. pc = "enter" /\ whereToSendOutput' = "Remote"
    BY <1>4 DEF EnterInit
  <2>3. MyProcPort' \in BOOLEAN /\ ClientAuthInProgress' \in BOOLEAN
    BY <1>4 DEF EnterInit
  <2>4. UNCHANGED <<pc, locals, pipelining, is_wire, is_repl, cma, canary_ex, ready, skipping, sf_connected, backend, recv, files, call>>
    BY <1>4 DEF EnterInit
  <2> QED
    BY <1>t, <2>1, <2>2, <2>3, <2>4 DEF RecvOK, IInv, TypeOK, RequestSized, StreamOpen, Served, Controls
<1>5. CASE EnterBacklog
  BY <1>5, <1>t, <1>b DEF EnterBacklog, IInv, TypeOK, RequestSized, StreamOpen, Served, Controls
<1>6. CASE EnterRequest
  <2>1. Opened(send) \in SendType /\ Opened(send).SOCKET_FILE
    BY <1>b, UpdateType
  <2>2. Notified(Opened(send)) \in SendType /\ Notified(Opened(send)).SOCKET_FILE
    BY <2>1, NotifiedType
  <2>3. send' \in SendType /\ send'.SOCKET_FILE
    BY <1>6, <2>1, <2>2 DEF EnterRequest
  <2>4. notifyInterruptPending' \in BOOLEAN
    BY <1>6, <1>t DEF EnterRequest, TypeOK
  <2>5. pc' = "request" /\ send_ready_for_query' \in BOOLEAN
    BY <1>6 DEF EnterRequest
  <2>6. cma_rsize' \in Nat
    BY <1>6, <1>t DEF EnterRequest, TypeOK
  <2>7. UNCHANGED <<locals, pipelining, is_wire, is_repl, cma, canary_ex, due, skipping, conn, whereToSendOutput, transaction, recv, files, call>>
    BY <1>6 DEF EnterRequest
  <2> QED
    BY <1>t, <2>3, <2>4, <2>5, <2>6, <2>7 DEF RecvOK, IInv, TypeOK, RequestSized, StreamOpen, Served, Controls
<1>7. CASE RequestCma
  <2>s. send' \in SendType /\ send'.SOCKET_FILE = send.SOCKET_FILE
    BY <1>7, <1>b, <1>t, UpdateType DEF RequestCma
  <2> QED
    BY <1>7, <1>t, <2>s DEF RequestCma, RecvOK, IInv, TypeOK, RequestSized, StreamOpen, Served, Controls, Head1
<1>f. ASSUME NEW r, RecvOK(r), NEW s \in SendType, s.SOCKET_FILE = send.SOCKET_FILE,
             cma_rsize = 0, ServeFile(r, s), pc = "request",
             fp' = TRUE, peek' \in {"startup", "p", "other"},
             whereToSendOutput' \in {"Debug", "Remote", "None"},
             UNCHANGED <<firstchar, pipelining, is_wire, is_repl, cma, canary_ex, backend, files, call>>
      PROVE  IInv'
  <2>1. StartupKept(s) /\ pc' \in {"incoming", "flush", "refused", "broken"}
    BY <1>f, <1>t, ServeFileType
  <2>2. cma_rsize' \in Nat
    BY <1>f
  <2> QED
    BY <1>t, <1>f, <2>1, <2>2 DEF StartupKept, RecvOK, IInv, TypeOK, RequestSized, StreamOpen, Served, Controls
<1>8. CASE RequestFileRepl
  <2> DEFINE s == [send EXCEPT !.sockfiles = FALSE]
  <2>1. s \in SendType /\ s.SOCKET_FILE = send.SOCKET_FILE
    BY <1>b, UpdateType
  <2>2. /\ cma_rsize = 0 /\ ServeFile(recv, s) /\ pc = "request" /\ fp' = TRUE
        /\ peek' \in {"startup", "p", "other"}
        /\ UNCHANGED <<firstchar, pipelining, is_wire, is_repl, cma, canary_ex, backend, files, call>>
    BY <1>8 DEF RequestFileRepl, Head1
  <2>3. whereToSendOutput' \in {"Debug", "Remote", "None"}
    BY <1>8, <1>t DEF RequestFileRepl, TypeOK
  <2> HIDE DEF s
  <2> QED
    BY <1>f, <1>b, <2>1, <2>2, <2>3
<1>9. CASE RequestFileWire
  <2> DEFINE r == Filled(recv, PGS_IN)
             s == [send EXCEPT !.sockfiles = TRUE]
  <2>1. PGS_IN \in Frames /\ cma_rsize = 0
    BY <1>9, <1>t DEF RequestFileWire, FileHasData, TypeOK
  <2>2. RecvOK(r) /\ s \in SendType /\ s.SOCKET_FILE = send.SOCKET_FILE
    BY <2>1, <1>b, FilledType, UpdateType
  <2>3. /\ ServeFile(r, s) /\ pc = "request" /\ fp' = TRUE
        /\ peek' \in {"startup", "p", "other"} /\ whereToSendOutput' = "Remote"
        /\ UNCHANGED <<firstchar, pipelining, is_wire, is_repl, cma, canary_ex, backend, files, call>>
    BY <1>9 DEF RequestFileWire, Head1
  <2> HIDE DEF r, s
  <2> QED
    BY <1>f, <2>1, <2>2, <2>3
<1>10. CASE RequestMemory
  BY <1>10, <1>t, <1>b DEF RequestMemory, IInv, TypeOK, RequestSized, StreamOpen, Served, Controls, Head1
<1>11. CASE RequestNothing
  BY <1>11, <1>t, <1>b DEF RequestNothing, IInv, TypeOK, RequestSized, StreamOpen, Served, Controls
<1>12. CASE LoopEnds
  BY <1>12, <1>t, <1>b DEF LoopEnds, IInv, TypeOK, RequestSized, StreamOpen, Served, Controls, AfterLoop
<1>13. CASE LoopAuth
  <2>1. cma_rsize \in Nat
    BY <1>13, <1>t DEF LoopAuth, RequestSized, Served
  <2>2. Handshake(recv, send, AfterLoop, "refused")
    BY <1>13 DEF LoopAuth
  <2>5. StartupKept(send) /\ pc' \in {AfterLoop, "refused", "broken"}
    BY <2>1, <2>2, <1>b, <1>t, HandshakeType
  <2>6. Destination /\ pipelining' = ~is_repl /\ pc' \in {"return", "flush", "refused", "broken"} /\ pc = "incoming"
    BY <1>13, <2>5 DEF LoopAuth, AfterLoop
  <2>7. whereToSendOutput' \in {"Debug", "Remote", "None"} /\ pipelining' \in BOOLEAN
    BY <2>6, <1>t DEF Destination, TypeOK
  <2>8. UNCHANGED <<locals, is_wire, is_repl, cma, canary_ex, backend, files, call>>
    BY <1>13 DEF LoopAuth
  <2> QED
    BY <1>t, <2>5, <2>6, <2>7, <2>8 DEF StartupKept, RecvOK, IInv, TypeOK, RequestSized, StreamOpen, Served, Controls
<1>14. CASE LoopRead
  <2> DEFINE r == RecvStart(recv, send)
             kind == Next1(r)
  <2>1. cma_rsize \in Nat
    BY <1>14, <1>t DEF LoopRead, RequestSized, Served
  <2>2. RecvOK(r)
    BY <2>1, <1>b, RecvStartType
  <2>3. RecvOK(recv') /\ kind \in Kinds \cup {"EOF", "junk"} /\ firstchar' = kind
    <3>1. RecvOK(Advanced(r)) /\ recv' = [Advanced(r) EXCEPT !.reading = @ \/ kind = "EOF"]
      BY <1>14, <2>2, AdvancedType DEF LoopRead
    <3>2. RecvOK(recv')
      BY <3>1 DEF RecvOK, RecvType
    <3> QED
      BY <1>14, <2>2, <3>2, Next1Type DEF LoopRead
  <2>4. send' \in SendType /\ send'.SOCKET_FILE = send.SOCKET_FILE
    BY <1>14, <2>1, <1>b, SendStartType DEF LoopRead
  <2>5. SocketBackend(kind) /\ pipelining' = More(recv') /\ Destination
        /\ pc = "incoming" /\ pc' \in {"broken", "incoming", "dispatch"}
    BY <1>14 DEF LoopRead
  <2>6. UNCHANGED <<peek, fp, is_wire, is_repl, cma, canary_ex, ready, conn, backend, files, call>>
    BY <1>14 DEF LoopRead
  <2> HIDE DEF r, kind
  <2>7. doing_extended_query_message' \in BOOLEAN /\ ignore_till_sync' \in BOOLEAN
    BY <2>5, <1>t DEF SocketBackend, TypeOK
  <2>8. pipelining' \in BOOLEAN
    BY <2>5 DEF More
  <2>9. whereToSendOutput' \in {"Debug", "Remote", "None"}
    BY <2>5, <1>t DEF Destination, TypeOK
  <2> QED
    BY <1>t, <2>3, <2>4, <2>5, <2>6, <2>7, <2>8, <2>9 DEF RecvOK, IInv, TypeOK, RequestSized, StreamOpen, Served, Controls
<1>15. CASE LoopSql
  BY <1>15, <1>t, <1>b DEF LoopSql, IInv, TypeOK, RequestSized, StreamOpen, Served, Controls, Destination, Kinds, Wire
<1>16. CASE AfterMessage
  <2>1. Answer(send, "Z") \in SendType /\ Answer(send, "Z").SOCKET_FILE = send.SOCKET_FILE
    BY <1>b, AnswerType DEF Replies
  <2>2. send' \in SendType /\ send'.SOCKET_FILE = send.SOCKET_FILE
    BY <1>16, <2>1, <1>b, FlushedType DEF AfterMessage
  <2>3. pipelining' \in BOOLEAN
    BY <1>16, <1>t DEF AfterMessage, TypeOK
  <2>4. send_ready_for_query' \in BOOLEAN
    BY <1>16, <1>t DEF AfterMessage, TypeOK
  <2>5. due' \in Int
    BY <1>16, <1>t DEF AfterMessage, TypeOK
  <2>6. pc = "rfq" /\ pc' = "incoming"
    BY <1>16 DEF AfterMessage
  <2>7. UNCHANGED <<locals, is_wire, is_repl, cma, canary_ex, skipping, conn, whereToSendOutput, backend, recv, files, call>>
    BY <1>16 DEF AfterMessage
  <2> QED
    BY <1>t, <2>3, <2>4, <2>5, <2>6, <2>7, <2>2 DEF RecvOK, IInv, TypeOK, RequestSized, StreamOpen, Served, Controls
<1>17. CASE SimpleQuery
  <2>1. Executed /\ pc = "dispatch"
    BY <1>17 DEF SimpleQuery, Dispatch
  <2>2. send' \in SendType /\ send'.SOCKET_FILE = send.SOCKET_FILE
    BY <1>17, <1>b, AnswerType DEF SimpleQuery, Replies
  <2>3. CommitMayNotify /\ send_ready_for_query' \in BOOLEAN
    BY <1>17 DEF SimpleQuery
  <2>4. due' \in Int
    BY <1>17, <1>t DEF SimpleQuery, Owed, TypeOK
  <2>5. notifyInterruptPending' \in BOOLEAN
    BY <2>3, <1>t DEF CommitMayNotify, TypeOK
  <2>6. transaction' \in {"none", "open", "block"}
    BY <1>17, <1>t DEF SimpleQuery, TypeOK
  <2> QED
    BY <1>t, <2>1, <2>2, <2>3, <2>4, <2>5, <2>6 DEF Executed, IInv, TypeOK, RequestSized, StreamOpen, Served, Controls
<1>18. CASE Parse
  <2>1. send' \in SendType /\ send'.SOCKET_FILE = send.SOCKET_FILE
    BY <1>18, <1>b, AnswerType DEF Parse, Executed, Replies
  <2>2. /\ send_ready_for_query' \in BOOLEAN /\ due' \in Int
        /\ notifyInterruptPending' \in BOOLEAN /\ transaction' \in {"none", "open", "block"}
    BY <1>18, <1>t DEF Parse, Executed, Owed, CommitMayNotify, TypeOK
  <2> QED
    BY <1>18, <1>t, <2>1, <2>2 DEF Parse, Dispatch, Executed, IInv, TypeOK, RequestSized, StreamOpen, Served, Controls
<1>19. CASE BindExecute
  BY <1>19, <1>t, <1>b, AnswerType DEF BindExecute, IInv, TypeOK, RequestSized, StreamOpen, Served, Controls, ExtendedQuery, Dispatch, Executed, Replies
<1>20. CASE CloseDescribe
  BY <1>20, <1>t, <1>b, AnswerType DEF CloseDescribe, IInv, TypeOK, RequestSized, StreamOpen, Served, Controls, ExtendedQuery, Dispatch, Executed, Replies
<1>21. CASE FunctionCall
  <2>1. Executed /\ pc = "dispatch"
    BY <1>21 DEF FunctionCall, Dispatch
  <2>2. send' \in SendType /\ send'.SOCKET_FILE = send.SOCKET_FILE
    BY <1>21, <1>b, AnswerType DEF FunctionCall, Replies
  <2>3. CommitMayNotify /\ send_ready_for_query' \in BOOLEAN
    BY <1>21 DEF FunctionCall
  <2>4. due' \in Int
    BY <1>21, <1>t DEF FunctionCall, Owed, TypeOK
  <2>5. notifyInterruptPending' \in BOOLEAN
    BY <2>3, <1>t DEF CommitMayNotify, TypeOK
  <2>6. transaction' \in {"none", "open", "block"}
    BY <1>21, <1>t DEF FunctionCall, TypeOK
  <2> QED
    BY <1>t, <2>1, <2>2, <2>3, <2>4, <2>5, <2>6 DEF Executed, IInv, TypeOK, RequestSized, StreamOpen, Served, Controls
<1>22. CASE Flush
  BY <1>22, <1>t, <1>b, FlushedType DEF Flush, IInv, TypeOK, RequestSized, StreamOpen, Served, Controls, Dispatch, Executed
<1>23. CASE Sync
  <2>1. Executed /\ pc = "dispatch"
    BY <1>23 DEF Sync, Dispatch
  <2>2. send' \in SendType /\ send'.SOCKET_FILE = send.SOCKET_FILE
    BY <1>23, <1>b, AnswerType DEF Sync, Replies
  <2>3. CommitMayNotify /\ send_ready_for_query' \in BOOLEAN
    BY <1>23 DEF Sync
  <2>4. due' \in Int
    BY <1>23, <1>t DEF Sync, Owed, TypeOK
  <2>5. notifyInterruptPending' \in BOOLEAN
    BY <2>3, <1>t DEF CommitMayNotify, TypeOK
  <2>6. transaction' \in {"none", "open", "block"}
    BY <1>23, <1>t DEF Sync, TypeOK
  <2> QED
    BY <1>t, <2>1, <2>2, <2>3, <2>4, <2>5, <2>6 DEF Executed, IInv, TypeOK, RequestSized, StreamOpen, Served, Controls
<1>24. CASE CopyStray
  BY <1>24, <1>t, <1>b DEF CopyStray, IInv, TypeOK, RequestSized, StreamOpen, Served, Controls, Dispatch, Executed
<1>25. CASE Terminate
  <2>1. sf_connected' \in Nat /\ whereToSendOutput' \in {"Debug", "Remote", "None"}
    BY <1>25, <1>t DEF Terminate, TypeOK
  <2>2. pc' = "flush" /\ due' \in Int
    BY <1>25 DEF Terminate
  <2>3. is_repl' \in BOOLEAN /\ ignore_till_sync' \in BOOLEAN
    BY <1>25 DEF Terminate
  <2>4. send_ready_for_query' \in BOOLEAN /\ pipelining' \in BOOLEAN
    BY <1>25 DEF Terminate
  <2>5. UNCHANGED <<locals, is_wire, cma, canary_ex, doing_extended_query_message, ClientAuthInProgress, MyProcPort, backend, recv, send, files, call>>
    BY <1>25 DEF Terminate
  <2> QED
    BY <1>t, <2>1, <2>2, <2>3, <2>4, <2>5 DEF RecvOK, IInv, TypeOK, RequestSized, StreamOpen, Served, Controls
<1>26. CASE Fail
  BY <1>26, <1>t, <1>b DEF Fail, IInv, TypeOK, RequestSized, StreamOpen, Served, Controls, Dispatch
<1>27. CASE LongJump
  <2>1. ClearErrorOK
    BY <1>27, <1>t, <1>b, ClearErrorType DEF LongJump
  <2>2. pc \in {"error", "refused"} /\ pc' \in {"broken", "incoming", "flush"}
    BY <1>27 DEF LongJump, Synchronised
  <2>3. canary_ex' \in Nat
    <3>1. canary_ex' \in {canary_ex, canary_ex + 1} /\ canary_ex \in Nat
      BY <1>27, <1>t DEF LongJump, TypeOK
    <3> QED
      BY <3>1
  <2>4. pipelining' \in BOOLEAN
    BY <1>27, <1>t DEF LongJump, TypeOK
  <2>5. UNCHANGED <<doing_extended_query_message, notifyInterruptPending>>
    BY <1>27 DEF LongJump, ClearError
  <2>6. UNCHANGED <<locals, is_wire, is_repl, cma, conn, whereToSendOutput, recv, files, call>>
    BY <1>27 DEF LongJump
  <2> QED
    BY <1>t, <2>2, <2>3, <2>4, <2>5, <2>6, <2>1 DEF RecvOK, IInv, TypeOK, RequestSized, StreamOpen, Served, Controls, ClearErrorOK
<1>28. CASE HostRecover
  <2>1. ClearErrorOK
    BY <1>28, <1>t, <1>b, ClearErrorType DEF HostRecover
  <2>2. /\ cma_rsize' = -1 /\ cma_wsize' = 0 /\ pc' \in {"enter", "broken"}
        /\ firstchar' = "none" /\ peek' = "none"
    BY <1>28 DEF HostRecover, Synchronised
  <2>3. fp' \in BOOLEAN /\ pipelining' \in BOOLEAN
    BY <1>28 DEF HostRecover
  <2>4. UNCHANGED <<doing_extended_query_message, notifyInterruptPending>>
    BY <1>28 DEF HostRecover, ClearError
  <2>5. UNCHANGED <<is_wire, is_repl, channel, canary_ex, conn, whereToSendOutput, recv, files, call>>
    BY <1>28 DEF HostRecover
  <2> QED
    BY <1>t, <2>2, <2>3, <2>4, <2>5, <2>1 DEF RecvOK, IInv, TypeOK, RequestSized, StreamOpen, Served, Controls, ClearErrorOK
<1>29. CASE LastReady
  <2>1. send' \in SendType
    BY <1>29, <1>b, LastRepliesType DEF LastReady
  <2>2. send_ready_for_query' \in BOOLEAN
    BY <1>29, <1>t DEF LastReady, TypeOK
  <2>3. due' \in Int
    BY <1>29, <1>t DEF LastReady, TypeOK
  <2>4. notifyInterruptPending' \in BOOLEAN
    BY <1>29, <1>t DEF LastReady, TypeOK
  <2>5. pc' = "publish"
    BY <1>29 DEF LastReady
  <2>6. UNCHANGED <<locals, pipelining, is_wire, is_repl, cma, canary_ex, skipping, conn, whereToSendOutput, transaction, recv, files, call>>
    BY <1>29 DEF LastReady
  <2> QED
    BY <1>t, <2>1, <2>2, <2>3, <2>4, <2>5, <2>6 DEF RecvOK, IInv, TypeOK, RequestSized, StreamOpen, Served, Controls
<1>30. CASE Publish
  <2>1. send' \in SendType /\ send.olock \in Seq(Replies) /\ send.SOCKET_DATA \in Nat
    BY <1>30, <1>b, UpdateType DEF Publish, SendType
  <2>2. /\ channel' \in Nat \cup {-1} /\ cma_wsize' \in Nat
        /\ PGS_OUT' \in Seq(Replies) \cup {NoFile} /\ pc' \in {"broken", "return"}
    BY <1>30, <1>t, <2>1 DEF Publish, TypeOK
  <2> QED
    BY <1>30, <1>t, <2>1, <2>2 DEF Publish, IInv, TypeOK, RequestSized, StreamOpen, Served, Controls
<1>31. CASE Return
  <2>1. RecvOK(recv')
    <3>1. <<>> \in Frames
      BY DEF Frames
    <3> QED
      BY <1>31, <3>1, <1>b, CmaType DEF Return
  <2>2. PGS_IN' \in Frames \cup {NoFile}
    BY <1>31, <1>t DEF Return, Unlinked, TypeOK
  <2>3. /\ cma_rsize' = 0 /\ canary_ex' = 0 /\ pc' = "returned"
        /\ firstchar' = "none" /\ peek' = "none"
    BY <1>31 DEF Return, NoErrors
  <2>4. fp' \in BOOLEAN /\ pipelining' \in BOOLEAN
    BY <1>31 DEF Return
  <2>5. UNCHANGED <<is_wire, is_repl, cma_wsize, channel, ready, skipping, conn, whereToSendOutput, backend, send, PGS_OUT, call>>
    BY <1>31 DEF Return
  <2> QED
    BY <1>t, <2>2, <2>3, <2>4, <2>5, <2>1 DEF RecvOK, IInv, TypeOK, RequestSized, StreamOpen, Served, Controls
<1>32. CASE CopyBegin
  <2>1. Answer(send, "ok") \in SendType /\ Answer(send, "ok").SOCKET_FILE = send.SOCKET_FILE
    BY <1>b, AnswerType DEF Replies
  <2>2. send' \in SendType /\ send'.SOCKET_FILE = send.SOCKET_FILE
    BY <1>32, <2>1, FlushedType DEF CopyBegin
  <2> QED
    BY <1>32, <1>t, <2>2 DEF CopyBegin, Dispatch, IInv, TypeOK, RequestSized, StreamOpen, Served, Controls
<1>c. ASSUME CopyTake
      PROVE  /\ RecvOK(recv')
             /\ SendStart(recv, send) \in SendType
             /\ SendStart(recv, send).SOCKET_FILE = send.SOCKET_FILE
  <2>1. cma_rsize \in Nat
    BY <1>c, <1>t DEF CopyTake, RequestSized, Served
  <2>2. RecvOK(RecvStart(recv, send))
    BY <2>1, <1>b, RecvStartType
  <2> QED
    BY <1>c, <1>b, <2>1, <2>2, AdvancedType, SendStartType DEF CopyTake
<1>33. CASE CopyData
  <2>1. CopyTake /\ send' = SendStart(recv, send) /\ pc' \in {"copying", "broken"}
    BY <1>33 DEF CopyData
  <2>2. UNCHANGED <<ready, backend>>
    BY <1>33 DEF CopyData
  <2> QED
    BY <2>1, <2>2, <1>c, <1>t DEF CopyTake, RecvOK, IInv, TypeOK, RequestSized, StreamOpen, Served, Controls
<1>34. CASE CopyDone
  <2>1. CopyTake /\ pc' = "rfq"
    BY <1>34 DEF CopyDone
  <2>2. send' \in SendType /\ send'.SOCKET_FILE = send.SOCKET_FILE
    BY <1>34, <2>1, <1>c, AnswerType DEF CopyDone, Replies
  <2>3. CommitMayNotify /\ send_ready_for_query' \in BOOLEAN
    BY <1>34 DEF CopyDone
  <2>4. due' \in Int
    BY <1>34, <1>t DEF CopyDone, Owed, TypeOK
  <2>5. notifyInterruptPending' \in BOOLEAN
    BY <2>3, <1>t DEF CommitMayNotify, TypeOK
  <2>6. transaction' \in {"none", "open", "block"}
    BY <1>34, <1>t DEF CopyDone, TypeOK
  <2> QED
    BY <2>1, <2>2, <2>3, <2>4, <2>5, <2>6, <1>c, <1>t DEF CopyTake, RecvOK, IInv, TypeOK, RequestSized, StreamOpen, Served, Controls
<1>35. CASE CopyFail
  <2>1. CopyTake /\ send' = SendStart(recv, send) /\ pc' \in {"error", "trapped"}
    BY <1>35 DEF CopyFail
  <2>2. UNCHANGED <<ready, backend>>
    BY <1>35 DEF CopyFail
  <2> QED
    BY <2>1, <2>2, <1>c, <1>t DEF CopyTake, RecvOK, IInv, TypeOK, RequestSized, StreamOpen, Served, Controls
<1>36. CASE UNCHANGED vars
  BY <1>36, <1>t DEF vars, IInv, TypeOK, RequestSized, StreamOpen, Served, Controls
<1> QED
  BY <1>1, <1>2, <1>3, <1>4, <1>5, <1>6, <1>7, <1>8, <1>9, <1>10, <1>11, <1>12, <1>13, <1>14, <1>15, <1>16, <1>17, <1>18, <1>19, <1>20, <1>21, <1>22, <1>23, <1>24, <1>25, <1>26, <1>27, <1>28, <1>29, <1>30, <1>31,
     <1>32, <1>33, <1>34, <1>35, <1>36 DEF Next, Backend, Enter, Request, Loop, Proto, Copy, Leave

-----------------------------------------------------------------------------
(* The theorems *)

\* The inductive invariant of the loop: types, a sized request in the CMA, and
\* the reply file open from the moment a request is found until it is published.
THEOREM Invariant == Spec => []IInv
<1>1. Init => IInv
  BY InitInvariant
<1>2. IInv /\ [Next]_vars => IInv'
  BY StepInvariant
<1> QED
  BY <1>1, <1>2, PTL DEF Spec

\* The globals and buffers of the loop stay in their types, and the read
\* pointer of the receive buffer never passes the end of its data.
THEOREM TypeCorrect == Spec => []TypeOK
BY Invariant, PTL DEF IInv

\* Whenever a message is served the reply file is open: internal_putbytes,
\* which may overflow into it at any reply, never writes to a NULL stream.
THEOREM StreamAlwaysOpen == Spec => []StreamOpen
BY Invariant, PTL DEF IInv
=============================================================================
