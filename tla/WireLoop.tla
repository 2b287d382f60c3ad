------------------------------ MODULE WireLoop ------------------------------
(***************************************************************************)
(* interactive_one(): one call of the host runs the backend over one       *)
(* request, found in the shared memory area (CMA), in the request file of  *)
(* the socketfiles interface, or, in REPL mode, as plain SQL.              *)
(*                                                                         *)
(* Everything happens on one thread; a step of this module is a stretch of *)
(* C code between two decisions.  The unit of length is the message: a     *)
(* message is named by its type byte, a reply by one letter.  The bytes of *)
(* both, and the refilling of the 8K receive buffer, are left out.         *)
(***************************************************************************)
EXTENDS Integers, Sequences

CONSTANTS
  Calls,        \* what the host may ask: [mode, port, frame], see CallType
  Sjlj,         \* TRUE: emscripten, errors longjmp.  FALSE: wasi, they trap
  CmaRoom,      \* replies that fit in the CMA behind the request
  CanaryMax,    \* errors tolerated before abort() (8 in the code)
  ChannelHost,  \* does the host ask get_channel where the reply is?
  Notifies,     \* may a commit raise a notification for this session?
  NoFile,       \* stands for a file that does not exist
  MaxConnected  \* bound: the host starts no session beyond this many

(***************************************************************************)
(* Message types.  "startup" is the untyped packet whose first byte is 0,  *)
(* "p" the password message, "badp" one whose password is empty or of a    *)
(* wrong size, "copy" a simple query that is COPY FROM STDIN; "d", "c" and *)
(* "f" are CopyData, CopyDone and CopyFail; "sql" is a REPL line, "psql"   *)
(* one that begins with the letter p (byte 112), "tiny" one that is a      *)
(* single byte.  "junk" is what is found where no message starts.          *)
(***************************************************************************)
Extended == {"P", "B", "E", "C", "D", "H"}
Copying  == {"d", "c", "f"}
Wire     == Extended \cup Copying \cup {"Q", "copy", "F", "S", "X", "startup", "p", "badp"}
Sql      == {"sql", "psql", "tiny"}
Kinds    == Wire \cup Sql
Replies  == {"R", "E", "A", "Z", "ok"}

CallType == [mode : {"wire", "repl", "keep"},
             port : {"cma", "file", "memory", "none"},
             frame : Seq(Kinds)]

ASSUME CallsAssumption ==
  /\ Calls \subseteq CallType
  /\ \A c \in Calls : c.port = "none" <=> c.frame = <<>>
ASSUME SizesAssumption ==
  CmaRoom \in Nat /\ CanaryMax \in Nat /\ MaxConnected \in Nat
ASSUME BuildAssumption == {Sjlj, ChannelHost, Notifies} \subseteq BOOLEAN
ASSUME NoFileAssumption == NoFile \notin Seq(Kinds) \cup Seq(Replies)

VARIABLES
  \* control, and the locals of interactive_one
  pc, firstchar, peek, fp, pipelining,
  \* globals of interactive_one.c, pg_main.c and postgres.c
  is_wire, is_repl, cma_rsize, cma_wsize, channel, canary_ex,
  send_ready_for_query, ignore_till_sync, doing_extended_query_message,
  ClientAuthInProgress, whereToSendOutput, sf_connected, MyProcPort,
  notifyInterruptPending, transaction,
  \* buffers and files
  recv,         \* the receive buffer of pqcomm.c, see RecvType
  send,         \* the send side of pqcomm.c, see SendType
  PGS_IN, PGS_OUT,
  \* history, never read by the code
  call,         \* the call being served
  due           \* sync points completed in this call and not answered by a Z

locals   == <<firstchar, peek, fp>>
cma      == <<cma_rsize, cma_wsize, channel>>
skipping == <<ignore_till_sync, doing_extended_query_message>>
backend  == <<notifyInterruptPending, transaction>>
conn     == <<ClientAuthInProgress, sf_connected, MyProcPort>>
files    == <<PGS_IN, PGS_OUT>>
ready    == <<send_ready_for_query, due>>
vars == <<pc, locals, pipelining, is_wire, is_repl, cma, canary_ex, ready,
          skipping, conn, whereToSendOutput, backend, recv, send, files, call>>

Frames == Seq(Kinds)

\* Where the bytes lie (mem), which area PqRecvBuffer points at (loc),
\* PqRecvPointer and PqRecvLength, and PqCommReadingMsg between two messages.
RecvType == [mem : [{"cma", "static"} -> Frames], loc : {"cma", "static"},
             ptr : Nat, len : Nat, reading : BOOLEAN]

\* base is PqSendBuffer (0: the static buffer), sent the replies up to
\* PqSendPointer, olock what was written to the reply file while it has its
\* temporary name; emitted is history: the replies made during this call.
SendType == [sockfiles : BOOLEAN, SOCKET_FILE : BOOLEAN, SOCKET_DATA : Nat,
             base : Nat, sent : Seq(Replies), olock : Seq(Replies),
             emitted : Seq(Replies)]

Idle == [mode |-> "keep", port |-> "none", frame |-> <<>>]

-----------------------------------------------------------------------------
(* The send and receive buffers *)

Remaining(r) == r.len - r.ptr          \* pq_buffer_remaining_data

\* Faults are mistakes of a kind the code could contain; no definition uses
\* them.  They show which property would notice.
Fault_MoreThanOne(r) == Remaining(r) > 1
Fault_MoreAlways(r)  == Remaining(r) >= 0
More(r)              == Remaining(r) > 0

\* Fault: what was already in memory is not moved to the file.
Fault_PutLoses(s, reply) ==
  LET memory == ~s.sockfiles /\ Len(s.sent) < CmaRoom
  IN  [s EXCEPT !.sockfiles   = ~memory,
                !.sent        = IF memory THEN Append(@, reply) ELSE @,
                !.olock       = IF memory THEN @ ELSE Append(@, reply),
                !.SOCKET_DATA = @ + 1,
                !.emitted     = Append(@, reply)]

\* Fault: memory is used although the request came in a file.
Fault_PutInMemory(s, reply) ==
  [s EXCEPT !.sent = Append(@, reply), !.SOCKET_DATA = @ + 1, !.emitted = Append(@, reply)]

\* internal_putbytes: into memory until it is full, then all of it moves to
\* the reply file and the rest follows there.
Put(s, reply) ==
  LET memory == ~s.sockfiles /\ Len(s.sent) < CmaRoom
      before == IF s.sockfiles THEN s.olock ELSE s.olock \o s.sent
  IN  [s EXCEPT !.sockfiles   = ~memory,
                !.sent        = IF memory THEN Append(@, reply) ELSE @,
                !.olock       = IF memory THEN @ ELSE Append(before, reply),
                !.SOCKET_DATA = @ + 1,
                !.emitted     = Append(@, reply)]

\* What reaches the client only when the destination is the client.
Answer(s, reply) ==
  IF whereToSendOutput = "Remote" THEN Put(s, reply) ELSE s

\* internal_flush forgets the memory copy in socketfiles mode only.
Flushed(s) == IF s.sockfiles THEN [s EXCEPT !.sent = <<>>] ELSE s

\* Fault: it is looked for with each message.
Fault_RecvStartAlways(r, s) ==
  IF s.sockfiles THEN [r EXCEPT !.loc = "static"]
                 ELSE [r EXCEPT !.loc = "cma", !.ptr = 0, !.len = cma_rsize]

\* pq_startmsgread: a new request is looked for when the buffer is empty.
RecvStart(r, s) ==
  CASE More(r) -> r
    [] ~More(r) /\ s.sockfiles -> [r EXCEPT !.loc = "static"]
    [] OTHER -> [r EXCEPT !.loc = "cma", !.ptr = 0, !.len = cma_rsize]
SendStart(r, s) ==
  CASE More(r) -> s
    [] ~More(r) /\ s.sockfiles -> [s EXCEPT !.base = 0]
    [] OTHER -> [s EXCEPT !.base = 2 + cma_rsize, !.sent = <<>>]

\* Fault: PqRecvPointer is not reset.
Fault_FilledOnly(r, frame) == [r EXCEPT !.mem[r.loc] = frame, !.len = Len(frame)]

\* pq_recvbuf_fill writes wherever PqRecvBuffer points.
Filled(r, frame) == [r EXCEPT !.mem[r.loc] = frame, !.ptr = 0, !.len = Len(frame)]

Next1(r) ==
  IF ~More(r) THEN "EOF"
  ELSE IF r.ptr < Len(r.mem[r.loc]) THEN r.mem[r.loc][r.ptr + 1] ELSE "junk"
Advanced(r) == IF More(r) THEN [r EXCEPT !.ptr = @ + 1] ELSE r
Fault_DrainedShort(r) == [r EXCEPT !.ptr = r.len - 1]
Drained(r)            == [r EXCEPT !.ptr = r.len]

\* ProcessNotifyInterrupt does nothing inside a transaction.
Fault_NotifyInBlock == notifyInterruptPending /\ transaction = "block"
MayNotify           == notifyInterruptPending /\ transaction = "none"
Notified(s) == IF MayNotify THEN Answer(s, "A") ELSE s

-----------------------------------------------------------------------------
(* The host *)

\* A client sends its password when it is asked for one, and nothing else then.
Polite(c) ==
  LET first == IF c.frame = <<>> THEN "none" ELSE c.frame[1]
  IN  /\ c.mode # "repl" /\ first \notin Sql => (ClientAuthInProgress <=> first \in {"p", "badp"})
      /\ first = "startup" => sf_connected < MaxConnected

\* use_wire, if the host calls it; then the request is put in place and
\* interactive_write announces it; then interactive_one is entered.
HostCall(c) ==
  /\ pc = "host"
  /\ Polite(c)
  /\ is_wire' = CASE c.mode = "wire" -> TRUE [] c.mode = "repl" -> FALSE [] OTHER -> is_wire
  /\ is_repl' = CASE c.mode = "wire" -> FALSE [] c.mode = "repl" -> TRUE [] OTHER -> is_repl
  /\ cma_rsize' = IF c.port = "cma" THEN Len(c.frame) ELSE 0
  /\ cma_wsize' = 0
  /\ recv' = IF c.port \in {"cma", "memory"} THEN [recv EXCEPT !.mem["cma"] = c.frame] ELSE recv
  /\ PGS_IN' = IF c.port = "file" THEN c.frame ELSE PGS_IN
  /\ call' = c
  /\ pc' = "enter"
  /\ UNCHANGED <<locals, pipelining, send, channel, canary_ex, ready, skipping, conn, whereToSendOutput, backend, PGS_OUT>>

\* The host takes the reply: from the reply file, which it then unlinks, or
\* from memory, behind its request.  A host may ask get_channel which of the
\* two; the one in repl.html looks where it sent the request.
ReadsFile == IF ChannelHost THEN channel < 0 ELSE call.port = "file"

HostRead ==
  /\ pc = "returned"
  /\ PGS_OUT' = IF ReadsFile THEN NoFile ELSE PGS_OUT
  /\ send' = [send EXCEPT !.emitted = <<>>]
  /\ call' = Idle /\ due' = 0
  /\ pc' = "host"
  /\ UNCHANGED <<locals, pipelining, is_wire, is_repl, cma, canary_ex, send_ready_for_query, skipping, conn,
                 whereToSendOutput, backend, recv, PGS_IN>>

-----------------------------------------------------------------------------
(* Entering interactive_one *)

\* With a negative size the call only finishes what an error cut short.
EnterResume ==
  /\ pc = "enter" /\ cma_rsize < 0
  /\ pc' = IF is_repl THEN "return" ELSE "flush"
  /\ UNCHANGED <<locals, pipelining, is_wire, is_repl, cma, canary_ex, ready, skipping, conn,
                 whereToSendOutput, backend, recv, send, files, call>>

\* io_init, once.
EnterInit ==
  /\ pc = "enter" /\ cma_rsize >= 0 /\ ~MyProcPort
  /\ MyProcPort' = TRUE
  /\ ClientAuthInProgress' = FALSE
  /\ whereToSendOutput' = "Remote"
  /\ send' = [send EXCEPT !.SOCKET_FILE = FALSE, !.SOCKET_DATA = 0]
  /\ UNCHANGED <<pc, locals, pipelining, is_wire, is_repl, cma, canary_ex, ready, skipping,
                 sf_connected, backend, recv, files, call>>

\* Replies left over from an earlier call are flushed, and nothing else done.
EnterBacklog ==
  /\ pc = "enter" /\ cma_rsize >= 0 /\ MyProcPort /\ send.SOCKET_DATA > 0
  /\ pc' = "flush"
  /\ UNCHANGED <<locals, pipelining, is_wire, is_repl, cma, canary_ex, ready, skipping, conn,
                 whereToSendOutput, backend, recv, send, files, call>>

\* Faults: the file is opened for one kind of request only.
Fault_OpenedForFile(s) ==
  IF s.SOCKET_FILE \/ cma_rsize > 0 THEN s ELSE [s EXCEPT !.SOCKET_FILE = TRUE, !.olock = <<>>]
Fault_OpenedForCma(s) ==
  IF s.SOCKET_FILE \/ cma_rsize = 0 THEN s ELSE [s EXCEPT !.SOCKET_FILE = TRUE, !.olock = <<>>]

Opened(s) == IF s.SOCKET_FILE THEN s ELSE [s EXCEPT !.SOCKET_FILE = TRUE, !.olock = <<>>]

\* The reply file is opened, a pending ReadyForQuery is dropped.
EnterRequest ==
  /\ pc = "enter" /\ cma_rsize >= 0 /\ MyProcPort /\ send.SOCKET_DATA = 0
  /\ send' = IF send_ready_for_query THEN Notified(Opened(send)) ELSE Opened(send)
  /\ notifyInterruptPending' = (notifyInterruptPending /\ ~(send_ready_for_query /\ MayNotify))
  /\ send_ready_for_query' = FALSE
  /\ pc' = "request"
  /\ UNCHANGED <<locals, pipelining, is_wire, is_repl, cma, canary_ex, due, skipping, conn,
                 whereToSendOutput, transaction, recv, files, call>>

\* startup_auth: the rest of a CMA request is discarded, not that of a file.
StartupAuth(r, s) ==
  /\ send_ready_for_query' = FALSE
  /\ due' = 0
  /\ sf_connected' = sf_connected + 1
  /\ ClientAuthInProgress' = TRUE
  /\ IF cma_rsize # 0
       THEN recv' = Drained(RecvStart(r, s)) /\ send' = Flushed(Put(SendStart(r, s), "R"))
       ELSE recv' = r /\ send' = Flushed(Put(s, "R"))
  /\ UNCHANGED <<skipping, MyProcPort>>

\* startup_pass: a password message is read and believed.
StartupPass(r, s) ==
  /\ recv' = Advanced(RecvStart(r, s))
  /\ send' = Put(SendStart(r, s), "R")
  /\ ClientAuthInProgress' = FALSE
  /\ send_ready_for_query' = TRUE
  /\ due' = 1
  /\ ignore_till_sync' = FALSE
  /\ UNCHANGED <<doing_extended_query_message, sf_connected, MyProcPort>>

NoStartup == UNCHANGED <<ready, skipping, conn>>

\* recv_password_packet cannot begin while an earlier message is being read;
\* else it finds a password, or something else it takes from the buffer.
Password(r, s)    == IF r.reading THEN "FATAL" ELSE Next1(RecvStart(r, s))
NoPassword(r, s) == recv' = Advanced(RecvStart(r, s)) /\ send' = SendStart(r, s) /\ NoStartup

\* A packet of the handshake.  A bad password is an ERROR behind its message;
\* another type is one in the middle of a message, which clear_error makes
\* FATAL; and the NULL that stands for no message at all is freed.
Handshake(r, s, served, refused) ==
  \/ /\ peek' = "startup" /\ StartupAuth(r, s)
     /\ pc' = IF r.reading /\ cma_rsize # 0 THEN "broken" ELSE served
  \/ /\ peek' = "p" /\ Password(r, s) = "p" /\ StartupPass(r, s)
     /\ pc' = served
  \/ /\ peek' = "p" /\ Password(r, s) # "p" /\ NoPassword(r, s)
     /\ pc' = IF Password(r, s) = "badp" THEN refused ELSE "broken"

Head1(frame) == CASE frame[1] = "startup" -> "startup"
                  [] frame[1] \in {"p", "badp", "psql"} -> "p"
                  [] OTHER -> "other"

RequestCma ==
  /\ pc = "request" /\ cma_rsize > 0
  /\ peek' = Head1(recv.mem["cma"])
  /\ send' = [send EXCEPT !.sockfiles = FALSE]
  /\ whereToSendOutput' = IF is_repl THEN "Debug" ELSE "Remote"
  /\ pc' = IF recv.mem["cma"] = <<"tiny">> THEN "return" ELSE "incoming"
  /\ UNCHANGED <<firstchar, fp, pipelining, is_wire, is_repl, cma, canary_ex, backend, recv, files, call>>
  /\ NoStartup

FileHasData == PGS_IN # NoFile /\ PGS_IN # <<>>

\* A request file is read whole.  A handshake is served at once, before
\* sigsetjmp: its ERROR longjmps into a frame that has returned.
ServeFile(r, s) ==
  \/ peek' = "other" /\ recv' = r /\ send' = s /\ NoStartup /\ pc' = "incoming"
  \/ Handshake(r, s, "flush", IF Sjlj THEN "broken" ELSE "refused")

\* SQL for the REPL goes elsewhere than to the receive buffer.  Yet its first
\* byte is looked at as if it were the type of a message.
RequestFileRepl ==
  /\ pc = "request" /\ cma_rsize = 0 /\ FileHasData /\ is_repl /\ ~is_wire
  /\ fp' = TRUE
  /\ peek' = Head1(PGS_IN)
  /\ ServeFile(recv, [send EXCEPT !.sockfiles = FALSE])
  /\ UNCHANGED <<firstchar, pipelining, is_wire, is_repl, cma, canary_ex, whereToSendOutput,
                 backend, files, call>>

RequestFileWire ==
  /\ pc = "request" /\ cma_rsize = 0 /\ FileHasData /\ ~(is_repl /\ ~is_wire)
  /\ fp' = TRUE
  /\ peek' = Head1(PGS_IN)
  /\ whereToSendOutput' = "Remote"
  /\ ServeFile(Filled(recv, PGS_IN), [send EXCEPT !.sockfiles = TRUE])
  /\ UNCHANGED <<firstchar, pipelining, is_wire, is_repl, cma, canary_ex, backend, files, call>>

\* No request file: SQL may have been left in memory without a size.
RequestMemory ==
  /\ pc = "request" /\ cma_rsize = 0 /\ ~FileHasData /\ recv.mem["cma"] # <<>>
  /\ fp' = (PGS_IN # NoFile)
  /\ peek' = Head1(recv.mem["cma"])
  /\ pc' = IF recv.mem["cma"] = <<"tiny">> THEN "return" ELSE "incoming"
  /\ UNCHANGED <<firstchar, pipelining, is_wire, is_repl, cma, canary_ex, whereToSendOutput,
                 backend, recv, send, files, call>>
  /\ NoStartup

RequestNothing ==
  /\ pc = "request" /\ cma_rsize = 0 /\ ~FileHasData /\ recv.mem["cma"] = <<>>
  /\ fp' = (PGS_IN # NoFile)
  /\ pc' = "return"
  /\ UNCHANGED <<firstchar, peek, pipelining, is_wire, is_repl, cma, canary_ex, whereToSendOutput,
                 backend, recv, send, files, call>>
  /\ NoStartup

-----------------------------------------------------------------------------
(* The loop over the messages of the request *)

AfterLoop == IF is_repl THEN "return" ELSE "flush"      \* resume_on_error

LoopEnds ==
  /\ pc = "incoming" /\ ~pipelining
  /\ pc' = AfterLoop
  /\ UNCHANGED <<locals, pipelining, is_wire, is_repl, cma, canary_ex, ready, skipping, conn,
                 whereToSendOutput, backend, recv, send, files, call>>

\* Fault: a terminal is answered where the client before it was.
Fault_DestinationKept == UNCHANGED whereToSendOutput

Destination == whereToSendOutput' = IF is_repl THEN "Debug" ELSE whereToSendOutput

LoopAuth ==
  /\ pc = "incoming" /\ pipelining /\ is_wire /\ peek \in {"startup", "p"}
  /\ Destination
  /\ pipelining' = ~is_repl
  /\ UNCHANGED <<locals, is_wire, is_repl, cma, canary_ex, backend, files, call>>
  /\ Handshake(recv, send, AfterLoop, "refused")

\* SocketBackend reads one message and keeps the skip-till-Sync flags; an
\* unknown type is FATAL, and FATAL does not end the process.  After EOF it
\* is still reading, which is FATAL when the next message begins.
SocketBackend(kind) ==
  /\ doing_extended_query_message' = CASE kind \in Extended -> TRUE
                                       [] kind = "EOF" -> doing_extended_query_message
                                       [] OTHER -> FALSE
  /\ ignore_till_sync' = (ignore_till_sync /\ kind \notin {"S", "X"})

Readable == Extended \cup Copying \cup {"Q", "copy", "F", "S", "X", "EOF"}

LoopRead ==
  /\ pc = "incoming" /\ pipelining /\ is_wire /\ peek \notin {"startup", "p"}
  /\ Destination
  /\ LET r    == RecvStart(recv, send)
         kind == Next1(r)
     IN  /\ recv' = [Advanced(r) EXCEPT !.reading = @ \/ kind = "EOF"]
         /\ send' = SendStart(recv, send)
         /\ firstchar' = kind
         /\ SocketBackend(kind)
         /\ pipelining' = More(recv')
         /\ pc' = CASE recv.reading \/ kind \notin Readable -> "broken"
                    [] /\ ~recv.reading /\ kind \in Readable
                       /\ ignore_till_sync' /\ kind \notin {"S", "EOF"} -> "incoming"
                    [] OTHER -> "dispatch"
  /\ UNCHANGED <<peek, fp, is_wire, is_repl, cma, canary_ex, ready, conn, backend, files, call>>

\* A REPL line is a simple query; pg_proto.c takes it from the input buffer.
LoopSql ==
  /\ pc = "incoming" /\ pipelining /\ ~is_wire
  /\ Destination
  /\ pipelining' = ~is_repl
  /\ firstchar' = "Q"
  /\ pc' = IF ignore_till_sync THEN "incoming" ELSE "dispatch"
  /\ UNCHANGED <<peek, fp, is_wire, is_repl, cma, canary_ex, ready, skipping, conn, backend,
                 recv, send, files, call>>

-----------------------------------------------------------------------------
(* pg_proto.c: one message.  Q, F, S and the extended-query messages may   *)
(* fail; the ERROR leaves the loop, see Fail.                              *)

Dispatch(kinds) == pc = "dispatch" /\ firstchar \in kinds

Executed ==
  /\ pc' = "rfq"
  /\ UNCHANGED <<locals, pipelining, is_wire, is_repl, cma, canary_ex, skipping, conn,
                 whereToSendOutput, recv, files, call>>

Owed == IF is_wire THEN due + 1 ELSE due

\* A commit outside a block may find a NOTIFY for this very session.
CommitMayNotify ==
  notifyInterruptPending' \in
    IF Notifies /\ transaction' = "none" THEN {notifyInterruptPending, TRUE}
                                         ELSE {notifyInterruptPending}

SimpleQuery ==
  /\ Dispatch({"Q"}) \/ (Dispatch({"copy"}) /\ whereToSendOutput # "Remote")
  /\ transaction' \in {"none", "block"}
  /\ CommitMayNotify
  /\ send' = Answer(send, "ok")
  /\ send_ready_for_query' = TRUE /\ due' = Owed
  /\ Executed

Parse ==
  /\ Dispatch({"P"})
  /\ transaction' = IF transaction = "none" THEN "open" ELSE transaction
  /\ send' = Answer(send, "ok")
  /\ send_ready_for_query' = FALSE
  /\ Executed
  /\ UNCHANGED <<due, notifyInterruptPending>>

ExtendedQuery(kinds) ==
  /\ Dispatch(kinds)
  /\ transaction' = IF transaction = "none" THEN "open" ELSE transaction
  /\ send' = Answer(send, "ok")
  /\ send_ready_for_query' = (send_ready_for_query /\ ~pipelining)
  /\ Executed
  /\ UNCHANGED <<due, notifyInterruptPending>>

BindExecute   == ExtendedQuery({"B", "E"})
CloseDescribe == ExtendedQuery({"C", "D"})

FunctionCall ==
  /\ Dispatch({"F"})
  /\ transaction' = IF transaction = "open" THEN "none" ELSE transaction
  /\ CommitMayNotify
  /\ send' = Answer(send, "ok")
  /\ send_ready_for_query' = TRUE /\ due' = Owed
  /\ Executed

Flush ==
  /\ Dispatch({"H"})
  /\ send' = IF whereToSendOutput = "Remote" THEN Flushed(send) ELSE send
  /\ Executed
  /\ UNCHANGED <<ready, backend>>

Sync ==
  /\ Dispatch({"S"})
  /\ transaction' = IF transaction = "open" THEN "none" ELSE transaction
  /\ CommitMayNotify
  /\ send_ready_for_query' = TRUE /\ due' = Owed
  /\ Executed
  /\ UNCHANGED send

\* COPY data that no COPY is waiting for, after one that failed.
CopyStray ==
  /\ Dispatch(Copying)
  /\ Executed
  /\ UNCHANGED <<ready, backend, send>>

\* COPY FROM STDIN: the client is told to send, and what it sends is read
\* inside the query, not by the loop.  With an empty buffer pq_startmsgread
\* would turn to the start of the request again.
CopyBegin ==
  /\ Dispatch({"copy"}) /\ whereToSendOutput = "Remote"
  /\ send' = Flushed(Answer(send, "ok"))
  /\ pc' = "copying"
  /\ UNCHANGED <<locals, pipelining, is_wire, is_repl, cma, canary_ex, ready, skipping, conn,
                 whereToSendOutput, backend, recv, files, call>>

CopyNext == Next1(RecvStart(recv, send))
CopyTake ==
  /\ pc = "copying"
  /\ recv' = Advanced(RecvStart(recv, send))
  /\ UNCHANGED <<locals, pipelining, is_wire, is_repl, cma, canary_ex, skipping, conn,
                 whereToSendOutput, files, call>>

\* Flush and Sync are skipped here.  Any other message is an error in the
\* middle of a message, which clear_error makes FATAL.
CopyData ==
  /\ CopyTake /\ CopyNext \notin {"c", "f"}
  /\ send' = SendStart(recv, send)
  /\ pc' = IF CopyNext \in {"d", "H", "S"} THEN "copying" ELSE "broken"
  /\ UNCHANGED <<ready, backend>>

CopyDone ==
  /\ CopyTake /\ CopyNext = "c"
  /\ transaction' = IF transaction = "open" THEN "none" ELSE transaction
  /\ CommitMayNotify
  /\ send' = Answer(SendStart(recv, send), "ok")
  /\ send_ready_for_query' = TRUE /\ due' = Owed
  /\ pc' = "rfq"

\* The client gives up, or a row is malformed.
CopyFail ==
  /\ CopyTake /\ CopyNext \in {"d", "f"}
  /\ send' = SendStart(recv, send)
  /\ pc' = IF Sjlj THEN "error" ELSE "trapped"
  /\ UNCHANGED <<ready, backend>>

\* X, or the end of the input: the session is over, the process is not.
Terminate ==
  /\ Dispatch({"X", "EOF"})
  /\ whereToSendOutput' = IF whereToSendOutput = "Remote" THEN "None" ELSE whereToSendOutput
  /\ sf_connected' = IF sf_connected > 0 THEN sf_connected - 1 ELSE 0
  /\ is_repl' = FALSE
  /\ ignore_till_sync' = FALSE
  /\ send_ready_for_query' = FALSE /\ due' = 0
  /\ pipelining' = FALSE
  /\ pc' = "flush"
  /\ UNCHANGED <<locals, is_wire, cma, canary_ex, doing_extended_query_message,
                 ClientAuthInProgress, MyProcPort, backend, recv, send, files, call>>

\* ERROR: emscripten longjmps to the handler, wasi traps into the host.
Fail ==
  /\ Dispatch(Extended \cup {"Q", "copy", "F", "S"}) /\ firstchar # "H"
  /\ pc' = IF Sjlj THEN "error" ELSE "trapped"
  /\ UNCHANGED <<locals, pipelining, is_wire, is_repl, cma, canary_ex, ready, skipping, conn,
                 whereToSendOutput, backend, recv, send, files, call>>

\* The end of an iteration: a sync point inside a pipeline is answered now.
AfterMessage ==
  /\ pc = "rfq"
  /\ pipelining' = (pipelining /\ More(recv))
  /\ IF pipelining' /\ send_ready_for_query
       THEN /\ send' = Flushed(Answer(send, "Z"))
            /\ send_ready_for_query' = FALSE
            /\ due' = IF whereToSendOutput = "Remote" THEN due - 1 ELSE due
       ELSE UNCHANGED <<send, ready>>
  /\ pc' = "incoming"
  /\ UNCHANGED <<locals, is_wire, is_repl, cma, canary_ex, skipping, conn, whereToSendOutput,
                 backend, recv, files, call>>

-----------------------------------------------------------------------------
(* Errors *)

\* An error in an extended query is followed by silence up to the next Sync.
Fault_SkipNever  == ignore_till_sync
Fault_SkipAlways == TRUE
SkipFromNow      == ignore_till_sync \/ doing_extended_query_message

\* clear_error: report, abort the transaction, and decide whether the client
\* is told it may go on or is skipped until its next Sync.  No sync point is a
\* refused password.
ClearError ==
  /\ send' = IF whereToSendOutput = "Remote" THEN Flushed(Put(send, "E")) ELSE send
  /\ transaction' = IF transaction = "open" THEN "none" ELSE transaction
  /\ ignore_till_sync' = SkipFromNow
  /\ send_ready_for_query' = (send_ready_for_query \/ ~SkipFromNow)
  /\ due' = IF pc # "refused" /\ firstchar \notin Extended THEN Owed ELSE due
  /\ UNCHANGED <<doing_extended_query_message, notifyInterruptPending>>

Synchronised(next) == IF recv.reading THEN "broken" ELSE next    \* else FATAL

\* pgl_sjlj.c.  pipelining was assigned after sigsetjmp and is not volatile:
\* its value here is the assigned one or the one sigsetjmp saw.
LongJump ==
  /\ pc = "error" \/ (pc = "refused" /\ Sjlj)
  /\ ClearError
  /\ IF More(recv)
       THEN /\ pc' = IF canary_ex > CanaryMax THEN "broken" ELSE Synchronised("incoming")
            /\ canary_ex' = canary_ex + 1
            /\ pipelining' \in {pipelining, TRUE}
       ELSE pc' = Synchronised("flush") /\ UNCHANGED <<canary_ex, pipelining>>
  /\ UNCHANGED <<locals, is_wire, is_repl, cma, conn, whereToSendOutput, recv, files, call>>

\* The host of a wasi build: clear_error(), interactive_write(-1) and then
\* interactive_one() with fresh locals.
HostRecover ==
  /\ pc = "trapped" \/ (pc = "refused" /\ ~Sjlj)
  /\ ClearError
  /\ cma_rsize' = -1 /\ cma_wsize' = 0
  /\ firstchar' = "none" /\ peek' = "none" /\ fp' = FALSE /\ pipelining' = TRUE
  /\ pc' = Synchronised("enter")
  /\ UNCHANGED <<is_wire, is_repl, channel, canary_ex, conn, whereToSendOutput, recv, files, call>>

-----------------------------------------------------------------------------
(* Leaving interactive_one *)

LastReplies(s) == IF send_ready_for_query THEN Flushed(Put(Notified(s), "Z")) ELSE Notified(s)

\* The notifications and the last ReadyForQuery of the reply.
LastReady ==
  /\ pc = "flush"
  /\ IF ClientAuthInProgress
       THEN UNCHANGED <<send, ready, notifyInterruptPending>>
       ELSE /\ send' = LastReplies(send)
            /\ due' = IF send_ready_for_query THEN due - 1 ELSE due
            /\ send_ready_for_query' = FALSE
            /\ notifyInterruptPending' = (notifyInterruptPending /\ ~MayNotify)
  /\ pc' = "publish"
  /\ UNCHANGED <<locals, pipelining, is_wire, is_repl, cma, canary_ex, skipping, conn,
                 whereToSendOutput, transaction, recv, files, call>>

Renames(s) == s.sockfiles /\ s.SOCKET_FILE
Fault_ClosedKeepsCount(s) == [s EXCEPT !.SOCKET_FILE = @ /\ s.SOCKET_DATA = 0 /\ ~s.sockfiles,
                                       !.olock = IF Renames(s) THEN <<>> ELSE @]
Closed(s) == [s EXCEPT !.SOCKET_DATA = 0,
                        !.SOCKET_FILE = @ /\ s.SOCKET_DATA = 0 /\ ~s.sockfiles,
                        !.olock = IF Renames(s) THEN <<>> ELSE @]

\* The reply is published: as a size in memory or by renaming the file.
Publish ==
  /\ pc = "publish"
  /\ channel' = CASE send.SOCKET_DATA = 0 -> channel
                  [] send.SOCKET_DATA > 0 /\ send.sockfiles -> -1
                  [] OTHER -> cma_rsize + 2
  /\ cma_wsize' = CASE send.SOCKET_DATA = 0 -> 0
                    [] send.SOCKET_DATA > 0 /\ send.sockfiles -> cma_wsize
                    [] OTHER -> send.SOCKET_DATA
  /\ send' = Closed(send)
  /\ PGS_OUT' = IF Renames(send) THEN send.olock ELSE PGS_OUT
  /\ pc' = IF send.SOCKET_DATA = 0 /\ send.sockfiles /\ ~send.SOCKET_FILE
             THEN "broken"                         \* fclose(NULL)
             ELSE "return"
  /\ UNCHANGED <<locals, pipelining, is_wire, is_repl, cma_rsize, canary_ex, ready, skipping,
                 conn, whereToSendOutput, backend, recv, PGS_IN, call>>

Fault_Truncated == IF fp THEN <<>> ELSE PGS_IN
Unlinked        == IF fp THEN NoFile ELSE PGS_IN

Fault_ErrorsKept == canary_ex
NoErrors         == 0

Return ==
  /\ pc = "return"
  /\ PGS_IN' = Unlinked
  /\ cma_rsize' = 0
  /\ recv' = [recv EXCEPT !.mem["cma"] = <<>>]
  /\ canary_ex' = NoErrors
  /\ firstchar' = "none" /\ peek' = "none" /\ fp' = FALSE /\ pipelining' = TRUE
  /\ pc' = "returned"
  /\ UNCHANGED <<is_wire, is_repl, cma_wsize, channel, ready, skipping,
                 conn, whereToSendOutput, backend, send, PGS_OUT, call>>

-----------------------------------------------------------------------------
Init ==
  /\ pc = "host" /\ firstchar = "none" /\ peek = "none" /\ fp = FALSE /\ pipelining = TRUE
  /\ is_wire = TRUE /\ is_repl \in BOOLEAN
  /\ cma_rsize = 0 /\ cma_wsize = 0 /\ channel = 0 /\ canary_ex = 0
  /\ send_ready_for_query = TRUE /\ due = 0
  /\ ignore_till_sync = FALSE /\ doing_extended_query_message = FALSE
  /\ ClientAuthInProgress = FALSE /\ sf_connected = 0 /\ MyProcPort = FALSE
  /\ whereToSendOutput = "Debug"
  /\ notifyInterruptPending = FALSE /\ transaction = "none"
  /\ recv = [mem |-> [a \in {"cma", "static"} |-> <<>>], loc |-> "static", ptr |-> 0, len |-> 0,
             reading |-> FALSE]
  /\ send = [sockfiles |-> FALSE, SOCKET_FILE |-> FALSE, SOCKET_DATA |-> 0, base |-> 0,
             sent |-> <<>>, olock |-> <<>>, emitted |-> <<>>]
  /\ PGS_IN = NoFile /\ PGS_OUT = NoFile
  /\ call = Idle

Enter  == EnterResume \/ EnterInit \/ EnterBacklog \/ EnterRequest
Request == RequestCma \/ RequestFileRepl \/ RequestFileWire \/ RequestMemory \/ RequestNothing
Loop   == LoopEnds \/ LoopAuth \/ LoopRead \/ LoopSql \/ AfterMessage
Proto  == \/ SimpleQuery \/ Parse \/ BindExecute \/ CloseDescribe \/ FunctionCall
          \/ Flush \/ Sync \/ CopyStray \/ Terminate \/ Fail
Copy   == CopyBegin \/ CopyData \/ CopyDone \/ CopyFail
Leave  == LastReady \/ Publish \/ Return

\* What runs without the host having a choice.
Backend == Enter \/ Request \/ Loop \/ Proto \/ Copy \/ LongJump \/ HostRecover \/ Leave
Next    == (\E c \in Calls : HostCall(c)) \/ HostRead \/ Backend

Spec     == Init /\ [][Next]_vars
FairSpec == Spec /\ WF_vars(Backend)

-----------------------------------------------------------------------------
(* Hosts: what some properties take for granted of the requests *)

\* A COPY that begins with message i is sent to its end.
Completed(frame, i) ==
  \E j \in i + 1 .. Len(frame) :
    frame[j] \in {"c", "f"} /\ \A k \in i + 1 .. j : frame[k] \in Copying \cup {"H", "S"}

\* A client sends whole COPYs, and nothing behind its Terminate.
WellFormed(frame) ==
  /\ \A i \in 1 .. Len(frame) : frame[i] \in Extended \cup Copying \cup {"Q", "copy", "F", "S", "X"}
  /\ \A i \in 1 .. Len(frame) : frame[i] = "X" => i = Len(frame)
  /\ \A i \in 1 .. Len(frame) : frame[i] = "copy" => Completed(frame, i)

\* It waits for the answer to each packet of the handshake, and sends the
\* startup packet through the CMA: startup_auth discards no file.
Passwords == {<<"p">>, <<"badp">>}
WireRequest(c) ==
  /\ c.mode = "wire" /\ c.port \in {"cma", "file", "none"}
  /\ WellFormed(c.frame) \/ c.frame \in Passwords \/ (c.frame = <<"startup">> /\ c.port = "cma")

\* A terminal sends SQL.
ReplLine(c) == c.mode = "repl" /\ \A i \in 1 .. Len(c.frame) : c.frame[i] \in Sql

\* Where errors trap the host is a client that sends one message at a time. It
\* sends a bad password in memory: its file would be found by the next poll.
TrapsAlone(c) ==
  c.mode = "wire" /\ Len(c.frame) <= 1 /\ (c.frame = <<"badp">> => c.port = "cma")

\* A host says with each request which of the two it is.
Marked == \A c \in Calls : (WireRequest(c) \/ ReplLine(c)) /\ (Sjlj \/ TrapsAlone(c))

\* No password is refused where notifications arrive: the error would end a
\* transaction left open and make one due before the next request turns the
\* send buffer, where it is overwritten.
Unrefused == Notifies => \A c \in Calls : c.frame # <<"badp">>

Announced == Marked /\ Unrefused

\* No terminal shares the backend with the clients.
OnlyClients == \A c \in Calls : c.mode = "wire"

\* A client that has at most one sync point in a request, at its end.
SyncPoints == {"Q", "copy", "F", "S"}
SyncsLast(frame) ==
  \A i, j \in 1 .. Len(frame) : i < j /\ frame[i] \in SyncPoints => frame[j] \in Copying
Unpipelined == \A c \in Calls : SyncsLast(c.frame)

-----------------------------------------------------------------------------
(* Properties *)

Controls == {"host", "enter", "request", "incoming", "dispatch", "copying", "rfq", "error", "trapped", "refused",
             "flush", "publish", "return", "returned", "broken"}

\* The globals and buffers stay in their types, and the read pointer never
\* passes the end of the data (PqRecvPointer <= PqRecvLength).
TypeOK ==
  /\ pc \in Controls
  /\ firstchar \in Kinds \cup {"none", "EOF", "junk"}
  /\ peek \in {"none", "startup", "p", "other"}
  /\ fp \in BOOLEAN /\ pipelining \in BOOLEAN /\ is_wire \in BOOLEAN /\ is_repl \in BOOLEAN
  /\ cma_rsize \in Nat \cup {-1} /\ cma_wsize \in Nat /\ channel \in Nat \cup {-1}
  /\ canary_ex \in Nat
  /\ send_ready_for_query \in BOOLEAN /\ due \in Int
  /\ ignore_till_sync \in BOOLEAN /\ doing_extended_query_message \in BOOLEAN
  /\ ClientAuthInProgress \in BOOLEAN /\ sf_connected \in Nat /\ MyProcPort \in BOOLEAN
  /\ whereToSendOutput \in {"Debug", "Remote", "None"}
  /\ notifyInterruptPending \in BOOLEAN /\ transaction \in {"none", "open", "block"}
  /\ recv \in RecvType /\ recv.ptr <= recv.len
  /\ send \in SendType
  /\ PGS_IN \in Frames \cup {NoFile} /\ PGS_OUT \in Seq(Replies) \cup {NoFile}
  /\ call \in Calls \cup {Idle}

OnWire == is_wire /\ ~is_repl

\* What the host finds where it looks for the reply.
HostReply ==
  CASE ReadsFile -> IF PGS_OUT = NoFile THEN <<>> ELSE PGS_OUT
    [] ~ReadsFile /\ cma_wsize = 0 -> <<>>
    [] OTHER -> IF send.base = 2 + Len(call.frame) /\ cma_wsize <= Len(send.sent)
                THEN SubSeq(send.sent, 1, cma_wsize) ELSE <<"garbage">>

\* A host that does not ask for the channel does not look into the file when
\* the reply has grown out of the memory it sent its request in.
Overlooked == ~ChannelHost /\ call.port # "file" /\ send.sockfiles

\* Every reply made during a call reaches the host exactly once and in order,
\* in memory or, when the memory was too small for it, in the reply file; or,
\* if the host overlooks that file, nothing does: never a part of a reply.
ReplyReachesHost ==
  pc = "returned" /\ OnWire => HostReply = IF Overlooked THEN <<>> ELSE send.emitted

\* No ReadyForQuery is sent unasked, and none is owed when a call returns.
EachSyncAnswered == due >= 0 /\ (pc = "returned" => due = 0)

\* No ReadyForQuery is sent to a client unasked.
NoSpuriousReady == OnWire => due >= 0

\* Once a message of the request was read, the buffer never turns back or to
\* another area: neither the loop nor a COPY inside a query reads one twice,
\* but for a COPY whose data ends with the request.
ReadsForward ==
  [][firstchar # "none" /\ ~(pc = "copying" /\ ~More(recv))
       => recv'.loc = recv.loc /\ recv'.ptr >= recv.ptr]_vars

\* When a call returns nothing of its request is left in the receive buffer,
\* where the next call would take it for the start of its own request.
RequestTaken == pc = "returned" => Remaining(recv) = 0

\* Where a startup packet may come in a file it alone stays, and all of it; its
\* first byte is the 0 that frees the CMA.
LeftoverIsStartup ==
  pc = "returned" /\ Remaining(recv) # 0
    => recv.ptr = 0 /\ recv.len = 1 /\ recv.mem[recv.loc] \in {<<"startup">>, <<>>}

\* A call never finds replies of an earlier one, which would make it flush
\* these and drop its own request.
NoBacklog == pc = "enter" /\ cma_rsize >= 0 => send.SOCKET_DATA = 0

\* The reply file is open whenever a reply might overflow into it.
StreamOpen ==
  pc \in {"request", "incoming", "dispatch", "copying", "rfq", "error", "trapped", "refused"}
    => send.SOCKET_FILE

\* The request file is gone when the call that served it returns.
RequestFileGone == pc = "returned" => PGS_IN = NoFile

\* A notification raised by a commit is sent by the call that commits.
NoticeNotKept ==
  pc = "returned" /\ OnWire /\ ~ClientAuthInProgress /\ transaction = "none"
    => ~notifyInterruptPending

\* What a terminal is answered goes to its standard output; the client's side
\* gets no more than the ReadyForQuery that follows an error.
TerminalOnStdout == pc = "returned" /\ call.mode = "repl" => send.emitted \in {<<>>, <<"Z">>}

\* The process aborts, closes a NULL stream or loses the protocol only over a
\* request with more messages than errors are tolerated, a COPY that is not
\* finished, a file that begins with a bad password or with SQL taken for one,
\* a startup packet that was left in the buffer, or SQL left in memory for a
\* backend on the wire, which at best reads nothing and goes on waiting for it.
Hopeless ==
  \/ Len(call.frame) > CanaryMax + 2
  \/ \E i \in 1 .. Len(call.frame) : call.frame[i] = "copy" /\ ~Completed(call.frame, i)
  \/ PGS_IN \notin {NoFile, <<>>} /\ PGS_IN[1] \in {"badp", "psql"}
  \/ recv.mem[recv.loc] = <<"startup">>
  \/ recv.reading \/ (is_wire /\ call.port = "memory")
NeverBroken == pc = "broken" => Hopeless

\* Every call of the host comes back to it.
CallReturns == pc = "enter" ~> pc = "returned"

\* Replies an earlier call left behind do not stay there.
BacklogSent == (pc = "enter" /\ send.SOCKET_DATA > 0) ~> (pc = "returned" /\ send.SOCKET_DATA = 0)

Protocol == INSTANCE FrontendProtocol WITH
  phase   <- IF ignore_till_sync THEN "skip" ELSE "run",
  auth    <- ClientAuthInProgress,
  owed    <- due,
  replies <- send.emitted

\* The loop keeps the frontend/backend protocol: one ReadyForQuery for each
\* sync point before anything else is answered and, after an error in an
\* extended query, no answer before the next Sync; what is owed is paid;
\* and no answer to a message before the password is taken.
KeepsProtocol == Protocol!Spec
=============================================================================
