# Specifications of pglite-build

PostgreSQL, built for WebAssembly as one process without threads, `fork` or
sockets.  This directory models the code that makes that work: the loop that
serves one request of the host per call, the buffers and files that carry
requests and replies, and the life of a data directory from `initdb` to
service.  Paths below are relative to `src/pglite-REL_17_4_WASM/` unless they
begin with another directory; `pqcomm.diff` is
`patches-REL_17_5_WASM/postgresql-pglite/src-backend-libpq-pqcomm.c.diff`.

## 1. Inventory

| component | code | state | operations | interacts with |
|---|---|---|---|---|
| wire loop | `interactive_one.c`, `pg_proto.c`, `pgl_sjlj.c` | `is_wire`, `is_repl`, `cma_rsize`, `cma_wsize`, `channel`, `canary_ex`, `send_ready_for_query`, `ignore_till_sync`, `pipelining`, `SOCKET_FILE`, `SOCKET_DATA` | `use_wire`, `interactive_write`, `interactive_one`, `interactive_read`, `get_channel`, `clear_error` | host (calls, memory, files), wire buffers |
| wire buffers | `pqcomm.diff` | `PqRecvBuffer/Pointer/Length`, `PqSendBuffer/Pointer`, `queryfp`, `querylen`, `sockfiles` | `pq_recvbuf_fill`, `pq_recvbuf`, `pq_startmsgread`, `internal_putbytes`, `internal_flush` | wire loop, request and reply file |
| life cycle | `pg_main.c`, `pgl_mains.c`, `pgl_os.h`, `pgl_initdb.c`, the patch of `initdb.c` | `pgl_idb_status`, `async_restart`, `IDB_STAGE`, `single_mode_feed`, `IsPostmasterEnvironment`, PGDATA | `main`, `pgl_initdb`, `pgl_backend`, `popen`, `interactive_file`, `pgl_shutdown` | host (call order), file system |
| browser host | `repl.html` | message channel, file system in the browser | `send_to_pglite`, `os_sched_yield` | calls the exports of the others |
| wasi port | `wasm-build/sdk_port-wasi/*`, `sdk_port.h` | `blocked_set`, `pending_array`, `old_handlers`, `shm_index`, `dltab` | `sigprocmask`, `sigaddset`, ..., `blocked_handler`, `shm_open`, `dlopen` | libc (`signal`, `raise`), PostgreSQL above it |
| server patches | `elog`, `async`, `pqsignal`, `sinvaladt` diffs | none of their own | what an ERROR, a FATAL and a NOTIFY do | wire loop |
| client patches | `fe-connect`, `fe-misc`, `fe-auth` diffs | none | no timeouts, no socket checks | a socket outside the repository |
| packaging, building | `wasm-build/*.py`, `*.sh`, `portable/` | build directories | | |

What is hard in this code:

- **Nothing runs concurrently, much is left over.**  Every call begins in the
  globals, buffers and files as the call before left them, after a handshake, a
  Terminate, a REPL line or an error in the middle of a message.
- **Two ways in and two ways out.**  A request is in shared memory (the CMA) or
  in a file; a reply is in memory or in a file, and may move from the first to
  the second while it is written.
- **Errors.**  On emscripten an ERROR longjmps into the middle of
  `interactive_one`, to one of two labels.  On wasi it traps out of the call,
  and the host resumes with the size -1 and a fresh frame.
- **ReadyForQuery.**  Who sends it and when is a matter of one flag that eight
  places write.
- **A handshake on three paths.**  A startup packet or a password is served in the
  loop, or, in a file, before `sigsetjmp`; a bad password is an ERROR on either.
- **Requests that end too early.**  A host may send half a message; end of file in
  the middle of one ends the session and not the process.
- **Handlers inside calls.**  The wasi port raises what it held back at the end of
  `sigprocmask`, and a handler may call `sigprocmask` again.
- **Deaths.**  A page is reloaded at any moment; the data directory stays, all
  else is lost.

What makes the components correct:

- wire loop: each sync point is answered by one ReadyForQuery, at its place;
  after an error nothing is answered up to the Sync; the reply is found where
  the host looks; nothing of a request is left for the next; every call returns;
- wire buffers: messages read are the messages sent, bytes read by the host are
  the bytes written; no access outside a buffer; no message served of which a
  part is missing;
- life cycle: the feed is run once, in order, command by command; a database
  in service is complete; ids of users are apart from those of initdb; every
  start ends in service unless the process dies;
- wasi port: a signal that is held back waits and is not forgotten; the program's
  handler comes back when it is not held any more.

## 2. Modules

`WireLoop` -- one call of the host is served from `host` to `returned` by the
control state `pc`; a step is a stretch of C between two decisions.  `recv` and
`send` are the two sides of `pqcomm.c` with messages as units.  Actions and
code: `HostCall`/`HostRead` (the host), `Enter*` and `Request*`
(`interactive_one.c:368-571`), `Loop*` and `AfterMessage` (`581-648`), one
action per message of `pg_proto.c`, `Fail`, `LongJump`, `HostRecover`
(`pgl_sjlj.c`, `clear_error`), `LastReady`, `Publish`, `Return` (`649-749`).
`Handshake` is a startup packet or a password, with the exits of
`recv_password_packet` (`101-165`): a good password, an ERROR behind its message
(`pc = "refused"`; in a file of the longjmp build `"broken"`, since the frame of
`sigsetjmp` has returned), an ERROR in the middle of a message, and NULL, which
`startup_pass` frees.  `recv.reading` is `PqCommReadingMsg` where it stays set: after
an end of file, so that the next message or the end of `clear_error` is FATAL.
`Copy*` are COPY FROM STDIN, in a simple query: `CopyGetData` of PostgreSQL reads
messages from inside the query, through the same `pq_startmsgread`.
`due` and `send.emitted` are history: what the protocol owes, and what was
written.

`FrontendProtocol` -- what a frontend may rely on, without buffers, files,
labels or flags: a phase (answering or skipping), whether a password is awaited,
how many ReadyForQuery are owed, and the replies.  `WireLoop!KeepsProtocol` is the refinement.

`PqComm` -- the bytes below `WireLoop`.  A byte is an identity, so that a byte
read twice, lost or taken from an older message is seen.  Memory is one array
from address 1 to the end of the CMA and the static buffer; `PqRecvBuffer` and
`PqSendBuffer` point into them.  The memory goes on behind the CMA (`MemEnd`), where
the program's data are (`build.sh:263`), and `Unsigned` is what C makes of the int
`PqSendBufferSize` next to the size_t `PqSendPointer`: behind a request that fills
the CMA it is -1, and the room without end.  A request is the sequence of places where its
messages end, and the host may send only the first `n` bytes of one (`Cuts`).  `Refill` with a
closed file ends in `pc = "stale"`, a `pq_startmsgread` in the middle of a message
in `"lost"`: both are the end of what the code defines.

`Lifecycle` -- one data directory, any number of processes one after the other.
`disk` survives a `Crash`, which may come at every step; `process` does not.
The feed is read character by character because where a command ends is the
question; a `REVOKE` up to its semicolon is one character, since the code skips
two of them where a command begins with it (`pgl_mains.c:110-122`).

`WasiSignals` -- `sdk_port-wasi.c:81-244`.  A call of `sigprocmask` is one step up to
its last loop, which raises signal by signal (`RaiseReceived`): handlers run on a
`stack` and do what the program does.  Signal sets are sets of bits, and `Bit` is
what a shift by the number of a signal selects, with the shift beyond the width
of an `int` undefined (`shifts`).  `mine` and `bypassed` are history: the handler the
program wants, and the signals whose handler it changed while they were blocked.

`SignalMask` -- blocking as POSIX has it, without bits or handlers.
`WasiSignals!KeepsMask` is the refinement; `blocked` maps to the signals whose
handler is `blocked_handler`, `waiting` to those noted in `pending_array` or received
by a call that is still raising.

`WireLoopClaims`, and `AllServed` and `StaysInCma` in `MCPqComm` -- statements of comments in the
code that the code does not keep.  `MC*` modules hold the small instances.
`WireLoopProofs`, `PqCommProofs`, `LifecycleProofs` and `WasiSignalsProofs` hold the
proofs of what is true of all hosts, with the lemmas on types; `WireLoopHostProofs`,
`PqCommStreamProofs`, `PqCommReplyProofs` and `LifecycleFeedProofs` extend them.  The
section `Hosts` of `WireLoop` names the rules that some theorems ask hosts to keep; no
action depends on them.

Operators named `Fault_*` are plausible mistakes; no definition uses them.  They
document which property notices which mistake.

## 3. What the runs show

| run | instance | shows |
|---|---|---|
| `wire` | one sync point per request at most, in memory and in files, COPY, good and refused passwords, CMA room for one reply, notifications | all properties of the loop, the refinement, and that calls return |
| `shared` | REPL lines in memory and files, wire clients that pipeline behind sync points, empty polls, a host that never asks `get_channel`; a COPY cut short, a bad password and SQL that begins with `p` in files; requests of more messages than errors are tolerated | replies arrive or, after an overflow, nothing of them; no ReadyForQuery unasked, no message read twice; the terminal's answers stay with the terminal; the process ends over those requests and no others |
| `wasi` | `Sjlj = FALSE`, errors and refused passwords | the resumed call answers as the jump does |
| `unannounced` | `REPL=Y` or not and a client that never calls `use_wire`, its handshake in memory and in files | replies stay behind (the reason for the check of `SOCKET_DATA` on entry), and are sent later; what stays behind of a request is a startup packet |
| `pqcomm` | buffer of 4 bytes, CMA of 12, eleven requests that fall inside, on and across the buffer's end and leave two bytes of the CMA, one and none, whole or cut after 1 or 3 bytes, replies of 1 and 4 bytes | messages and replies are exact; the protocol is lost only as described below |
| `lifecycle` | all scripts up to three characters and six longer ones, three user ids, a death at every step | feed, completeness, pipes, ids; every start ends in service |
| `signals` | three signals, sets of two bits, handlers two deep | blocking and unblocking, the refinement of `SignalMask` |

Five runs violate what a comment says; each is a finding in `PROJECT.json`:

- `claim_errors` (`pgl_sjlj.c:68`): a simple query fails with messages behind it,
  and its ReadyForQuery is lost;
- `claim_skipping` (`interactive_one.c:261`): an error of the REPL is judged by the
  last message of a wire client;
- `claim_cleanup` (`interactive_one.c:735`): on wasi a failing request leaves its
  file;
- `claim_boundary` (`interactive_one.c:612`): a message that ends exactly where the
  8K buffer ends ends the request, and the rest of the file is dropped;
- `claim_overrun` (`pqcomm.diff:165`): the reply to a request that fills the CMA is
  written behind the CMA instead of into the file, because the size -1 of the
  buffer is compared as a size_t.

Met while modelling, in the models, and without a run of their own:

- `interactive_one.c:283` -- a startup packet in a file is left in the buffer, and
  the next call, whose request may be in memory, reads it (`LeftoverIsStartup`).
- `interactive_one.c:139` and `157` -- a password that is empty or of a wrong size is
  an ERROR.  In a file it comes before `sigsetjmp` (508) and longjmps into a frame
  that has returned (`pc = "broken"`).  In memory it is answered; no ReadyForQuery
  follows, for `ClientAuthInProgress` stays set.
- A refused password aborts an open implicit transaction.  A notification that
  becomes due with it is written before the next request turns the send buffer,
  and is overwritten there: `Unrefused` excepts this.
- On wasi the file of a refused password stays, as in `claim_cleanup`, and the next
  poll serves it again, with an answer nobody waits for: `TrapsAlone` excepts this.
- `interactive_one.c:12` says `channel` is 0 after a REPL line; nothing sets it so.
- `pgl_sjlj.c:70` -- a failing REPL line publishes a ReadyForQuery.
- `interactive_one.c:9` says errors are counted up to a successful
  `clear_error`; they are counted up to the end of the call.
- `repl.html:911` reads the CMA without asking `get_channel`, and so misses a
  reply that overflowed.
- `pg_main.c:429` -- a half-made database passes for a database: `ServesWhole` has
  the exception `interrupted` for it.
- `interactive_one.c:508` -- SQL for the REPL that begins with `p` is taken for a
  password: `startup_pass` reads one from an empty buffer and frees NULL, although
  line 496 says "auth won't go to REPL, ever." (`psql` in `shared`.)
- `pqcomm.diff:119` -- COPY data must be in the request of the COPY.  With an empty
  buffer `pq_startmsgread` turns to that request in memory again, and finds a
  query where data should be: an error in the middle of a message, which
  `clear_error` makes FATAL (`pc = "broken"`; `shared` has such a COPY, and one in a
  file, where the end of the data comes to the same).
- `pqcomm.diff:113` -- half a message leaves `PqCommReadingMsg` set; the next request
  meets a FATAL that does not end the process (`ProtocolKept`).
- `pg_main.c:371` -- the process that makes the database serves `template1`, whatever
  `PGDATABASE` says; only later ones read it.
- `sdk_port.h:49` -- signals of 8 and more are never blocked on wasi, which leaves
  SIGINT, SIGQUIT and the like, but neither SIGALRM nor SIGTERM.
- `sdk_port-wasi.c:113` -- `sigaction`, through which PostgreSQL installs its
  handlers, does nothing.

### Properties that need the exception they have

`ReplyReachesHost` speaks of calls that end on the wire.  A host that asks
`get_channel` (`ChannelHost`) finds all of the reply; one that does not, as that of
`repl.html` (`shared`), finds nothing when the reply has left the memory (`Overlooked`),
and never a part of it.  `NeverBroken` lists what ends the process (`Hopeless`): each
disjunct is a request some run sends, and the property says that nothing else does.
`ReadsForward` excepts a COPY whose data ends with its request.  `TerminalOnStdout`
allows the ReadyForQuery that a failing REPL line publishes (`pgl_sjlj.c:70`).  `EachSyncAnswered` holds when the sync
point is the last message: with more behind it see `claim_errors`;
`NoSpuriousReady` is what remains.  `ServedUnlessCut` speaks of whole requests,
and excepts the boundary of `claim_boundary` and nothing else.  `ProtocolKept` says
what it takes to lose the protocol: half a message, and, for a read from a closed
file, a request file before it that was not read to its end.  `AbortsOnlyBypassed`
and `HeldExactly` except signals whose handler the program changed while they
were blocked, which the code says it does not support (`sdk_port-wasi.c:227-229`).

### Bounds

- `CmaRoom = 1` reply and `CanaryMax = 1`: overflow and abort are one step away in
  every request.  The code has megabytes and 8; nothing else depends on the size.
  With `CanaryMax = 1` a request of three messages or fewer cannot reach `abort()`
  unless errors of earlier calls are counted; those of four and more in `shared` can.
- `MaxConnected = 1`: the counter only counts.  Requests have at most five
  messages: every pair of message kinds that share a flag occurs, and what one
  call leaves behind is met by every other request, since the runs are not
  bounded in the number of calls.
- `PqComm`: buffer 4, CMA 12, so that a message may be shorter than the buffer,
  as long, longer and more than twice as long, and a reply fits behind its
  request, overflows, finds no room at all, or less than none.  `MaxReply = 9`
  overflows twice.  `SizeModulus = 100` stands for 2^32: above all addresses, which is
  all that is asked of it (`BufferAssumption`).
  `Cuts = {1, 3}` cuts requests inside and between messages, before and behind the
  first of them; the requests of the two claims (`RequestsCut`, `RequestsFull`) are whole.
- `Lifecycle`: separators are three characters, so three characters and four
  scripts with several separators reach every state of the reader.  `MaxOid = 5`
  leaves ids on both sides of `FirstNormal = 3`.  `Sjlj = TRUE` only: without
  longjmp a failing command is a `Crash`, which both builds have.
- `WasiSignals`: `Width = ShiftWidth = 2` and `NSIG = 3`, so that the third signal fits
  into no set and, where shifts wrap, shares the bit of the first.  `MaxDepth = 2`: a
  handler inside a handler inside the loop that raises.

`shared`, `unannounced`, `pqcomm` and `signals` are not checked for deadlock: a process
that aborted or lost the protocol stops, and one that a signal ended is gone.

### Fairness

`WF_vars(Backend)`: the backend runs to the end of a call without waiting for
anybody, since there is only one thread and no call blocks.  Nothing is assumed
of the host: it may never call, and never read.  `CallReturns` and `BacklogSent`
need no more.  `Lifecycle!FairSpec` is `WF_vars(Initdb \/ Backend \/ Feeding)`: once
started, a process goes on, for the same reason, and the host calls `pgl_initdb`
and `pgl_backend` in turn.  `StartEnds` excepts deaths, which may come at any step.

## 4. What is proved

All safety properties that the runs check are theorems, for every value of the
constants the assumptions of the modules allow, and so are both refinements, but
for the fairness in `KeepsProtocol`.

### The wire loop, whatever the host asks

`WireLoopProofs`, for every set of requests, CMA size, abort limit and both
builds: `Spec => []TypeOK` and `Spec => []StreamOpen`.  The proof is an
induction on `IInv`, which adds to the two properties that a size is announced
whenever `pc` says that a request is looked at: without it the read pointer might
be set by `pq_startmsgread` to data of a negative length (the size -1 of a wasi
resume).  There is a lemma per operation on the buffers, then one step per action.

### The wire loop, with hosts that keep the rules

The other properties of `WireLoop` do not hold of every set `Calls`: `unannounced`
and the four claims show why.  `WireLoopHostProofs` proves them from hypotheses on
the host, which are definitions of `WireLoop` and not assumptions of the module:

- `Marked`: with each request the host says which of the two it is (`use_wire`),
  wire requests hold no SQL and REPL lines nothing else, a COPY is sent to its
  end, nothing comes behind a Terminate, a packet of the handshake comes alone, and
  the startup packet through the CMA; a host of a wasi build sends one message
  at a time, and a bad password in memory (`TrapsAlone`).  Each part has its reason
  in section 3.  Bad passwords are allowed, in files of the longjmp build too, and so
  is SQL that begins with `p`: what comes of them is part of what is proved.
- `Announced`: besides, no password is refused where notifications arrive (`Unrefused`).
- `OnlyClients`: no REPL line comes between the requests of clients.  Without it a
  failing REPL line leaves its ReadyForQuery, or skipping, to the next client.
- `Unpipelined`: a request has at most one sync point, at its end.  `claim_errors`
  is the counterexample without it.

`HostsAssumption` of `MCWireLoop`, which TLC evaluates, says which instances meet
which of them: `wasi` meets all, `wire` all but `Unrefused`, for it has both bad passwords
and notifications, and `shared` and `unannounced` go beyond them on purpose.

| theorem | property | hypotheses |
|---|---|---|
| `RequestAlwaysTaken`, `NeverBacklog`, `NoticeNeverKept` | `RequestTaken`, `NoBacklog`, `NoticeNotKept` | `Announced` |
| `NeverBreaks` | `NeverBroken`, and of the ways it lists only the abort and the two files (`Aborts`) | `Announced` |
| `AlwaysReadsForward` | `ReadsForward` | `Announced` |
| `RequestFileAlwaysGone` | `RequestFileGone` | `Announced`, `Sjlj` (see `claim_cleanup`) |
| `ReplyAlwaysReachesHost` | `ReplyReachesHost` | `Announced` |
| `NeverSpuriousReady` | `NoSpuriousReady` | `Announced`, `OnlyClients` |
| `EachSyncAlwaysAnswered` | `EachSyncAnswered` | `Announced`, `OnlyClients`, `Unpipelined` |
| `FollowsProtocol` | the initial states and steps of `FrontendProtocol` | `Announced`, `OnlyClients`, `Unpipelined` |

None of these is inductive, and none can be proved without the others: that a call
leaves nothing in the buffer for the next is needed to know what the next one
reads.  `HInv` is their common invariant.  Its parts follow a call: `Control` (which
build and which host is where, and what the locals are between calls), `Asked` (the
request lies where the call will look), `Reads` (the buffer holds one well-formed
request, the pointer is behind the message at hand, and `pipelining` is true while
messages are left; errors are fewer than messages read), `Aborts` (the process ends only in a
request with more messages than errors are tolerated, or over a file that is taken for
a password and is none), `Refused` and `Settled` (a refused password leaves the buffer
empty and one reply placed, and no message is begun), `Where` (the destination), `Sends` (all replies are in one place: `Placed`
for the wire, none for the REPL) and `Notices` (a pending notification goes with a
pending ReadyForQuery).  There is one lemma per action, which first lists what the
action changes.

Three more invariants stand on `HInv`.  `Delivered` says where a published reply
is, and that none is there before.  `Owing` says that no more is to be sent than is
owed, that a password in a file is served by the call it came with (`PasswordFile`), that `doing_extended_query_message` tells the kind of the message at hand, and
that no message is served while skipping; it is what makes `clear_error` decide
right.  `Answered` says that one ReadyForQuery is owed exactly while one is to be
sent, and that then only the rest of a COPY is left unread; with it each step maps
to a step of `FrontendProtocol` or changes nothing that it sees (`ProtocolStep`, with
one case for each kind of step that `StepOwes` lists).

### Bytes

`PqCommProofs`, for every set of requests, whole or cut short anywhere, and every size
of the buffers: `Spec => []TypeOK`, which says that the read pointer stays in the data,
the data in their area, and the reply inside the CMA unless the request fills that
(the size -1 of `claim_overrun`, which the assumptions allow).  `IInv` adds that base
and size of the reply's buffer end where the CMA does (`SendOK`: without it
`internal_putbytes` could not know from the room it computes that it writes inside); that `querylen` is what
is left of a file that is open (`FileOK`: `pq_recvbuf` subtracts from it what it
reads, and it stays a natural); and that the loop meets an empty buffer only when
the request is in memory, since `pq_startmsgread` would else point an empty buffer
of the CMA's length at the smaller static one.  One lemma per operation, one per action.

`PqCommStreamProofs`: `MessagesIntact`, `ProtocolKept` and `ServedUnlessCut`.  The three
say what was read; their invariant `SInv` says what will be: the buffer holds
exactly the bytes that follow those taken, the file those behind them, and the
three together are what the host sent (`StreamOK`).  While some is left in the file
only whole buffers were read from it (`WholeBuffers`), which is why a request that
is dropped had a message end at a multiple of the buffer's size.  What `pqcomm.c`
remembers of an earlier request (`PqCommReadingMsg`, `queryfp`) tells what happened to
that request (`RememberedOK`), and a request in memory lies below the reply to it
(`PlaceOK`), so that writing the one leaves the other alone.

`PqCommReplyProofs`: `ReplyExact`.  `RInv` says that all of the reply is in the file or
all of it in memory, from the base on, and that `SOCKET_DATA` and the send pointer both
count it, also where the size is -1 and the bytes lie behind the CMA; that a call
whose buffer was not touched has not replied is what allows
`pq_startmsgread` to move the base.

### The life cycle

`LifecycleProofs`, for every script, any number of processes and deaths at any
step: `Spec => []TypeOK`, `Spec => []ScriptsInPlace` and `Spec => []UserOidsApart`.
`ScriptInv` adds the stage of `pgl_popen` at every point of the start, which is all
that tells the two pipes apart; from the third stage on `popen` changes nothing
(`PopenLate`), so the commands of the feed may call it.  `OidInv` adds that ids are
numbers and that a process in service has set `IsPostmasterEnvironment`: only
that makes the server leave the ids below `FirstNormalObjectId` to initdb.

`LifecycleFeedProofs`: `FeedInOrder` and `ServesWhole`.  `Wanted` defines the commands of a
script by the places where they end, without recursion, so that counting ends is
all the induction there is.  `FInv` says that what was run are the wanted commands
that end up to the position of the reader, and that the buffer holds what lies
between the last end and that position; the next end is then found where
`interactive_file` finds it.

### Signals

`WasiSignalsProofs`, for every number of signals, width of a set and depth of
handlers: all five properties of the run, the refinement included
(`ImplementsMask`: initial states map to initial states, every step to a step of
`SignalMask` or none).  The invariant ties `handlers`, `old_handlers`, `mine` and
`blocked_set` together, and says that only the program is at the bottom of the stack.

### What is taken for granted

The assumptions named in the modules, and no others: requests are sequences of
known messages, and increasing sequences of the ends of messages in `PqComm`; sizes are
naturals, the receive buffer is smaller than the CMA, and a size_t has more values
than there are addresses; `NoFile` is no request and no
reply; `FirstUnpinned < FirstNormal`; a set is not wider than an `int`.

Only model-checked: liveness under fairness (`CallReturns`, `BacklogSent`, `StartEnds`,
the fairness of `KeepsProtocol`), which is out of the prover's reach.  What
`unannounced` shows of hosts that announce nothing is checked for that instance,
but for `StreamOpen`, which is proved of all hosts.

## 5. What is not modelled

- Contents of queries and replies; COPY in an extended query, which ends in
  `WireLoop` as an error does.
- What runs behind a FATAL, which `elog` reports and then ignores: the models stop
  there.
- A host composed with the backend.  JavaScript and the backend share one thread:
  a host cannot touch a request while a call is under way, and the requests and
  reads of `repl.html` are the host actions of `WireLoop` and `PqComm`.
- `main_pre` and `main_post`, which set the environment in one straight line;
  storage synchronisation of the browser.
- `pgl_backend` called twice in one process, against which nothing guards.
- Of the wasi port: `shm_open` and `dlopen`.  The table of `dlopen` has no size of its
  own, so that its behaviour is undefined from the first library on.  The socket
  functions are compiled out, and `system`, `waitpid`, `sigwait`, `alarm` are stubs.
- Packaging and build scripts (see the components in `PROJECT.json`): their state is
  the file system of the build machine.

PostgreSQL itself (`SocketBackend`, `pq_getmessage`, `CopyGetData`, `GetNewObjectId`,
`initdb`) and the libc's `signal` and `raise` are outside the repository, and modelled
from how its code uses them.

## 6. Left to do

1. A refinement between `PqComm` and `WireLoop`, in which a message is the bytes up to
   its end: the message-level receive buffer is implemented by the
   byte-level one except at the boundary of `claim_boundary`.
2. Weaker hypotheses for the theorems on hosts: what is still true of a client that
   pipelines behind its sync points, or that never calls `use_wire`.
3. `pack_extension.py` as a pure function on sets of files.
