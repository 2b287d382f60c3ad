----------------------------- MODULE Lifecycle ------------------------------
(***************************************************************************)
(* pg_main.c: how a data directory is made and how processes take it into  *)
(* service.  The host runs main(), pgl_initdb() and pgl_backend(), each    *)
(* once; then the backend serves.  pgl_initdb() runs initdb in the same    *)
(* process: what initdb would pipe into two postgres processes goes into   *)
(* two files, the first fed to the bootstrap at once, the second, "the     *)
(* feed", to the single-user backend that pgl_backend() starts.            *)
(*                                                                         *)
(* The process may die at any step (a page is reloaded, an error traps).   *)
(* PGDATA is kept, the pipe files and all variables are lost.              *)
(***************************************************************************)
EXTENDS Integers, Sequences, SequencesExt, FiniteSetsExt

CONSTANTS
  Feeds,          \* the scripts initdb may write: sequences of characters
  Sjlj,           \* TRUE: emscripten, errors longjmp.  FALSE: wasi, they trap
  FirstUnpinned,  \* the first object id initdb assigns
  FirstNormal,    \* FirstNormalObjectId, the first for objects of users
  MaxOid          \* bound: no object is created beyond this id

\* A character of a script: ";", newline, the text of a REVOKE up to its
\* semicolon, or any other.
Characters == {"x", "REVOKE", ";", "nl"}

ASSUME FeedsAssumption == Feeds \subseteq Seq(Characters)
ASSUME OidsAssumption ==
  /\ FirstUnpinned \in Nat /\ FirstNormal \in Nat /\ MaxOid \in Nat
  /\ FirstUnpinned < FirstNormal /\ FirstUnpinned <= MaxOid
ASSUME BuildAssumption == Sjlj \in BOOLEAN

VARIABLES
  pc,
  \* PGDATA
  PG_VERSION,     \* does the file exist?
  catalogs,       \* did the bootstrap complete, and reach the disk?
  nextOid,
  \* files of the process, and its globals
  pipes,          \* contents of IDB_PIPE_BOOT and IDB_PIPE_SINGLE
  IDB_STAGE, pgl_idb_status, async_restart, IsPostmasterEnvironment,
  \* interactive_file
  pos,            \* position in single_mode_feed
  inBuf, c,
  \* history, never read by the code
  feed,           \* the script that initdb writes
  ran,            \* commands of the feed run in this database, failed ones too
  interrupted,    \* did a process die while it made the database?
  userOids        \* ids of the objects that users created, in order

disk    == <<PG_VERSION, catalogs, nextOid>>
process == <<pipes, IDB_STAGE, pgl_idb_status, async_restart, IsPostmasterEnvironment>>
reader  == <<pos, inBuf, c>>
history == <<feed, ran, interrupted, userOids>>
vars    == <<pc, disk, process, reader, history>>

Bits   == {"FAILED", "CALLED", "HASDB", "HASUSER"}
Making == {"boot_script", "feed_script", "boot", "exit66", "backend", "getc", "command"}

-----------------------------------------------------------------------------
(* The process *)

\* main() sets the globals; in a browser nothing of /tmp is left.
Start ==
  /\ pc = "off"
  /\ pc' = "main"
  /\ pipes' = [p \in {"BOOT", "SINGLE"} |-> "none"]
  /\ IDB_STAGE' = 0 /\ pgl_idb_status' = {} /\ async_restart' = 1
  /\ IsPostmasterEnvironment' = FALSE
  /\ pos' = 0 /\ inBuf' = <<>> /\ c' = "none"
  /\ UNCHANGED <<disk, history>>

\* Did this process begin to make the database?
Creating == PG_VERSION /\ pc \in Making /\ "HASDB" \notin pgl_idb_status

Dies ==
  /\ pc' = "off"
  /\ interrupted' = (interrupted \/ Creating)
  /\ UNCHANGED <<disk, process, reader, feed, ran, userOids>>

Crash == pc # "off" /\ Dies

\* pgl_shutdown.
Shutdown == pc = "serving" /\ pc' = "off" /\ UNCHANGED <<disk, process, reader, history>>

-----------------------------------------------------------------------------
(* pgl_initdb *)

\* Faults are mistakes of a kind the code could contain; no definition uses
\* them.  They show which property would notice.
Fault_RestartNever(found) == 0
Restart(found)             == IF found THEN 0 ELSE 1

Fault_FailedStays(status) == status \cup {"CALLED"}
InitdbDone(status)        == (status \cup {"CALLED"}) \ {"FAILED"}

\* PG_VERSION decides whether there is a database; all else is assumed.
InitdbFound ==
  /\ pc = "main" /\ PG_VERSION
  /\ pgl_idb_status' = InitdbDone(pgl_idb_status \cup {"FAILED", "HASDB", "HASUSER"})
  /\ async_restart' = Restart(TRUE)
  /\ pc' = "backend"
  /\ UNCHANGED <<disk, pipes, IDB_STAGE, IsPostmasterEnvironment, reader, history>>

\* initdb writes PG_VERSION first, then it starts what it takes for postgres.
InitdbMain ==
  /\ pc = "main" /\ ~PG_VERSION
  /\ pgl_idb_status' = pgl_idb_status \cup {"FAILED"}
  /\ PG_VERSION' = TRUE
  /\ pc' = "boot_script"
  /\ UNCHANGED <<catalogs, nextOid, pipes, IDB_STAGE, async_restart, IsPostmasterEnvironment,
                 reader, history>>

Fault_StageCounts(stage) == stage + 1
Fault_StageStays(stage)  == 0
NextStage(stage)         == IF stage > 1 THEN stage ELSE stage + 1

\* pgl_popen: the first pipe is a file for the bootstrap, the second one for
\* the single-user backend, any later one is stderr.
Popen(script) ==
  /\ pipes' = CASE IDB_STAGE = 0 -> [pipes EXCEPT !["BOOT"] = script]
                [] IDB_STAGE = 1 -> [pipes EXCEPT !["SINGLE"] = script]
                [] OTHER -> pipes
  /\ IDB_STAGE' = NextStage(IDB_STAGE)

InitdbPipe(from, script, to) ==
  /\ pc = from
  /\ Popen(script)
  /\ pc' = to
  /\ UNCHANGED <<disk, pgl_idb_status, async_restart, IsPostmasterEnvironment, reader, history>>

BootScript == InitdbPipe("boot_script", "bki", "feed_script")
FeedScript == InitdbPipe("feed_script", "feed", "boot")

\* BootstrapModeMain on the first file, which is removed then.
Boot ==
  /\ pc = "boot"
  /\ pipes' = [pipes EXCEPT !["BOOT"] = "none"]
  /\ pc' = "exit66"
  /\ UNCHANGED <<disk, IDB_STAGE, pgl_idb_status, async_restart, IsPostmasterEnvironment,
                 reader, history>>

\* pg_proc_exit(66), the faked shutdown, writes what the bootstrap made.
BootExit ==
  /\ pc = "exit66"
  /\ catalogs' = TRUE
  /\ async_restart' = Restart(FALSE)
  /\ pgl_idb_status' = InitdbDone(pgl_idb_status)
  /\ pc' = "backend"
  /\ UNCHANGED <<PG_VERSION, nextOid, pipes, IDB_STAGE, IsPostmasterEnvironment, reader, history>>

-----------------------------------------------------------------------------
(* pgl_backend *)

\* The host stops when initdb says it failed.
HostGoesOn == pc = "backend" /\ "FAILED" \notin pgl_idb_status

\* RePostgresSingleUserMain, up to the feed.
BackendFirst ==
  /\ HostGoesOn /\ async_restart = 1
  /\ pos' = 0 /\ inBuf' = <<>> /\ c' = "none"
  /\ pc' = "getc"
  /\ UNCHANGED <<disk, process, history>>

Started == IsPostmasterEnvironment' = TRUE /\ pc' = "serving"

\* AsyncPostgresSingleUserMain; without catalogs it does not get that far.
BackendAgain ==
  /\ HostGoesOn /\ async_restart = 0 /\ catalogs
  /\ Started
  /\ UNCHANGED <<disk, pipes, IDB_STAGE, pgl_idb_status, async_restart, reader, history>>

BackendFails == HostGoesOn /\ async_restart = 0 /\ ~catalogs /\ Dies

-----------------------------------------------------------------------------
(* interactive_file: the feed, command by command *)

\* Fault: one newline after the semicolon is enough.
Fault_EndsAtNewline(buf, char) ==
  char = "nl" /\ Len(buf) > 0 /\ buf[Len(buf)] = ";"

\* In -j mode a semicolon and two newlines end a command; the second newline
\* is dropped.
EndsCommand(buf, char) ==
  char = "nl" /\ Len(buf) > 1 /\ buf[Len(buf)] = "nl" /\ buf[Len(buf) - 1] = ";"

Content == IF pipes["SINGLE"] = "feed" THEN feed ELSE <<>>

Getc ==
  /\ pc = "getc" /\ pos < Len(Content)
  /\ pos' = pos + 1
  /\ c' = Content[pos']
  /\ inBuf' = IF EndsCommand(inBuf, c') THEN inBuf ELSE Append(inBuf, c')
  /\ pc' = IF EndsCommand(inBuf, c') THEN "command" ELSE "getc"
  /\ UNCHANGED <<disk, process, history>>

\* The last command may be ended by the end of the file.
GetcEOF ==
  /\ pc = "getc" /\ pos = Len(Content) /\ inBuf # <<>>
  /\ c' = "EOF"
  /\ pc' = "command"
  /\ UNCHANGED <<disk, process, pos, inBuf, history>>

\* interactive_file returns, the file is closed, pgl_backend is done.
FeedEnds ==
  /\ pc = "getc" /\ pos = Len(Content) /\ inBuf = <<>>
  /\ Started
  /\ UNCHANGED <<disk, pipes, IDB_STAGE, pgl_idb_status, async_restart, reader, history>>

\* GetNewObjectId: a postmaster, as which the process passes once it serves,
\* leaves the ids below FirstNormal to initdb.
Fault_OidNext == nextOid
NewOid        == IF nextOid < FirstNormal /\ IsPostmasterEnvironment THEN FirstNormal ELSE nextOid

\* Fault: the text is looked for anywhere in the command.
Fault_SkipsWithin(buf) == \E i \in 1 .. Len(buf) - 1 : SubSeq(buf, i, i + 1) = <<"REVOKE", ";">>
Skips(buf)             == IsPrefix(<<"REVOKE", ";">>, buf)

\* Two REVOKEs of the script are passed over where a command begins with them.
SkipCommand ==
  /\ pc = "command" /\ Skips(inBuf)
  /\ inBuf' = <<>>
  /\ IF c = "EOF" THEN Started ELSE pc' = "getc" /\ UNCHANGED IsPostmasterEnvironment
  /\ UNCHANGED <<disk, pipes, IDB_STAGE, pgl_idb_status, async_restart, pos, c, history>>

\* The command is run; it may create an object, and it may call popen.
RunCommand ==
  /\ pc = "command" /\ ~Skips(inBuf)
  /\ ran' = Append(ran, inBuf)
  /\ \E creates \in BOOLEAN :
       nextOid' = IF creates /\ NewOid < MaxOid THEN NewOid + 1 ELSE nextOid
  /\ \/ Popen("none")
     \/ UNCHANGED <<pipes, IDB_STAGE>>
  /\ inBuf' = <<>>
  /\ IF c = "EOF" THEN Started ELSE pc' = "getc" /\ UNCHANGED IsPostmasterEnvironment
  /\ UNCHANGED <<PG_VERSION, catalogs, pgl_idb_status, async_restart, pos, c, feed,
                 interrupted, userOids>>

BufferAfterError == <<>>

\* The command fails.  longjmp returns into RePostgresSingleUserMain, which
\* calls interactive_file again; the file is read on where it was.  Without
\* longjmp the error traps: that is a Crash.
CommandError ==
  /\ pc = "command" /\ ~Skips(inBuf) /\ Sjlj
  /\ ran' = Append(ran, inBuf)
  /\ inBuf' = BufferAfterError /\ c' = "none"
  /\ pc' = "getc"
  /\ UNCHANGED <<disk, process, pos, feed, interrupted, userOids>>

-----------------------------------------------------------------------------
(* Service *)

CreateObject ==
  /\ pc = "serving" /\ NewOid < MaxOid
  /\ userOids' = Append(userOids, NewOid)
  /\ nextOid' = NewOid + 1
  /\ UNCHANGED <<pc, PG_VERSION, catalogs, process, reader, feed, ran, interrupted>>

Init ==
  /\ pc = "off" /\ PG_VERSION = FALSE /\ catalogs = FALSE /\ nextOid = FirstUnpinned
  /\ pipes = [p \in {"BOOT", "SINGLE"} |-> "none"]
  /\ IDB_STAGE = 0 /\ pgl_idb_status = {} /\ async_restart = 1
  /\ IsPostmasterEnvironment = FALSE
  /\ pos = 0 /\ inBuf = <<>> /\ c = "none"
  /\ feed \in Feeds /\ ran = <<>> /\ interrupted = FALSE /\ userOids = <<>>

Initdb  == InitdbFound \/ InitdbMain \/ BootScript \/ FeedScript \/ Boot \/ BootExit
Backend == BackendFirst \/ BackendAgain \/ BackendFails
Feeding == Getc \/ GetcEOF \/ FeedEnds \/ SkipCommand \/ RunCommand \/ CommandError
Next    == Start \/ Crash \/ Shutdown \/ Initdb \/ Backend \/ Feeding \/ CreateObject

Spec == Init /\ [][Next]_vars

\* Once started, a process goes on: no step of its own waits, and the host calls
\* pgl_initdb() and pgl_backend() in turn.  Nothing makes it die, or not die.
FairSpec == Spec /\ WF_vars(Initdb \/ Backend \/ Feeding)

-----------------------------------------------------------------------------
(* Properties *)

TypeOK ==
  /\ pc \in Making \cup {"off", "main", "serving"}
  /\ PG_VERSION \in BOOLEAN /\ catalogs \in BOOLEAN /\ nextOid \in FirstUnpinned..MaxOid
  /\ pipes \in [{"BOOT", "SINGLE"} -> {"none", "bki", "feed"}]
  /\ IDB_STAGE \in 0..2 /\ pgl_idb_status \in SUBSET Bits /\ async_restart \in {0, 1}
  /\ IsPostmasterEnvironment \in BOOLEAN
  /\ pos \in Nat /\ inBuf \in Seq(Characters) /\ c \in Characters \cup {"none", "EOF"}
  /\ feed \in Feeds /\ ran \in Seq(Seq(Characters)) /\ interrupted \in BOOLEAN
  /\ userOids \in Seq(Nat)

\* The commands of a script by definition: what lies between the places where
\* a semicolon is followed by two newlines, and what follows the last of them.
Cuts(s) == {i \in 3..Len(s) : s[i-2] = ";" /\ s[i-1] = "nl" /\ s[i] = "nl"}
Ends(s) == Cuts(s) \cup (IF s = <<>> \/ Len(s) \in Cuts(s) THEN {} ELSE {Len(s) + 1})

Begins(s, b, e) == (b = 1 \/ b - 1 \in Ends(s)) /\ \A d \in Ends(s) : d < b \/ d >= e
Command(s, e)   == SubSeq(s, CHOOSE b \in 1..e : Begins(s, b, e), e - 1)

\* Those that are to be run: all but the REVOKEs that begin a command.
WantedEnds(s) == {e \in Ends(s) : ~IsPrefix(<<"REVOKE", ";">>, Command(s, e))}
UpTo(s, t)    == {e \in WantedEnds(s) : e <= t}
Wanted(s)     == [k \in 1..Cardinality(WantedEnds(s)) |->
                    Command(s, CHOOSE e \in WantedEnds(s) : Cardinality(UpTo(s, e)) = k)]

\* In all the life of a database no command of its feed is run twice, left
\* out (but for a REVOKE) or joined with another one, whichever of them fail,
\* and whenever processes die and others are started.
FeedInOrder == IsPrefix(ran, Wanted(feed))

\* A database in service has its catalogs, and the whole of the feed has been
\* run, unless a process died while it made the database.
ServesWhole == pc = "serving" => catalogs /\ (interrupted \/ ran = Wanted(feed))

\* The scripts are in their files when they are read, whatever else is piped.
ScriptsInPlace ==
  /\ pc = "boot" => pipes["BOOT"] = "bki"
  /\ pc \in {"boot", "exit66", "getc", "command"} => pipes["SINGLE"] = "feed"

\* No object of a user has an id of those that initdb assigns, or the id of
\* another object, however often the database is started again.
UserOidsApart ==
  /\ \A i \in DOMAIN userOids : userOids[i] >= FirstNormal /\ userOids[i] < nextOid
  /\ \A i, j \in DOMAIN userOids : i < j => userOids[i] < userOids[j]

\* Every start ends in service, unless the process dies: initdb is not taken for
\* failed, and the feed is read to its end whichever of its commands fail.
StartEnds == pc = "main" ~> pc \in {"serving", "off"}
=============================================================================
