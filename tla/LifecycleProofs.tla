--------------------------- MODULE LifecycleProofs --------------------------
(***************************************************************************)
(* What holds of the life of a database for every script, every number of  *)
(* processes and every place where one of them dies.                       *)
(***************************************************************************)
EXTENDS Lifecycle, TLAPS

-----------------------------------------------------------------------------
(* Types *)

\* What pgl_popen leaves behind.
PipesOK == pipes \in [{"BOOT", "SINGLE"} -> {"none", "bki", "feed"}] /\ IDB_STAGE \in 0..2

\* pgl_popen stays at its third stage, and writes to no other file.
LEMMA PopenType ==
  ASSUME PipesOK, NEW script \in {"none", "bki", "feed"}, Popen(script)
  PROVE  PipesOK'
<1>1. IDB_STAGE' \in 0..2
  BY DEF PipesOK, Popen, NextStage
<1>2. /\ [pipes EXCEPT !["BOOT"] = script] \in [{"BOOT", "SINGLE"} -> {"none", "bki", "feed"}]
      /\ [pipes EXCEPT !["SINGLE"] = script] \in [{"BOOT", "SINGLE"} -> {"none", "bki", "feed"}]
  BY DEF PipesOK
<1>3. pipes' \in [{"BOOT", "SINGLE"} -> {"none", "bki", "feed"}]
  BY <1>2 DEF PipesOK, Popen
<1> QED
  BY <1>1, <1>3 DEF PipesOK

\* The parts of TypeOK, by what changes together.
StatusOK == pgl_idb_status \in SUBSET Bits /\ async_restart \in {0, 1} /\ IsPostmasterEnvironment \in BOOLEAN
DiskOK   == PG_VERSION \in BOOLEAN /\ catalogs \in BOOLEAN /\ nextOid \in FirstUnpinned..MaxOid
ReaderOK == pos \in Nat /\ inBuf \in Seq(Characters) /\ c \in Characters \cup {"none", "EOF"}
PastOK   == feed \in Feeds /\ ran \in Seq(Seq(Characters)) /\ interrupted \in BOOLEAN /\ userOids \in Seq(Nat)
ControlOK == pc \in Making \cup {"off", "main", "serving"}

\* They make up the whole.
LEMMA TypeParts ==
  TypeOK <=> ControlOK /\ DiskOK /\ PipesOK /\ StatusOK /\ ReaderOK /\ PastOK
BY DEF TypeOK, ControlOK, DiskOK, PipesOK, StatusOK, ReaderOK, PastOK

\* A new id is one of the type, while the bound leaves room for it.
LEMMA OidRoom ==
  ASSUME DiskOK, NewOid < MaxOid
  PROVE  NewOid \in Nat /\ NewOid + 1 \in FirstUnpinned..MaxOid
BY OidsAssumption DEF DiskOK, NewOid

\* What is empty is of its type.
LEMMA NothingYet == <<>> \in Seq(Characters) /\ <<>> \in Seq(Seq(Characters)) /\ <<>> \in Seq(Nat)
OBVIOUS

\* A directory without a database, and no process, is in order.
LEMMA InitTypes == Init => TypeOK
<1> SUFFICES ASSUME Init PROVE TypeOK
  OBVIOUS
<1>1. PipesOK
  BY DEF Init, PipesOK
<1>2. StatusOK
  BY DEF Init, StatusOK
<1>3. DiskOK
  <2>1. nextOid \in FirstUnpinned..MaxOid
    BY OidsAssumption DEF Init, OidsAssumption
  <2> QED
    BY <2>1 DEF Init, DiskOK
<1>4. ControlOK
  BY DEF Init, ControlOK
<1>5. ReaderOK
  BY NothingYet DEF Init, ReaderOK
<1>6. PastOK
  BY NothingYet DEF Init, PastOK
<1> QED
  BY <1>1, <1>2, <1>3, <1>4, <1>5, <1>6, TypeParts

\* Every step keeps the types.
LEMMA StepTypes == TypeOK /\ [Next]_vars => TypeOK'
<1> SUFFICES ASSUME TypeOK, [Next]_vars PROVE TypeOK'
  OBVIOUS
<1> USE DEF disk, process, reader, history
<1>0. ControlOK /\ DiskOK /\ PipesOK /\ StatusOK /\ ReaderOK /\ PastOK
  BY TypeParts
<1>q. ASSUME ControlOK', DiskOK', PipesOK', StatusOK', ReaderOK', PastOK' PROVE TypeOK'
  BY <1>q DEF TypeOK, ControlOK, DiskOK, PipesOK, StatusOK, ReaderOK, PastOK
<1> DEFINE pipes_ == <<pipes, IDB_STAGE>>
           status_ == <<pgl_idb_status, async_restart, IsPostmasterEnvironment>>
<1>d. UNCHANGED disk => DiskOK'
  BY <1>0 DEF DiskOK
<1>p. UNCHANGED pipes_ => PipesOK'
  BY <1>0 DEF PipesOK
<1>s. UNCHANGED status_ => StatusOK'
  BY <1>0 DEF StatusOK
<1>r. UNCHANGED reader => ReaderOK'
  BY <1>0 DEF ReaderOK
<1>h. UNCHANGED history => PastOK'
  BY <1>0 DEF PastOK
<1>1. CASE UNCHANGED vars
  BY <1>1, <1>0, <1>q, <1>d, <1>p, <1>s, <1>r, <1>h DEF vars, ControlOK
<1>2. CASE Start
  <2>1. PipesOK'
    BY <1>2 DEF Start, PipesOK
  <2>2. StatusOK'
    BY <1>2 DEF Start, StatusOK
  <2>3. ReaderOK'
    BY <1>2, NothingYet DEF Start, ReaderOK
  <2> QED
    BY <1>2, <2>1, <2>2, <2>3, <1>q, <1>d, <1>h DEF Start, ControlOK
<1>3. CASE Crash \/ BackendFails
  <2>1. PastOK' /\ ControlOK'
    BY <1>3, <1>0 DEF Crash, BackendFails, Dies, Creating, PastOK, DiskOK, ControlOK
  <2> QED
    BY <1>3, <2>1, <1>q, <1>d, <1>p, <1>s, <1>r DEF Crash, BackendFails, Dies
<1>4. CASE Shutdown
  BY <1>4, <1>q, <1>d, <1>p, <1>s, <1>r, <1>h DEF Shutdown, ControlOK
<1>5. CASE InitdbFound
  <2>1. StatusOK'
    BY <1>5, <1>0 DEF InitdbFound, InitdbDone, Restart, StatusOK, Bits
  <2> QED
    BY <1>5, <2>1, <1>q, <1>d, <1>p, <1>r, <1>h DEF InitdbFound, ControlOK, Making
<1>6. CASE InitdbMain
  <2>1. StatusOK' /\ DiskOK'
    BY <1>6, <1>0 DEF InitdbMain, StatusOK, Bits, DiskOK
  <2> QED
    BY <1>6, <2>1, <1>q, <1>p, <1>r, <1>h DEF InitdbMain, ControlOK, Making
<1>7. CASE BootScript \/ FeedScript
  <2>1. \E script \in {"bki", "feed"} : Popen(script)
    BY <1>7 DEF BootScript, FeedScript, InitdbPipe
  <2>2. PipesOK'
    BY <2>1, <1>0, PopenType
  <2>3. ControlOK' /\ UNCHANGED <<disk, status_, reader, history>>
    BY <1>7 DEF BootScript, FeedScript, InitdbPipe, ControlOK, Making
  <2> QED
    BY <2>2, <2>3, <1>q, <1>d, <1>s, <1>r, <1>h
<1>8. CASE Boot
  <2>1. PipesOK'
    BY <1>8, <1>0 DEF Boot, PipesOK
  <2> QED
    BY <1>8, <2>1, <1>q, <1>d, <1>s, <1>r, <1>h DEF Boot, ControlOK, Making
<1>9. CASE BootExit
  <2>1. StatusOK' /\ DiskOK'
    BY <1>9, <1>0 DEF BootExit, InitdbDone, Restart, StatusOK, Bits, DiskOK
  <2> QED
    BY <1>9, <2>1, <1>q, <1>p, <1>r, <1>h DEF BootExit, ControlOK, Making
<1>10. CASE BackendFirst
  <2>1. ReaderOK'
    BY <1>10 DEF BackendFirst, ReaderOK
  <2> QED
    BY <1>10, <2>1, <1>q, <1>d, <1>p, <1>s, <1>h DEF BackendFirst, ControlOK, Making
<1>11. CASE BackendAgain \/ FeedEnds
  <2>1. StatusOK' /\ ControlOK'
    BY <1>11, <1>0 DEF BackendAgain, FeedEnds, Started, StatusOK, ControlOK
  <2> QED
    BY <1>11, <2>1, <1>q, <1>d, <1>p, <1>r, <1>h DEF BackendAgain, FeedEnds
<1>12. CASE Getc
  <2>1. Content \in Seq(Characters)
    BY <1>0, FeedsAssumption DEF Content, PastOK
  <2>2. pos' \in Nat /\ c' \in Characters
    BY <1>12, <1>0, <2>1 DEF Getc, ReaderOK
  <2>3. ReaderOK'
    BY <1>12, <1>0, <2>2 DEF Getc, ReaderOK
  <2> QED
    BY <1>12, <2>3, <1>q, <1>d, <1>p, <1>s, <1>h DEF Getc, ControlOK, Making
<1>13. CASE GetcEOF
  <2>1. ReaderOK'
    BY <1>13, <1>0 DEF GetcEOF, ReaderOK
  <2> QED
    BY <1>13, <2>1, <1>q, <1>d, <1>p, <1>s, <1>h DEF GetcEOF, ControlOK, Making
<1>14. CASE SkipCommand
  <2>1. ReaderOK'
    BY <1>14, <1>0 DEF SkipCommand, ReaderOK
  <2>2. StatusOK' /\ ControlOK'
    BY <1>14, <1>0 DEF SkipCommand, Started, StatusOK, ControlOK, Making
  <2> QED
    BY <1>14, <2>1, <2>2, <1>q, <1>d, <1>p, <1>h DEF SkipCommand
<1>15. CASE RunCommand
  <2>1. ReaderOK' /\ PastOK'
    BY <1>15, <1>0 DEF RunCommand, ReaderOK, PastOK
  <2>2. StatusOK' /\ ControlOK'
    BY <1>15, <1>0 DEF RunCommand, Started, StatusOK, ControlOK, Making
  <2>3. DiskOK'
    BY <1>15, <1>0, OidRoom DEF RunCommand, DiskOK
  <2>4. PipesOK'
    <3>1. Popen("none") \/ UNCHANGED <<pipes, IDB_STAGE>>
      BY <1>15 DEF RunCommand
    <3> QED
      BY <3>1, <1>0, <1>p, PopenType
  <2> QED
    BY <2>1, <2>2, <2>3, <2>4, <1>q
<1>16. CASE CommandError
  <2>1. ReaderOK' /\ PastOK' /\ ControlOK'
    BY <1>16, <1>0 DEF CommandError, BufferAfterError, ReaderOK, PastOK, ControlOK, Making
  <2> QED
    BY <1>16, <2>1, <1>q, <1>d, <1>p, <1>s DEF CommandError
<1>17. CASE CreateObject
  <2>1. DiskOK' /\ PastOK'
    BY <1>17, <1>0, OidRoom DEF CreateObject, DiskOK, PastOK
  <2> QED
    BY <1>17, <2>1, <1>0, <1>q, <1>p, <1>s, <1>r DEF CreateObject, ControlOK
<1> QED
  BY <1>1, <1>2, <1>3, <1>4, <1>5, <1>6, <1>7, <1>8, <1>9, <1>10, <1>11, <1>12, <1>13, <1>14,
     <1>15, <1>16, <1>17 DEF Next, Initdb, Backend, Feeding

\* All variables of the process and of the data directory stay in their types:
\* in particular the stage of pgl_popen, whatever else calls it.
THEOREM TypeCorrect == Spec => []TypeOK
BY InitTypes, StepTypes, PTL DEF Spec

-----------------------------------------------------------------------------
(* The two scripts *)

\* The stages of pgl_popen, and which script the file of a stage holds.
ScriptInv ==
  /\ PipesOK
  /\ pc \in {"main", "boot_script"} => IDB_STAGE = 0
  /\ pc = "feed_script" => IDB_STAGE = 1
  /\ pc \in {"feed_script", "boot"} => pipes["BOOT"] = "bki"
  /\ pc \in {"boot", "exit66", "getc", "command"} => IDB_STAGE = 2 /\ pipes["SINGLE"] = "feed"
  /\ pc = "backend" /\ async_restart = 1 => IDB_STAGE = 2 /\ pipes["SINGLE"] = "feed"

\* Without a process nothing is claimed of the files.
LEMMA InitScripts == Init => ScriptInv
BY DEF Init, ScriptInv, PipesOK

\* pgl_popen after the second stage leaves both files as they are.
LEMMA PopenLate ==
  ASSUME IDB_STAGE = 2, NEW script, Popen(script)
  PROVE  UNCHANGED <<pipes, IDB_STAGE>>
BY DEF Popen, NextStage

\* Every step keeps the scripts where the process looks for them.
LEMMA StepScripts == ScriptInv /\ [Next]_vars => ScriptInv'
<1> SUFFICES ASSUME ScriptInv, [Next]_vars PROVE ScriptInv'
  OBVIOUS
<1> USE DEF ScriptInv
<1>1. CASE UNCHANGED vars
  BY <1>1 DEF vars, process, PipesOK
<1>2. CASE Start
  BY <1>2 DEF Start, PipesOK
<1>3. CASE Crash \/ BackendFails \/ Shutdown
  BY <1>3 DEF Crash, BackendFails, Dies, Shutdown, process, PipesOK
<1>4. CASE InitdbFound
  BY <1>4 DEF InitdbFound, Restart, PipesOK
<1>5. CASE InitdbMain
  BY <1>5 DEF InitdbMain, PipesOK
<1>6. CASE BootScript
  <2>1. PipesOK'
    BY <1>6, PopenType DEF BootScript, InitdbPipe
  <2>2. pc' = "feed_script" /\ IDB_STAGE' = 1
    BY <1>6 DEF BootScript, InitdbPipe, Popen, NextStage
  <2>3. pipes' = [pipes EXCEPT !["BOOT"] = "bki"]
    BY <1>6 DEF BootScript, InitdbPipe, Popen
  <2> QED
    BY <2>1, <2>2, <2>3 DEF PipesOK
<1>7. CASE FeedScript
  <2>1. PipesOK'
    BY <1>7, PopenType DEF FeedScript, InitdbPipe
  <2>2. pc' = "boot" /\ IDB_STAGE' = 2
    BY <1>7 DEF FeedScript, InitdbPipe, Popen, NextStage
  <2>3. pipes' = [pipes EXCEPT !["SINGLE"] = "feed"]
    BY <1>7 DEF FeedScript, InitdbPipe, Popen
  <2> QED
    BY <1>7, <2>1, <2>2, <2>3 DEF FeedScript, InitdbPipe, PipesOK
<1>8. CASE Boot
  <2>1. pipes'["SINGLE"] = "feed"
    BY <1>8 DEF Boot, PipesOK
  <2>2. PipesOK'
    BY <1>8 DEF Boot, PipesOK
  <2> QED
    BY <1>8, <2>1, <2>2 DEF Boot
<1>9. CASE BootExit
  BY <1>9 DEF BootExit, Restart, PipesOK
<1>10. CASE BackendFirst
  BY <1>10 DEF BackendFirst, HostGoesOn, process, PipesOK
<1>11. CASE BackendAgain \/ FeedEnds
  BY <1>11 DEF BackendAgain, FeedEnds, Started, PipesOK
<1>12. CASE Getc \/ GetcEOF
  <2>1. pc = "getc" /\ pc' \in {"getc", "command"} /\ UNCHANGED process
    BY <1>12 DEF Getc, GetcEOF
  <2> QED
    BY <2>1 DEF process, PipesOK
<1>13. CASE SkipCommand
  <2>1. pc = "command" /\ pc' \in {"getc", "serving"} /\ UNCHANGED <<pipes, IDB_STAGE>>
    BY <1>13 DEF SkipCommand, Started
  <2> QED
    BY <2>1 DEF PipesOK
<1>14. CASE RunCommand
  <2>1. pc = "command" /\ pc' \in {"getc", "serving"}
    BY <1>14 DEF RunCommand, Started
  <2>2. UNCHANGED <<pipes, IDB_STAGE>>
    BY <1>14, <2>1, PopenLate DEF RunCommand
  <2> QED
    BY <2>1, <2>2 DEF PipesOK
<1>15. CASE CommandError
  <2>1. pc = "command" /\ pc' = "getc" /\ UNCHANGED process
    BY <1>15 DEF CommandError
  <2> QED
    BY <2>1 DEF process, PipesOK
<1>16. CASE CreateObject
  BY <1>16 DEF CreateObject, process, PipesOK
<1> QED
  BY <1>1, <1>2, <1>3, <1>4, <1>5, <1>6, <1>7, <1>8, <1>9, <1>10, <1>11, <1>12, <1>13, <1>14,
     <1>15, <1>16 DEF Next, Initdb, Backend, Feeding

\* The bootstrap and the feed find their scripts, whatever else initdb and the
\* commands of the feed pipe, and wherever an earlier process died: pgl_popen
\* tells the pipes apart by counting alone.
THEOREM ScriptsAlwaysInPlace == Spec => []ScriptsInPlace
<1>1. ScriptInv => ScriptsInPlace
  BY DEF ScriptInv, ScriptsInPlace
<1> QED
  BY <1>1, InitScripts, StepScripts, PTL DEF Spec

-----------------------------------------------------------------------------
(* Object ids *)

\* A process that serves passes as a postmaster.
ServesAsPostmaster == pc = "serving" => IsPostmasterEnvironment

\* The object ids are numbers.
OidsOK == nextOid \in Nat /\ userOids \in Seq(Nat)

\* Ids are handed out in increasing order.
OidInv == OidsOK /\ ServesAsPostmaster /\ UserOidsApart

\* A fresh id is an id, at least the next one, and one of a user's in service.
LEMMA FreshOid ==
  ASSUME OidsOK, OidsAssumption
  PROVE  /\ NewOid \in Nat /\ NewOid >= nextOid
         /\ IsPostmasterEnvironment => NewOid >= FirstNormal
BY DEF NewOid, OidsOK, OidsAssumption

\* A database begins without objects of users.
LEMMA InitOids == Init => OidInv
BY OidsAssumption DEF Init, OidInv, OidsOK, ServesAsPostmaster, UserOidsApart, OidsAssumption

\* Steps that leave the objects alone keep the invariant, when they enter
\* service only as a postmaster.
LEMMA KeepsOids ==
  ASSUME OidInv, UNCHANGED userOids, nextOid' \in Nat, nextOid' >= nextOid, ServesAsPostmaster'
  PROVE  OidInv'
<1>1. OidsOK'
  BY DEF OidInv, OidsOK
<1>2. \A i \in DOMAIN userOids : userOids[i] \in Nat /\ userOids[i] < nextOid'
  BY DEF OidInv, OidsOK, UserOidsApart
<1>3. UserOidsApart'
  BY <1>2 DEF OidInv, UserOidsApart
<1> QED
  BY <1>1, <1>3 DEF OidInv

\* Every step keeps the invariant.
LEMMA StepOids == OidInv /\ [Next]_vars => OidInv'
<1> SUFFICES ASSUME OidInv, [Next]_vars PROVE OidInv'
  OBVIOUS
<1> USE DEF OidInv, ServesAsPostmaster
<1>0. nextOid \in Nat /\ nextOid >= nextOid
  BY DEF OidsOK
<1>1. CASE UNCHANGED vars
  <2>1. UNCHANGED <<userOids, nextOid, pc, IsPostmasterEnvironment>>
    BY <1>1 DEF vars, disk, process, history
  <2> QED
    BY <2>1, <1>0, KeepsOids
<1>2. CASE Start
  BY <1>2, <1>0, KeepsOids DEF Start, disk, history
<1>3. CASE Crash \/ BackendFails
  BY <1>3, <1>0, KeepsOids DEF Crash, BackendFails, Dies, disk
<1>4. CASE Shutdown
  BY <1>4, <1>0, KeepsOids DEF Shutdown, disk, history
<1>5. CASE Initdb
  <2>1. UNCHANGED <<userOids, nextOid>> /\ pc' # "serving"
    BY <1>5 DEF Initdb, InitdbFound, InitdbMain, BootScript, FeedScript, InitdbPipe, Boot, BootExit,
                disk, history
  <2> QED
    BY <2>1, <1>0, KeepsOids
<1>6. CASE BackendFirst
  BY <1>6, <1>0, KeepsOids DEF BackendFirst, disk, history
<1>7. CASE BackendAgain \/ FeedEnds
  BY <1>7, <1>0, KeepsOids DEF BackendAgain, FeedEnds, Started, disk, history
<1>8. CASE Getc \/ GetcEOF
  <2>1. UNCHANGED <<userOids, nextOid>> /\ pc' # "serving"
    BY <1>8 DEF Getc, GetcEOF, disk, history
  <2> QED
    BY <2>1, <1>0, KeepsOids
<1>9. CASE RunCommand
  <2>1. nextOid' \in Nat /\ nextOid' >= nextOid
    BY <1>9, <1>0, FreshOid, OidsAssumption DEF RunCommand
  <2>2. UNCHANGED userOids /\ (pc' = "serving" => IsPostmasterEnvironment')
    BY <1>9 DEF RunCommand, Started
  <2> QED
    BY <2>1, <2>2, KeepsOids
<1>c. CASE SkipCommand
  <2>1. UNCHANGED <<userOids, nextOid>> /\ (pc' = "serving" => IsPostmasterEnvironment')
    BY <1>c DEF SkipCommand, Started, disk, history
  <2> QED
    BY <2>1, <1>0, KeepsOids
<1>10. CASE CommandError
  BY <1>10, <1>0, KeepsOids DEF CommandError, disk
<1>11. CASE CreateObject
  <2>1. /\ userOids' = Append(userOids, NewOid) /\ nextOid' = NewOid + 1
        /\ UNCHANGED <<pc, IsPostmasterEnvironment>> /\ pc = "serving"
    BY <1>11 DEF CreateObject, process
  <2>2. /\ NewOid \in Nat /\ NewOid >= nextOid /\ NewOid >= FirstNormal
        /\ userOids \in Seq(Nat) /\ nextOid \in Nat /\ FirstNormal \in Nat
    BY <2>1, FreshOid, OidsAssumption DEF OidsOK, OidsAssumption
  <2>3. OidsOK'
    BY <2>1, <2>2 DEF OidsOK
  <2>4. \A i \in DOMAIN userOids : userOids[i] \in Nat /\ userOids[i] < nextOid /\ userOids[i] >= FirstNormal
    BY <2>2 DEF UserOidsApart
  <2>5. /\ DOMAIN userOids' = 1 .. Len(userOids) + 1
        /\ \A i \in DOMAIN userOids : userOids'[i] = userOids[i]
        /\ userOids'[Len(userOids) + 1] = NewOid
        /\ DOMAIN userOids = 1 .. Len(userOids) /\ Len(userOids) \in Nat
    BY <2>1, <2>2
  <2>6. \A i \in DOMAIN userOids' : userOids'[i] >= FirstNormal /\ userOids'[i] < nextOid'
    BY <2>1, <2>2, <2>4, <2>5
  <2>7. \A i, j \in DOMAIN userOids' : i < j => userOids'[i] < userOids'[j]
    <3> SUFFICES ASSUME NEW i \in DOMAIN userOids', NEW j \in DOMAIN userOids', i < j
                 PROVE  userOids'[i] < userOids'[j]
      OBVIOUS
    <3>1. i \in DOMAIN userOids
      BY <2>5
    <3>2. CASE j \in DOMAIN userOids
      BY <3>1, <3>2, <2>5 DEF UserOidsApart
    <3>3. CASE j = Len(userOids) + 1
      BY <3>1, <3>3, <2>2, <2>4, <2>5
    <3> QED
      BY <3>2, <3>3, <2>5
  <2>8. UserOidsApart'
    BY <2>6, <2>7 DEF UserOidsApart
  <2> QED
    BY <2>1, <2>3, <2>8
<1> QED
  BY <1>1, <1>2, <1>3, <1>4, <1>5, <1>6, <1>7, <1>8, <1>9, <1>c, <1>10, <1>11 DEF Next, Backend, Feeding

\* No object of a user has an id of those that initdb assigns, or the id of
\* another object, however often processes die and the database is started
\* again: IsPostmasterEnvironment is set before the first call is served.
THEOREM UserOidsAlwaysApart == Spec => []UserOidsApart
<1>1. OidInv => UserOidsApart
  BY DEF OidInv
<1> QED
  BY <1>1, InitOids, StepOids, PTL DEF Spec
=============================================================================
