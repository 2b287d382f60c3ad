------------------------ MODULE LifecycleFeedProofs -------------------------
(***************************************************************************)
(* interactive_file and the feed, for every script: a database in service  *)
(* has had each command of it run once and in order, whichever commands    *)
(* fail and wherever processes die, or its making was given up.            *)
(***************************************************************************)
EXTENDS LifecycleProofs, FiniteSetTheorems, SequenceTheorems

-----------------------------------------------------------------------------
(* The commands of a script *)

\* A script has finitely many ends of commands: its cuts, and its own end when
\* that is not one.
LEMMA EndsType ==
  ASSUME NEW s \in Seq(Characters)
  PROVE  /\ \A d \in Ends(s) : d \in Nat \ {0} /\ d <= Len(s) + 1
         /\ IsFiniteSet(Ends(s)) /\ Len(s) \in Nat
         /\ \A d \in Nat : d <= Len(s) => (d \in Ends(s) <=> d \in Cuts(s))
         /\ Len(s) + 1 \in Ends(s) <=> s # <<>> /\ Len(s) \notin Cuts(s)
<1>0. Len(s) \in Nat
  OBVIOUS
<1>1. Cuts(s) \subseteq 3 .. Len(s)
  BY DEF Cuts
<1>2. Ends(s) \subseteq 1 .. Len(s) + 1
  BY <1>0, <1>1 DEF Ends
<1>3. IsFiniteSet(Ends(s))
  <2> DEFINE all == 1 .. Len(s) + 1
  <2>1. IsFiniteSet(all)
    BY <1>0, FS_Interval
  <2> HIDE DEF all
  <2>2. Ends(s) \in SUBSET all
    BY <1>2 DEF all
  <2> QED
    BY <2>1, <2>2, FS_Subset
<1>4. \A d \in Nat : d <= Len(s) => (d \in Ends(s) <=> d \in Cuts(s))
  BY <1>0, <1>1 DEF Ends
<1>5. Len(s) + 1 \notin Cuts(s)
  BY <1>0, <1>1
<1>6. Len(s) + 1 \in Ends(s) <=> s # <<>> /\ Len(s) \notin Cuts(s)
  BY <1>5 DEF Ends
<1>7. \A d \in Ends(s) : d \in Nat \ {0} /\ d <= Len(s) + 1
  BY <1>0, <1>2
<1> QED
  BY <1>0, <1>3, <1>4, <1>6, <1>7

\* A command has one beginning.
LEMMA CommandIs ==
  ASSUME NEW s \in Seq(Characters), NEW e \in Ends(s), NEW b \in 1 .. e, Begins(s, b, e)
  PROVE  Command(s, e) = SubSeq(s, b, e - 1)
<1>0. e \in Nat /\ \A d \in Ends(s) : d \in Nat
  BY EndsType
<1>1. ASSUME NEW x \in 1 .. e, NEW y \in 1 .. e, Begins(s, x, e), Begins(s, y, e), x < y
      PROVE  FALSE
  <2>1. y - 1 \in Ends(s)
    BY <1>0, <1>1 DEF Begins
  <2>2. y - 1 < x \/ y - 1 >= e
    BY <1>1, <2>1 DEF Begins
  <2> QED
    BY <1>0, <1>1, <2>2
<1> DEFINE a == CHOOSE x \in 1 .. e : Begins(s, x, e)
<1>2. a \in 1 .. e /\ Begins(s, a, e)
  OBVIOUS
<1> HIDE DEF a
<1>3. a = b
  <2>1. ~(a < b) /\ ~(b < a)
    BY <1>1, <1>2
  <2> QED
    BY <1>0, <1>2, <2>1
<1> QED
  BY <1>3 DEF Command, a

LEMMA UpToType ==
  ASSUME NEW s \in Seq(Characters), NEW t \in Nat
  PROVE  /\ IsFiniteSet(UpTo(s, t)) /\ Cardinality(UpTo(s, t)) \in Nat
         /\ UpTo(s, t) \subseteq WantedEnds(s) /\ IsFiniteSet(WantedEnds(s))
         /\ Cardinality(UpTo(s, t)) <= Cardinality(WantedEnds(s))
         /\ Cardinality(WantedEnds(s)) \in Nat
         /\ WantedEnds(s) \subseteq Ends(s) /\ \A e \in WantedEnds(s) : e \in Nat
<1>1. IsFiniteSet(Ends(s)) /\ \A e \in Ends(s) : e \in Nat
  BY EndsType
<1>2. WantedEnds(s) \subseteq Ends(s) /\ UpTo(s, t) \subseteq WantedEnds(s)
  BY DEF WantedEnds, UpTo
<1>3. IsFiniteSet(WantedEnds(s))
  BY <1>1, <1>2, FS_Subset
<1>4. IsFiniteSet(UpTo(s, t)) /\ Cardinality(UpTo(s, t)) <= Cardinality(WantedEnds(s))
  BY <1>2, <1>3, FS_Subset
<1> QED
  BY <1>1, <1>2, <1>3, <1>4, FS_CardinalityType

\* From one end to the next: one command more, if it is wanted.
LEMMA UpToNext ==
  ASSUME NEW s \in Seq(Characters), NEW t \in Nat, NEW e \in Ends(s), t < e,
         \A d \in Ends(s) : d <= t \/ d >= e
  PROVE  /\ e \in WantedEnds(s) => /\ UpTo(s, e) = UpTo(s, t) \cup {e}
                                   /\ Cardinality(UpTo(s, e)) = Cardinality(UpTo(s, t)) + 1
         /\ e \notin WantedEnds(s) => UpTo(s, e) = UpTo(s, t)
<1>1. \A d \in WantedEnds(s) : d \in Ends(s) /\ d \in Nat /\ e \in Nat
  BY EndsType DEF WantedEnds
<1>2. ASSUME e \in WantedEnds(s) PROVE UpTo(s, e) = UpTo(s, t) \cup {e}
  BY <1>1, <1>2 DEF UpTo
<1>3. ASSUME e \notin WantedEnds(s) PROVE UpTo(s, e) = UpTo(s, t)
  BY <1>1, <1>3 DEF UpTo
<1>4. e \notin UpTo(s, t)
  BY <1>1 DEF UpTo
<1>5. IsFiniteSet(UpTo(s, t))
  BY UpToType
<1>6. Cardinality(UpTo(s, t) \cup {e}) = Cardinality(UpTo(s, t)) + 1
  BY <1>4, <1>5, FS_AddElement
<1> QED
  BY <1>2, <1>3, <1>6

\* Where no end lies between, there is no command more.
LEMMA UpToSame ==
  ASSUME NEW s \in Seq(Characters), NEW t \in Nat, NEW u \in Nat, t <= u,
         \A d \in Ends(s) : d <= t \/ d > u
  PROVE  UpTo(s, u) = UpTo(s, t)
<1>1. \A d \in WantedEnds(s) : d \in Ends(s) /\ d \in Nat
  BY EndsType DEF WantedEnds
<1> QED
  BY <1>1 DEF UpTo

\* No two wanted commands have the same number.
LEMMA NumbersApart ==
  ASSUME NEW s \in Seq(Characters), NEW d \in WantedEnds(s), NEW e \in WantedEnds(s),
         Cardinality(UpTo(s, d)) = Cardinality(UpTo(s, e))
  PROVE  d = e
<1>0. d \in Nat /\ e \in Nat
  BY EndsType DEF WantedEnds
<1>1. ASSUME NEW x \in WantedEnds(s), NEW y \in WantedEnds(s), x < y, x \in Nat, y \in Nat
      PROVE  Cardinality(UpTo(s, x)) # Cardinality(UpTo(s, y))
  <2>1. y \in UpTo(s, y) /\ y \notin UpTo(s, x)
    BY <1>1 DEF UpTo
  <2>2. \A z \in WantedEnds(s) : z \in Nat
    BY EndsType DEF WantedEnds
  <2>3. UpTo(s, x) \in SUBSET UpTo(s, y)
    <3>1. ASSUME NEW z \in UpTo(s, x) PROVE z \in WantedEnds(s) /\ z <= y
      <4>1. z \in WantedEnds(s) /\ z <= x
        BY DEF UpTo
      <4>2. z \in Nat
        BY <2>2, <4>1
      <4>3. z <= y
        BY <1>1, <4>1, <4>2
      <4> QED
        BY <4>1, <4>3
    <3> QED
      BY <3>1 DEF UpTo
  <2>4. IsFiniteSet(UpTo(s, y))
    BY <1>1, UpToType
  <2> QED
    BY <2>1, <2>3, <2>4, FS_Subset
<1>2. ~(d < e) /\ ~(e < d)
  BY <1>0, <1>1
<1> QED
  BY <1>0, <1>2

-----------------------------------------------------------------------------
(* The invariant *)

\* What has been run are the wanted commands that end by t.
Ran(t) ==
  /\ Len(ran) = Cardinality(UpTo(feed, t))
  /\ \A k \in 1 .. Len(ran) : \E e \in UpTo(feed, t) :
       Cardinality(UpTo(feed, e)) = k /\ ran[k] = Command(feed, e)

Whole == Ran(Len(feed) + 1)

\* The command at hand begins at b, has no end before e, and is all in inBuf.
AtHand(b, e) ==
  /\ b \in Nat \ {0} /\ Begins(feed, b, e) /\ Ran(b - 1)
  /\ inBuf = SubSeq(feed, b, e - 1)

\* The end that interactive_file has found.
Found == IF c = "EOF" THEN Len(feed) + 1 ELSE pos

Reading ==
  /\ pc = "getc" => /\ pos \in 0 .. Len(feed)
                    /\ \E b \in Nat : AtHand(b, pos + 1) /\ (b <= pos + 1 \/ pos = Len(feed))
  /\ pc = "command" => /\ pos \in 0 .. Len(feed) /\ Found \in Ends(feed)
                       /\ c = "EOF" => pos = Len(feed)
                       /\ \E b \in 1 .. Found : AtHand(b, Found)

\* How far the making of the database is.
Made ==
  /\ ~PG_VERSION => pc \in {"off", "main"} /\ ran = <<>>
  /\ pc = "main" => pgl_idb_status = {}
  /\ pc \in {"boot_script", "feed_script", "boot", "exit66"} => ran = <<>> /\ "HASDB" \notin pgl_idb_status
  /\ pc = "backend" => IF async_restart = 1 THEN ran = <<>> /\ catalogs /\ "HASDB" \notin pgl_idb_status
                                            ELSE "HASDB" \in pgl_idb_status
  /\ pc \in {"getc", "command"} => catalogs /\ "HASDB" \notin pgl_idb_status
  /\ pc = "serving" => catalogs

\* A database is whole, unless it is being made or was given up then.
WholeOrNot == PG_VERSION /\ ~interrupted => Creating \/ (catalogs /\ Whole)

FInv == /\ TypeOK /\ ScriptInv /\ Reading /\ Made /\ WholeOrNot
        /\ \E t \in Nat : Ran(t)

-----------------------------------------------------------------------------
(* What has been run *)

LEMMA ScriptType == TypeOK => feed \in Seq(Characters)
BY FeedsAssumption DEF TypeOK

\* What has been run is a beginning of what is wanted.
LEMMA RanIsPrefix ==
  ASSUME TypeOK, NEW t \in Nat, Ran(t)
  PROVE  /\ IsPrefix(ran, Wanted(feed))
         /\ UpTo(feed, t) = WantedEnds(feed) => ran = Wanted(feed)
<1> DEFINE want == Wanted(feed)
           n    == Cardinality(WantedEnds(feed))
<1>1. feed \in Seq(Characters) /\ ran \in Seq(Seq(Characters)) /\ Len(ran) \in Nat
  BY ScriptType DEF TypeOK
<1>2. Len(ran) = Cardinality(UpTo(feed, t)) /\ Len(ran) <= n /\ n \in Nat
  BY <1>1, UpToType DEF Ran
<1>3. want = [k \in 1 .. n |-> Command(feed, CHOOSE e \in WantedEnds(feed) : Cardinality(UpTo(feed, e)) = k)]
  BY DEF Wanted
<1>4. ASSUME NEW k \in 1 .. Len(ran) PROVE ran[k] = want[k]
  <2>1. PICK e \in UpTo(feed, t) : Cardinality(UpTo(feed, e)) = k /\ ran[k] = Command(feed, e)
    BY DEF Ran
  <2>2. e \in WantedEnds(feed)
    BY <2>1 DEF UpTo
  <2> DEFINE x == CHOOSE y \in WantedEnds(feed) : Cardinality(UpTo(feed, y)) = k
  <2>3. x \in WantedEnds(feed) /\ Cardinality(UpTo(feed, x)) = k
    BY <2>1, <2>2
  <2> HIDE DEF x
  <2>4. x = e
    BY <1>1, <2>1, <2>2, <2>3, NumbersApart
  <2>5. k \in 1 .. n
    BY <1>1, <1>2
  <2>6. want[k] = Command(feed, x)
    BY <1>3, <2>5 DEF x
  <2> QED
    BY <2>1, <2>4, <2>6
<1> HIDE DEF want
<1>5. Len(want) = n
  BY <1>2, <1>3
<1>6. SubSeq(ran, 1, Len(ran)) = SubSeq(want, 1, Len(ran))
  <2> DEFINE m == Len(ran)
  <2>1. m \in Nat /\ \A k \in 1 .. m : ran[k] = want[k]
    BY <1>1, <1>4
  <2> HIDE DEF m
  <2>2. SubSeq(ran, 1, m) = [k \in 1 .. m |-> ran[k]]
    BY <2>1 DEF SubSeq
  <2>3. SubSeq(want, 1, m) = [k \in 1 .. m |-> want[k]]
    BY <2>1 DEF SubSeq
  <2> QED
    BY <2>1, <2>2, <2>3 DEF m
<1>7. IsPrefix(ran, want)
  BY <1>2, <1>5, <1>6 DEF IsPrefix
<1>8. ASSUME UpTo(feed, t) = WantedEnds(feed) PROVE ran = want
  <2>1. Len(ran) = n
    BY <1>2, <1>8
  <2>2. ran = [k \in 1 .. n |-> ran[k]]
    BY <1>1, <2>1
  <2>3. want = [k \in 1 .. n |-> want[k]]
    BY <1>3
  <2>4. \A k \in 1 .. n : ran[k] = want[k]
    BY <1>4, <2>1
  <2> QED
    BY <2>2, <2>3, <2>4
<1> QED
  BY <1>7, <1>8 DEF want

\* All of it, when the end of the script is reached.
LEMMA WholeIsWanted == TypeOK /\ Whole => ran = Wanted(feed)
<1> SUFFICES ASSUME TypeOK, Whole PROVE ran = Wanted(feed)
  OBVIOUS
<1> DEFINE t == Len(feed) + 1
<1>1. feed \in Seq(Characters)
  BY ScriptType
<1>2. t \in Nat /\ Ran(t)
  BY <1>1 DEF Whole
<1>3. \A e \in WantedEnds(feed) : e <= t
  BY <1>1, EndsType DEF WantedEnds
<1>4. UpTo(feed, t) = WantedEnds(feed)
  BY <1>3 DEF UpTo
<1> QED
  BY <1>2, <1>4, RanIsPrefix

\* Nothing has been run of a script that was not begun.
LEMMA NothingRan ==
  ASSUME TypeOK, ran = <<>>
  PROVE  Ran(0)
<1>1. \A e \in WantedEnds(feed) : e \in Nat \ {0}
  BY ScriptType, EndsType DEF WantedEnds
<1>2. UpTo(feed, 0) = {}
  BY <1>1 DEF UpTo
<1>3. Cardinality(UpTo(feed, 0)) = 0 /\ Len(ran) = 0
  BY <1>2, FS_EmptySet
<1> QED
  BY <1>3 DEF Ran

\* What has been run does not change without a command.
LEMMA RanSame ==
  ASSUME UNCHANGED <<feed, ran>>
  PROVE  \A t : Ran(t)' <=> Ran(t)
BY DEF Ran

\* The command that ends at e is run, or it is passed over.
LEMMA RanNext ==
  ASSUME TypeOK, NEW e \in Ends(feed), NEW b \in 1 .. e, AtHand(b, e), feed' = feed,
         IF Skips(inBuf) THEN ran' = ran ELSE ran' = Append(ran, inBuf)
  PROVE  Ran(e)'
<1> DEFINE t == b - 1
           m == Len(ran)
<1>1. feed \in Seq(Characters) /\ ran \in Seq(Seq(Characters)) /\ m \in Nat /\ inBuf \in Seq(Characters)
  BY ScriptType DEF TypeOK
<1>2. e \in Nat /\ t \in Nat /\ t < e
  BY <1>1, EndsType
<1>3. Ran(t) /\ Begins(feed, b, e) /\ inBuf = Command(feed, e)
  BY <1>1, CommandIs DEF AtHand
<1>4. \A d \in Ends(feed) : d <= t \/ d >= e
  BY <1>1, <1>2, <1>3, EndsType DEF Begins
<1> HIDE DEF t, m
<1>5. /\ e \in WantedEnds(feed) => /\ UpTo(feed, e) = UpTo(feed, t) \cup {e}
                                   /\ Cardinality(UpTo(feed, e)) = Cardinality(UpTo(feed, t)) + 1
      /\ e \notin WantedEnds(feed) => UpTo(feed, e) = UpTo(feed, t)
  BY <1>1, <1>2, <1>4, UpToNext
<1>6. e \in WantedEnds(feed) <=> ~Skips(inBuf)
  BY <1>3 DEF WantedEnds, Skips
<1>7. CASE Skips(inBuf)
  <2>1. ran' = ran /\ feed' = feed
    BY <1>7
  <2>2. UpTo(feed, e) = UpTo(feed, t)
    BY <1>5, <1>6, <1>7
  <2> QED
    BY <1>3, <2>1, <2>2 DEF Ran
<1>8. CASE ~Skips(inBuf)
  <2>0. ran' = Append(ran, inBuf)
    BY <1>8
  <2>1. /\ Len(ran') = m + 1 /\ ran'[m + 1] = inBuf /\ \A k \in 1 .. m : ran'[k] = ran[k]
    BY <1>1, <2>0 DEF m
  <2>2. Cardinality(UpTo(feed, e)) = m + 1 /\ e \in UpTo(feed, e)
    BY <1>3, <1>5, <1>6, <1>8 DEF Ran, m
  <2>3. ASSUME NEW k \in 1 .. m + 1
        PROVE  \E x \in UpTo(feed, e) : Cardinality(UpTo(feed, x)) = k /\ ran'[k] = Command(feed, x)
    <3>1. CASE k = m + 1
      BY <1>3, <2>1, <2>2, <3>1
    <3>2. CASE k # m + 1
      <4>1. k \in 1 .. m
        BY <1>1, <3>2
      <4>2. \E x \in UpTo(feed, t) : Cardinality(UpTo(feed, x)) = k /\ ran[k] = Command(feed, x)
        BY <1>3, <4>1 DEF Ran, m
      <4> QED
        BY <1>5, <1>6, <1>8, <2>1, <4>1, <4>2
    <3> QED
      BY <3>1, <3>2
  <2> QED
    BY <2>1, <2>2, <2>3 DEF Ran
<1> QED
  BY <1>7, <1>8

-----------------------------------------------------------------------------
(* interactive_file *)

\* The second newline behind a semicolon ends the command at hand exactly where
\* the script has a cut: what is in the buffer reaches back far enough to tell.
LEMMA EndsAtCuts ==
  ASSUME NEW s \in Seq(Characters), NEW p \in 1 .. Len(s), NEW b \in 1 .. p, Begins(s, b, p),
         NEW buf, buf = SubSeq(s, b, p - 1)
  PROVE  EndsCommand(buf, s[p]) <=> p \in Cuts(s)
<1>0. Len(s) \in Nat /\ p \in Nat /\ b \in Nat /\ p <= Len(s) /\ 1 <= b /\ b <= p
  OBVIOUS
<1> DEFINE n == p - b
<1>1. n \in Nat /\ p - 1 - b + 1 = n
  BY <1>0
<1>2. Len(buf) = n /\ \A i \in 1 .. n : buf[i] = s[b + i - 1]
  BY <1>0, <1>1
<1>3. b + n - 1 = p - 1 /\ b + (n - 1) - 1 = p - 2
  BY <1>0
<1>4. n > 1 => b <= p - 2 /\ n \in 1 .. n /\ n - 1 \in 1 .. n
  BY <1>0
<1>5. b <= p - 2 => n > 1
  BY <1>0
<1> HIDE DEF n
<1>6. n > 1 => buf[n] = s[p - 1] /\ buf[n - 1] = s[p - 2]
  <2> SUFFICES ASSUME n > 1 PROVE buf[n] = s[p - 1] /\ buf[n - 1] = s[p - 2]
    OBVIOUS
  <2>1. buf[n] = s[b + n - 1]
    BY <1>2, <1>4
  <2>2. buf[n - 1] = s[b + (n - 1) - 1]
    BY <1>2, <1>4
  <2> QED
    BY <1>3, <2>1, <2>2
<1>7. ASSUME EndsCommand(buf, s[p]) PROVE p \in Cuts(s)
  <2>1. n > 1 /\ s[p] = "nl" /\ buf[n] = "nl" /\ buf[n - 1] = ";"
    BY <1>2, <1>7 DEF EndsCommand
  <2>2. b <= p - 2
    BY <1>4, <2>1
  <2>3. p \in 3 .. Len(s)
    BY <1>0, <2>2
  <2> QED
    BY <1>6, <2>1, <2>3 DEF Cuts
<1>8. ASSUME p \in Cuts(s) PROVE EndsCommand(buf, s[p])
  <2>1. p \in 3 .. Len(s) /\ s[p - 2] = ";" /\ s[p - 1] = "nl" /\ s[p] = "nl"
    BY <1>8 DEF Cuts
  <2>2. b <= p - 2
    <3>1. CASE b = 1
      <4>1. p \in 3 .. Len(s)
        BY <2>1
      <4>2. p >= 3
        BY <1>0, <4>1
      <4> QED
        BY <1>0, <3>1, <4>2
    <3>2. CASE b # 1
      <4> DEFINE d == b - 1
      <4>1. d \in Ends(s) /\ d \in Nat /\ d <= Len(s)
        BY <1>0, <3>2 DEF Begins
      <4>2. d = b - 1
        OBVIOUS
      <4> HIDE DEF d
      <4>3. d \in Cuts(s)
        BY <4>1, EndsType
      <4>4. d \in 3 .. Len(s) /\ s[d] = "nl" /\ s[d - 1] = "nl"
        BY <4>3 DEF Cuts
      <4>5. d # p - 2 /\ d - 1 # p - 2
        <5>1. "nl" # ";"
          OBVIOUS
        <5> QED
          BY <2>1, <4>4, <5>1
      <4> QED
        BY <1>0, <4>1, <4>2, <4>5
    <3> QED
      BY <3>1, <3>2
  <2>3. n > 1
    BY <1>5, <2>2
  <2> QED
    BY <1>2, <1>6, <2>1, <2>3 DEF EndsCommand
<1> QED
  BY <1>7, <1>8

LEMMA GetcReads ==
  ASSUME FInv, Getc
  PROVE  Reading'
<1>1. /\ pc = "getc" /\ pos < Len(Content) /\ pos' = pos + 1 /\ c' = Content[pos'] /\ feed' = feed /\ ran' = ran
      /\ inBuf' = IF EndsCommand(inBuf, c') THEN inBuf ELSE Append(inBuf, c')
      /\ pc' = IF EndsCommand(inBuf, c') THEN "command" ELSE "getc"
  BY DEF Getc, history
<1>2. Content = feed
  BY <1>1 DEF FInv, ScriptInv, Content
<1>3. PICK s \in Seq(Characters) : s = feed
  BY ScriptType DEF FInv
<1>4. PICK p \in Nat : p = pos + 1
  BY DEF FInv, TypeOK
<1>5. /\ Len(s) \in Nat /\ pos \in Nat /\ p \in 1 .. Len(s) /\ p \in Nat /\ pos = p - 1
      /\ s[p] \in Characters /\ inBuf \in Seq(Characters)
  BY <1>1, <1>2, <1>3, <1>4 DEF FInv, TypeOK
<1>6. PICK b \in Nat : AtHand(b, p) /\ b <= p
  BY <1>1, <1>2, <1>3, <1>4, <1>5 DEF FInv, Reading
<1>7. b \in 1 .. p /\ Begins(s, b, p) /\ Ran(b - 1) /\ inBuf = SubSeq(s, b, p - 1)
  BY <1>3, <1>5, <1>6 DEF AtHand
<1>8. EndsCommand(inBuf, s[p]) <=> p \in Cuts(s)
  BY <1>3, <1>5, <1>7, EndsAtCuts
<1>9. c' = s[p] /\ s[p] # "EOF" /\ pos' = p /\ feed' = s
  BY <1>1, <1>2, <1>3, <1>4, <1>5 DEF Characters
<1>10. p \in Ends(s) <=> p \in Cuts(s)
  BY <1>5, EndsType
<1>11. Ran(b - 1)'
  BY <1>1, <1>7, RanSame
<1>12. p \in 0 .. Len(s) /\ 1 <= b /\ b <= p /\ b # 0
  BY <1>5, <1>7
<1>13. CASE EndsCommand(inBuf, s[p])
  <2>1. pc' = "command" /\ inBuf' = inBuf /\ Found' = p /\ p \in Ends(s)
    BY <1>1, <1>8, <1>9, <1>10, <1>13 DEF Found
  <2>2. AtHand(b, p)'
    BY <1>7, <1>9, <1>11, <1>12, <2>1 DEF AtHand
  <2>3. AtHand(b, Found)'
    BY <2>1, <2>2
  <2>4. \E a \in 1 .. Found' : AtHand(a, Found)'
    BY <1>7, <2>1, <2>3
  <2> QED
    BY <1>9, <1>12, <2>1, <2>4 DEF Reading
<1>14. CASE ~EndsCommand(inBuf, s[p])
  <2>1. pc' = "getc" /\ inBuf' = Append(inBuf, s[p]) /\ p \notin Ends(s)
    BY <1>1, <1>8, <1>9, <1>10, <1>14
  <2>2. inBuf' = SubSeq(s, b, p)
    BY <1>5, <1>7, <1>12, <2>1
  <2>3. PICK q \in Nat : q = p + 1
    BY <1>5
  <2>4. Begins(s, b, q)
    <3>1. \A d \in Ends(s) : d \in Nat /\ d # p
      BY <2>1, EndsType
    <3> QED
      BY <1>5, <1>7, <2>3, <3>1 DEF Begins
  <2>5. q - 1 = p /\ b <= q
    BY <1>12, <1>5, <2>3
  <2>6. AtHand(b, q)'
    BY <1>9, <1>11, <1>12, <2>2, <2>4, <2>5 DEF AtHand
  <2>7. AtHand(b, pos + 1)' /\ b <= pos' + 1
    BY <1>9, <2>3, <2>5, <2>6
  <2> QED
    BY <1>9, <1>12, <2>1, <2>7 DEF Reading
<1> QED
  BY <1>13, <1>14

LEMMA GetcEOFReads ==
  ASSUME FInv, GetcEOF
  PROVE  Reading'
<1>1. /\ pc = "getc" /\ pos = Len(Content) /\ inBuf # <<>> /\ c' = "EOF" /\ pc' = "command"
      /\ pos' = pos /\ inBuf' = inBuf /\ feed' = feed /\ ran' = ran
  BY DEF GetcEOF, history
<1>2. Content = feed
  BY <1>1 DEF FInv, ScriptInv, Content
<1>3. PICK s \in Seq(Characters) : s = feed
  BY ScriptType DEF FInv
<1>4. PICK n \in Nat : n = Len(s)
  OBVIOUS
<1>5. pos = n
  BY <1>1, <1>2, <1>3, <1>4
<1>6. PICK b \in Nat : AtHand(b, n + 1)
  BY <1>1, <1>5 DEF FInv, Reading
<1>7. b \in Nat \ {0} /\ Begins(s, b, n + 1) /\ Ran(b - 1) /\ inBuf = SubSeq(s, b, n)
  BY <1>3, <1>4, <1>6 DEF AtHand
<1>8. b <= n /\ s # <<>>
  BY <1>1, <1>4, <1>7
<1>9. n \notin Cuts(s)
  <2>1. n \notin Ends(s)
    BY <1>7, <1>8 DEF Begins
  <2> QED
    BY <1>4, <2>1, EndsType
<1>10. PICK e \in Nat : e = n + 1
  OBVIOUS
<1>11. e \in Ends(s)
  BY <1>4, <1>8, <1>9, <1>10, EndsType
<1>12. Found' = e
  BY <1>1, <1>3, <1>4, <1>10 DEF Found
<1>13. Ran(b - 1)'
  BY <1>1, <1>7, RanSame
<1>14. AtHand(b, e)' /\ b \in 1 .. e
  BY <1>1, <1>3, <1>7, <1>8, <1>10, <1>13 DEF AtHand
<1>15. \E a \in 1 .. Found' : AtHand(a, Found)'
  BY <1>12, <1>14
<1>16. pos' \in 0 .. Len(feed') /\ pos' = Len(feed') /\ Found' \in Ends(feed')
  BY <1>1, <1>3, <1>4, <1>5, <1>11, <1>12
<1> QED
  BY <1>1, <1>15, <1>16 DEF Reading

\* At the end of a command, whether it is run, fails or is passed over, all up
\* to it has been run, and the next command begins behind it.
LEMMA CommandDone ==
  ASSUME FInv, pc = "command", feed' = feed, pos' = pos, inBuf' = <<>>,
         IF Skips(inBuf) THEN ran' = ran ELSE ran' = Append(ran, inBuf)
  PROVE  /\ \E t \in Nat : Ran(t)'
         /\ c = "EOF" => Whole'
         /\ pos' \in 0 .. Len(feed')
         /\ \E b \in Nat : AtHand(b, pos + 1)' /\ (b <= pos' + 1 \/ pos' = Len(feed'))
<1>1. PICK s \in Seq(Characters) : s = feed
  BY ScriptType DEF FInv
<1>2. PICK n \in Nat : n = Len(s)
  OBVIOUS
<1>3. PICK p \in Nat : p = pos
  BY DEF FInv, TypeOK
<1>4. /\ p \in 0 .. n /\ Found \in Ends(s) /\ (c = "EOF" => p = n)
      /\ \E b \in 1 .. Found : AtHand(b, Found)
  BY <1>1, <1>2, <1>3 DEF FInv, Reading
<1>5. PICK e \in Ends(s) : e = Found
  BY <1>4
<1>6. e \in Nat \ {0}
  BY EndsType
<1>7. Ran(e)'
  <2>1. PICK b \in 1 .. e : AtHand(b, e)
    BY <1>4, <1>5
  <2>2. TypeOK
    BY DEF FInv
  <2> QED
    BY <1>1, <2>1, <2>2, RanNext
<1>8. IF c = "EOF" THEN e = n + 1 ELSE e = p
  BY <1>1, <1>2, <1>3, <1>5 DEF Found
<1>9. c = "EOF" => Whole'
  BY <1>1, <1>2, <1>7, <1>8 DEF Whole
<1>10. PICK q \in Nat : q = p + 1
  OBVIOUS
<1>11. PICK b \in Nat : b = e + 1
  BY <1>6
<1>12. b # 0 /\ b - 1 = e /\ p <= n /\ q - 1 = p
  BY <1>4, <1>6, <1>10, <1>11
<1>13. b >= q /\ (b <= q \/ p = n)
  <2>1. CASE c = "EOF"
    <3>1. e = n + 1 /\ p = n
      BY <1>4, <1>8, <2>1
    <3> QED
      BY <1>10, <1>11, <3>1
  <2>2. CASE c # "EOF"
    <3>1. e = p
      BY <1>8, <2>2
    <3> QED
      BY <1>10, <1>11, <3>1
  <2> QED
    BY <2>1, <2>2
<1>14. Begins(s, b, q)
  <2>1. \A d \in Ends(s) : d \in Nat
    BY EndsType
  <2>2. \A d \in Ends(s) : d < b \/ d >= q
    BY <1>13, <2>1
  <2> QED
    BY <1>12, <2>2 DEF Begins
<1>15. <<>> = SubSeq(s, b, p)
  <2>1. b > p
    BY <1>10, <1>13
  <2> QED
    BY <1>2, <2>1
<1>16. AtHand(b, q)'
  BY <1>1, <1>7, <1>12, <1>14, <1>15 DEF AtHand
<1>17. pos + 1 = q /\ pos' = p /\ feed' = s
  BY <1>1, <1>3, <1>10
<1>18. AtHand(b, pos + 1)'
  <2>1. (pos + 1)' = q
    BY <1>17, <1>3, <1>10
  <2> QED
    BY <1>16, <2>1
<1>19. b <= pos' + 1 \/ pos' = Len(feed')
  BY <1>2, <1>10, <1>13, <1>17
<1>20. pos' \in 0 .. Len(feed')
  BY <1>2, <1>4, <1>17
<1>21. \E t \in Nat : Ran(t)'
  BY <1>6, <1>7
<1> QED
  BY <1>9, <1>18, <1>19, <1>20, <1>21

\* At the end of the file with nothing at hand, all has been run.
LEMMA NothingLeft ==
  ASSUME FInv, pc = "getc", pos = Len(feed), inBuf = <<>>
  PROVE  Whole
<1>1. PICK s \in Seq(Characters) : s = feed
  BY ScriptType DEF FInv
<1>2. PICK n \in Nat : n = Len(s)
  OBVIOUS
<1>3. PICK b \in Nat : AtHand(b, n + 1)
  BY <1>1, <1>2 DEF FInv, Reading
<1>4. b \in Nat \ {0} /\ Begins(s, b, n + 1) /\ Ran(b - 1) /\ SubSeq(s, b, n) = <<>>
  BY <1>1, <1>3 DEF AtHand
<1>5. b > n
  <2>1. ASSUME b <= n PROVE Len(SubSeq(s, b, n)) # 0
    BY <1>2, <1>4, <2>1
  <2>2. Len(<<>>) = 0
    OBVIOUS
  <2> QED
    BY <1>4, <2>1, <2>2
<1>6. PICK t \in Nat : t = b - 1
  BY <1>4
<1>7. PICK u \in Nat : u = n + 1
  OBVIOUS
<1>8. \A d \in Ends(s) : d \in Nat /\ d <= u
  BY <1>2, <1>7, EndsType
<1>9. t = 0 \/ t \in Ends(s)
  BY <1>4, <1>6 DEF Begins
<1>10. t <= u /\ t >= n
  BY <1>5, <1>6, <1>7, <1>8, <1>9
<1>11. CASE t = u
  BY <1>1, <1>2, <1>4, <1>6, <1>7, <1>11 DEF Whole
<1>12. CASE t = n
  <2>1. u \notin Ends(s)
    <3>1. CASE n = 0
      <4>1. s = <<>>
        BY <1>2, <3>1, EmptySeq
      <4> QED
        BY <1>2, <1>7, <4>1, EndsType
    <3>2. CASE n # 0
      <4>1. n \in Ends(s)
        BY <1>9, <1>12, <3>2
      <4>2. n \in Cuts(s)
        BY <1>2, <4>1, EndsType
      <4> QED
        BY <1>2, <1>7, <4>2, EndsType
    <3> QED
      BY <3>1, <3>2
  <2>2. \A d \in Ends(s) : d <= t \/ d > u
    BY <1>7, <1>8, <1>12, <2>1
  <2>3. UpTo(s, u) = UpTo(s, t)
    BY <1>10, <2>2, UpToSame
  <2>4. Ran(t)
    BY <1>4, <1>6
  <2>5. Ran(u)
    BY <1>1, <2>3, <2>4 DEF Ran
  <2> QED
    BY <1>1, <1>2, <1>7, <2>5 DEF Whole
<1> QED
  BY <1>7, <1>10, <1>11, <1>12

-----------------------------------------------------------------------------
(* The whole life *)

\* Before there is a database, nothing has been run.
LEMMA InitFeed == Init => FInv
<1> SUFFICES ASSUME Init PROVE FInv
  OBVIOUS
<1>1. TypeOK /\ ScriptInv
  BY InitTypes, InitScripts
<1>2. Reading /\ Made /\ WholeOrNot
  BY DEF Init, Reading, Made, WholeOrNot
<1>3. Ran(0)
  BY <1>1, NothingRan DEF Init
<1> QED
  BY <1>1, <1>2, <1>3 DEF FInv

\* What is left to show of a step that runs no command.
LEMMA KeepsFeed ==
  ASSUME FInv, TypeOK', ScriptInv', UNCHANGED <<feed, ran>>, Reading', Made', WholeOrNot'
  PROVE  FInv'
<1>1. PICK t \in Nat : Ran(t)
  BY DEF FInv
<1>2. Ran(t)'
  BY <1>1, RanSame
<1> QED
  BY <1>2 DEF FInv

LEMMA WholeSame ==
  ASSUME UNCHANGED <<feed, ran>>
  PROVE  Whole' <=> Whole
BY DEF Whole, Ran

\* Every step keeps the invariant.
LEMMA StepFeed == FInv /\ [Next]_vars => FInv'
<1> SUFFICES ASSUME FInv, [Next]_vars PROVE FInv'
  OBVIOUS
<1>0. /\ TypeOK /\ ScriptInv /\ Reading /\ Made /\ WholeOrNot
      /\ TypeOK' /\ ScriptInv'
  <2>1. TypeOK /\ ScriptInv /\ Reading /\ Made /\ WholeOrNot
    BY DEF FInv
  <2> QED
    BY <2>1, StepTypes, StepScripts
<1> USE DEF disk, process, reader, history
<1>1. CASE UNCHANGED vars
  <2>1. UNCHANGED <<pc, PG_VERSION, catalogs, process, reader, feed, ran, interrupted>>
    BY <1>1 DEF vars
  <2>2. Reading'
    BY <1>0, <2>1 DEF Reading, Found, AtHand, Ran
  <2>3. Made'
    BY <1>0, <2>1 DEF Made
  <2>4. WholeOrNot'
    BY <1>0, <2>1, WholeSame DEF WholeOrNot, Creating
  <2> QED
    BY <1>0, <2>1, <2>2, <2>3, <2>4, KeepsFeed
<1>2. CASE Start
  <2>1. Reading' /\ UNCHANGED <<feed, ran>>
    BY <1>2 DEF Start, Reading
  <2>2. Made'
    BY <1>0, <1>2 DEF Start, Made
  <2>3. WholeOrNot'
    BY <1>0, <1>2, <2>1, WholeSame DEF Start, WholeOrNot, Creating, Making
  <2> QED
    BY <1>0, <2>1, <2>2, <2>3, KeepsFeed
<1>3. CASE Crash \/ BackendFails
  <2>0. Dies
    BY <1>3 DEF Crash, BackendFails
  <2>1. Reading' /\ UNCHANGED <<feed, ran>>
    BY <2>0 DEF Dies, Reading
  <2>2. Made'
    BY <1>0, <2>0 DEF Dies, Made
  <2>3. WholeOrNot'
    BY <1>0, <2>0, <2>1, WholeSame DEF Dies, WholeOrNot
  <2> QED
    BY <1>0, <2>1, <2>2, <2>3, KeepsFeed
<1>4. CASE Shutdown
  <2>1. Reading' /\ UNCHANGED <<feed, ran>>
    BY <1>4 DEF Shutdown, Reading
  <2>2. Made'
    BY <1>0, <1>4 DEF Shutdown, Made
  <2>3. WholeOrNot'
    BY <1>0, <1>4, <2>1, WholeSame DEF Shutdown, WholeOrNot, Creating, Making
  <2> QED
    BY <1>0, <2>1, <2>2, <2>3, KeepsFeed
<1>5. CASE InitdbFound
  <2>1. Reading' /\ UNCHANGED <<feed, ran>>
    BY <1>5 DEF InitdbFound, Reading
  <2>2. Made'
    BY <1>0, <1>5 DEF InitdbFound, Made, InitdbDone, Restart
  <2>3. WholeOrNot'
    BY <1>0, <1>5, <2>1, WholeSame DEF InitdbFound, WholeOrNot, Creating, Making
  <2> QED
    BY <1>0, <2>1, <2>2, <2>3, KeepsFeed
<1>6. CASE InitdbMain
  <2>1. Reading' /\ UNCHANGED <<feed, ran>>
    BY <1>6 DEF InitdbMain, Reading
  <2>2. Made' /\ WholeOrNot'
    BY <1>0, <1>6 DEF InitdbMain, Made, WholeOrNot, Creating, Making
  <2> QED
    BY <1>0, <2>1, <2>2, KeepsFeed
<1>7. CASE BootScript \/ FeedScript \/ Boot
  <2>1. Reading' /\ UNCHANGED <<feed, ran>>
    BY <1>7 DEF BootScript, FeedScript, InitdbPipe, Boot, Reading
  <2>2. Made' /\ WholeOrNot'
    BY <1>0, <1>7 DEF BootScript, FeedScript, InitdbPipe, Boot, Made, WholeOrNot, Creating, Making
  <2> QED
    BY <1>0, <2>1, <2>2, KeepsFeed
<1>8. CASE BootExit
  <2>1. Reading' /\ UNCHANGED <<feed, ran>>
    BY <1>8 DEF BootExit, Reading
  <2>2. Made' /\ WholeOrNot'
    BY <1>0, <1>8 DEF BootExit, InitdbDone, Restart, Made, WholeOrNot, Creating, Making
  <2> QED
    BY <1>0, <2>1, <2>2, KeepsFeed
<1>9. CASE BackendFirst
  <2>1. /\ pc = "backend" /\ async_restart = 1 /\ pc' = "getc" /\ pos' = 0 /\ inBuf' = <<>>
        /\ UNCHANGED <<disk, process, history>>
    BY <1>9 DEF BackendFirst, HostGoesOn
  <2>2. Made' /\ WholeOrNot'
    BY <1>0, <2>1 DEF Made, WholeOrNot, Creating, Making
  <2>3. Ran(0)'
    <3>1. ran = <<>>
      BY <1>0, <2>1 DEF Made
    <3>2. Ran(0)
      BY <1>0, <3>1, NothingRan
    <3> QED
      BY <2>1, <3>2, RanSame
  <2>4. Begins(feed, 1, 1)' /\ <<>> = SubSeq(feed', 1, 0)
    <3>1. PICK s \in Seq(Characters) : s = feed /\ s = feed'
      BY <1>0, <2>1, ScriptType
    <3>2. \A d \in Ends(s) : d >= 1
      BY EndsType
    <3>3. <<>> = SubSeq(s, 1, 0)
      OBVIOUS
    <3> QED
      BY <3>1, <3>2, <3>3 DEF Begins
  <2>5. AtHand(1, pos + 1)'
    <3>1. (pos + 1)' = 1 /\ 1 - 1 = 0
      BY <2>1
    <3>2. AtHand(1, 1)'
      BY <2>1, <2>3, <2>4, <3>1 DEF AtHand
    <3> QED
      BY <3>1, <3>2
  <2>6. pos' \in 0 .. Len(feed') /\ 1 <= pos' + 1
    <3>1. Len(feed') \in Nat
      BY <1>0, <2>1, ScriptType
    <3> QED
      BY <2>1, <3>1
  <2>7. Reading'
    BY <2>1, <2>5, <2>6 DEF Reading
  <2> QED
    BY <1>0, <2>1, <2>2, <2>7, KeepsFeed
<1>10. CASE BackendAgain
  <2>1. Reading' /\ UNCHANGED <<feed, ran>>
    BY <1>10 DEF BackendAgain, Started, Reading
  <2>2. Made'
    BY <1>0, <1>10 DEF BackendAgain, HostGoesOn, Started, Made
  <2>3. ~Creating
    BY <1>0, <1>10 DEF BackendAgain, HostGoesOn, Made, Creating
  <2>4. WholeOrNot'
    BY <1>0, <1>10, <2>1, <2>3, WholeSame DEF BackendAgain, WholeOrNot
  <2> QED
    BY <1>0, <2>1, <2>2, <2>4, KeepsFeed
<1>11. CASE Getc \/ GetcEOF
  <2>1. Reading'
    BY <1>11, GetcReads, GetcEOFReads
  <2>2. /\ UNCHANGED <<disk, process, history>> /\ pc = "getc" /\ pc' \in {"getc", "command"}
    BY <1>11 DEF Getc, GetcEOF
  <2>3. Made' /\ WholeOrNot'
    BY <1>0, <2>2 DEF Made, WholeOrNot, Creating, Making
  <2> QED
    BY <1>0, <2>1, <2>2, <2>3, KeepsFeed
<1>12. CASE FeedEnds
  <2>1. Reading' /\ UNCHANGED <<feed, ran>>
    BY <1>12 DEF FeedEnds, Started, Reading
  <2>2. Made'
    BY <1>0, <1>12 DEF FeedEnds, Started, Made
  <2>3. Whole
    <3>1. Content = feed
      BY <1>0, <1>12 DEF FeedEnds, ScriptInv, Content
    <3> QED
      BY <1>12, <3>1, NothingLeft DEF FeedEnds
  <2>4. WholeOrNot'
    BY <2>1, <2>2, <2>3, <1>12, WholeSame DEF FeedEnds, Started, WholeOrNot, Made
  <2> QED
    BY <1>0, <2>1, <2>2, <2>4, KeepsFeed
<1>13. CASE SkipCommand \/ RunCommand \/ CommandError
  <2>1. /\ pc = "command" /\ inBuf' = <<>>
        /\ UNCHANGED <<PG_VERSION, catalogs, feed, pos, interrupted, pgl_idb_status, async_restart>>
        /\ IF Skips(inBuf) THEN ran' = ran ELSE ran' = Append(ran, inBuf)
        /\ pc' = "getc" \/ (pc' = "serving" /\ c = "EOF")
    BY <1>13 DEF SkipCommand, RunCommand, CommandError, BufferAfterError, Started
  <2>2. /\ \E t \in Nat : Ran(t)'
        /\ c = "EOF" => Whole'
        /\ pos' \in 0 .. Len(feed')
        /\ \E b \in Nat : AtHand(b, pos + 1)' /\ (b <= pos' + 1 \/ pos' = Len(feed'))
    BY <2>1, CommandDone
  <2>3. Reading'
    BY <2>1, <2>2 DEF Reading
  <2>4. Made'
    BY <1>0, <2>1 DEF Made
  <2>5. WholeOrNot'
    BY <1>0, <2>1, <2>2 DEF Made, WholeOrNot, Creating, Making
  <2> QED
    BY <1>0, <2>2, <2>3, <2>4, <2>5 DEF FInv
<1>14. CASE CreateObject
  <2>1. UNCHANGED <<pc, PG_VERSION, catalogs, process, reader, feed, ran, interrupted>> /\ pc = "serving"
    BY <1>14 DEF CreateObject
  <2>2. Reading' /\ Made'
    BY <1>0, <2>1 DEF Reading, Made
  <2>3. WholeOrNot'
    BY <1>0, <2>1, WholeSame DEF WholeOrNot, Creating
  <2> QED
    BY <1>0, <2>1, <2>2, <2>3, KeepsFeed
<1> QED
  BY <1>1, <1>2, <1>3, <1>4, <1>5, <1>6, <1>7, <1>8, <1>9, <1>10, <1>11, <1>12, <1>13, <1>14
     DEF Next, Initdb, Backend, Feeding

\* No command of the feed is run twice, left out (but for a REVOKE) or joined
\* with another, for any script, whichever commands fail and wherever processes
\* die: interactive_file goes on in the file where the failed command ended, and
\* no later process reads the feed again.
THEOREM FeedAlwaysInOrder == Spec => []FeedInOrder
<1>1. ASSUME FInv PROVE FeedInOrder
  <2>1. PICK t \in Nat : Ran(t)
    BY <1>1 DEF FInv
  <2>2. TypeOK
    BY <1>1 DEF FInv
  <2> QED
    BY <2>1, <2>2, RanIsPrefix DEF FeedInOrder
<1> QED
  BY <1>1, InitFeed, StepFeed, PTL DEF Spec

\* A database in service has its catalogs, and its feed was run to the end
\* unless a process died while it made the database: InitdbFound takes any
\* directory with PG_VERSION for a database, and only a death at its making
\* can leave one that is not whole.
THEOREM ServesWholeAlways == Spec => []ServesWhole
<1>1. ASSUME FInv, pc = "serving" PROVE catalogs /\ (interrupted \/ ran = Wanted(feed))
  <2>1. TypeOK /\ Made /\ WholeOrNot
    BY <1>1 DEF FInv
  <2>2. catalogs /\ PG_VERSION /\ ~Creating
    BY <1>1, <2>1 DEF Made, Creating, Making, TypeOK
  <2>3. interrupted \/ Whole
    BY <2>1, <2>2 DEF WholeOrNot
  <2> QED
    BY <2>1, <2>2, <2>3, WholeIsWanted
<1>2. FInv => ServesWhole
  BY <1>1 DEF ServesWhole
<1> QED
  BY <1>2, InitFeed, StepFeed, PTL DEF Spec
=============================================================================
