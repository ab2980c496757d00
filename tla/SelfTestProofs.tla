--------------------------- MODULE SelfTestProofs ---------------------------
(***************************************************************************)
(* The safety properties of SelfTest, for every amount of output and every *)
(* place of the banner in it.  IInv of SelfTestInv is shown to be          *)
(* inductive; the properties follow.                                       *)
(***************************************************************************)
EXTENDS SelfTestInv, SequenceTheorems, TLAPS

----------------------------------------------------------------------------
(* Text                                                                    *)

\* A text has natural length, and its positions count from one.
LEMMA TextFacts ==
  ASSUME NEW s \in Seq(Unit)
  PROVE  /\ Len(s) \in Nat /\ DOMAIN s = 1 .. Len(s)
         /\ \A i \in DOMAIN s : s[i] \in Unit
BY LenProperties

\* A text after a text.
LEMMA TextAfter ==
  ASSUME NEW s \in Seq(Unit), NEW t \in Seq(Unit)
  PROVE  /\ s \o t \in Seq(Unit)
         /\ Len(s \o t) = Len(s) + Len(t)
         /\ \A i \in DOMAIN s : i \in DOMAIN (s \o t) /\ (s \o t)[i] = s[i]
         /\ \A i \in DOMAIN t : Len(s) + i \in DOMAIN (s \o t) /\ (s \o t)[Len(s) + i] = t[i]
         /\ \A i \in DOMAIN (s \o t) :
              i \in DOMAIN s \/ \E k \in DOMAIN t : i = Len(s) + k
<1>1. s \o t \in Seq(Unit) /\ Len(s \o t) = Len(s) + Len(t) BY ConcatProperties
<1>2. /\ Len(s) \in Nat /\ DOMAIN s = 1 .. Len(s)
      /\ Len(t) \in Nat /\ DOMAIN t = 1 .. Len(t)
      /\ DOMAIN (s \o t) = 1 .. Len(s) + Len(t)
  BY <1>1, TextFacts
<1>3. \A i \in 1 .. Len(s) + Len(t) :
        (s \o t)[i] = IF i <= Len(s) THEN s[i] ELSE t[i - Len(s)]
  BY ConcatProperties
<1>4. \A i \in DOMAIN s : i \in DOMAIN (s \o t) /\ (s \o t)[i] = s[i]
  BY <1>2, <1>3
<1>5. ASSUME NEW i \in DOMAIN t
      PROVE  Len(s) + i \in DOMAIN (s \o t) /\ (s \o t)[Len(s) + i] = t[i]
  <2>1. /\ Len(s) + i \in 1 .. Len(s) + Len(t)
        /\ ~(Len(s) + i <= Len(s)) /\ Len(s) + i - Len(s) = i
    BY <1>2
  <2> QED BY <1>2, <1>3, <2>1
<1>6. ASSUME NEW i \in DOMAIN (s \o t)
      PROVE  i \in DOMAIN s \/ \E k \in DOMAIN t : i = Len(s) + k
  <2>1. CASE i <= Len(s) BY <1>2, <2>1
  <2>2. CASE i > Len(s)
    <3>1. i - Len(s) \in DOMAIN t /\ i = Len(s) + (i - Len(s)) BY <1>2, <2>2
    <3> QED BY <3>1
  <2> QED BY <1>2, <2>1, <2>2
<1> QED BY <1>1, <1>4, <1>5, <1>6

\* What is said of two texts holds of one after the other, and the other way round.
LEMMA JoinedText ==
  ASSUME NEW s \in Seq(Unit), NEW t \in Seq(Unit)
  PROVE  /\ \A w : AllWrote(s, w) /\ AllWrote(t, w) => AllWrote(s \o t, w)
         /\ Pure(s \o t) <=> Pure(s) /\ Pure(t)
         /\ \A n \in Nat : From(s, n) /\ From(t, n + Len(s)) => From(s \o t, n)
<1>1. \A w : AllWrote(s, w) /\ AllWrote(t, w) => AllWrote(s \o t, w)
  BY TextAfter DEF AllWrote
<1>2. Pure(s \o t) <=> Pure(s) /\ Pure(t)
  <2>1. ASSUME Pure(s \o t) PROVE Pure(s) BY <2>1, TextAfter DEF Pure
  <2>2. ASSUME Pure(s \o t) PROVE Pure(t)
    <3>1. \A i \in DOMAIN t : Len(s) + i \in DOMAIN (s \o t) /\ (s \o t)[Len(s) + i] = t[i]
      BY TextAfter
    <3> QED BY <2>2, <3>1 DEF Pure
  <2>3. ASSUME Pure(s), Pure(t) PROVE Pure(s \o t) BY <2>3, TextAfter DEF Pure
  <2> QED BY <2>1, <2>2, <2>3
<1>3. ASSUME NEW n \in Nat, From(s, n), From(t, n + Len(s)) PROVE From(s \o t, n)
  <2>1. Len(s) \in Nat /\ DOMAIN t \subseteq Nat BY TextFacts
  <2>2. ASSUME NEW i \in DOMAIN (s \o t) PROVE (s \o t)[i].n = n + i
    <3>1. CASE i \in DOMAIN s BY <1>3, <3>1, TextAfter DEF From
    <3>2. CASE \E k \in DOMAIN t : i = Len(s) + k
      <4>1. PICK k \in DOMAIN t : i = Len(s) + k BY <3>2
      <4>2. (s \o t)[i] = t[k] /\ t[k].n = n + Len(s) + k BY <1>3, <4>1, TextAfter DEF From
      <4> QED BY <2>1, <4>1, <4>2
    <3> QED BY <3>1, <3>2, TextAfter
  <2> QED BY <2>2 DEF From
<1> QED BY <1>1, <1>2, <1>3

\* There is no output in no text.
LEMMA NoText ==
  /\ << >> \in Seq(Unit) /\ Len(<< >>) = 0 /\ DOMAIN << >> = {}
  /\ Pure(<< >>) /\ \A w : AllWrote(<< >>, w)
  /\ \A n : From(<< >>, n)
  /\ ~Contains(<< >>)
BY EmptySeq DEF Pure, AllWrote, From, Contains

\* An interval from one tells its end.
LEMMA OneInterval ==
  ASSUME NEW m \in Nat, NEW n \in Nat, 1 .. m = 1 .. n
  PROVE  m = n
<1>1. n \in 1 .. m \/ n = 0 OBVIOUS
<1>2. m \in 1 .. n \/ m = 0 OBVIOUS
<1> QED BY <1>1, <1>2

\* What a reader sends is the last of what it has taken.
LEMMA ChunkFacts ==
  ASSUME IInv, NEW r \in Run, NEW p \in Stream
  PROVE  /\ Chunk(r, p) \in Seq(Unit)
         /\ Len(Chunk(r, p)) = hand[r][p]
         /\ DOMAIN Chunk(r, p) = 1 .. hand[r][p]
         /\ AllWrote(Chunk(r, p), written)
         /\ Pure(Chunk(r, p)) <=> p = "stdout" \/ hand[r][p] = 0
         /\ From(Chunk(r, p), taken[r][p] - hand[r][p])
<1>1. /\ hand[r][p] \in Nat /\ taken[r][p] \in Nat /\ written[r][p] \in Nat
      /\ hand[r][p] <= taken[r][p] /\ taken[r][p] <= written[r][p]
      /\ written[r][p] <= MaxOutput
  BY BackendAssumption DEF IInv, TypeOK, BackendTypeOK, OutputInv
<1> DEFINE first == taken[r][p] - hand[r][p] + 1
<1> DEFINE cut == (Wide \cap {taken[r][p]}) \cup {n \in {first} : n - 1 \in Wide}
<1>2. ASSUME NEW i \in 1 .. hand[r][p]
      PROVE  [run |-> r, stream |-> p, n |-> first + i - 1, intact |-> first + i - 1 \notin cut] \in Unit
  <2>1. first + i - 1 \in 1 .. MaxOutput BY <1>1, BackendAssumption
  <2>2. first + i - 1 \in cut => PartOfWide(first + i - 1) BY DEF PartOfWide
  <2> HIDE DEF first, cut
  <2> QED BY <2>1, <2>2 DEF Unit
<1>3. Chunk(r, p) \in [1 .. hand[r][p] -> Unit]
  <2>1. Chunk(r, p) =
          [i \in 1 .. hand[r][p] |->
             [run |-> r, stream |-> p, n |-> first + i - 1, intact |-> first + i - 1 \notin cut]]
    BY DEF Chunk
  <2> HIDE DEF first, cut
  <2> QED BY <1>2, <2>1
<1>4. Chunk(r, p) \in Seq(Unit) BY <1>1, <1>3, SeqDef
<1>5. DOMAIN Chunk(r, p) = 1 .. hand[r][p] BY <1>3
<1>6. Len(Chunk(r, p)) = hand[r][p]
  <2>1. Len(Chunk(r, p)) \in Nat /\ 1 .. Len(Chunk(r, p)) = 1 .. hand[r][p]
    BY <1>4, <1>5, TextFacts
  <2> QED BY <1>1, <2>1, OneInterval
<1>7. ASSUME NEW i \in 1 .. hand[r][p]
      PROVE  /\ Chunk(r, p)[i].run = r
             /\ Chunk(r, p)[i].stream = p
             /\ Chunk(r, p)[i].n = taken[r][p] - hand[r][p] + i
  <2>1. /\ Chunk(r, p)[i].run = r /\ Chunk(r, p)[i].stream = p
        /\ Chunk(r, p)[i].n = taken[r][p] - hand[r][p] + 1 + i - 1
    BY <1>7 DEF Chunk
  <2> QED BY <1>1, <2>1
<1>8. AllWrote(Chunk(r, p), written) BY <1>1, <1>5, <1>7 DEF AllWrote
<1>9. Pure(Chunk(r, p)) <=> p = "stdout" \/ hand[r][p] = 0
  <2>1. CASE hand[r][p] = 0 BY <1>5, <2>1 DEF Pure
  <2>2. CASE hand[r][p] # 0
    <3>1. 1 \in DOMAIN Chunk(r, p) BY <1>1, <1>5, <2>2
    <3> QED BY <1>5, <1>7, <2>2, <3>1 DEF Pure
  <2> QED BY <2>1, <2>2
<1>10. From(Chunk(r, p), taken[r][p] - hand[r][p])
  BY <1>5, <1>7 DEF From
<1> QED BY <1>4, <1>5, <1>6, <1>8, <1>9, <1>10

----------------------------------------------------------------------------
(* The steps of run_self_test                                              *)

\* A step that leaves the engine, its output and the log alone.
LEMMA KeepsText ==
  ASSUME IInv, UNCHANGED <<Inside, chan, log>>
  PROVE  OutputInv' /\ OrderInv'
<1> USE DEF Inside, fieldVars, engineVars, readerVars
<1>1. OutputInv' BY DEF IInv, OutputInv
<1>2. OrderInv' BY DEF IInv, OrderInv
<1> QED BY <1>1, <1>2

\* Calls of Backend, and what the self-test does with what it returned.
LEMMA KeepsCalls ==
  ASSUME IInv, Missing \/ Start \/ Started \/ StartFailed \/ Stop \/ Report
  PROVE  IInv'
<1> USE DEF Inside, fieldVars, engineVars, readerVars, Missing, Start, Started,
            StartFailed, Stop, Report, Exit, call, write_report
<1>1. UNCHANGED <<Inside, chan, log, expired, passed>> OBVIOUS
<1>2. TypeOK'
  <2>1. BackendTypeOK' BY DEF IInv, TypeOK, BackendTypeOK, Call, Step
  <2>2. report' \in {"none", "passed", "failed"} BY DEF IInv, TypeOK
  <2> QED BY <2>1, <2>2 DEF IInv, TypeOK
<1>3. ControlInv'
  <2>1. runs = 0 => rx = NoRun BY DEF IInv, FreshInv
  <2> QED BY <2>1 DEF IInv, ControlInv, BeforeSpawn, AfterStopped, Alive
<1>4. FreshInv' BY DEF IInv, FreshInv
<1>5. OutputInv' /\ OrderInv' BY <1>1, KeepsText
<1>6. VerdictInv'
  <2>1. passed <=> Contains(log) BY DEF IInv, ControlInv, VerdictInv
  <2>2. Contains(log)' <=> Contains(log) BY DEF Contains
  <2>3. st # "exit" BY DEF IInv, ControlInv
  <2>4. code # "success" BY <2>3 DEF IInv, VerdictInv
  <2>5. code' = "success" => passed /\ st' = "exit" BY <2>4
  <2>6. passed' <=> Contains(log)' BY <1>1, <2>1, <2>2
  <2> QED BY <1>1, <2>5, <2>6 DEF VerdictInv
<1> QED BY <1>2, <1>3, <1>4, <1>5, <1>6 DEF IInv

\* The loop between two polls: the verdict, the sleep and the clock.
LEMMA KeepsLoop ==
  ASSUME IInv, Search \/ Sleep \/ TimeIsOver \/ Expire
  PROVE  IInv'
<1> USE DEF Inside, fieldVars, engineVars, readerVars, backendVars
<1>1. /\ UNCHANGED <<backendVars, log, report, code>>
      /\ st' \in {"loop", "search", "sleep", "stop"}
      /\ st \in {"loop", "search", "sleep"}
  BY DEF Search, Sleep, TimeIsOver, Expire, Polling
<1>2. pc = "idle" BY <1>1 DEF IInv, ControlInv
<1>3. /\ expired' \in BOOLEAN /\ passed' \in BOOLEAN
      /\ st' # "search" => (passed' <=> Contains(log)')
  <2>0. Contains(log)' <=> Contains(log) BY <1>1 DEF Contains
  <2>1. CASE Search
    <3>1. Contains(log) \in BOOLEAN BY Zenon DEF Contains
    <3> QED BY <2>0, <2>1, <3>1 DEF Search, IInv, TypeOK
  <2>2. CASE Sleep \/ TimeIsOver \/ Expire
    <3>1. passed' = passed /\ (st' # "search" => st # "search") /\ expired' \in {expired, TRUE}
      BY <2>2 DEF Sleep, TimeIsOver, Expire
    <3>2. st # "search" => (passed <=> Contains(log)) BY DEF IInv, VerdictInv
    <3>3. expired \in BOOLEAN /\ passed \in BOOLEAN BY DEF IInv, TypeOK
    <3>4. expired' \in BOOLEAN BY <3>1, <3>3
    <3>5. passed' \in BOOLEAN BY <3>1, <3>3
    <3>6. st' # "search" => (passed' <=> Contains(log)') BY <2>0, <3>1, <3>2
    <3> QED BY <3>4, <3>5, <3>6
  <2> QED BY <2>1, <2>2
<1>4. TypeOK' BY <1>1, <1>3 DEF IInv, TypeOK, BackendTypeOK
<1>5. ControlInv' BY <1>1, <1>2 DEF IInv, ControlInv, BeforeSpawn, AfterStopped, Alive
<1>6. FreshInv' BY <1>1 DEF IInv, FreshInv
<1>7. OutputInv' /\ OrderInv' BY <1>1, KeepsText
<1>8. VerdictInv' BY <1>1, <1>3 DEF IInv, VerdictInv
<1> QED BY <1>4, <1>5, <1>6, <1>7, <1>8 DEF IInv

\* A poll: what was in the channel is at the end of the log.
LEMMA KeepsDrain ==
  ASSUME IInv, Drain
  PROVE  IInv'
<1> USE DEF Inside, fieldVars, engineVars, readerVars
<1>1. /\ pc = "idle" /\ st = "loop" /\ st' = "search"
      /\ UNCHANGED <<pc, caller, Inside, expired, passed, report, code>>
      /\ log' = log \o drain_log /\ chan' = Emptied
  BY DEF Drain
<1>2. /\ log \in Seq(Unit) /\ chan \in [Run -> Seq(Unit)] /\ rx \in Run \cup {NoRun}
      /\ taken \in [Run -> [Stream -> Nat]] /\ hand \in [Run -> [Stream -> Nat]]
  BY BackendAssumption DEF IInv, TypeOK, BackendTypeOK
<1>3. CASE rx = NoRun
  <2>1. log' = log /\ chan' = chan
    BY <1>1, <1>2, <1>3, ConcatEmptySeq DEF drain_log, Emptied
  <2>2. TypeOK' BY <1>1, <2>1 DEF IInv, TypeOK, BackendTypeOK
  <2>3. ControlInv' BY <1>1 DEF IInv, ControlInv, BeforeSpawn, AfterStopped, Alive
  <2>4. FreshInv' BY <1>1, <2>1 DEF IInv, FreshInv
  <2>5. OutputInv' /\ OrderInv' BY <1>1, <2>1, KeepsText
  <2>6. VerdictInv' BY <1>1 DEF IInv, VerdictInv
  <2> QED BY <2>2, <2>3, <2>4, <2>5, <2>6 DEF IInv
<1>4. CASE rx # NoRun
  <2> DEFINE t == chan[rx]
  <2>1. /\ rx \in Run /\ t \in Seq(Unit)
        /\ log' = log \o t
        /\ chan' \in [Run -> Seq(Unit)]
        /\ \A r \in Run : chan'[r] = IF r = rx THEN << >> ELSE chan[r]
    BY <1>1, <1>2, <1>4, NoText DEF drain_log, Emptied
  <2> HIDE DEF t
  <2>2. log' \in Seq(Unit) /\ Len(log') = Len(log) + Len(t) BY <1>2, <2>1, TextAfter
  <2>3. TypeOK' BY <1>1, <2>1, <2>2 DEF IInv, TypeOK, BackendTypeOK
  <2>4. ControlInv' BY <1>1 DEF IInv, ControlInv, BeforeSpawn, AfterStopped, Alive
  <2>5. FreshInv'
    <3>1. runs # 0 BY <1>4 DEF IInv, FreshInv
    <3> QED BY <1>1, <2>1, <3>1 DEF IInv, FreshInv
  <2>6. OutputInv'
    <3>1. AllWrote(log, written) /\ AllWrote(t, written)
      BY <2>1 DEF IInv, OutputInv, t
    <3>2. AllWrote(log', written) BY <1>2, <2>1, <3>1, JoinedText
    <3>3. \A r \in Run : AllWrote(chan'[r], written)
      BY <2>1, NoText DEF IInv, OutputInv
    <3> QED BY <1>1, <3>2, <3>3 DEF IInv, OutputInv
  <2>7. OrderInv'
    <3>1. SUFFICES ASSUME Pure(log')
                   PROVE  /\ From(log', 0)
                          /\ From(<< >>, Len(log'))
                          /\ Len(log') + Len(<< >>) + hand[rx]["stdout"] = taken[rx]["stdout"]
      BY <1>1, <2>1 DEF OrderInv, Pure, From
    <3>2. Pure(log) /\ Pure(t) BY <1>2, <2>1, <3>1, JoinedText
    <3>3. /\ From(log, 0) /\ From(t, Len(log))
          /\ Len(log) + Len(t) + hand[rx]["stdout"] = taken[rx]["stdout"]
      BY <1>4, <3>2 DEF IInv, OrderInv, t
    <3>4. Len(log) \in Nat /\ Len(t) \in Nat BY <1>2, <2>1, TextFacts
    <3>5. From(t, 0 + Len(log)) BY <3>3, <3>4
    <3>6. From(log', 0) BY <1>2, <2>1, <3>3, <3>5, JoinedText
    <3>7. hand[rx]["stdout"] \in Nat BY <1>2, <2>1 DEF Stream
    <3> QED BY <2>2, <3>3, <3>4, <3>6, <3>7, NoText
  <2>8. VerdictInv' BY <1>1 DEF IInv, VerdictInv
  <2> QED BY <2>3, <2>4, <2>5, <2>6, <2>7, <2>8 DEF IInv
<1> QED BY <1>3, <1>4

----------------------------------------------------------------------------
(* Steps of Backend                                                        *)

\* The variables of the self-test, and its verdict, are its own.
LEMMA KeepsTypes ==
  ASSUME IInv, UNCHANGED testVars, BackendTypeOK'
  PROVE  TypeOK'
<1>1. UNCHANGED <<st, log, expired, passed, report, code>> BY DEF testVars
<1> QED BY <1>1 DEF IInv, TypeOK

LEMMA KeepsVerdict ==
  ASSUME IInv, UNCHANGED testVars
  PROVE  VerdictInv'
<1>1. UNCHANGED <<st, log, passed, code>> BY DEF testVars
<1>2. Contains(log)' <=> Contains(log) BY <1>1 DEF Contains
<1> QED BY <1>1, <1>2 DEF IInv, VerdictInv

LEMMA KeepsKill ==
  ASSUME IInv, Kill, UNCHANGED testVars
  PROVE  IInv'
<1> USE DEF Kill, fieldVars, engineVars, readerVars, testVars
<1>1. pc' \in {"wait", "mkdir", "stopped", "gone"} /\ AfterStop \in {"mkdir", "stopped", "gone"}
  BY DEF AfterStop, IInv, TypeOK, BackendTypeOK, Call
<1>2. TypeOK'
  <2>1. engine' \in [Run -> {"none", "running", "killed", "exited"}]
    BY DEF IInv, TypeOK, BackendTypeOK
  <2>2. child' \in Run \cup {NoRun} /\ victim' \in Run \cup {NoRun}
    BY DEF IInv, TypeOK, BackendTypeOK
  <2> QED BY <1>1, <2>1, <2>2 DEF IInv, TypeOK, BackendTypeOK, Step, Return
<1>3. ControlInv'
  <2>1. \A r \in Run : Alive(r)' => Alive(r)
    BY DEF IInv, TypeOK, BackendTypeOK, Alive
  <2>2. \A r \in Run : Alive(r)' => r = child' \/ r = victim'
    BY <2>1 DEF IInv, ControlInv, Run, NoRun
  <2>3. st \notin {"check", "loop", "search", "sleep", "stop"}
    BY DEF IInv, ControlInv
  <2>4. st = "exit" => caller = "drop" /\ pc' \in {"wait", "gone"}
    BY DEF IInv, ControlInv, AfterStop
  <2>5. BeforeSpawn' => runs = 0
    BY <1>1, <2>3 DEF IInv, TypeOK, BackendTypeOK, ControlInv, AfterStop, BeforeSpawn, Call
  <2>6. /\ pc' # "wait" => victim' = NoRun /\ child' = rx
        /\ pc' = "wait" => victim' # NoRun /\ victim' = rx /\ child' = NoRun
        /\ pc' \in AfterStopped => child' = NoRun
    BY <1>1 DEF IInv, ControlInv, AfterStopped
  <2> QED BY <2>2, <2>3, <2>4, <2>5, <2>6 DEF ControlInv
<1>4. FreshInv' BY DEF IInv, FreshInv
<1>5. OutputInv' /\ OrderInv' BY DEF IInv, OutputInv, OrderInv
<1> QED BY <1>2, <1>3, <1>4, <1>5, KeepsVerdict DEF IInv

LEMMA KeepsWait ==
  ASSUME IInv, Wait, UNCHANGED testVars
  PROVE  IInv'
<1> USE DEF Wait, fieldVars, engineVars, readerVars, testVars
<1>1. pc' \in {"mkdir", "stopped", "gone"}
  BY DEF AfterStop, IInv, TypeOK, BackendTypeOK, Call
<1>2. /\ victim \in Run
      /\ chan' \in [Run -> Seq(Unit)]
      /\ \A r \in Run : chan'[r] = IF r = victim THEN << >> ELSE chan[r]
  BY NoText DEF IInv, TypeOK, BackendTypeOK, ControlInv, NoRun
<1>3. TypeOK'
  BY <1>1, <1>2 DEF IInv, TypeOK, BackendTypeOK, Step, Return
<1>4. ControlInv'
  BY DEF IInv, TypeOK, BackendTypeOK, ControlInv, AfterStop, AfterStopped, BeforeSpawn, Call, Alive
<1>5. FreshInv' BY <1>1, <1>2 DEF IInv, FreshInv
<1>6. OutputInv' BY <1>2, NoText DEF IInv, OutputInv
<1>7. OrderInv' BY DEF IInv, OrderInv
<1> QED BY <1>3, <1>4, <1>5, <1>6, <1>7, KeepsVerdict DEF IInv

\* The steps of start that touch the run directory.
LEMMA KeepsPreparation ==
  ASSUME IInv, MakeDir \/ WriteDisk \/ WriteDiskPanics \/ CopyVars, UNCHANGED testVars
  PROVE  IInv'
<1> USE DEF MakeDir, WriteDisk, WriteDiskPanics, CopyVars, OrError, call,
            fieldVars, engineVars, readerVars, testVars
<1>1. \/ pc' \in {"write_disk", "copy_vars", "spawn", "err"}
      \/ pc' = "stop" /\ caller' = "drop"
  BY DEF IInv
<1>2. TypeOK' BY <1>1 DEF IInv, TypeOK, BackendTypeOK, Step, Return, Call
<1>3. ControlInv'
  BY DEF IInv, ControlInv, AfterStopped, BeforeSpawn, Alive
<1>4. FreshInv' BY DEF IInv, FreshInv
<1>5. OutputInv' /\ OrderInv' BY DEF IInv, OutputInv, OrderInv
<1> QED BY <1>2, <1>3, <1>4, <1>5, KeepsVerdict DEF IInv

LEMMA KeepsSpawn ==
  ASSUME IInv, Spawn, UNCHANGED testVars
  PROVE  IInv'
<1> USE DEF fieldVars, engineVars, readerVars, testVars
<1>0. /\ pc = "spawn" /\ runs = 0 /\ child = NoRun /\ victim = NoRun /\ rx = NoRun
      /\ log = << >> /\ st \notin {"check", "loop", "search", "sleep", "stop", "exit"}
  BY DEF Spawn, IInv, ControlInv, FreshInv, AfterStopped, BeforeSpawn
<1>1. CASE pc' = "err" /\ UNCHANGED <<fieldVars, runs, engine, reader>>
  <2> USE <1>0, <1>1 DEF Spawn
  <2>1. TypeOK' BY DEF IInv, TypeOK, BackendTypeOK, Return
  <2>2. ControlInv' BY DEF IInv, ControlInv, AfterStopped, BeforeSpawn, Alive
  <2>3. FreshInv' BY DEF IInv, FreshInv
  <2>4. OutputInv' /\ OrderInv' BY DEF IInv, OutputInv, OrderInv
  <2> QED BY <2>1, <2>2, <2>3, <2>4, KeepsVerdict DEF IInv
<1>2. CASE pc' # "err"
  <2>1. /\ runs' = 1 /\ 1 \in Run /\ pc' = "ok"
        /\ engine' = [engine EXCEPT ![1] = "running"]
        /\ reader' = [reader EXCEPT ![1] = [p \in Stream |-> "running"]]
        /\ child' = 1 /\ rx' = 1
        /\ UNCHANGED <<caller, victim, files, written, taken, hand, chan, testVars>>
    BY <1>0, <1>2, BackendAssumption DEF Spawn, Run
  <2>2. TypeOK'
    <3>1. engine' \in [Run -> {"none", "running", "killed", "exited"}]
      BY <2>1 DEF IInv, TypeOK, BackendTypeOK
    <3>2. reader' \in [Run -> [Stream -> {"none", "running", "done", "failed"}]]
      BY <2>1 DEF IInv, TypeOK, BackendTypeOK
    <3>3. runs' \in 0 .. MaxRuns BY <2>1, BackendAssumption
    <3> QED BY <2>1, <3>1, <3>2, <3>3 DEF IInv, TypeOK, BackendTypeOK, Return
  <2>3. ControlInv'
    <3>1. \A r \in Run : Alive(r)' => r = 1
      BY <1>0, <2>1 DEF IInv, TypeOK, BackendTypeOK, ControlInv, Alive, Run, NoRun
    <3> QED BY <1>0, <2>1, <3>1 DEF ControlInv, AfterStopped, BeforeSpawn, NoRun
  <2>4. /\ chan[1] = << >>
        /\ taken[1]["stdout"] = 0 /\ hand[1]["stdout"] = 0
    BY <1>0, <2>1 DEF IInv, FreshInv, Stream
  <2>5. FreshInv'
    <3>1. \A r \in Run : r > runs' => r > runs /\ r # 1 BY <1>0, <2>1 DEF Run
    <3> QED BY <1>0, <2>1, <3>1 DEF IInv, TypeOK, BackendTypeOK, FreshInv
  <2>6. OutputInv' BY <2>1 DEF IInv, OutputInv
  <2>7. OrderInv'
    <3>1. Pure(log) /\ From(log, 0) /\ Len(log) = 0 BY <1>0, NoText
    <3> QED BY <2>1, <2>4, <3>1, NoText DEF OrderInv
  <2> QED BY <2>2, <2>3, <2>5, <2>6, <2>7, KeepsVerdict DEF IInv
<1> QED BY <1>1, <1>2 DEF Spawn

----------------------------------------------------------------------------
(* Engines and readers                                                     *)

\* A table of counts with one of them changed is a table of counts.
LEMMA OneCount ==
  ASSUME NEW f \in [Run -> [Stream -> 0 .. MaxOutput]],
         NEW r \in Run, NEW p \in Stream, NEW n \in 0 .. MaxOutput
  PROVE  LET g == [f EXCEPT ![r][p] = n]
         IN  /\ g \in [Run -> [Stream -> 0 .. MaxOutput]]
             /\ \A s \in Run, q \in Stream :
                  g[s][q] = IF s = r /\ q = p THEN n ELSE f[s][q]
OBVIOUS

\* More has been written.
LEMMA WroteMore ==
  ASSUME NEW text \in Seq(Unit), NEW v, AllWrote(text, written),
         written \in [Run -> [Stream -> 0 .. MaxOutput]],
         v \in [Run -> [Stream -> 0 .. MaxOutput]],
         \A s \in Run, q \in Stream : written[s][q] <= v[s][q]
  PROVE  AllWrote(text, v)
<1>1. ASSUME NEW i \in DOMAIN text PROVE text[i].n <= v[text[i].run][text[i].stream]
  <2>1. text[i] \in Unit BY <1>1, TextFacts
  <2>2. /\ text[i].run \in Run /\ text[i].stream \in Stream /\ text[i].n \in Nat
    BY <2>1 DEF Unit
  <2>3. /\ text[i].n <= written[text[i].run][text[i].stream]
        /\ written[text[i].run][text[i].stream] <= v[text[i].run][text[i].stream]
    BY <1>1, <2>2 DEF AllWrote
  <2>4. /\ written[text[i].run][text[i].stream] \in Nat
        /\ v[text[i].run][text[i].stream] \in Nat
    BY <2>2, BackendAssumption
  <2> QED BY <2>2, <2>3, <2>4
<1> QED BY <1>1 DEF AllWrote

LEMMA KeepsEngine ==
  ASSUME IInv, UNCHANGED testVars, NEW r \in Run, NEW p \in Stream,
         EngineWrites(r, p) \/ EngineExits(r)
  PROVE  IInv'
<1> USE DEF fieldVars, engineVars, readerVars, testVars
<1>1. /\ UNCHANGED <<pc, caller, child, rx, victim, files, runs>>
      /\ UNCHANGED <<reader, taken, hand, chan, testVars>>
  BY DEF EngineWrites, EngineExits
<1>2. /\ written \in [Run -> [Stream -> 0 .. MaxOutput]]
      /\ written' \in [Run -> [Stream -> 0 .. MaxOutput]]
      /\ \A s \in Run, q \in Stream : written[s][q] <= written'[s][q]
  <2>1. written \in [Run -> [Stream -> 0 .. MaxOutput]] BY DEF IInv, TypeOK, BackendTypeOK
  <2>2. CASE EngineWrites(r, p)
    <3> DEFINE n == written[r][p] + 1
    <3>1. written[r][p] \in 0 .. MaxOutput /\ n \in 0 .. MaxOutput
      BY <2>1, <2>2, BackendAssumption DEF EngineWrites
    <3>2. written' = [written EXCEPT ![r][p] = n]
      BY <2>1, <2>2 DEF EngineWrites
    <3>3. /\ written' \in [Run -> [Stream -> 0 .. MaxOutput]]
          /\ \A s \in Run, q \in Stream :
               written'[s][q] = IF s = r /\ q = p THEN n ELSE written[s][q]
      BY <2>1, <3>1, <3>2, OneCount
    <3>4. ASSUME NEW s \in Run, NEW q \in Stream PROVE written[s][q] <= written'[s][q]
      <4>1. written[s][q] \in 0 .. MaxOutput BY <2>1
      <4> QED BY <3>1, <3>3, <4>1
    <3> QED BY <2>1, <3>3, <3>4
  <2>3. CASE EngineExits(r)
    <3>1. \A s \in Run, q \in Stream : written[s][q] \in 0 .. MaxOutput BY <2>1
    <3> QED BY <2>1, <2>3, <3>1 DEF EngineExits
  <2> QED BY <2>2, <2>3
<1>3. /\ engine' \in [Run -> {"none", "running", "killed", "exited"}]
      /\ \A s \in Run : Alive(s)' => Alive(s)
  BY DEF EngineWrites, EngineExits, IInv, TypeOK, BackendTypeOK, Alive
<1>4. TypeOK'
  <2>1. BackendTypeOK' BY <1>1, <1>2, <1>3 DEF IInv, TypeOK, BackendTypeOK
  <2> QED BY <2>1, KeepsTypes
<1>5. ControlInv' BY <1>1, <1>3 DEF IInv, ControlInv, BeforeSpawn, AfterStopped
<1>6. FreshInv' BY <1>1 DEF IInv, FreshInv
<1>7. OutputInv'
  <2>1. ASSUME NEW s \in Run, NEW q \in Stream
        PROVE  hand'[s][q] <= taken'[s][q] /\ taken'[s][q] <= written'[s][q]
    <3>1. /\ hand[s][q] <= taken[s][q] /\ taken[s][q] <= written[s][q]
          /\ taken[s][q] \in Nat /\ written[s][q] \in Nat
      BY BackendAssumption DEF IInv, TypeOK, BackendTypeOK, OutputInv
    <3>2. written'[s][q] \in Nat /\ written[s][q] <= written'[s][q]
      BY <1>2, BackendAssumption
    <3> QED BY <1>1, <3>1, <3>2
  <2>2. \A s \in Run : chan[s] \in Seq(Unit) /\ AllWrote(chan[s], written)
    BY DEF IInv, TypeOK, BackendTypeOK, OutputInv
  <2>3. log \in Seq(Unit) /\ AllWrote(log, written) BY DEF IInv, TypeOK, OutputInv
  <2>4. \A s \in Run : AllWrote(chan[s], written') BY <1>2, <2>2, WroteMore
  <2>5. AllWrote(log, written') BY <1>2, <2>3, WroteMore
  <2> QED BY <1>1, <2>1, <2>4, <2>5 DEF OutputInv
<1>8. OrderInv' BY <1>1 DEF IInv, OrderInv
<1> QED BY <1>4, <1>5, <1>6, <1>7, <1>8, KeepsVerdict DEF IInv

\* The run of a reader that does something has been spawned.
LEMMA ReaderIsSpawned ==
  ASSUME IInv, NEW r \in Run, NEW p \in Stream, reader[r][p] # "none" \/ hand[r][p] > 0
  PROVE  ~(r > runs)
BY DEF IInv, FreshInv

\* A reader that ends, at the end of its stream or by an error.
LEMMA KeepsReaderEnd ==
  ASSUME IInv, UNCHANGED testVars, NEW r \in Run, NEW p \in Stream,
         ReadEof(r, p) \/ ReadFails(r, p)
  PROVE  IInv'
<1> USE DEF ReadEof, ReadFails, fieldVars, engineVars, readerVars, testVars
<1>1. /\ UNCHANGED <<pc, caller, child, rx, victim, files, runs, engine, written>>
      /\ UNCHANGED <<taken, hand, chan, testVars>>
      /\ ~(r > runs)
  BY ReaderIsSpawned
<1>2. PICK end \in {"done", "failed"} : reader' = [reader EXCEPT ![r][p] = end]
  OBVIOUS
<1>3. reader \in [Run -> [Stream -> {"none", "running", "done", "failed"}]]
  BY DEF IInv, TypeOK, BackendTypeOK
<1>4. reader' \in [Run -> [Stream -> {"none", "running", "done", "failed"}]]
  BY <1>2, <1>3
<1>5. TypeOK'
  <2>1. BackendTypeOK' BY <1>1, <1>4 DEF IInv, TypeOK, BackendTypeOK
  <2> QED BY <2>1, KeepsTypes
<1>6. ControlInv' BY <1>1 DEF IInv, ControlInv, BeforeSpawn, AfterStopped, Alive
<1>7. FreshInv'
  <2>1. \A s \in Run : s > runs => reader'[s] = reader[s] BY <1>1, <1>2, <1>3
  <2> QED BY <1>1, <2>1 DEF IInv, FreshInv
<1>8. OutputInv' BY <1>1 DEF IInv, OutputInv
<1>9. OrderInv' BY <1>1 DEF IInv, OrderInv
<1> QED BY <1>5, <1>6, <1>7, <1>8, <1>9, KeepsVerdict DEF IInv

LEMMA KeepsRead ==
  ASSUME IInv, UNCHANGED testVars, NEW r \in Run, NEW p \in Stream, Read(r, p)
  PROVE  IInv'
<1> USE DEF fieldVars, engineVars, readerVars, testVars
<1>1. /\ UNCHANGED <<pc, caller, child, rx, victim, files, runs, engine, written>>
      /\ UNCHANGED <<reader, chan, testVars>>
      /\ hand[r][p] = 0
      /\ ~(r > runs)
  BY ReaderIsSpawned DEF Read
<1>2. PICK n \in 1 .. written[r][p] - taken[r][p] :
        /\ taken' = [taken EXCEPT ![r][p] = @ + n]
        /\ hand' = [hand EXCEPT ![r][p] = n]
  BY DEF Read
<1>3. /\ written \in [Run -> [Stream -> 0 .. MaxOutput]]
      /\ taken \in [Run -> [Stream -> 0 .. MaxOutput]]
      /\ hand \in [Run -> [Stream -> 0 .. MaxOutput]]
      /\ \A s \in Run, q \in Stream :
           hand[s][q] <= taken[s][q] /\ taken[s][q] <= written[s][q]
  BY DEF IInv, TypeOK, BackendTypeOK, OutputInv
<1> DEFINE total == taken[r][p] + n
<1>4. /\ n \in 0 .. MaxOutput /\ total \in 0 .. MaxOutput
      /\ n <= total /\ total <= written[r][p]
  <2>1. written[r][p] \in 0 .. MaxOutput /\ taken[r][p] \in 0 .. MaxOutput BY <1>3
  <2> QED BY <2>1, BackendAssumption
<1>5. taken' = [taken EXCEPT ![r][p] = total] BY <1>2, <1>3
<1>6. total = taken[r][p] + n OBVIOUS
<1> HIDE DEF total
<1>7. /\ taken' \in [Run -> [Stream -> 0 .. MaxOutput]]
      /\ \A s \in Run, q \in Stream :
           taken'[s][q] = IF s = r /\ q = p THEN total ELSE taken[s][q]
  BY <1>3, <1>4, <1>5, OneCount
<1>8. /\ hand' \in [Run -> [Stream -> 0 .. MaxOutput]]
      /\ \A s \in Run, q \in Stream :
           hand'[s][q] = IF s = r /\ q = p THEN n ELSE hand[s][q]
  BY <1>2, <1>3, <1>4, OneCount
<1>9. TypeOK'
  <2>1. BackendTypeOK' BY <1>1, <1>7, <1>8 DEF IInv, TypeOK, BackendTypeOK
  <2> QED BY <2>1, KeepsTypes
<1>10. ControlInv' BY <1>1 DEF IInv, ControlInv, BeforeSpawn, AfterStopped, Alive
<1>11. FreshInv'
  <2>1. \A s \in Run, q \in Stream :
          s > runs => taken'[s][q] = taken[s][q] /\ hand'[s][q] = hand[s][q]
    BY <1>1, <1>7, <1>8
  <2> QED BY <1>1, <2>1 DEF IInv, FreshInv
<1>12. OutputInv'
  <2>1. SUFFICES ASSUME NEW s \in Run, NEW q \in Stream
                 PROVE  /\ hand'[s][q] <= taken'[s][q]
                        /\ taken'[s][q] <= written[s][q]
    BY <1>1 DEF IInv, OutputInv
  <2>2. CASE s = r /\ q = p
    <3>1. taken'[s][q] = total /\ hand'[s][q] = n BY <1>7, <1>8, <2>2
    <3> QED BY <1>4, <2>2, <3>1
  <2>3. CASE ~(s = r /\ q = p)
    <3>1. taken'[s][q] = taken[s][q] /\ hand'[s][q] = hand[s][q] BY <1>7, <1>8, <2>3
    <3> QED BY <1>3, <3>1
  <2> QED BY <2>2, <2>3
<1>13. OrderInv'
  <2>1. SUFFICES ASSUME rx # NoRun, Pure(log), Pure(chan[rx])
                 PROVE  Len(log) + Len(chan[rx]) + hand'[rx]["stdout"] = taken'[rx]["stdout"]
    BY <1>1 DEF IInv, OrderInv
  <2>2. /\ rx \in Run /\ "stdout" \in Stream
        /\ log \in Seq(Unit) /\ chan[rx] \in Seq(Unit)
    BY <2>1 DEF IInv, TypeOK, BackendTypeOK, Stream
  <2>3. Len(log) \in Nat /\ Len(chan[rx]) \in Nat BY <2>2, TextFacts
  <2>4. Len(log) + Len(chan[rx]) + hand[rx]["stdout"] = taken[rx]["stdout"]
    BY <2>1 DEF IInv, OrderInv
  <2>5. CASE r = rx /\ p = "stdout"
    <3>1. taken'[rx]["stdout"] = total /\ hand'[rx]["stdout"] = n
      BY <1>7, <1>8, <2>2, <2>5
    <3> QED BY <1>1, <1>4, <1>6, <2>3, <2>4, <2>5, <3>1
  <2>6. CASE ~(r = rx /\ p = "stdout")
    <3>1. taken'[rx]["stdout"] = taken[rx]["stdout"] /\ hand'[rx]["stdout"] = hand[rx]["stdout"]
      BY <1>7, <1>8, <2>2, <2>6
    <3> QED BY <2>4, <3>1
  <2> QED BY <2>5, <2>6
<1> QED BY <1>9, <1>10, <1>11, <1>12, <1>13, KeepsVerdict DEF IInv

LEMMA KeepsSend ==
  ASSUME IInv, UNCHANGED testVars, NEW r \in Run, NEW p \in Stream, Send(r, p)
  PROVE  IInv'
<1> USE DEF fieldVars, engineVars, readerVars, testVars
<1>1. /\ UNCHANGED <<pc, caller, child, rx, victim, files, runs, engine, written>>
      /\ UNCHANGED <<taken, testVars>>
      /\ hand' = [hand EXCEPT ![r][p] = 0]
      /\ hand[r][p] > 0
      /\ ~(r > runs)
  BY ReaderIsSpawned DEF Send
<1>2. /\ hand \in [Run -> [Stream -> 0 .. MaxOutput]]
      /\ taken \in [Run -> [Stream -> 0 .. MaxOutput]]
      /\ chan \in [Run -> Seq(Unit)]
      /\ reader \in [Run -> [Stream -> {"none", "running", "done", "failed"}]]
  BY DEF IInv, TypeOK, BackendTypeOK
<1>3. /\ hand' \in [Run -> [Stream -> 0 .. MaxOutput]]
      /\ \A s \in Run, q \in Stream :
           hand'[s][q] = IF s = r /\ q = p THEN 0 ELSE hand[s][q]
  <2>1. 0 \in 0 .. MaxOutput BY BackendAssumption
  <2> QED BY <1>1, <1>2, <2>1, OneCount
<1> DEFINE c == Chunk(r, p)
<1>4. /\ c \in Seq(Unit) /\ Len(c) = hand[r][p]
      /\ AllWrote(c, written)
      /\ Pure(c) <=> p = "stdout" \/ hand[r][p] = 0
      /\ From(c, taken[r][p] - hand[r][p])
  BY ChunkFacts
<1>5. /\ rx = r => chan' = [chan EXCEPT ![r] = chan[r] \o c] /\ reader' = reader
      /\ rx # r => chan' = chan /\ reader' = [reader EXCEPT ![r][p] = "failed"]
  BY <1>2 DEF Send
<1> HIDE DEF c
<1>6. /\ chan' \in [Run -> Seq(Unit)]
      /\ reader' \in [Run -> [Stream -> {"none", "running", "done", "failed"}]]
      /\ \A s \in Run : s # r => chan'[s] = chan[s] /\ reader'[s] = reader[s]
  <2>1. chan[r] \o c \in Seq(Unit) BY <1>2, <1>4, TextAfter
  <2>2. CASE rx = r BY <1>2, <1>5, <2>1, <2>2
  <2>3. CASE rx # r
    <3> DEFINE ended == [reader[r] EXCEPT ![p] = "failed"]
    <3>1. ended \in [Stream -> {"none", "running", "done", "failed"}] BY <1>2
    <3>2. chan' = chan /\ reader' = [reader EXCEPT ![r] = ended] BY <1>5, <2>3
    <3> HIDE DEF ended
    <3> QED BY <1>2, <3>1, <3>2
  <2> QED BY <2>2, <2>3
<1>7. TypeOK'
  <2>1. BackendTypeOK' BY <1>1, <1>3, <1>6 DEF IInv, TypeOK, BackendTypeOK
  <2> QED BY <2>1, KeepsTypes
<1>8. ControlInv' BY <1>1 DEF IInv, ControlInv, BeforeSpawn, AfterStopped, Alive
<1>9. FreshInv'
  <2>1. \A s \in Run : s > runs =>
          /\ chan'[s] = chan[s] /\ reader'[s] = reader[s]
          /\ \A q \in Stream : hand'[s][q] = hand[s][q]
    BY <1>1, <1>3, <1>6
  <2> QED BY <1>1, <2>1 DEF IInv, FreshInv
<1>10. OutputInv'
  <2>1. ASSUME NEW s \in Run, NEW q \in Stream
        PROVE  hand'[s][q] <= taken[s][q] /\ taken[s][q] <= written[s][q]
    <3>1. hand[s][q] <= taken[s][q] /\ taken[s][q] <= written[s][q]
      BY DEF IInv, OutputInv
    <3>2. taken[s][q] \in Nat BY <1>2, BackendAssumption
    <3>3. hand'[s][q] = 0 \/ hand'[s][q] = hand[s][q] BY <1>3
    <3> QED BY <3>1, <3>2, <3>3
  <2>2. \A s \in Run : AllWrote(chan[s], written) BY DEF IInv, OutputInv
  <2>3. AllWrote(chan[r] \o c, written) BY <1>2, <1>4, <2>2, JoinedText
  <2>4. \A s \in Run : AllWrote(chan'[s], written)
    <3>1. CASE rx = r BY <1>2, <1>5, <2>2, <2>3, <3>1
    <3>2. CASE rx # r BY <1>5, <2>2, <3>2
    <3> QED BY <3>1, <3>2
  <2> QED BY <1>1, <2>1, <2>4 DEF IInv, OutputInv
<1>11. OrderInv'
  <2>1. CASE rx # r
    <3>1. rx # NoRun => rx \in Run BY DEF IInv, TypeOK, BackendTypeOK
    <3>2. rx # NoRun => hand'[rx]["stdout"] = hand[rx]["stdout"]
      BY <1>3, <2>1, <3>1 DEF Stream
    <3> QED BY <1>1, <1>5, <2>1, <3>2 DEF IInv, OrderInv
  <2>2. CASE rx = r
    <3> DEFINE t == chan[r]
    <3>1. t \in Seq(Unit) /\ chan'[rx] = t \o c BY <1>2, <1>5, <2>2
    <3>2. log \in Seq(Unit) /\ (Pure(log) => From(log, 0)) BY DEF IInv, TypeOK, OrderInv
    <3> HIDE DEF t
    <3>3. ASSUME Pure(log), Pure(t \o c), rx # NoRun
          PROVE  /\ From(t \o c, Len(log))
                 /\ Len(log) + Len(t \o c) + hand'[rx]["stdout"] = taken[rx]["stdout"]
      <4>1. Pure(t) /\ Pure(c) BY <1>4, <3>1, <3>3, JoinedText
      <4>2. p = "stdout"
        <5>1. hand[r][p] # 0 BY <1>1, <1>2
        <5> QED BY <1>4, <4>1, <5>1
      <4>3. /\ From(t, Len(log))
            /\ Len(log) + Len(t) + hand[r][p] = taken[r][p]
        BY <2>2, <3>3, <4>1, <4>2 DEF IInv, OrderInv, t
      <4>4. Len(log) \in Nat /\ Len(t) \in Nat BY <3>1, <3>2, TextFacts
      <4>5. hand[r][p] \in Nat /\ taken[r][p] \in Nat BY <1>2, BackendAssumption
      <4>6. taken[r][p] - hand[r][p] = Len(log) + Len(t) BY <4>3, <4>4, <4>5
      <4>7. From(c, Len(log) + Len(t)) BY <1>4, <4>6
      <4>8. From(t \o c, Len(log)) BY <1>4, <3>1, <4>3, <4>4, <4>7, JoinedText
      <4>9. Len(t \o c) = Len(t) + hand[r][p] BY <1>4, <3>1, TextAfter
      <4>10. hand'[rx]["stdout"] = 0 BY <1>3, <2>2, <4>2
      <4> QED BY <2>2, <4>2, <4>3, <4>4, <4>5, <4>8, <4>9, <4>10
    <3> QED BY <1>1, <3>1, <3>2, <3>3 DEF OrderInv
  <2> QED BY <2>1, <2>2
<1> QED BY <1>7, <1>8, <1>9, <1>10, <1>11, KeepsVerdict DEF IInv

----------------------------------------------------------------------------
(* The invariant and what follows from it                                  *)

LEMMA InitInv == Init => IInv
<1> SUFFICES ASSUME Init PROVE IInv
  OBVIOUS
<1> USE DEF Init, BackendInit
<1>1. TypeOK
  <2>1. 0 \in 0 .. MaxOutput /\ 0 \in 0 .. MaxRuns BY BackendAssumption
  <2>2. << >> \in Seq(Unit) BY NoText
  <2>3. BackendTypeOK BY <2>1, <2>2 DEF BackendTypeOK, Call
  <2> QED BY <2>2, <2>3 DEF TypeOK
<1>2. ControlInv BY DEF ControlInv, AfterStopped, BeforeSpawn, Alive
<1>3. FreshInv BY DEF FreshInv
<1>4. OutputInv BY NoText DEF OutputInv
<1>5. OrderInv BY NoText DEF OrderInv
<1>6. VerdictInv BY NoText DEF VerdictInv
<1> QED BY <1>1, <1>2, <1>3, <1>4, <1>5, <1>6 DEF IInv

LEMMA NextInv == IInv /\ [Next]_vars => IInv'
<1> SUFFICES ASSUME IInv, [Next]_vars PROVE IInv'
  OBVIOUS
<1>1. CASE TestStep \/ Expire
  BY <1>1, KeepsCalls, KeepsLoop, KeepsDrain DEF TestStep
<1>2. CASE BackendStep /\ UNCHANGED testVars
  BY <1>2, KeepsKill, KeepsWait, KeepsPreparation, KeepsSpawn DEF BackendStep
<1>3. CASE EngineStep /\ UNCHANGED testVars
  <2>1. "stdout" \in Stream BY DEF Stream
  <2> QED BY <1>3, <2>1, KeepsEngine, KeepsReaderEnd DEF EngineStep
<1>4. CASE \E r \in Run, p \in Stream : ReaderStep(r, p) /\ UNCHANGED testVars
  BY <1>4, KeepsRead, KeepsReaderEnd, KeepsSend DEF ReaderStep
<1>5. CASE UNCHANGED vars
  <2>1. UNCHANGED <<backendVars, testVars>> BY <1>5 DEF vars
  <2> USE DEF backendVars, fieldVars, engineVars, readerVars
  <2>2. BackendTypeOK' BY <2>1 DEF IInv, TypeOK, BackendTypeOK
  <2>3. TypeOK' BY <2>1, <2>2, KeepsTypes
  <2>4. UNCHANGED <<st, log>> BY <2>1 DEF testVars
  <2>5. ControlInv' BY <2>1, <2>4 DEF IInv, ControlInv, BeforeSpawn, AfterStopped, Alive
  <2>6. FreshInv' BY <2>1, <2>4 DEF IInv, FreshInv
  <2>7. OutputInv' /\ OrderInv' BY <2>1, <2>4 DEF IInv, OutputInv, OrderInv
  <2> QED BY <2>1, <2>3, <2>5, <2>6, <2>7, KeepsVerdict DEF IInv
<1> QED BY <1>1, <1>2, <1>3, <1>4, <1>5 DEF Next

\* The inductive invariant holds in every reachable state of the self-test.
THEOREM Invariance == Spec => []IInv
BY InitInv, NextInv, PTL DEF Spec

\* Every variable of the self-test and of its Backend keeps its type.
THEOREM TypeCorrect == Spec => []TypeOK
<1>1. IInv => TypeOK BY DEF IInv
<1> QED BY <1>1, Invariance, PTL

\* However run_self_test ends, by any return or by a panic in start, no engine
\* is left running.
THEOREM NoEngineIsLeft == Spec => []NoEngineLeft
<1>1. IInv => NoEngineLeft
  BY DEF IInv, ControlInv, AfterStopped, NoEngineLeft, Run, NoRun
<1> QED BY <1>1, Invariance, PTL

\* The exit code of main says success only if the engine has written the banner
\* to its end.
THEOREM PassIsEarned == Spec => []PassMeansBooted
<1>1. ASSUME IInv, code = "success" PROVE \E r \in Run : written[r]["stdout"] >= BannerLast
  <2>1. Contains(log) BY <1>1 DEF IInv, VerdictInv
  <2>2. PICK i \in DOMAIN log : \A n \in BannerFirst .. BannerLast :
          LET k == i + (n - BannerFirst)
          IN  k \in DOMAIN log /\ log[k].stream = "stdout" /\ log[k].n = n
    BY <2>1 DEF Contains
  <2>3. BannerLast \in BannerFirst .. BannerLast BY BannerAssumption
  <2>4. PICK k \in DOMAIN log : log[k].stream = "stdout" /\ log[k].n = BannerLast
    BY <2>2, <2>3
  <2>5. log[k] \in Unit BY <1>1, TextFacts DEF IInv, TypeOK
  <2>6. log[k].run \in Run /\ BannerLast <= written[log[k].run]["stdout"]
    BY <1>1, <2>4, <2>5 DEF IInv, OutputInv, AllWrote, Unit
  <2>7. written[log[k].run]["stdout"] \in Nat
    BY <1>1, <2>6, BackendAssumption DEF IInv, TypeOK, BackendTypeOK, Stream
  <2> QED BY <2>6, <2>7, BannerAssumption
<1>2. IInv => PassMeansBooted BY <1>1 DEF PassMeansBooted
<1> QED BY <1>2, Invariance, PTL

\* However the polls cut the banner into pieces, log.contains finds it once it
\* has been drained, unless a message of the engine has come between.
THEOREM PiecesAreJoined == Spec => []DrainedBannerIsFound
<1>1. ASSUME IInv, st # "search", Overlooked(log) PROVE passed
  <2>1. Pure(log) BY <1>1 DEF Overlooked, Pure
  <2>2. \A i \in DOMAIN log : log[i].n = i
    <3>1. From(log, 0) BY <1>1, <2>1 DEF IInv, OrderInv
    <3>2. DOMAIN log \subseteq Nat BY <1>1, TextFacts DEF IInv, TypeOK
    <3> QED BY <3>1, <3>2 DEF From
  <2>3. BannerLast \in DOMAIN log BY <1>1, <2>2 DEF Overlooked
  <2>4. DOMAIN log = 1 .. Len(log) /\ Len(log) \in Nat
    BY <1>1, TextFacts DEF IInv, TypeOK
  <2>5. BannerFirst \in DOMAIN log BY <2>3, <2>4, BannerAssumption
  <2>6. ASSUME NEW n \in BannerFirst .. BannerLast
        PROVE  /\ BannerFirst + (n - BannerFirst) = n
               /\ n \in DOMAIN log /\ log[n].stream = "stdout" /\ log[n].n = n
    <3>1. n \in DOMAIN log BY <2>3, <2>4, BannerAssumption
    <3> QED BY <2>1, <2>2, <3>1, BannerAssumption DEF Pure
  <2>7. ASSUME NEW n \in BannerFirst .. BannerLast PROVE log[n].intact
    <3>1. log[n] \in Unit /\ log[n].n = n BY <1>1, <2>6, TextFacts DEF IInv, TypeOK
    <3>2. ~PartOfWide(n) BY BannerAssumption
    <3>3. log[n].intact \in BOOLEAN /\ (~log[n].intact => PartOfWide(n)) BY <3>1 DEF Unit
    <3> QED BY <3>2, <3>3
  <2>8. Contains(log) BY <2>5, <2>6, <2>7 DEF Contains
  <2> QED BY <1>1, <2>8 DEF IInv, VerdictInv
<1>2. IInv => DrainedBannerIsFound BY <1>1 DEF DrainedBannerIsFound
<1> QED BY <1>2, Invariance, PTL
=============================================================================
