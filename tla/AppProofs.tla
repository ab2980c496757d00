----------------------------- MODULE AppProofs -----------------------------
(***************************************************************************)
(* The safety properties of App, for every number of runs, amount of       *)
(* output, log capacity and length of the list.  ControlInv of AppInv is   *)
(* shown to be inductive, one lemma for each action; then ConsoleInv, with *)
(* its help and that of a few lemmas on counting the units of a stream;    *)
(* the properties follow from the two.                                     *)
(***************************************************************************)
EXTENDS AppInv, FiniteSetTheorems, FunctionTheorems, SequenceTheorems, TLAPS

----------------------------------------------------------------------------
(* Output: what a poll drains, the cap, and what a reader sends            *)

\* Every unit of text is of run r.
OfRun(text, r) == \A i \in DOMAIN text : text[i].run = r

\* Output of one run after output of the same run.
LEMMA ConcatOfRun ==
  ASSUME NEW s \in Seq(Unit), NEW t \in Seq(Unit), NEW r, OfRun(s, r), OfRun(t, r)
  PROVE  s \o t \in Seq(Unit) /\ OfRun(s \o t, r)
<1>1. s \o t \in Seq(Unit) BY ConcatProperties
<1>2. /\ Len(s) \in Nat /\ DOMAIN s = 1 .. Len(s)
      /\ Len(t) \in Nat /\ DOMAIN t = 1 .. Len(t)
      /\ DOMAIN (s \o t) = 1 .. Len(s \o t)
  BY <1>1, LenProperties
<1>3. ASSUME NEW i \in DOMAIN (s \o t) PROVE (s \o t)[i].run = r
  <2>1. /\ Len(s \o t) = Len(s) + Len(t)
        /\ (s \o t)[i] = IF i <= Len(s) THEN s[i] ELSE t[i - Len(s)]
    BY <1>2, <1>3, ConcatProperties
  <2>2. CASE i <= Len(s) BY <1>2, <1>3, <2>1, <2>2 DEF OfRun
  <2>3. CASE i > Len(s)
    <3>1. i - Len(s) \in DOMAIN t BY <1>2, <1>3, <2>1, <2>3
    <3> QED BY <1>2, <1>3, <2>1, <2>3, <3>1 DEF OfRun
  <2> QED BY <1>2, <1>3, <2>2, <2>3
<1> QED BY <1>1, <1>3 DEF OfRun

\* What is drained is output of the engine the Backend listens to, and the
\* channels still hold output of their own engines only.
LEMMA Drained ==
  ASSUME ControlInv
  PROVE  /\ drain_log \in Seq(Unit)
         /\ OfRun(drain_log, rx)
         /\ rx = NoRun => drain_log = << >>
         /\ Emptied \in [Run -> Seq(Unit)]
         /\ \A r \in Run : OfRun(Emptied[r], r)
<1>1. /\ chan \in [Run -> Seq(Unit)]
      /\ rx \in Run \cup {NoRun}
      /\ \A r \in Run : OfRun(chan[r], r)
  BY DEF ControlInv, TypeOK, BackendTypeOK, OutputInv, OfRun
<1>2. << >> \in Seq(Unit) /\ \A r : OfRun(<< >>, r)
  BY EmptySeq DEF OfRun
<1>3. CASE rx = NoRun
  BY <1>1, <1>2, <1>3 DEF drain_log, Emptied
<1>4. CASE rx # NoRun
  <2>1. rx \in Run BY <1>1, <1>4
  <2>2. drain_log = chan[rx] /\ Emptied = [chan EXCEPT ![rx] = << >>]
    BY <1>4 DEF drain_log, Emptied
  <2>3. \A r \in Run : Emptied[r] = IF r = rx THEN << >> ELSE chan[r]
    BY <1>1, <2>2
  <2> QED BY <1>1, <1>2, <1>4, <2>1, <2>2, <2>3
<1> QED BY <1>3, <1>4

\* The log with the drained output after it: all of one run, and of the current
\* one if there is one.
LEMMA Extended ==
  ASSUME ControlInv, pc = "idle"
  PROVE  LET text == log \o drain_log
         IN  /\ text \in Seq(Unit)
             /\ \A i, j \in DOMAIN text : text[i].run = text[j].run
             /\ rx # NoRun => OfRun(text, rx)
<1> DEFINE text == log \o drain_log
<1>1. log \in Seq(Unit) BY DEF ControlInv, TypeOK
<1>2. drain_log \in Seq(Unit) /\ OfRun(drain_log, rx) /\ (rx = NoRun => drain_log = << >>)
  BY Drained
<1>3. text \in Seq(Unit) BY <1>1, <1>2, ConcatProperties
<1>4. ASSUME rx # NoRun PROVE OfRun(text, rx)
  <2>1. OfRun(log, rx) BY <1>4 DEF ControlInv, OutputInv, OfRun
  <2> QED BY <1>1, <1>2, <2>1, ConcatOfRun
<1>5. CASE rx = NoRun
  <2>1. text = log BY <1>1, <1>2, <1>5, ConcatEmptySeq
  <2> QED BY <1>3, <1>5, <2>1 DEF ControlInv, OutputInv
<1>6. CASE rx # NoRun BY <1>3, <1>4, <1>6 DEF OfRun
<1> QED BY <1>5, <1>6

\* The cap keeps units of the text.
LEMMA CappedKeeps ==
  ASSUME NEW text \in Seq(Unit)
  PROVE  /\ Capped(text) \in Seq(Unit)
         /\ \A i \in DOMAIN Capped(text) : \E j \in DOMAIN text : Capped(text)[i] = text[j]
<1> DEFINE first == IF Len(text) > LogCap THEN Len(text) - LogCap + 1 ELSE 1
<1>1. Len(text) \in Nat /\ DOMAIN text = 1 .. Len(text) /\ text \in [1 .. Len(text) -> Unit]
  BY LenProperties
<1>2. first \in Nat /\ first >= 1 BY <1>1, AppAssumption
<1>3. Capped(text) = SubSeq(text, first, Len(text)) BY DEF Capped
<1> HIDE DEF first
<1>4. \A i \in first .. Len(text) : text[i] \in Unit BY <1>1, <1>2
<1>5. /\ Capped(text) \in Seq(Unit)
      /\ Len(Capped(text)) = IF first <= Len(text) THEN Len(text) - first + 1 ELSE 0
      /\ \A i \in 1 .. Len(text) - first + 1 : Capped(text)[i] = text[first + i - 1]
  BY <1>1, <1>2, <1>3, <1>4, SubSeqProperties
<1>6. DOMAIN Capped(text) = 1 .. Len(Capped(text)) BY <1>5, LenProperties
<1>7. ASSUME NEW i \in DOMAIN Capped(text)
      PROVE  \E j \in DOMAIN text : Capped(text)[i] = text[j]
  <2>1. first + i - 1 \in DOMAIN text /\ i \in 1 .. Len(text) - first + 1
    BY <1>1, <1>2, <1>5, <1>6, <1>7
  <2> QED BY <1>5, <2>1
<1> QED BY <1>5, <1>7

\* A count of units goes up by a natural number.
LEMMA ShownAfterType ==
  ASSUME shown \in [Stream -> Nat], NEW text \in Seq(Unit)
  PROVE  ShownAfter(text) \in [Stream -> Nat]
<1>1. Len(text) \in Nat /\ DOMAIN text = 1 .. Len(text) BY LenProperties
<1>2. IsFiniteSet(DOMAIN text) BY <1>1, FS_Interval
<1>3. ASSUME NEW p \in Stream
      PROVE  Cardinality({i \in DOMAIN text : text[i].stream = p}) \in Nat
  <2>1. IsFiniteSet({i \in DOMAIN text : text[i].stream = p})
    BY <1>2, FS_Subset
  <2> QED BY <2>1, FS_CardinalityType
<1> QED BY <1>3 DEF ShownAfter

\* What a reader sends is output of its own run.
LEMMA ChunkIsOfRun ==
  ASSUME ControlInv, NEW r \in Run, NEW p \in Stream
  PROVE  Chunk(r, p) \in Seq(Unit) /\ OfRun(Chunk(r, p), r)
<1>1. /\ hand[r][p] \in 0 .. MaxOutput
      /\ taken[r][p] \in 0 .. MaxOutput
      /\ hand[r][p] <= taken[r][p]
  BY DEF ControlInv, TypeOK, BackendTypeOK, ReadersInv
<1> DEFINE first == taken[r][p] - hand[r][p] + 1
<1> DEFINE last == taken[r][p]
<1> DEFINE cut == (Wide \cap {last}) \cup {n \in {first} : n - 1 \in Wide}
<1>2. ASSUME NEW i \in 1 .. hand[r][p]
      PROVE  [run |-> r, stream |-> p, n |-> first + i - 1, intact |-> first + i - 1 \notin cut] \in Unit
  <2>1. first + i - 1 \in 1 .. MaxOutput BY <1>1, BackendAssumption
  <2>2. first + i - 1 \in cut => PartOfWide(first + i - 1) BY DEF PartOfWide
  <2> HIDE DEF first, cut
  <2> QED BY <2>1, <2>2 DEF Unit
<1>3. Chunk(r, p) \in [1 .. hand[r][p] -> Unit]
  <2>1. Chunk(r, p) =
          [i \in 1 .. hand[r][p] |->
             [run |-> r, stream |-> p, n |-> first + i - 1, intact |-> first + i - 1 \notin cut]]
    BY DEF Chunk
  <2> HIDE DEF first, cut
  <2> QED BY <1>2, <2>1
<1>4. Chunk(r, p) \in Seq(Unit) BY <1>1, <1>3, SeqDef
<1>5. OfRun(Chunk(r, p), r) BY DEF Chunk, OfRun
<1> QED BY <1>4, <1>5

----------------------------------------------------------------------------
(* Frames                                                                  *)

\* Every frame that polls leaves the channels and the counts well formed.
LEMMA PollKeeps ==
  ASSUME ControlInv, Poll
  PROVE  /\ chan' \in [Run -> Seq(Unit)]
         /\ \A r \in Run : \A i \in DOMAIN chan'[r] : chan'[r][i].run = r
         /\ shown' \in [Stream -> Nat]
<1>1. /\ drain_log \in Seq(Unit)
      /\ Emptied \in [Run -> Seq(Unit)]
      /\ \A r \in Run : OfRun(Emptied[r], r)
  BY Drained
<1>2. shown \in [Stream -> Nat] BY DEF ControlInv, TypeOK
<1>3. ShownAfter(drain_log) \in [Stream -> Nat] BY <1>1, <1>2, ShownAfterType
<1> QED BY <1>1, <1>3 DEF Poll, OfRun

\* The log after the trim is as good as the log before.
LEMMA TrimKeeps ==
  ASSUME ControlInv, pc = "idle", NEW text,
         text = log \o drain_log \/ text = Capped(log \o drain_log) \/ text = << >>
  PROVE  /\ text \in Seq(Unit)
         /\ \A i, j \in DOMAIN text : text[i].run = text[j].run
         /\ rx # NoRun => \A i \in DOMAIN text : text[i].run = rx
<1> DEFINE whole == log \o drain_log
<1>1. /\ whole \in Seq(Unit)
      /\ \A i, j \in DOMAIN whole : whole[i].run = whole[j].run
      /\ rx # NoRun => \A i \in DOMAIN whole : whole[i].run = rx
  BY Extended DEF OfRun
<1>2. CASE text = whole BY <1>1, <1>2
<1> HIDE DEF whole
<1>3. CASE text = Capped(whole)
  <2>1. /\ Capped(whole) \in Seq(Unit)
        /\ \A i \in DOMAIN Capped(whole) :
             \E j \in DOMAIN whole : Capped(whole)[i] = whole[j]
    BY <1>1, CappedKeeps
  <2> QED BY <1>1, <1>3, <2>1
<1>4. CASE text = << >> BY <1>4, EmptySeq
<1> QED BY <1>2, <1>3, <1>4 DEF whole

LEMMA KeepsFrame ==
  ASSUME ControlInv, Frame
  PROVE  ControlInv'
<1> USE DEF Inside, fieldVars, engineVars, readerVars, listVars
<1>1. Poll /\ pc = "idle" BY DEF Frame, Poll
<1>2. /\ log' \in Seq(Unit)
      /\ \A i, j \in DOMAIN log' : log'[i].run = log'[j].run
      /\ rx # NoRun => \A i \in DOMAIN log' : log'[i].run = rx
  BY <1>1, TrimKeeps DEF Frame, Trim
<1>3. BackendTypeOK'
  BY <1>1, PollKeeps DEF Frame, ControlInv, TypeOK, BackendTypeOK
<1>4. vms' \in 1 .. MaxVms /\ selected' \in Nat /\ selected' < vms'
  <2>1. vms \in 1 .. MaxVms /\ selected \in Nat /\ selected < vms
    BY DEF ControlInv, TypeOK, SelectedIsListed
  <2>2. CASE UNCHANGED <<vms, selected>> BY <2>1, <2>2
  <2>3. CASE Select BY <2>1, <2>3 DEF Select
  <2>4. CASE NewVm BY <2>1, <2>4, AppAssumption DEF NewVm
  <2>5. CASE DeleteVm BY <2>1, <2>5, AppAssumption DEF DeleteVm
  <2> QED BY <2>2, <2>3, <2>4, <2>5 DEF Frame, OvmfButtons
<1>5. status' \in {status, "ovmf"} BY DEF Frame, OvmfButtons
<1>6. TypeOK' BY <1>1, <1>2, <1>3, <1>4, <1>5, PollKeeps DEF TypeOK, ControlInv
<1>7. FieldsInv' BY DEF Frame, ControlInv, FieldsInv, AfterStopped, BeforeSpawn
<1>8. EnginesInv' BY DEF Frame, ControlInv, EnginesInv, Alive
<1>9. OutputInv' BY <1>1, <1>2, PollKeeps DEF Frame, OutputInv
<1>10. ReadersInv' BY DEF Frame, ControlInv, ReadersInv
<1>11. StatusTellsOfEngine' BY <1>1, <1>5 DEF Frame, ControlInv, StatusTellsOfEngine
<1> QED BY <1>4, <1>6, <1>7, <1>8, <1>9, <1>10, <1>11 DEF ControlInv, SelectedIsListed

LEMMA KeepsClearLog ==
  ASSUME ControlInv, ClearLog
  PROVE  ControlInv'
<1> USE DEF Inside, fieldVars, engineVars, readerVars, listVars
<1>1. Poll /\ pc = "idle" BY DEF ClearLog, Poll
<1>2. log' = << >> /\ log' \in Seq(Unit) BY EmptySeq DEF ClearLog
<1>3. TypeOK'
  BY <1>1, <1>2, PollKeeps DEF ClearLog, ControlInv, TypeOK, BackendTypeOK
<1>4. FieldsInv' BY DEF ClearLog, ControlInv, FieldsInv, AfterStopped, BeforeSpawn
<1>5. EnginesInv' BY DEF ClearLog, ControlInv, EnginesInv, Alive
<1>6. OutputInv' BY <1>1, <1>2, PollKeeps DEF ClearLog, OutputInv
<1>7. ReadersInv' BY DEF ClearLog, ControlInv, ReadersInv
<1>8. SelectedIsListed' /\ StatusTellsOfEngine'
  BY DEF ClearLog, ControlInv, SelectedIsListed, StatusTellsOfEngine
<1> QED BY <1>3, <1>4, <1>5, <1>6, <1>7, <1>8 DEF ControlInv

\* A frame that ends in a call of Backend: a click on start, reset or stop, or
\* the unwinding of a panic.
LEMMA KeepsCalls ==
  ASSUME ControlInv, ClickStart \/ ClickStop \/ TrimPanics
  PROVE  ControlInv'
<1> USE DEF Inside, fieldVars, engineVars, readerVars, listVars
<1>1. /\ Poll
      /\ pc = "idle" /\ pc' = "stop"
      /\ caller' \in Call
      /\ caller' = "start" => runs < MaxRuns
      /\ UNCHANGED <<Inside, status, listVars>>
  BY DEF ClickStart, ClickStop, TrimPanics, Poll, call, Call
<1>2. log' = log \o drain_log \/ log' = Capped(log \o drain_log)
  BY DEF ClickStart, ClickStop, Trim, TrimPanics
<1>3. /\ log' \in Seq(Unit)
      /\ \A i, j \in DOMAIN log' : log'[i].run = log'[j].run
      /\ rx # NoRun => \A i \in DOMAIN log' : log'[i].run = rx
  BY <1>1, <1>2, TrimKeeps
<1>4. TypeOK'
  BY <1>1, <1>3, PollKeeps DEF ControlInv, TypeOK, BackendTypeOK, Step
<1>5. FieldsInv' BY <1>1 DEF ControlInv, FieldsInv, AfterStopped, BeforeSpawn
<1>6. EnginesInv' BY <1>1 DEF ControlInv, EnginesInv, Alive
<1>7. OutputInv' BY <1>1, <1>3, PollKeeps DEF OutputInv
<1>8. ReadersInv' BY <1>1 DEF ControlInv, ReadersInv
<1>9. SelectedIsListed' /\ StatusTellsOfEngine'
  BY <1>1 DEF ControlInv, SelectedIsListed, StatusTellsOfEngine
<1> QED BY <1>4, <1>5, <1>6, <1>7, <1>8, <1>9 DEF ControlInv

\* The end of the App, and what it does with what Backend returned.
LEMMA KeepsReturns ==
  ASSUME ControlInv, Close \/ Started \/ StartFailed \/ Stopped
  PROVE  ControlInv'
<1> USE DEF Inside, fieldVars, engineVars, readerVars, listVars, appVars,
            Close, Started, StartFailed, Stopped, call
<1>1. TypeOK'
  <2>1. log' \in Seq(Unit) BY EmptySeq DEF ControlInv, TypeOK
  <2>2. shown' \in [Stream -> Nat] BY DEF ControlInv, TypeOK
  <2>3. BackendTypeOK' BY DEF ControlInv, TypeOK, BackendTypeOK, Step, Call
  <2> QED BY <2>1, <2>2, <2>3 DEF ControlInv, TypeOK
<1>2. FieldsInv' BY DEF ControlInv, FieldsInv, AfterStopped, BeforeSpawn
<1>3. EnginesInv' BY DEF ControlInv, EnginesInv, Alive
<1>4. OutputInv' BY DEF ControlInv, OutputInv
<1>5. ReadersInv' BY DEF ControlInv, ReadersInv
<1>6. SelectedIsListed' BY DEF ControlInv, SelectedIsListed
<1>7. StatusTellsOfEngine'
  BY DEF ControlInv, FieldsInv, AfterStopped, StatusTellsOfEngine
<1> QED BY <1>1, <1>2, <1>3, <1>4, <1>5, <1>6, <1>7 DEF ControlInv

----------------------------------------------------------------------------
(* Steps of the calling thread                                             *)

LEMMA KeepsKill ==
  ASSUME ControlInv, Kill, UNCHANGED appVars
  PROVE  ControlInv'
<1> USE DEF Kill, fieldVars, engineVars, readerVars, listVars, appVars
<1>1. pc' \in {"wait", "mkdir", "stopped", "gone"} /\ AfterStop \in {"mkdir", "stopped", "gone"}
  BY DEF AfterStop, ControlInv, TypeOK, BackendTypeOK, Call
<1>2. TypeOK'
  <2>1. engine' \in [Run -> {"none", "running", "killed", "exited"}]
    BY DEF ControlInv, TypeOK, BackendTypeOK
  <2>2. child' \in Run \cup {NoRun} /\ victim' \in Run \cup {NoRun}
    BY DEF ControlInv, TypeOK, BackendTypeOK
  <2> QED BY <1>1, <2>1, <2>2 DEF ControlInv, TypeOK, BackendTypeOK, Step, Return
<1>3. FieldsInv'
  BY DEF ControlInv, TypeOK, BackendTypeOK, FieldsInv, AfterStop, AfterStopped, BeforeSpawn, Call
<1>4. EnginesInv'
  BY <1>1 DEF ControlInv, TypeOK, BackendTypeOK, FieldsInv, EnginesInv, Alive
<1>5. OutputInv' BY <1>1 DEF ControlInv, OutputInv
<1>6. ReadersInv' BY DEF ControlInv, ReadersInv
<1>7. SelectedIsListed' BY DEF ControlInv, SelectedIsListed
<1>8. StatusTellsOfEngine' BY <1>1 DEF StatusTellsOfEngine
<1> QED BY <1>2, <1>3, <1>4, <1>5, <1>6, <1>7, <1>8 DEF ControlInv

LEMMA KeepsWait ==
  ASSUME ControlInv, Wait, UNCHANGED appVars
  PROVE  ControlInv'
<1> USE DEF Wait, fieldVars, engineVars, readerVars, listVars, appVars
<1>1. pc' \in {"mkdir", "stopped", "gone"}
  BY DEF AfterStop, ControlInv, TypeOK, BackendTypeOK, Call
<1>2. /\ victim \in Run
      /\ chan' \in [Run -> Seq(Unit)]
      /\ \A r \in Run : chan'[r] = IF r = victim THEN << >> ELSE chan[r]
  BY EmptySeq DEF ControlInv, TypeOK, BackendTypeOK, FieldsInv, NoRun
<1>3. TypeOK'
  BY <1>1, <1>2 DEF ControlInv, TypeOK, BackendTypeOK, Step, Return
<1>4. FieldsInv'
  BY DEF ControlInv, TypeOK, BackendTypeOK, FieldsInv, AfterStop, AfterStopped, BeforeSpawn, Call
<1>5. EnginesInv' BY <1>1 DEF ControlInv, FieldsInv, EnginesInv, Alive
<1>6. OutputInv' BY <1>1, <1>2 DEF ControlInv, OutputInv
<1>7. ReadersInv' BY DEF ControlInv, ReadersInv
<1>8. SelectedIsListed' BY DEF ControlInv, SelectedIsListed
<1>9. StatusTellsOfEngine' BY <1>1 DEF StatusTellsOfEngine
<1> QED BY <1>3, <1>4, <1>5, <1>6, <1>7, <1>8, <1>9 DEF ControlInv

\* The steps of start that touch the run directory: no engine is alive then.
LEMMA KeepsPreparation ==
  ASSUME ControlInv, MakeDir \/ WriteDisk \/ WriteDiskPanics \/ CopyVars, UNCHANGED appVars
  PROVE  ControlInv'
<1> USE DEF MakeDir, WriteDisk, WriteDiskPanics, CopyVars, OrError, call,
            fieldVars, engineVars, readerVars, listVars, appVars
<1>1. \/ pc' \in {"write_disk", "copy_vars", "spawn", "err"}
      \/ pc' = "stop" /\ caller' = "drop"
  BY DEF ControlInv
<1>2. TypeOK' BY <1>1 DEF ControlInv, TypeOK, BackendTypeOK, Step, Return, Call
<1>3. FieldsInv' BY DEF ControlInv, FieldsInv, AfterStopped, BeforeSpawn
<1>4. EnginesInv'
  <2>1. child = NoRun /\ victim = NoRun BY DEF ControlInv, FieldsInv, AfterStopped
  <2>2. \A r \in Run : ~Alive(r) BY <2>1 DEF ControlInv, EnginesInv, Run, NoRun
  <2>3. \A r \in Run : ~Alive(r)' BY <2>2 DEF Alive
  <2>4. pc' = "spawn" => files' = "ready" BY DEF ControlInv
  <2> QED BY <2>3, <2>4 DEF EnginesInv
<1>5. OutputInv' BY <1>1 DEF ControlInv, OutputInv
<1>6. ReadersInv' BY DEF ControlInv, ReadersInv
<1>7. SelectedIsListed' BY DEF ControlInv, SelectedIsListed
<1>8. StatusTellsOfEngine' BY <1>1 DEF StatusTellsOfEngine
<1> QED BY <1>2, <1>3, <1>4, <1>5, <1>6, <1>7, <1>8 DEF ControlInv

LEMMA KeepsSpawn ==
  ASSUME ControlInv, Spawn, UNCHANGED appVars
  PROVE  ControlInv'
<1> USE DEF fieldVars, engineVars, readerVars, listVars, appVars
<1>1. CASE pc' = "err" /\ UNCHANGED <<fieldVars, runs, engine, reader>>
  <2> USE <1>1 DEF Spawn
  <2>1. TypeOK' BY DEF ControlInv, TypeOK, BackendTypeOK, Return
  <2>2. FieldsInv' BY DEF ControlInv, FieldsInv, AfterStopped, BeforeSpawn
  <2>3. EnginesInv' BY DEF ControlInv, EnginesInv, Alive
  <2>4. OutputInv' BY DEF ControlInv, OutputInv
  <2>5. ReadersInv' BY DEF ControlInv, ReadersInv
  <2>6. SelectedIsListed' BY DEF ControlInv, SelectedIsListed
  <2>7. StatusTellsOfEngine' BY DEF StatusTellsOfEngine
  <2> QED BY <2>1, <2>2, <2>3, <2>4, <2>5, <2>6, <2>7 DEF ControlInv
<1>2. CASE pc' = "ok"
  <2> USE <1>2 DEF Spawn
  <2>1. runs' \in Run /\ runs' = runs + 1 /\ runs' # NoRun
    BY BackendAssumption DEF ControlInv, TypeOK, BackendTypeOK, FieldsInv, BeforeSpawn, Run, NoRun
  <2>2. /\ engine' = [engine EXCEPT ![runs'] = "running"]
        /\ reader' = [reader EXCEPT ![runs'] = [p \in Stream |-> "running"]]
        /\ child' = runs' /\ rx' = runs'
    OBVIOUS
  <2>3. TypeOK'
    <3>1. engine' \in [Run -> {"none", "running", "killed", "exited"}]
      BY <2>1, <2>2 DEF ControlInv, TypeOK, BackendTypeOK
    <3>2. reader' \in [Run -> [Stream -> {"none", "running", "done", "failed"}]]
      BY <2>1, <2>2 DEF ControlInv, TypeOK, BackendTypeOK
    <3>3. runs' \in 0 .. MaxRuns BY <2>1, BackendAssumption DEF Run
    <3> QED BY <2>1, <2>2, <3>1, <3>2, <3>3 DEF ControlInv, TypeOK, BackendTypeOK, Return
  <2>4. FieldsInv' BY <2>1, <2>2 DEF ControlInv, FieldsInv, AfterStopped, BeforeSpawn
  <2>5. EnginesInv'
    BY <2>1, <2>2 DEF ControlInv, TypeOK, BackendTypeOK, FieldsInv, AfterStopped, EnginesInv,
       Alive, Run, NoRun
  <2>6. OutputInv' BY DEF ControlInv, OutputInv
  <2>7. ReadersInv' BY DEF ControlInv, ReadersInv
  <2>8. SelectedIsListed' BY DEF ControlInv, SelectedIsListed
  <2>9. StatusTellsOfEngine' BY DEF StatusTellsOfEngine
  <2> QED BY <2>3, <2>4, <2>5, <2>6, <2>7, <2>8, <2>9 DEF ControlInv
<1> QED BY <1>1, <1>2 DEF Spawn

----------------------------------------------------------------------------
(* Engines and readers                                                     *)

LEMMA KeepsEngine ==
  ASSUME ControlInv, UNCHANGED appVars, NEW r \in Run, NEW p \in Stream,
         EngineWrites(r, p) \/ EngineExits(r)
  PROVE  ControlInv'
<1> USE DEF EngineWrites, EngineExits, fieldVars, engineVars, readerVars, listVars, appVars
<1>1. /\ UNCHANGED <<pc, caller, child, rx, victim, files, runs>>
      /\ UNCHANGED <<reader, taken, hand, chan, appVars>>
  OBVIOUS
<1>2. /\ written' \in [Run -> [Stream -> 0 .. MaxOutput]]
      /\ \A s \in Run, q \in Stream : written[s][q] <= written'[s][q]
  <2>1. written \in [Run -> [Stream -> 0 .. MaxOutput]] BY DEF ControlInv, TypeOK, BackendTypeOK
  <2>2. CASE EngineWrites(r, p)
    <3> DEFINE n == written[r][p] + 1
    <3>1. written[r][p] \in 0 .. MaxOutput /\ n \in 0 .. MaxOutput
      BY <2>1, <2>2, BackendAssumption
    <3>2. written' = [written EXCEPT ![r] = [written[r] EXCEPT ![p] = n]]
      BY <2>2
    <3>3. [written[r] EXCEPT ![p] = n] \in [Stream -> 0 .. MaxOutput]
      BY <2>1, <3>1
    <3>4. written' \in [Run -> [Stream -> 0 .. MaxOutput]] BY <2>1, <3>2, <3>3
    <3>5. ASSUME NEW s \in Run, NEW q \in Stream PROVE written[s][q] <= written'[s][q]
      <4>1. written[s][q] \in 0 .. MaxOutput BY <2>1
      <4>2. written'[s][q] = IF s = r /\ q = p THEN n ELSE written[s][q]
        BY <2>1, <3>2
      <4> QED BY <3>1, <4>1, <4>2
    <3> QED BY <3>4, <3>5
  <2>3. CASE EngineExits(r)
    <3>1. \A s \in Run, q \in Stream : written[s][q] \in 0 .. MaxOutput BY <2>1
    <3> QED BY <2>1, <2>3, <3>1
  <2> QED BY <2>2, <2>3
<1>3. /\ engine' \in [Run -> {"none", "running", "killed", "exited"}]
      /\ \A s \in Run : Alive(s)' => Alive(s)
  BY DEF ControlInv, TypeOK, BackendTypeOK, Alive
<1>4. TypeOK' BY <1>1, <1>2, <1>3 DEF ControlInv, TypeOK, BackendTypeOK
<1>5. FieldsInv' BY <1>1 DEF ControlInv, FieldsInv, AfterStopped, BeforeSpawn
<1>6. EnginesInv' BY <1>1, <1>3 DEF ControlInv, EnginesInv
<1>7. OutputInv' BY <1>1 DEF ControlInv, OutputInv
<1>8. ReadersInv'
  <2>1. ASSUME NEW s \in Run, NEW q \in Stream
        PROVE  hand'[s][q] <= taken'[s][q] /\ taken'[s][q] <= written'[s][q]
    <3>1. /\ hand[s][q] <= taken[s][q] /\ taken[s][q] <= written[s][q]
          /\ taken[s][q] \in Nat /\ written[s][q] \in Nat
      BY DEF ControlInv, TypeOK, BackendTypeOK, ReadersInv
    <3>2. written'[s][q] \in Nat /\ written[s][q] <= written'[s][q]
      BY <1>2
    <3> QED BY <1>1, <3>1, <3>2
  <2> QED BY <2>1 DEF ReadersInv
<1>9. SelectedIsListed' /\ StatusTellsOfEngine'
  BY <1>1 DEF ControlInv, SelectedIsListed, StatusTellsOfEngine
<1> QED BY <1>4, <1>5, <1>6, <1>7, <1>8, <1>9 DEF ControlInv

\* A reader that ends, at the end of its stream or by an error.
LEMMA KeepsReaderEnd ==
  ASSUME ControlInv, UNCHANGED appVars, NEW r \in Run, NEW p \in Stream,
         ReadEof(r, p) \/ ReadFails(r, p)
  PROVE  ControlInv'
<1> USE DEF ReadEof, ReadFails, fieldVars, engineVars, readerVars, listVars, appVars
<1>1. /\ UNCHANGED <<pc, caller, child, rx, victim, files, runs, engine, written>>
      /\ UNCHANGED <<taken, hand, chan, appVars>>
  OBVIOUS
<1>2. reader' \in [Run -> [Stream -> {"none", "running", "done", "failed"}]]
  <2>1. PICK end \in {"done", "failed"} : reader' = [reader EXCEPT ![r][p] = end]
    OBVIOUS
  <2>2. reader \in [Run -> [Stream -> {"none", "running", "done", "failed"}]]
    BY DEF ControlInv, TypeOK, BackendTypeOK
  <2> QED BY <2>1, <2>2
<1>3. TypeOK' BY <1>1, <1>2 DEF ControlInv, TypeOK, BackendTypeOK
<1>4. FieldsInv' BY <1>1 DEF ControlInv, FieldsInv, AfterStopped, BeforeSpawn
<1>5. EnginesInv' BY <1>1 DEF ControlInv, EnginesInv, Alive
<1>6. OutputInv' BY <1>1 DEF ControlInv, OutputInv
<1>7. ReadersInv' BY <1>1 DEF ControlInv, ReadersInv
<1>8. SelectedIsListed' /\ StatusTellsOfEngine'
  BY <1>1 DEF ControlInv, SelectedIsListed, StatusTellsOfEngine
<1> QED BY <1>3, <1>4, <1>5, <1>6, <1>7, <1>8 DEF ControlInv

\* A table of counts with one of them changed is a table of counts.
LEMMA OneCount ==
  ASSUME NEW f \in [Run -> [Stream -> 0 .. MaxOutput]],
         NEW r \in Run, NEW p \in Stream, NEW n \in 0 .. MaxOutput
  PROVE  LET g == [f EXCEPT ![r][p] = n]
         IN  /\ g \in [Run -> [Stream -> 0 .. MaxOutput]]
             /\ \A s \in Run, q \in Stream :
                  g[s][q] = IF s = r /\ q = p THEN n ELSE f[s][q]
OBVIOUS

LEMMA KeepsRead ==
  ASSUME ControlInv, UNCHANGED appVars, NEW r \in Run, NEW p \in Stream, Read(r, p)
  PROVE  ControlInv'
<1> USE DEF fieldVars, engineVars, readerVars, listVars, appVars
<1>1. /\ UNCHANGED <<pc, caller, child, rx, victim, files, runs, engine, written>>
      /\ UNCHANGED <<reader, chan, appVars>>
  BY DEF Read
<1>2. PICK n \in 1 .. written[r][p] - taken[r][p] :
        /\ taken' = [taken EXCEPT ![r][p] = @ + n]
        /\ hand' = [hand EXCEPT ![r][p] = n]
  BY DEF Read
<1>3. /\ written \in [Run -> [Stream -> 0 .. MaxOutput]]
      /\ taken \in [Run -> [Stream -> 0 .. MaxOutput]]
      /\ hand \in [Run -> [Stream -> 0 .. MaxOutput]]
      /\ \A s \in Run, q \in Stream :
           hand[s][q] <= taken[s][q] /\ taken[s][q] <= written[s][q]
  BY DEF ControlInv, TypeOK, BackendTypeOK, ReadersInv
<1> DEFINE total == taken[r][p] + n
<1>4. /\ n \in 0 .. MaxOutput /\ total \in 0 .. MaxOutput
      /\ n <= total /\ total <= written[r][p]
  <2>1. written[r][p] \in 0 .. MaxOutput /\ taken[r][p] \in 0 .. MaxOutput BY <1>3
  <2> QED BY <2>1, BackendAssumption
<1>5. taken' = [taken EXCEPT ![r][p] = total] BY <1>2, <1>3
<1> HIDE DEF total
<1>6. /\ taken' \in [Run -> [Stream -> 0 .. MaxOutput]]
      /\ \A s \in Run, q \in Stream :
           taken'[s][q] = IF s = r /\ q = p THEN total ELSE taken[s][q]
  BY <1>3, <1>4, <1>5, OneCount
<1>7. /\ hand' \in [Run -> [Stream -> 0 .. MaxOutput]]
      /\ \A s \in Run, q \in Stream :
           hand'[s][q] = IF s = r /\ q = p THEN n ELSE hand[s][q]
  BY <1>2, <1>3, <1>4, OneCount
<1>8. TypeOK' BY <1>1, <1>6, <1>7 DEF ControlInv, TypeOK, BackendTypeOK
<1>9. FieldsInv' BY <1>1 DEF ControlInv, FieldsInv, AfterStopped, BeforeSpawn
<1>10. EnginesInv' BY <1>1 DEF ControlInv, EnginesInv, Alive
<1>11. OutputInv' BY <1>1 DEF ControlInv, OutputInv
<1>12. ReadersInv'
  <2>1. SUFFICES ASSUME NEW s \in Run, NEW q \in Stream
                 PROVE  /\ hand'[s][q] <= taken'[s][q]
                        /\ taken'[s][q] <= written[s][q]
    BY <1>1 DEF ReadersInv
  <2>2. CASE s = r /\ q = p
    <3>1. taken'[s][q] = total BY <1>6, <2>2
    <3>2. hand'[s][q] = n BY <1>7, <2>2
    <3> QED BY <1>4, <2>2, <3>1, <3>2
  <2>3. CASE ~(s = r /\ q = p)
    <3>1. taken'[s][q] = taken[s][q] BY <1>6, <2>3
    <3>2. hand'[s][q] = hand[s][q] BY <1>7, <2>3
    <3> QED BY <1>3, <3>1, <3>2
  <2> QED BY <2>2, <2>3
<1>13. SelectedIsListed' /\ StatusTellsOfEngine'
  BY <1>1 DEF ControlInv, SelectedIsListed, StatusTellsOfEngine
<1> QED BY <1>8, <1>9, <1>10, <1>11, <1>12, <1>13 DEF ControlInv

LEMMA KeepsSend ==
  ASSUME ControlInv, UNCHANGED appVars, NEW r \in Run, NEW p \in Stream, Send(r, p)
  PROVE  ControlInv'
<1> USE DEF fieldVars, engineVars, readerVars, listVars, appVars
<1>1. /\ UNCHANGED <<pc, caller, child, rx, victim, files, runs, engine, written>>
      /\ UNCHANGED <<taken, appVars>>
      /\ hand' = [hand EXCEPT ![r][p] = 0]
  BY DEF Send
<1>2. /\ hand \in [Run -> [Stream -> 0 .. MaxOutput]]
      /\ taken \in [Run -> [Stream -> 0 .. MaxOutput]]
      /\ chan \in [Run -> Seq(Unit)]
      /\ reader \in [Run -> [Stream -> {"none", "running", "done", "failed"}]]
  BY DEF ControlInv, TypeOK, BackendTypeOK
<1>3. /\ hand' \in [Run -> [Stream -> 0 .. MaxOutput]]
      /\ \A s \in Run, q \in Stream :
           hand'[s][q] = IF s = r /\ q = p THEN 0 ELSE hand[s][q]
  <2>1. 0 \in 0 .. MaxOutput BY BackendAssumption
  <2> QED BY <1>1, <1>2, <2>1, OneCount
<1>4. /\ chan' \in [Run -> Seq(Unit)]
      /\ reader' \in [Run -> [Stream -> {"none", "running", "done", "failed"}]]
      /\ \A s \in Run : OfRun(chan'[s], s)
  <2>1. \A s \in Run : OfRun(chan[s], s) BY DEF ControlInv, OutputInv, OfRun
  <2>2. CASE rx = r
    <3>1. chan' = [chan EXCEPT ![r] = chan[r] \o Chunk(r, p)] /\ reader' = reader
      BY <2>2, <1>2 DEF Send
    <3>2. /\ chan[r] \in Seq(Unit) /\ Chunk(r, p) \in Seq(Unit)
          /\ OfRun(chan[r], r) /\ OfRun(Chunk(r, p), r)
      BY <1>2, <2>1, ChunkIsOfRun
    <3>3. chan[r] \o Chunk(r, p) \in Seq(Unit) /\ OfRun(chan[r] \o Chunk(r, p), r)
      BY <3>2, ConcatOfRun
    <3> QED BY <1>2, <2>1, <3>1, <3>3
  <2>3. CASE rx # r
    <3>1. reader' = [reader EXCEPT ![r][p] = "failed"] /\ chan' = chan
      BY <2>3 DEF Send
    <3> QED BY <1>2, <2>1, <3>1
  <2> QED BY <2>2, <2>3
<1>5. TypeOK' BY <1>1, <1>3, <1>4 DEF ControlInv, TypeOK, BackendTypeOK
<1>6. FieldsInv' BY <1>1 DEF ControlInv, FieldsInv, AfterStopped, BeforeSpawn
<1>7. EnginesInv' BY <1>1 DEF ControlInv, EnginesInv, Alive
<1>8. OutputInv' BY <1>1, <1>4 DEF ControlInv, OutputInv, OfRun
<1>9. ReadersInv'
  <2>1. SUFFICES ASSUME NEW s \in Run, NEW q \in Stream
                 PROVE  /\ hand'[s][q] <= taken[s][q]
                        /\ taken[s][q] <= written[s][q]
    BY <1>1 DEF ReadersInv
  <2>2. hand[s][q] <= taken[s][q] /\ taken[s][q] <= written[s][q]
    BY DEF ControlInv, ReadersInv
  <2>3. taken[s][q] \in Nat BY DEF ControlInv, TypeOK, BackendTypeOK
  <2>4. hand'[s][q] = 0 \/ hand'[s][q] = hand[s][q] BY <1>3
  <2> QED BY <2>2, <2>3, <2>4
<1>10. SelectedIsListed' /\ StatusTellsOfEngine'
  BY <1>1 DEF ControlInv, SelectedIsListed, StatusTellsOfEngine
<1> QED BY <1>5, <1>6, <1>7, <1>8, <1>9, <1>10 DEF ControlInv

----------------------------------------------------------------------------
(* What does not depend on the console                                     *)

LEMMA InitInv == Init => ControlInv
<1> SUFFICES ASSUME Init PROVE ControlInv
  OBVIOUS
<1> USE DEF Init, BackendInit
<1>1. TypeOK
  <2>1. 0 \in 0 .. MaxOutput /\ 0 \in 0 .. MaxRuns /\ 1 \in 1 .. MaxVms
    BY BackendAssumption, AppAssumption
  <2>2. << >> \in Seq(Unit) BY EmptySeq
  <2> QED BY <2>1, <2>2 DEF TypeOK, BackendTypeOK, Call
<1>2. FieldsInv BY DEF FieldsInv, AfterStopped, BeforeSpawn
<1>3. EnginesInv BY DEF EnginesInv, Alive
<1>4. OutputInv BY DEF OutputInv
<1>5. ReadersInv BY DEF ReadersInv
<1>6. SelectedIsListed /\ StatusTellsOfEngine
  BY DEF SelectedIsListed, StatusTellsOfEngine
<1> QED BY <1>1, <1>2, <1>3, <1>4, <1>5, <1>6 DEF ControlInv

LEMMA NextInv == ControlInv /\ [Next]_vars => ControlInv'
<1> SUFFICES ASSUME ControlInv, [Next]_vars PROVE ControlInv'
  OBVIOUS
<1>1. CASE AppStep
  BY <1>1, KeepsFrame, KeepsClearLog, KeepsCalls, KeepsReturns DEF AppStep
<1>2. CASE BackendStep /\ UNCHANGED appVars
  BY <1>2, KeepsKill, KeepsWait, KeepsPreparation, KeepsSpawn DEF BackendStep
<1>3. CASE EngineStep /\ UNCHANGED appVars
  <2>1. "stdout" \in Stream BY DEF Stream
  <2> QED BY <1>3, <2>1, KeepsEngine, KeepsReaderEnd DEF EngineStep
<1>4. CASE \E r \in Run, p \in Stream : ReaderStep(r, p) /\ UNCHANGED appVars
  BY <1>4, KeepsRead, KeepsReaderEnd, KeepsSend DEF ReaderStep
<1>5. CASE UNCHANGED vars
  <2> USE <1>5 DEF vars, backendVars, appVars, fieldVars, engineVars, readerVars, listVars
  <2>1. TypeOK' BY DEF ControlInv, TypeOK, BackendTypeOK
  <2>2. FieldsInv' BY DEF ControlInv, FieldsInv, BeforeSpawn
  <2>3. EnginesInv' BY DEF ControlInv, EnginesInv, Alive
  <2>4. OutputInv' BY DEF ControlInv, OutputInv
  <2>5. ReadersInv' BY DEF ControlInv, ReadersInv
  <2>6. SelectedIsListed' /\ StatusTellsOfEngine'
    BY DEF ControlInv, SelectedIsListed, StatusTellsOfEngine
  <2> QED BY <2>1, <2>2, <2>3, <2>4, <2>5, <2>6 DEF ControlInv
<1> QED BY <1>1, <1>2, <1>3, <1>4, <1>5 DEF Next

----------------------------------------------------------------------------
(* Counting the units of a stream                                          *)

\* The count goes up by one at each unit of the stream.
LEMMA CountFacts ==
  ASSUME NEW text \in Seq(Unit), NEW p
  PROVE  /\ Len(text) \in Nat /\ DOMAIN text = 1 .. Len(text)
         /\ Count(text, p, 0) = 0
         /\ \A i \in 0 .. Len(text) : Count(text, p, i) \in Nat
         /\ \A i \in 1 .. Len(text) :
              Count(text, p, i) =
                Count(text, p, i - 1) + IF text[i].stream = p THEN 1 ELSE 0
         /\ Total(text, p) = Cardinality({i \in DOMAIN text : text[i].stream = p})
<1> DEFINE Upto(i) == {j \in 1 .. i : text[j].stream = p}
<1>1. Len(text) \in Nat /\ DOMAIN text = 1 .. Len(text)
  BY LenProperties
<1>2. ASSUME NEW i \in 0 .. Len(text)
      PROVE  IsFiniteSet(Upto(i)) /\ Cardinality(Upto(i)) \in Nat
  <2>1. IsFiniteSet(1 .. i) BY <1>1, FS_Interval
  <2> QED BY <2>1, FS_Subset, FS_CardinalityType
<1>3. Count(text, p, 0) = 0
  <2>1. Upto(0) = {} OBVIOUS
  <2> QED BY <2>1, FS_EmptySet DEF Count
<1>4. ASSUME NEW i \in 1 .. Len(text)
      PROVE  Cardinality(Upto(i)) =
               Cardinality(Upto(i - 1)) + IF text[i].stream = p THEN 1 ELSE 0
  <2>1. i - 1 \in 0 .. Len(text) /\ i \notin Upto(i - 1) BY <1>1
  <2>2. IsFiniteSet(Upto(i - 1)) BY <1>2, <2>1
  <2>3. CASE text[i].stream = p
    <3>1. Upto(i) = Upto(i - 1) \cup {i} BY <1>1, <2>3
    <3>2. Cardinality(Upto(i - 1) \cup {i}) = Cardinality(Upto(i - 1)) + 1
      <4> HIDE DEF Upto
      <4> QED BY <2>1, <2>2, FS_AddElement
    <3> QED BY <2>3, <3>1, <3>2
  <2>4. CASE text[i].stream # p
    <3>1. Upto(i) = Upto(i - 1) BY <1>1, <2>4
    <3>2. Cardinality(Upto(i - 1)) \in Nat BY <1>2, <2>1
    <3> HIDE DEF Upto
    <3> QED BY <2>4, <3>1, <3>2
  <2> QED BY <2>3, <2>4
<1> QED BY <1>1, <1>2, <1>3, <1>4 DEF Count, Total

LEMMA TotalType ==
  ASSUME NEW text \in Seq(Unit), NEW p
  PROVE  Total(text, p) \in Nat
<1>1. Len(text) \in 0 .. Len(text) BY CountFacts
<1> QED BY <1>1, CountFacts DEF Total

\* What stands before does not change the count within a text.
LEMMA CountConcat ==
  ASSUME NEW s \in Seq(Unit), NEW t \in Seq(Unit), NEW p
  PROVE  /\ \A i \in 0 .. Len(s) : Count(s \o t, p, i) = Count(s, p, i)
         /\ \A i \in 0 .. Len(t) :
              Count(s \o t, p, Len(s) + i) = Total(s, p) + Count(t, p, i)
         /\ Total(s \o t, p) = Total(s, p) + Total(t, p)
<1> DEFINE a == Len(s)
<1> DEFINE b == Len(t)
<1> DEFINE u == s \o t
<1> DEFINE A(i) == {j \in 1 .. i : s[j].stream = p}
<1> DEFINE B(i) == {j \in 1 .. i : t[j].stream = p}
<1> DEFINE C(i) == {j \in 1 .. i : u[j].stream = p}
<1>1. /\ a \in Nat /\ b \in Nat
      /\ u \in Seq(Unit) /\ Len(u) = a + b
      /\ \A i \in 1 .. a + b : u[i] = IF i <= a THEN s[i] ELSE t[i - a]
  BY ConcatProperties, LenProperties
<1> HIDE DEF a, b, u
<1>2. ASSUME NEW i \in 0 .. a
      PROVE  C(i) = A(i)
  BY <1>1
<1>3. ASSUME NEW i \in 0 .. b
      PROVE  Cardinality(C(a + i)) = Cardinality(A(a)) + Cardinality(B(i))
  <2> DEFINE D == {j \in a + 1 .. a + i : u[j].stream = p}
  <2>1. C(a + i) = A(a) \cup D /\ A(a) \cap D = {}
    BY <1>1
  <2>2. IsFiniteSet(A(a)) /\ IsFiniteSet(B(i)) /\ IsFiniteSet(D)
    <3>1. 1 \in Int /\ a \in Int /\ i \in Int /\ a + 1 \in Int /\ a + i \in Int BY <1>1
    <3>2. IsFiniteSet(1 .. a) /\ IsFiniteSet(1 .. i) BY <3>1, FS_Interval
    <3>3. IsFiniteSet(a + 1 .. a + i) BY <3>1, FS_Interval
    <3> QED BY <3>2, <3>3, FS_Subset
  <2>3. Cardinality(D) = Cardinality(B(i))
    <3> DEFINE f == [j \in B(i) |-> j + a]
    <3>1. \A j \in B(i) : j \in 1 .. i /\ t[j].stream = p /\ j + a \in D
      BY <1>1
    <3>2. f \in [B(i) -> D] BY <3>1
    <3>3. \A j, k \in B(i) : f[j] = f[k] => j = k
      BY <1>1
    <3>4. \A d \in D : \E j \in B(i) : f[j] = d
      <4> SUFFICES ASSUME NEW d \in D PROVE \E j \in B(i) : f[j] = d
        OBVIOUS
      <4>1. d - a \in B(i) /\ (d - a) + a = d BY <1>1
      <4> QED BY <4>1
    <3>5. f \in Bijection(B(i), D)
      <4> HIDE DEF f
      <4> QED BY <3>2, <3>3, <3>4, Fun_IsBij
    <3>6. ExistsBijection(B(i), D) BY <3>5 DEF ExistsBijection
    <3> QED BY <2>2, <3>6, FS_Bijection
  <2>4. Cardinality(A(a) \cup D) = Cardinality(A(a)) + Cardinality(D)
    <3> DEFINE E == A(a)
    <3>1. Cardinality({}) = 0 BY FS_EmptySet
    <3>2. IsFiniteSet(E) /\ IsFiniteSet(D) /\ E \cap D = {} BY <2>1, <2>2
    <3> HIDE DEF D, E
    <3>3. Cardinality(E) \in Nat /\ Cardinality(D) \in Nat BY <3>2, FS_CardinalityType
    <3>4. Cardinality(E \cup D) = Cardinality(E) + Cardinality(D) - Cardinality(E \cap D)
      BY <3>2, FS_Union
    <3>5. Cardinality(E \cap D) = 0 BY <3>1, <3>2
    <3>6. Cardinality(E \cup D) = Cardinality(E) + Cardinality(D) BY <3>3, <3>4, <3>5
    <3> QED BY <3>6 DEF E
  <2> QED BY <2>1, <2>3, <2>4
<1>4. /\ \A i \in 0 .. a : Count(u, p, i) = Count(s, p, i)
      /\ \A i \in 0 .. b : Count(u, p, a + i) = Total(s, p) + Count(t, p, i)
  BY <1>2, <1>3 DEF Count, Total, a
<1>5. Total(u, p) = Total(s, p) + Total(t, p)
  <2>1. b \in 0 .. b BY <1>1
  <2> QED BY <1>1, <1>4, <2>1 DEF Total, b
<1> QED BY <1>4, <1>5 DEF a, b, u

\* Text that goes on where the text before it ends; and the other way round, what
\* is left when a beginning is cut off goes on where that ended.
LEMMA FollowsConcat ==
  ASSUME NEW s \in Seq(Unit), NEW t \in Seq(Unit), NEW p, NEW b \in Int
  PROVE  Follows(s \o t, p, b) <=> Follows(s, p, b) /\ Follows(t, p, b + Total(s, p))
<1> DEFINE u == s \o t
<1>1. /\ Len(s) \in Nat /\ DOMAIN s = 1 .. Len(s)
      /\ Len(t) \in Nat /\ DOMAIN t = 1 .. Len(t)
  BY LenProperties
<1>2. /\ u \in Seq(Unit) /\ DOMAIN u = 1 .. Len(s) + Len(t)
      /\ \A i \in 1 .. Len(s) : u[i] = s[i]
      /\ \A i \in 1 .. Len(t) : u[Len(s) + i] = t[i]
  <2>1. /\ u \in Seq(Unit) /\ Len(u) = Len(s) + Len(t)
        /\ \A i \in 1 .. Len(s) + Len(t) : u[i] = IF i <= Len(s) THEN s[i] ELSE t[i - Len(s)]
    BY ConcatProperties
  <2>2. DOMAIN u = 1 .. Len(u) BY <2>1, LenProperties
  <2> HIDE DEF u
  <2>3. ASSUME NEW i \in 1 .. Len(t) PROVE u[Len(s) + i] = t[i]
    <3>1. Len(s) + i \in 1 .. Len(s) + Len(t) /\ ~(Len(s) + i <= Len(s)) /\ Len(s) + i - Len(s) = i
      BY <1>1
    <3> QED BY <2>1, <3>1
  <2> QED BY <1>1, <2>1, <2>2, <2>3
<1>3. /\ \A i \in 1 .. Len(s) : Count(u, p, i) = Count(s, p, i)
      /\ \A i \in 1 .. Len(t) : Count(u, p, Len(s) + i) = Total(s, p) + Count(t, p, i)
  BY <1>1, CountConcat
<1>4. Total(s, p) \in Nat /\ \A i \in 1 .. Len(t) : Count(t, p, i) \in Nat
  <2>1. Total(s, p) \in Nat BY TotalType
  <2>2. \A i \in 1 .. Len(t) : i \in 0 .. Len(t) BY <1>1
  <2> QED BY <2>1, <2>2, CountFacts
<1> HIDE DEF u
<1>5. ASSUME Follows(u, p, b)
      PROVE  Follows(s, p, b) /\ Follows(t, p, b + Total(s, p))
  <2>1. ASSUME NEW i \in 1 .. Len(s), s[i].stream = p
        PROVE  s[i].n = b + Count(s, p, i)
    <3>1. i \in DOMAIN u BY <1>1, <1>2
    <3> QED BY <1>2, <1>3, <1>5, <2>1, <3>1 DEF Follows
  <2>2. ASSUME NEW i \in 1 .. Len(t), t[i].stream = p
        PROVE  t[i].n = b + Total(s, p) + Count(t, p, i)
    <3>1. Len(s) + i \in DOMAIN u BY <1>1, <1>2
    <3>2. t[i].n = b + (Total(s, p) + Count(t, p, i))
      BY <1>2, <1>3, <1>5, <2>2, <3>1 DEF Follows
    <3> QED BY <1>4, <3>2
  <2> QED BY <1>1, <2>1, <2>2 DEF Follows
<1>6. ASSUME Follows(s, p, b), Follows(t, p, b + Total(s, p))
      PROVE  Follows(u, p, b)
  <2> SUFFICES ASSUME NEW i \in 1 .. Len(s) + Len(t), u[i].stream = p
               PROVE  u[i].n = b + Count(u, p, i)
    BY <1>2 DEF Follows
  <2>1. CASE i <= Len(s)
    <3>1. i \in 1 .. Len(s) BY <2>1, <1>1
    <3> QED BY <1>1, <1>2, <1>3, <1>6, <3>1 DEF Follows
  <2>2. CASE i > Len(s)
    <3> DEFINE j == i - Len(s)
    <3>1. j \in 1 .. Len(t) /\ i = Len(s) + j BY <1>1, <2>2
    <3> HIDE DEF j
    <3>2. t[j].n = b + Total(s, p) + Count(t, p, j)
      <4>1. t[j].stream = p BY <1>2, <3>1
      <4> QED BY <1>1, <1>6, <3>1, <4>1 DEF Follows
    <3>3. Count(u, p, i) = Total(s, p) + Count(t, p, j) BY <1>3, <3>1
    <3>4. u[i].n = t[j].n BY <1>2, <3>1
    <3> QED BY <1>4, <3>1, <3>2, <3>3, <3>4
  <2> QED BY <1>1, <2>1, <2>2
<1> QED BY <1>5, <1>6 DEF u

\* The cap takes away a beginning: what is left ends where the text ended.
LEMMA CappedFollows ==
  ASSUME NEW text \in Seq(Unit), NEW p, NEW b \in Int, Follows(text, p, b)
  PROVE  Follows(Capped(text), p, b + Total(text, p) - Total(Capped(text), p))
<1> DEFINE first == IF Len(text) > LogCap THEN Len(text) - LogCap + 1 ELSE 1
<1> DEFINE front == SubSeq(text, 1, first - 1)
<1>1. Len(text) \in Nat /\ text \in [1 .. Len(text) -> Unit]
  BY LenProperties
<1>2. first \in 1 .. Len(text) + 1
  BY <1>1, AppAssumption
<1>3. Capped(text) = SubSeq(text, first, Len(text))
  BY DEF Capped
<1>4. /\ 1 \in 1 .. Len(text) + 1
      /\ first - 1 \in 1 - 1 .. Len(text)
      /\ Len(text) \in first - 1 .. Len(text)
      /\ first - 1 + 1 = first
  BY <1>1, <1>2
<1> HIDE DEF first
<1>5. SubSeq(text, 1, first - 1) \o SubSeq(text, first - 1 + 1, Len(text))
        = SubSeq(text, 1, Len(text))
  BY <1>4, ConcatAdjacentSubSeq
<1>6. text = front \o Capped(text)
  BY <1>3, <1>4, <1>5, SubSeqFull
<1>7. front \in Seq(Unit)
  <2>1. 1 \in Int /\ first - 1 \in Int /\ \A i \in 1 .. first - 1 : text[i] \in Unit
    BY <1>1, <1>2
  <2> QED BY <2>1, SubSeqProperties
<1>8. Capped(text) \in Seq(Unit)
  BY CappedKeeps
<1> HIDE DEF front
<1> DEFINE rest == Capped(text)
<1> HIDE DEF rest
<1>9. Follows(rest, p, b + Total(front, p))
  <2>1. Follows(front \o rest, p, b) BY <1>6 DEF rest
  <2>2. rest \in Seq(Unit) BY <1>8 DEF rest
  <2> QED BY <1>7, <2>1, <2>2, FollowsConcat
<1>10. Total(text, p) = Total(front, p) + Total(rest, p)
  <2>1. rest \in Seq(Unit) BY <1>8 DEF rest
  <2>2. Total(front \o rest, p) = Total(front, p) + Total(rest, p)
    BY <1>7, <2>1, CountConcat
  <2> QED BY <1>6, <2>2 DEF rest
<1>11. Total(front, p) \in Nat /\ Total(rest, p) \in Nat
  BY <1>7, <1>8, TotalType DEF rest
<1>12. b + Total(text, p) - Total(rest, p) = b + Total(front, p)
  BY <1>10, <1>11
<1> QED BY <1>9, <1>12 DEF rest

\* No text, no units.
LEMMA NoText ==
  ASSUME NEW p, NEW b
  PROVE  Follows(<< >>, p, b) /\ Total(<< >>, p) = 0
<1>1. << >> \in Seq(Unit) /\ Len(<< >>) = 0 BY EmptySeq
<1>2. Total(<< >>, p) = 0 BY <1>1, CountFacts DEF Total
<1> QED BY <1>2 DEF Follows

\* What a reader has in hand goes on where what it has passed on ends.
LEMMA ChunkFollows ==
  ASSUME ControlInv, NEW r \in Run, NEW p \in Stream, NEW q \in Stream, NEW b
  PROVE  /\ q # p => Follows(Chunk(r, p), q, b) /\ Total(Chunk(r, p), q) = 0
         /\ Follows(Chunk(r, p), p, taken[r][p] - hand[r][p])
         /\ Total(Chunk(r, p), p) = hand[r][p]
<1> DEFINE c == Chunk(r, p)
<1>1. hand[r][p] \in Nat /\ taken[r][p] \in Nat
  BY DEF ControlInv, TypeOK, BackendTypeOK
<1>2. /\ c \in Seq(Unit) /\ DOMAIN c = 1 .. hand[r][p] /\ Len(c) = hand[r][p]
      /\ \A i \in 1 .. hand[r][p] :
           c[i].stream = p /\ c[i].n = taken[r][p] - hand[r][p] + i
  <2>1. c \in Seq(Unit) BY ChunkIsOfRun
  <2>2. /\ DOMAIN c = 1 .. hand[r][p]
        /\ \A i \in 1 .. hand[r][p] :
             c[i].stream = p /\ c[i].n = taken[r][p] - hand[r][p] + i
    <3>1. \A i \in 1 .. hand[r][p] :
            c[i].stream = p /\ c[i].n = taken[r][p] - hand[r][p] + 1 + i - 1
      BY DEF Chunk
    <3>2. DOMAIN c = 1 .. hand[r][p] BY DEF Chunk
    <3> HIDE DEF c
    <3> QED BY <1>1, <3>1, <3>2
  <2>3. Len(c) \in Nat /\ DOMAIN c = 1 .. Len(c) BY <2>1, LenProperties
  <2>4. Len(c) = hand[r][p] BY <1>1, <2>2, <2>3
  <2> QED BY <2>1, <2>2, <2>4
<1> HIDE DEF c
<1>3. ASSUME q # p
      PROVE  Follows(c, q, b) /\ Total(c, q) = 0
  <2>1. {j \in 1 .. Len(c) : c[j].stream = q} = {} BY <1>2, <1>3
  <2>2. Total(c, q) = 0 BY <2>1, FS_EmptySet DEF Total, Count
  <2>3. Follows(c, q, b) BY <1>2, <1>3 DEF Follows
  <2> QED BY <2>2, <2>3
<1>4. ASSUME NEW i \in 0 .. hand[r][p]
      PROVE  Count(c, p, i) = i
  <2>1. {j \in 1 .. i : c[j].stream = p} = 1 .. i BY <1>1, <1>2
  <2>2. Cardinality(1 .. i) = i
    <3>1. 1 \in Int /\ i \in Int /\ i >= 0 BY <1>1
    <3>2. Cardinality(1 .. i) = IF 1 > i THEN 0 ELSE i - 1 + 1 BY <3>1, FS_Interval
    <3> QED BY <3>1, <3>2
  <2> QED BY <2>1, <2>2 DEF Count
<1>5. Total(c, p) = hand[r][p]
  BY <1>1, <1>2, <1>4 DEF Total
<1>6. Follows(c, p, taken[r][p] - hand[r][p])
  BY <1>1, <1>2, <1>4 DEF Follows
<1> QED BY <1>3, <1>5, <1>6 DEF c

----------------------------------------------------------------------------
(* What the console shows is kept                                          *)

\* What a frame drains goes on where the log ends, and the channel is then empty.
LEMMA PollFollows ==
  ASSUME ControlInv, ConsoleInv, Poll, NEW p \in Stream
  PROVE  LET text == log \o drain_log
         IN  /\ text \in Seq(Unit)
             /\ shown[p] \in Nat /\ shown'[p] \in Nat
             /\ shown'[p] = shown[p] + Total(drain_log, p)
             /\ Follows(text, p, shown'[p] - Total(text, p))
<1> DEFINE text == log \o drain_log
<1>1. /\ drain_log \in Seq(Unit) /\ log \in Seq(Unit)
      /\ shown \in [Stream -> Nat]
      /\ pc = "idle"
  BY Drained DEF ControlInv, TypeOK, Poll
<1>2. /\ Total(log, p) \in Nat /\ Total(drain_log, p) \in Nat
      /\ Total(text, p) = Total(log, p) + Total(drain_log, p)
      /\ text \in Seq(Unit)
  BY <1>1, TotalType, CountConcat, ConcatProperties
<1>3. shown'[p] = shown[p] + Total(drain_log, p)
  BY <1>1, CountFacts DEF Poll, ShownAfter
<1>4. shown[p] \in Nat /\ shown'[p] \in Nat
  BY <1>1, <1>2, <1>3
<1>5. Follows(drain_log, p, shown[p])
  <2>1. CASE rx = NoRun BY <2>1, NoText DEF drain_log
  <2>2. CASE rx # NoRun
    BY <1>1, <2>2 DEF drain_log, ConsoleInv, ChannelInv, Polled
  <2> QED BY <2>1, <2>2
<1>6. Follows(log, p, shown[p] - Total(log, p))
  BY DEF ConsoleInv, LogInv
<1> HIDE DEF text
<1>7. Follows(text, p, shown[p] - Total(log, p))
  <2>1. shown[p] - Total(log, p) + Total(log, p) = shown[p]
        /\ shown[p] - Total(log, p) \in Int
    BY <1>2, <1>4
  <2> QED BY <1>1, <1>5, <1>6, <2>1, FollowsConcat DEF text
<1>8. shown'[p] - Total(text, p) = shown[p] - Total(log, p)
  BY <1>2, <1>3, <1>4
<1> QED BY <1>2, <1>3, <1>4, <1>7, <1>8 DEF text

\* A frame that polls, whatever it then does with the log.
LEMMA PollKeepsConsole ==
  ASSUME ControlInv, ConsoleInv, Poll, UNCHANGED Inside, pc' # "ok",
         \/ log' = log \o drain_log
         \/ log' = Capped(log \o drain_log)
         \/ log' = << >>
  PROVE  ConsoleInv'
<1> DEFINE text == log \o drain_log
<1>1. /\ pc = "idle" /\ chan' = Emptied
      /\ UNCHANGED <<rx, runs, written, reader, taken, hand>>
      /\ chan \in [Run -> Seq(Unit)]
      /\ rx \in Run \cup {NoRun}
  BY DEF Poll, Inside, fieldVars, engineVars, readerVars, ControlInv, TypeOK, BackendTypeOK
<1>2. FreshInv'
  <2>1. \A r \in Run : chan'[r] = chan[r] \/ chan'[r] = << >>
    BY <1>1 DEF Emptied
  <2> QED BY <1>1, <2>1 DEF ConsoleInv, FreshInv
<1>3. DoneInv'
  BY <1>1 DEF ConsoleInv, DoneInv
<1>4. LogInv'
  <2> SUFFICES ASSUME NEW p \in Stream
               PROVE  Follows(log', p, shown'[p] - Total(log', p))
    BY DEF LogInv, Follows, Total, Count
  <2>1. /\ text \in Seq(Unit) /\ shown'[p] \in Nat
        /\ Follows(text, p, shown'[p] - Total(text, p))
    BY PollFollows
  <2>2. CASE log' = text BY <2>1, <2>2
  <2> HIDE DEF text
  <2>3. CASE log' = Capped(text)
    <3>1. Total(text, p) \in Nat BY <2>1, TotalType
    <3>2. shown'[p] - Total(text, p) \in Int BY <2>1, <3>1
    <3>3. Follows(Capped(text), p,
                  shown'[p] - Total(text, p) + Total(text, p) - Total(Capped(text), p))
      BY <2>1, <3>2, CappedFollows
    <3>4. Total(Capped(text), p) \in Nat BY <2>1, CappedKeeps, TotalType
    <3>5. shown'[p] - Total(text, p) + Total(text, p) - Total(Capped(text), p)
            = shown'[p] - Total(Capped(text), p)
      BY <2>1, <3>1, <3>4
    <3> QED BY <2>3, <3>3, <3>5
  <2>4. CASE log' = << >> BY <2>4, NoText
  <2> QED BY <2>2, <2>3, <2>4 DEF text
<1>5. ChannelInv'
  <2> SUFFICES ASSUME rx # NoRun, NEW p \in Stream
               PROVE  /\ Follows(chan'[rx], p, shown'[p])
                      /\ shown'[p] + Total(chan'[rx], p) = taken[rx][p] - hand[rx][p]
    BY <1>1 DEF ChannelInv, Polled, Follows, Total, Count
  <2>1. chan'[rx] = << >> /\ drain_log = chan[rx]
    BY <1>1 DEF Emptied, drain_log
  <2>2. shown[p] + Total(chan[rx], p) = taken[rx][p] - hand[rx][p]
    BY <1>1 DEF ConsoleInv, ChannelInv, Polled
  <2>3. shown'[p] \in Nat /\ shown'[p] = shown[p] + Total(drain_log, p)
    BY PollFollows
  <2>4. shown'[p] + 0 = shown'[p] BY <2>3
  <2> QED BY <2>1, <2>2, <2>3, <2>4, NoText
<1> QED BY <1>2, <1>3, <1>4, <1>5 DEF ConsoleInv

LEMMA LogIsKept ==
  ASSUME ConsoleInv, UNCHANGED <<log, shown>>
  PROVE  LogInv'
BY DEF ConsoleInv, LogInv, Follows, Total, Count

\* Steps that leave the output alone.
LEMMA ElsewhereKeepsConsole ==
  ASSUME ConsoleInv, pc = "ok" <=> pc' = "ok", UNCHANGED <<rx, runs, written, readerVars, chan>>,
         UNCHANGED <<log, shown>>
  PROVE  ConsoleInv'
<1> USE DEF readerVars
<1>1. FreshInv' BY DEF ConsoleInv, FreshInv
<1>2. DoneInv' BY DEF ConsoleInv, DoneInv
<1>3. LogInv' BY DEF ConsoleInv, LogInv, Follows, Total, Count
<1>4. ChannelInv' BY DEF ConsoleInv, ChannelInv, Polled, Follows, Total, Count
<1> QED BY <1>1, <1>2, <1>3, <1>4 DEF ConsoleInv

LEMMA AppKeepsConsole ==
  ASSUME ControlInv, ConsoleInv, AppStep
  PROVE  ConsoleInv'
<1>1. CASE Frame \/ ClearLog \/ ClickStart \/ ClickStop \/ TrimPanics
  <2> USE DEF Frame, Trim, ClearLog, ClickStart, ClickStop, TrimPanics
  <2>1. Poll /\ UNCHANGED Inside /\ pc = "idle" /\ pc' \in {"idle", "stop"}
    BY <1>1 DEF Poll, call
  <2>2. \/ log' = log \o drain_log
        \/ log' = Capped(log \o drain_log)
        \/ log' = << >>
    BY <1>1
  <2> QED BY <2>1, <2>2, PollKeepsConsole
<1>2. CASE Close \/ StartFailed \/ Stopped
  BY <1>2, ElsewhereKeepsConsole DEF Close, StartFailed, Stopped, call, Inside, fieldVars,
     engineVars, readerVars, appVars
<1>3. CASE Started
  <2>1. /\ pc = "ok" /\ pc' = "idle" /\ log' = << >> /\ shown' = [p \in Stream |-> 0]
        /\ UNCHANGED <<rx, runs, written, reader, taken, hand, chan>>
    BY <1>3 DEF Started, Inside, fieldVars, engineVars, readerVars
  <2>2. FreshInv' BY <2>1 DEF ConsoleInv, FreshInv
  <2>3. DoneInv' BY <2>1 DEF ConsoleInv, DoneInv
  <2>4. LogInv' BY <2>1, NoText DEF LogInv, Follows, Total, Count
  <2>5. ChannelInv'
    <3>1. ASSUME rx # NoRun, NEW p \in Stream
          PROVE  Follows(chan[rx], p, 0) /\ 0 + Total(chan[rx], p) = taken[rx][p] - hand[rx][p]
      BY <2>1, <3>1 DEF ConsoleInv, ChannelInv, Polled
    <3>2. \A p \in Stream : Polled(p)' = 0 BY <2>1 DEF Polled
    <3>3. /\ UNCHANGED <<rx, taken, hand>>
          /\ \A p : Follows(chan[rx], p, 0)' = Follows(chan[rx], p, 0)
          /\ \A p : Total(chan[rx], p)' = Total(chan[rx], p)
      BY <2>1 DEF Follows, Total, Count
    <3> QED BY <3>1, <3>2, <3>3 DEF ChannelInv, Follows
  <2> QED BY <2>2, <2>3, <2>4, <2>5 DEF ConsoleInv
<1> QED BY <1>1, <1>2, <1>3 DEF AppStep

LEMMA BackendKeepsConsole ==
  ASSUME ControlInv, ConsoleInv, BackendStep, UNCHANGED appVars
  PROVE  ConsoleInv'
<1> USE DEF appVars, fieldVars, engineVars, readerVars
<1>1. CASE Kill \/ MakeDir \/ WriteDisk \/ WriteDiskPanics \/ CopyVars
  <2>1. pc # "ok" /\ pc' # "ok"
    BY <1>1 DEF Kill, MakeDir, WriteDisk, WriteDiskPanics, CopyVars, OrError, call, AfterStop,
       ControlInv, TypeOK, BackendTypeOK, Call
  <2> QED BY <1>1, <2>1, ElsewhereKeepsConsole
          DEF Kill, MakeDir, WriteDisk, WriteDiskPanics, CopyVars
<1>2. CASE Wait
  <2>1. /\ rx' = NoRun /\ chan' = [chan EXCEPT ![victim] = << >>]
        /\ UNCHANGED <<runs, written, reader, taken, hand, log, shown>>
    BY <1>2 DEF Wait
  <2>2. FreshInv'
    <3>1. \A r \in Run : chan'[r] = chan[r] \/ chan'[r] = << >>
      BY <2>1 DEF ControlInv, TypeOK, BackendTypeOK
    <3> QED BY <2>1, <3>1 DEF ConsoleInv, FreshInv
  <2>3. DoneInv' BY <2>1 DEF ConsoleInv, DoneInv
  <2>4. LogInv' BY <2>1 DEF ConsoleInv, LogInv, Follows, Total, Count
  <2>5. ChannelInv' BY <2>1 DEF ChannelInv
  <2> QED BY <2>2, <2>3, <2>4, <2>5 DEF ConsoleInv
<1>3. CASE Spawn
  <2>1. pc = "spawn" /\ UNCHANGED <<written, taken, hand, chan, log, shown>>
    BY <1>3 DEF Spawn
  <2>2. CASE pc' = "err" /\ UNCHANGED <<fieldVars, runs, engine, reader>>
    BY <2>1, <2>2, ElsewhereKeepsConsole
  <2>3. CASE /\ pc' = "ok" /\ runs' = runs + 1 /\ rx' = runs'
             /\ reader' = [reader EXCEPT ![runs'] = [p \in Stream |-> "running"]]
    <3>1. runs \in Nat /\ runs' \in Run /\ runs' > runs
      BY <2>1, <2>3, BackendAssumption
         DEF ControlInv, TypeOK, BackendTypeOK, FieldsInv, BeforeSpawn, Run
    <3>2. /\ chan[runs'] = << >>
          /\ \A p \in Stream : taken[runs'][p] = 0 /\ hand[runs'][p] = 0
      BY <3>1 DEF ConsoleInv, FreshInv
    <3>3. \A r \in Run : r # runs' => reader'[r] = reader[r]
      BY <2>3 DEF ControlInv, TypeOK, BackendTypeOK
    <3>4. \A p \in Stream : reader'[runs'][p] = "running"
      BY <2>3, <3>1 DEF ControlInv, TypeOK, BackendTypeOK
    <3>5. FreshInv'
      <4>1. ASSUME NEW r \in Run, r > runs' PROVE r > runs /\ r # runs'
        BY <3>1, <4>1 DEF Run
      <4> QED BY <2>1, <3>3, <4>1 DEF ConsoleInv, FreshInv
    <3>6. DoneInv' BY <2>1, <3>3, <3>4 DEF ConsoleInv, DoneInv
    <3>7. LogInv' BY <2>1 DEF ConsoleInv, LogInv, Follows, Total, Count
    <3>8. ChannelInv'
      <4> SUFFICES ASSUME NEW p \in Stream
                   PROVE  /\ Follows(chan[runs'], p, 0)
                          /\ 0 + Total(chan[runs'], p) = taken[runs'][p] - hand[runs'][p]
        BY <2>1, <2>3 DEF ChannelInv, Polled, Follows, Total, Count
      <4> QED BY <3>2, NoText
    <3> QED BY <3>5, <3>6, <3>7, <3>8 DEF ConsoleInv
  <2> QED BY <1>3, <2>2, <2>3 DEF Spawn
<1> QED BY <1>1, <1>2, <1>3 DEF BackendStep

\* The engine writes or exits, a reader ends.
LEMMA EngineKeepsConsole ==
  ASSUME ControlInv, ConsoleInv, UNCHANGED appVars, NEW r \in Run, NEW p \in Stream,
         EngineWrites(r, p) \/ EngineExits(r) \/ ReadEof(r, p) \/ ReadFails(r, p)
  PROVE  ConsoleInv'
<1> USE DEF appVars, fieldVars, engineVars, readerVars
<1>1. UNCHANGED <<pc, rx, runs, taken, hand, chan, log, shown>>
  BY DEF EngineWrites, EngineExits, ReadEof, ReadFails
<1>2. /\ reader \in [Run -> [Stream -> {"none", "running", "done", "failed"}]]
      /\ written \in [Run -> [Stream -> 0 .. MaxOutput]]
  BY DEF ControlInv, TypeOK, BackendTypeOK
<1>3. /\ reader'[r][p] # reader[r][p] => reader[r][p] = "running"
      /\ reader'[r][p] = "done" /\ reader[r][p] # "done" =>
           hand[r][p] = 0 /\ taken[r][p] = written'[r][p]
      /\ written'[r][p] # written[r][p] => reader'[r][p] # "done"
      /\ \A s \in Run, q \in Stream : ~(s = r /\ q = p) =>
           reader'[s][q] = reader[s][q] /\ written'[s][q] = written[s][q]
  BY <1>2 DEF EngineWrites, EngineExits, ReadEof, ReadFails
<1>4. FreshInv'
  BY <1>1, <1>3 DEF ConsoleInv, FreshInv
<1>5. DoneInv'
  <2> SUFFICES ASSUME NEW s \in Run, NEW q \in Stream, reader'[s][q] = "done"
               PROVE  hand[s][q] = 0 /\ taken[s][q] = written'[s][q]
    BY <1>1 DEF DoneInv
  <2>1. CASE reader[s][q] = "done"
    <3>1. hand[s][q] = 0 /\ taken[s][q] = written[s][q]
      BY <2>1 DEF ConsoleInv, DoneInv
    <3> QED BY <1>3, <3>1
  <2>2. CASE reader[s][q] # "done"
    <3>1. s = r /\ q = p BY <1>3, <2>2
    <3> QED BY <1>3, <2>2, <3>1
  <2> QED BY <2>1, <2>2
<1>6. LogInv'
  BY <1>1 DEF ConsoleInv, LogInv, Follows, Total, Count
<1>7. ChannelInv'
  BY <1>1 DEF ConsoleInv, ChannelInv, Polled, Follows, Total, Count
<1> QED BY <1>4, <1>5, <1>6, <1>7 DEF ConsoleInv

\* A reader takes from its pipe: what it has passed on stays what it was.
LEMMA ReadKeepsConsole ==
  ASSUME ControlInv, ConsoleInv, UNCHANGED appVars, NEW r \in Run, NEW p \in Stream, Read(r, p)
  PROVE  ConsoleInv'
<1> USE DEF appVars, fieldVars, engineVars, readerVars
<1>1. UNCHANGED <<pc, rx, runs, written, reader, chan, log, shown>>
  BY DEF Read
<1>2. /\ taken \in [Run -> [Stream -> 0 .. MaxOutput]]
      /\ hand \in [Run -> [Stream -> 0 .. MaxOutput]]
  BY DEF ControlInv, TypeOK, BackendTypeOK
<1>3. PICK n \in 1 .. written[r][p] - taken[r][p] :
        taken' = [taken EXCEPT ![r][p] = @ + n] /\ hand' = [hand EXCEPT ![r][p] = n]
  BY DEF Read
<1>4. reader[r][p] = "running" /\ hand[r][p] = 0
  BY DEF Read
<1>5. \A s \in Run, q \in Stream : ~(s = r /\ q = p) =>
        taken'[s][q] = taken[s][q] /\ hand'[s][q] = hand[s][q]
  BY <1>2, <1>3
<1>6. taken'[r][p] = taken[r][p] + n /\ hand'[r][p] = n
  BY <1>2, <1>3
<1>7. \A s \in Run, q \in Stream : taken'[s][q] - hand'[s][q] = taken[s][q] - hand[s][q]
  <2>1. PICK t \in Nat : t = taken[r][p] BY <1>2
  <2>2. n \in Int OBVIOUS
  <2>3. (t + n) - n = t - 0 BY <2>1, <2>2
  <2>4. taken'[r][p] = t + n /\ hand'[r][p] = n BY <1>6, <2>1
  <2>5. taken'[r][p] - hand'[r][p] = (t + n) - n BY <2>4
  <2>6. taken[r][p] - hand[r][p] = t - 0 BY <1>4, <2>1
  <2> QED BY <1>5, <2>3, <2>5, <2>6
<1>8. FreshInv'
  BY <1>1, <1>4, <1>5 DEF ConsoleInv, FreshInv
<1>9. DoneInv'
  BY <1>1, <1>4, <1>5 DEF ConsoleInv, DoneInv
<1>10. LogInv'
  BY <1>1 DEF ConsoleInv, LogInv, Follows, Total, Count
<1>11. ChannelInv'
  <2> SUFFICES ASSUME rx # NoRun, NEW q \in Stream
               PROVE  /\ Follows(chan[rx], q, Polled(q))
                      /\ Polled(q) + Total(chan[rx], q) = taken'[rx][q] - hand'[rx][q]
    BY <1>1 DEF ChannelInv, Polled, Follows, Total, Count
  <2>1. rx \in Run BY DEF ControlInv, TypeOK, BackendTypeOK
  <2> QED BY <1>7, <2>1 DEF ConsoleInv, ChannelInv
<1> QED BY <1>8, <1>9, <1>10, <1>11 DEF ConsoleInv

\* A reader passes on what it has in hand, or finds that nobody listens.
LEMMA SendKeepsConsole ==
  ASSUME ControlInv, ConsoleInv, UNCHANGED appVars, NEW r \in Run, NEW p \in Stream, Send(r, p)
  PROVE  ConsoleInv'
<1> USE DEF appVars, fieldVars, engineVars, readerVars
<1>1. /\ UNCHANGED <<pc, rx, runs, written, taken, log, shown>>
      /\ hand[r][p] > 0 /\ hand' = [hand EXCEPT ![r][p] = 0]
  BY DEF Send
<1>2. /\ taken \in [Run -> [Stream -> 0 .. MaxOutput]]
      /\ hand \in [Run -> [Stream -> 0 .. MaxOutput]]
      /\ reader \in [Run -> [Stream -> {"none", "running", "done", "failed"}]]
      /\ chan \in [Run -> Seq(Unit)]
      /\ runs \in 0 .. MaxRuns
  BY DEF ControlInv, TypeOK, BackendTypeOK
<1>3. /\ hand'[r][p] = 0
      /\ \A s \in Run, q \in Stream : ~(s = r /\ q = p) => hand'[s][q] = hand[s][q]
  BY <1>1, <1>2
<1>4. r <= runs /\ reader[r][p] # "done"
  <2>1. runs \in Nat /\ r \in Nat BY <1>2 DEF Run
  <2> QED BY <1>1, <2>1 DEF ConsoleInv, FreshInv, DoneInv
<1>5. LogInv'
  BY <1>1, LogIsKept
<1>6. CASE rx # r
  <2>1. chan' = chan /\ reader' = [reader EXCEPT ![r][p] = "failed"]
    BY <1>6 DEF Send
  <2>2. /\ reader'[r][p] = "failed"
        /\ \A s \in Run, q \in Stream : ~(s = r /\ q = p) => reader'[s][q] = reader[s][q]
    BY <1>2, <2>1
  <2>3. FreshInv' BY <1>1, <1>3, <1>4, <2>1, <2>2 DEF ConsoleInv, FreshInv, Run
  <2>4. DoneInv' BY <1>1, <1>3, <2>2 DEF ConsoleInv, DoneInv
  <2>5. ChannelInv'
    <3> SUFFICES ASSUME rx # NoRun, NEW q \in Stream
                 PROVE  /\ Follows(chan[rx], q, Polled(q))
                        /\ Polled(q) + Total(chan[rx], q) = taken[rx][q] - hand'[rx][q]
      BY <1>1, <2>1 DEF ChannelInv, Polled, Follows, Total, Count
    <3>1. rx \in Run BY DEF ControlInv, TypeOK, BackendTypeOK
    <3>2. hand'[rx][q] = hand[rx][q] BY <1>3, <1>6, <3>1
    <3> QED BY <3>2 DEF ConsoleInv, ChannelInv
  <2> QED BY <1>5, <2>3, <2>4, <2>5 DEF ConsoleInv
<1>7. CASE rx = r
  <2>1. reader' = reader /\ chan' = [chan EXCEPT ![r] = chan[r] \o Chunk(r, p)]
    BY <1>2, <1>7 DEF Send
  <2>2. /\ chan'[r] = chan[r] \o Chunk(r, p)
        /\ \A s \in Run : s # r => chan'[s] = chan[s]
    BY <1>2, <2>1
  <2>3. FreshInv' BY <1>1, <1>3, <1>4, <2>1, <2>2 DEF ConsoleInv, FreshInv, Run
  <2>4. DoneInv' BY <1>1, <1>3, <1>4, <2>1 DEF ConsoleInv, DoneInv
  <2>5. ChannelInv'
    <3> SUFFICES ASSUME NEW q \in Stream
                 PROVE  /\ Follows(chan'[r], q, Polled(q))
                        /\ Polled(q) + Total(chan'[r], q) = taken[r][q] - hand'[r][q]
      <4>1. rx' = r /\ taken' = taken /\ \A q \in Stream : Polled(q)' = Polled(q)
        BY <1>1, <1>7 DEF Polled
      <4> QED BY <4>1 DEF ChannelInv, Follows, Total, Count
    <3>1. /\ Follows(chan[r], q, Polled(q))
          /\ Polled(q) + Total(chan[r], q) = taken[r][q] - hand[r][q]
      BY <1>7 DEF ConsoleInv, ChannelInv, Run, NoRun
    <3>2. chan[r] \in Seq(Unit) /\ Chunk(r, p) \in Seq(Unit)
      BY <1>2, ChunkIsOfRun
    <3>3. /\ Polled(q) \in Int /\ Total(chan[r], q) \in Nat
          /\ taken[r][q] \in Nat /\ hand[r][q] \in Nat
      BY <1>2, <3>2, TotalType DEF Polled, ControlInv, TypeOK
    <3>4. /\ Follows(Chunk(r, p), q, taken[r][q] - hand[r][q])
          /\ Total(Chunk(r, p), q) = IF q = p THEN hand[r][q] ELSE 0
      <4>1. CASE q = p BY <4>1, ChunkFollows
      <4>2. CASE q # p BY <4>2, ChunkFollows
      <4> QED BY <4>1, <4>2
    <3>5. Follows(chan'[r], q, Polled(q))
      <4>1. Follows(Chunk(r, p), q, Polled(q) + Total(chan[r], q)) BY <3>1, <3>4
      <4> QED BY <2>2, <3>1, <3>2, <3>3, <4>1, FollowsConcat
    <3>6. Total(chan'[r], q) = Total(chan[r], q) + Total(Chunk(r, p), q)
      BY <2>2, <3>2, CountConcat
    <3>7. hand'[r][q] = IF q = p THEN 0 ELSE hand[r][q]
      BY <1>3
    <3>8. Polled(q) + Total(chan'[r], q) = taken[r][q] - hand'[r][q]
      BY <3>1, <3>3, <3>4, <3>6, <3>7
    <3> QED BY <3>5, <3>8
  <2> QED BY <1>5, <2>3, <2>4, <2>5 DEF ConsoleInv
<1> QED BY <1>6, <1>7

----------------------------------------------------------------------------
(* The invariant                                                           *)

LEMMA InitConsole == Init => ConsoleInv
<1> SUFFICES ASSUME Init PROVE ConsoleInv
  OBVIOUS
<1> USE DEF Init, BackendInit
<1>1. FreshInv BY DEF FreshInv
<1>2. DoneInv BY DEF DoneInv
<1>3. LogInv BY NoText DEF LogInv
<1>4. ChannelInv BY DEF ChannelInv
<1> QED BY <1>1, <1>2, <1>3, <1>4 DEF ConsoleInv

LEMMA NextConsole == ControlInv /\ ConsoleInv /\ [Next]_vars => ConsoleInv'
<1> SUFFICES ASSUME ControlInv, ConsoleInv, [Next]_vars PROVE ConsoleInv'
  OBVIOUS
<1>1. CASE AppStep
  BY <1>1, AppKeepsConsole
<1>2. CASE BackendStep /\ UNCHANGED appVars
  BY <1>2, BackendKeepsConsole
<1>3. CASE EngineStep /\ UNCHANGED appVars
  <2>1. "stdout" \in Stream BY DEF Stream
  <2> QED BY <1>3, <2>1, EngineKeepsConsole DEF EngineStep
<1>4. CASE \E r \in Run, p \in Stream : ReaderStep(r, p) /\ UNCHANGED appVars
  BY <1>4, ReadKeepsConsole, EngineKeepsConsole, SendKeepsConsole DEF ReaderStep
<1>5. CASE UNCHANGED vars
  BY <1>5, ElsewhereKeepsConsole DEF vars, backendVars, appVars, fieldVars, engineVars
<1> QED BY <1>1, <1>2, <1>3, <1>4, <1>5 DEF Next

\* The inductive invariant holds in every reachable state of the manager.
THEOREM Invariance == Spec => []IInv
<1>1. Init => IInv
  BY InitInv, InitConsole DEF IInv
<1>2. IInv /\ [Next]_vars => IInv'
  BY NextInv, NextConsole DEF IInv
<1> QED BY <1>1, <1>2, PTL DEF Spec

----------------------------------------------------------------------------
(* What follows from the invariant                                         *)

\* Every variable of the manager keeps its type.
THEOREM TypeCorrect == Spec => []TypeOK
<1>1. IInv => TypeOK BY DEF IInv, ControlInv
<1> QED BY <1>1, Invariance, PTL

\* At most one engine is alive, on a boot disk and a variable store that are
\* complete: Backend::start has waited for the old one before it rebuilds them.
THEOREM ExclusiveRunDirectory == Spec => []RunDirectoryIsExclusive
<1>1. IInv => RunDirectoryIsExclusive
  BY DEF IInv, ControlInv, TypeOK, BackendTypeOK, FieldsInv, EnginesInv,
     RunDirectoryIsExclusive, Run, NoRun
<1> QED BY <1>1, Invariance, PTL

\* Once the App is dropped, by a closed window or by a panic in update, Drop has
\* left no engine running.
THEOREM NoEngineOrphaned == Spec => []NoOrphan
<1>1. IInv => NoOrphan
  BY DEF IInv, ControlInv, FieldsInv, AfterStopped, EnginesInv, NoOrphan, Run, NoRun
<1> QED BY <1>1, Invariance, PTL

\* is_running, which asks only the child the Backend holds, tells the truth about
\* every engine ever spawned.
THEOREM TrueLabel == Spec => []LabelTellsOfEngine
<1>1. IInv => LabelTellsOfEngine
  BY DEF IInv, ControlInv, TypeOK, BackendTypeOK, FieldsInv, EnginesInv,
     LabelTellsOfEngine, is_running, Run, NoRun
<1> QED BY <1>1, Invariance, PTL

\* The console never mixes the output of two engines, whatever their readers
\* still have in hand when one replaces the other.
THEOREM UnmixedLog == Spec => []LogIsOfOneRun
<1>1. IInv => LogIsOfOneRun BY DEF IInv, ControlInv, OutputInv, LogIsOfOneRun
<1> QED BY <1>1, Invariance, PTL

\* The index into the list of vms never leaves it, for a list of any length.
THEOREM SelectionInList == Spec => []SelectedIsListed
<1>1. IInv => SelectedIsListed BY DEF IInv, ControlInv
<1> QED BY <1>1, Invariance, PTL

\* The status line tells of the engine there is, wherever start fails.
THEOREM TrueStatus == Spec => []StatusTellsOfEngine
<1>1. IInv => StatusTellsOfEngine BY DEF IInv, ControlInv
<1> QED BY <1>1, Invariance, PTL

\* Units of one stream that follow each other have consecutive numbers, wherever a
\* text begins in the stream.
LEMMA FollowsIsGapless ==
  ASSUME NEW text \in Seq(Unit), NEW p, NEW b \in Int, Follows(text, p, b),
         NEW i \in DOMAIN text, NEW j \in DOMAIN text, i < j,
         text[i].stream = p, text[j].stream = p,
         \A k \in i + 1 .. j - 1 : text[k].stream # p
  PROVE  text[j].n = text[i].n + 1
<1>1. DOMAIN text = 1 .. Len(text) /\ Len(text) \in Nat
  BY CountFacts
<1> DEFINE A == {k \in 1 .. i : text[k].stream = p}
<1> DEFINE B == {k \in 1 .. j : text[k].stream = p}
<1>2. B = A \cup {j} /\ j \notin A
  BY <1>1
<1>3. IsFiniteSet(A)
  <2>1. IsFiniteSet(1 .. i) BY <1>1, FS_Interval
  <2> QED BY <2>1, FS_Subset
<1>4. Count(text, p, i) = Cardinality(A) /\ Count(text, p, j) = Cardinality(B)
  BY DEF Count
<1> HIDE DEF A, B
<1>5. Cardinality(B) = Cardinality(A) + 1
  BY <1>2, <1>3, FS_AddElement
<1>6. Cardinality(A) \in Nat
  BY <1>3, FS_CardinalityType
<1>7. text[i].n = b + Cardinality(A) /\ text[j].n = b + Cardinality(B)
  BY <1>4 DEF Follows
<1> QED BY <1>5, <1>6, <1>7

\* Whatever the App has drained and whatever waits in the channel is one stretch of
\* each stream.
LEMMA ConsoleFollows ==
  ASSUME ControlInv, ConsoleInv, NEW p \in Stream
  PROVE  Console \in Seq(Unit) /\ \E b \in Int : Follows(Console, p, b)
<1>1. /\ log \in Seq(Unit) /\ drain_log \in Seq(Unit)
      /\ shown[p] \in Nat
  BY Drained DEF ControlInv, TypeOK
<1>2. Total(log, p) \in Nat
  BY <1>1, TotalType
<1>3. Follows(drain_log, p, Polled(p))
  <2>1. CASE rx = NoRun BY <2>1, NoText DEF drain_log
  <2>2. CASE rx # NoRun BY <2>2 DEF drain_log, ConsoleInv, ChannelInv
  <2> QED BY <2>1, <2>2
<1>4. CASE pc = "ok"
  <2>1. Polled(p) \in Int BY <1>4 DEF Polled
  <2> QED BY <1>1, <1>3, <1>4, <2>1 DEF Console
<1>5. CASE pc # "ok"
  <2> DEFINE b == shown[p] - Total(log, p)
  <2>1. b \in Int /\ b + Total(log, p) = shown[p] BY <1>1, <1>2
  <2>2. Follows(log, p, b) BY DEF ConsoleInv, LogInv
  <2> HIDE DEF b
  <2>3. Follows(drain_log, p, b + Total(log, p)) BY <1>3, <1>5, <2>1 DEF Polled
  <2>4. Follows(log \o drain_log, p, b) BY <1>1, <2>1, <2>2, <2>3, FollowsConcat
  <2> QED BY <1>1, <1>5, <2>1, <2>4, ConcatProperties DEF Console
<1> QED BY <1>4, <1>5

\* The console shows each stream in the order in which it was written, without a
\* hole: spawn_reader, drain_log and the trim drop nothing but a beginning, and only a
\* character of more than one byte may be shown as replacement characters.
THEOREM GaplessConsole == Spec => []ConsoleIsGapless
<1>1. ASSUME IInv PROVE ConsoleIsGapless
  <2>1. Console \in Seq(Unit)
    <3>1. "stdout" \in Stream BY DEF Stream
    <3> QED BY <1>1, <3>1, ConsoleFollows DEF IInv
  <2>2. \A i \in DOMAIN Console : Console[i] \in Unit BY <2>1, LenProperties
  <2>3. ASSUME NEW i \in DOMAIN Console, NEW j \in DOMAIN Console, i < j,
               Console[i].stream = Console[j].stream,
               \A k \in i + 1 .. j - 1 : Console[k].stream # Console[i].stream
        PROVE  Console[j].n = Console[i].n + 1
    <3> DEFINE p == Console[i].stream
    <3>1. p \in Stream BY <2>2 DEF Unit
    <3>2. \E b \in Int : Follows(Console, p, b) BY <1>1, <3>1, ConsoleFollows DEF IInv
    <3> QED BY <2>1, <2>3, <3>2, FollowsIsGapless
  <2>4. ASSUME NEW i \in DOMAIN Console, ~PartOfWide(Console[i].n)
        PROVE  Console[i].intact
    <3>1. Console[i] \in Unit BY <2>2
    <3>2. Console[i].intact \in BOOLEAN /\ (~Console[i].intact => PartOfWide(Console[i].n))
      BY <3>1 DEF Unit
    <3> QED BY <2>4, <3>2
  <2> QED BY <2>3, <2>4 DEF ConsoleIsGapless
<1> QED BY <1>1, Invariance, PTL

\* When an engine exits by itself its last words reach the window: a reader that
\* has seen the end of its stream has passed on all of it.
THEOREM TailShown == Spec => []TailIsShown
<1>1. ASSUME IInv PROVE TailIsShown
  <2> SUFFICES ASSUME pc = "idle", rx # NoRun, chan[rx] = << >>, NEW p \in Stream,
                      reader[rx][p] = "done"
               PROVE  shown[p] = written[rx][p]
    BY DEF TailIsShown
  <2>1. rx \in Run /\ shown[p] \in Nat /\ written[rx][p] \in Nat
    BY <1>1 DEF IInv, ControlInv, TypeOK, BackendTypeOK
  <2>2. hand[rx][p] = 0 /\ taken[rx][p] = written[rx][p]
    BY <1>1, <2>1 DEF IInv, ConsoleInv, DoneInv
  <2>3. shown[p] + 0 = taken[rx][p] - hand[rx][p]
    BY <1>1, NoText DEF IInv, ConsoleInv, ChannelInv, Polled
  <2> QED BY <2>1, <2>2, <2>3
<1> QED BY <1>1, Invariance, PTL
=============================================================================
