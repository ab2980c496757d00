-------------------------------- MODULE App --------------------------------
(***************************************************************************)
(* manager/src/main.rs: the window.  App::update runs once per frame on    *)
(* the thread that owns the Backend: it drains the serial output into the  *)
(* log, shows the list of vms, and acts on at most one click.  What start  *)
(* and stop return is acted on in the same frame, before the next poll.    *)
(***************************************************************************)
EXTENDS Backend, FiniteSets

CONSTANTS
  LogCap,       \* LOG_CAP, in units
  MaxVms        \* bound: entries of the list

ASSUME AppAssumption == LogCap \in Nat /\ MaxVms \in Nat \ {0}

VARIABLES
  log,          \* the serial output the console shows
  status,       \* the status line: "idle", "running", "stopped", "error", "ovmf"
  vms,          \* length of the list of vms
  selected,     \* index into it, from 0
  shown         \* units of each stream of the last run drained so far

listVars == <<vms, selected>>
appVars == <<log, status, listVars, shown>>
vars == <<backendVars, appVars>>

Init ==
  /\ BackendInit
  /\ log = << >>
  /\ status = "idle"
  /\ vms = 1
  /\ selected = 0
  /\ shown = [p \in Stream |-> 0]

----------------------------------------------------------------------------
(* One frame                                                               *)

\* Variant for the mutation checks: the cap drops what is new.
CappedAtTheEnd(text) == SubSeq(text, 1, IF Len(text) > LogCap THEN LogCap ELSE Len(text))

\* main.rs:206: the log keeps its last LogCap units.
Capped(text) == SubSeq(text, IF Len(text) > LogCap THEN Len(text) - LogCap + 1 ELSE 1,
                       Len(text))

\* The cap falls inside a character: the first unit kept is the second part of one
\* that is whole, since a whole character is in one chunk.
CutsCharacter(text) ==
  /\ Len(text) > LogCap
  /\ LogCap > 0
  /\ LET front == text[Len(text) - LogCap + 1] IN front.intact /\ front.n - 1 \in Wide

\* The count of each stream's units once text, the output just drained, is shown.
ShownAfter(text) ==
  [p \in Stream |-> shown[p] + Cardinality({i \in DOMAIN text : text[i].stream = p})]

\* main.rs:202: what every frame begins with.
Poll ==
  /\ pc = "idle"
  /\ chan' = Emptied
  /\ shown' = ShownAfter(drain_log)

\* The log as it is then, if it is not cut inside a character.
Trim ==
  /\ ~CutsCharacter(log \o drain_log)
  /\ log' = Capped(log \o drain_log)

\* The parts of Backend that only its own steps change.
Inside == <<fieldVars, victim, files, runs, engineVars, readerVars>>

\* Variant: the selection stays where it was.
DeleteVmOnly ==
  /\ vms > 1
  /\ vms' = vms - 1
  /\ UNCHANGED selected

\* Clicks in the list (main.rs:220-239); the last vm is never deleted, and the
\* deletion moves the selection whichever entry was deleted.
Select ==
  /\ selected' \in 0 .. vms - 1
  /\ UNCHANGED vms

NewVm ==
  /\ vms < MaxVms
  /\ vms' = vms + 1
  /\ selected' = vms

DeleteVm ==
  /\ vms > 1
  /\ vms' = vms - 1
  /\ selected' = IF selected = 0 THEN 0 ELSE selected - 1

\* Each of the OVMF buttons only tells of itself in the status line (main.rs:381).
OvmfButtons == status' = "ovmf" /\ UNCHANGED listVars

\* A frame without a click, or with one in the list or on an OVMF button.
Frame ==
  /\ Poll
  /\ Trim
  /\ \/ UNCHANGED <<status, listVars>>
     \/ (Select \/ NewVm \/ DeleteVm) /\ UNCHANGED status
     \/ OvmfButtons
  /\ UNCHANGED <<pc, caller, Inside>>

\* main.rs:412
ClearLog ==
  /\ Poll
  /\ ~CutsCharacter(log \o drain_log)
  /\ log' = << >>
  /\ UNCHANGED <<pc, caller, Inside, status, listVars>>

\* main.rs:264, 267, 271: start and reset do the same.
ClickStart ==
  /\ Poll
  /\ runs < MaxRuns
  /\ Trim
  /\ call("start")
  /\ UNCHANGED <<Inside, status, listVars>>

ClickStop ==
  /\ Poll
  /\ Trim
  /\ call("stop")
  /\ UNCHANGED <<Inside, status, listVars>>

\* main.rs:206: String::drain panics when the cap falls inside a character, and
\* the App is dropped as the panic unwinds.  A replacement character is longer
\* than what it stands for, and can be the one that is cut wherever it is.
TrimPanics ==
  /\ Poll
  /\ drain_log # << >>
  /\ LET text == log \o drain_log IN
     /\ Len(text) > LogCap
     /\ CutsCharacter(text) \/ \E i \in DOMAIN text : ~text[i].intact
  /\ log' = log \o drain_log
  /\ call("drop")
  /\ UNCHANGED <<Inside, status, listVars>>

\* The window is closed: App is dropped, and Backend with it.
Close ==
  /\ pc = "idle"
  /\ call("drop")
  /\ UNCHANGED <<Inside, chan, appVars>>

----------------------------------------------------------------------------
(* What App::run and the stop button do with what Backend returned         *)

\* Variant: the console is not cleared.
StartedUncleared ==
  /\ pc = "ok"
  /\ pc' = "idle"
  /\ status' = "running"
  /\ shown' = [p \in Stream |-> 0]
  /\ UNCHANGED <<caller, Inside, chan, log, listVars>>

\* Variant: only a success changes the status line.
StartFailedSilently ==
  /\ pc = "err"
  /\ pc' = "idle"
  /\ UNCHANGED <<caller, Inside, chan, appVars>>

Started ==
  /\ pc = "ok"
  /\ pc' = "idle"
  /\ status' = "running"
  /\ log' = << >>
  /\ shown' = [p \in Stream |-> 0]
  /\ UNCHANGED <<caller, Inside, chan, listVars>>

StartFailed ==
  /\ pc = "err"
  /\ pc' = "idle"
  /\ status' = "error"
  /\ UNCHANGED <<caller, Inside, chan, log, listVars, shown>>

Stopped ==
  /\ pc = "stopped"
  /\ pc' = "idle"
  /\ status' = "stopped"
  /\ UNCHANGED <<caller, Inside, chan, log, listVars, shown>>

----------------------------------------------------------------------------

AppStep ==
  \/ Frame \/ ClearLog \/ ClickStart \/ ClickStop \/ TrimPanics \/ Close
  \/ Started \/ StartFailed \/ Stopped

Next ==
  \/ AppStep
  \/ BackendStep /\ UNCHANGED appVars
  \/ EngineStep /\ UNCHANGED appVars
  \/ \E r \in Run, p \in Stream : ReaderStep(r, p) /\ UNCHANGED appVars
  \/ pc = "gone" /\ UNCHANGED vars

Spec == Init /\ [][Next]_vars

\* Threads run whenever they can, a signalled engine dies, and a call of
\* Backend goes on to its end.  Nothing says that a frame is ever drawn (no
\* repaint is requested when output arrives), that an engine that was not
\* signalled ends or that it writes.
FairSpec ==
  /\ Spec
  /\ \A r \in Run, p \in Stream : WF_vars(ReaderStep(r, p) /\ UNCHANGED appVars)
  /\ \A r \in Run : WF_vars(engine[r] = "killed" /\ EngineExits(r) /\ UNCHANGED appVars)
  /\ WF_vars(BackendStep /\ UNCHANGED appVars)

----------------------------------------------------------------------------
(* What holds                                                              *)

\* The type of every variable.
TypeOK ==
  /\ BackendTypeOK
  /\ log \in Seq(Unit)
  /\ status \in {"idle", "running", "stopped", "error", "ovmf"}
  /\ vms \in 1 .. MaxVms
  /\ selected \in Nat
  /\ shown \in [Stream -> Nat]

\* At most one engine is alive, and while one is the boot disk and the variable
\* store it runs on are complete and its own: start has waited for the previous
\* engine to die before it touches the run directory.
RunDirectoryIsExclusive ==
  \A r \in Run : Alive(r) =>
    /\ files = "ready"
    /\ \A s \in Run : Alive(s) => s = r

\* Once the App is dropped, by a closed window or by a panic in update, no
\* engine is left running.
NoOrphan == pc = "gone" => \A r \in Run : ~Alive(r)

\* Between calls the "engine: running" of the status bar, which asks only the
\* child the Backend holds, is the truth about every engine ever spawned.
LabelTellsOfEngine == pc = "idle" => (is_running <=> \E r \in Run : Alive(r))

\* The console never mixes the output of two engines: what it shows is of one
\* run, and of the current one as long as there is one.
LogIsOfOneRun ==
  \A i \in DOMAIN log :
    /\ \A j \in DOMAIN log : log[i].run = log[j].run
    /\ pc = "idle" /\ rx # NoRun => log[i].run = rx

\* What the console shows, and what it will show of what is already in the
\* channel, is each stream in the order in which it was written, with nothing
\* missing or twice in between: trimming and clearing only drop a prefix.  A
\* character of more than one byte may be shown as replacement characters, since
\* a read can cut it in two; every other is shown as it was written.
Console == IF pc = "ok" THEN drain_log ELSE log \o drain_log
ConsoleIsGapless ==
  /\ \A i, j \in DOMAIN Console :
       /\ i < j
       /\ Console[i].stream = Console[j].stream
       /\ \A k \in i + 1 .. j - 1 : Console[k].stream # Console[i].stream
       => Console[j].n = Console[i].n + 1
  /\ \A i \in DOMAIN Console : ~PartOfWide(Console[i].n) => Console[i].intact

\* The last words of an engine are not lost when it exits by itself: when a
\* reader has reached the end of its stream and the channel is empty, all that
\* was written on that stream has been drained.
TailIsShown ==
  pc = "idle" /\ rx # NoRun /\ chan[rx] = << >> =>
    \A p \in Stream : reader[rx][p] = "done" => shown[p] = written[rx][p]

\* An index into the list of vms never leaves it (main.rs:260, 280, 404).
SelectedIsListed == selected < vms

\* The status line says "running" only while there is an engine to stop, and
\* "stopped" or an error of start only while there is none, however start and
\* stop follow each other and wherever start fails.
StatusTellsOfEngine ==
  pc = "idle" =>
    /\ status = "running" => child # NoRun
    /\ status \in {"idle", "stopped", "error"} => child = NoRun

\* Reader threads do not pile up: those of an engine that has exited end,
\* whether or not the App still listens to them.
ReadersEnd ==
  \A r \in Run, p \in Stream :
    engine[r] = "exited" ~> reader[r][p] \in {"done", "failed"}

\* A call of Backend returns: stop does not wait forever for its engine.
CallsReturn == pc \in Step ~> pc \notin Step
=============================================================================
