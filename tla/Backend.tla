------------------------------ MODULE Backend ------------------------------
(***************************************************************************)
(* manager/src/vm.rs: a Backend owns at most one engine, the QEMU process  *)
(* that boots the hypervisor, and the receiving end of the channel two     *)
(* reader threads fill with what the engine writes.                        *)
(*                                                                         *)
(* The calling thread is inside a call of Backend while pc names one of    *)
(* its steps; pc = "idle" is the caller's own code, and "ok", "err",       *)
(* "stopped" and "gone" are returns the caller has yet to act on.  Engines *)
(* and readers run in between the steps of the calling thread.             *)
(*                                                                         *)
(* Output is counted in units, the n-th that engine run wrote on stream: a *)
(* character of one byte, or one of the two parts a read can cut a longer  *)
(* character into.                                                         *)
(***************************************************************************)
EXTENDS Naturals, Sequences

CONSTANTS
  MaxRuns,      \* bound: engines spawned in one life of the manager
  MaxOutput,    \* bound: units an engine writes on each stream
  Wide          \* the units that are first parts of longer characters

ASSUME BackendAssumption == MaxRuns \in Nat \ {0} /\ MaxOutput \in Nat \ {0}
ASSUME WideAssumption == Wide \subseteq Nat \ {0} /\ \A n \in Wide : n + 1 \notin Wide

Run == 1 .. MaxRuns
NoRun == 0
Stream == {"stdout", "stderr"}

\* A unit that is not intact is shown as a replacement character (U+FFFD); only a
\* part of a longer character can be.
PartOfWide(n) == n \in Wide \/ n - 1 \in Wide
Unit ==
  {u \in [run : Run, stream : Stream, n : 1 .. MaxOutput, intact : BOOLEAN] :
     ~u.intact => PartOfWide(u.n)}

VARIABLES
  pc, caller,    \* step of the calling thread; the call it is in
  child, rx,     \* fields of Backend: the run they belong to, or NoRun
  victim,        \* stop's local c: the engine taken from child
  files,         \* disk.img and vars.fd in the run directory
  runs,          \* engines spawned so far
  engine,        \* each engine: "none", "running", "killed" (signalled), "exited"
  written,       \* units each engine has written on each stream
  reader,        \* each reader thread: "none", "running", "done", "failed"
  taken,         \* units each reader has read from its pipe
  hand,          \* how many of those it has read but not sent yet
  chan           \* the channel of each run, which only rx can receive from

fieldVars == <<child, rx>>
engineVars == <<engine, written>>
readerVars == <<reader, taken, hand>>
backendVars ==
  <<pc, caller, fieldVars, victim, files, runs, engineVars, readerVars, chan>>

Call == {"start", "stop", "drop"}
Step == {"stop", "wait", "mkdir", "write_disk", "copy_vars", "spawn"}
Return == {"ok", "err", "stopped", "gone"}

BackendTypeOK ==
  /\ pc \in {"idle"} \cup Step \cup Return
  /\ caller \in Call
  /\ child \in Run \cup {NoRun}
  /\ rx \in Run \cup {NoRun}
  /\ victim \in Run \cup {NoRun}
  /\ files \in {"stale", "disk", "ready"}
  /\ runs \in 0 .. MaxRuns
  /\ engine \in [Run -> {"none", "running", "killed", "exited"}]
  /\ written \in [Run -> [Stream -> 0 .. MaxOutput]]
  /\ reader \in [Run -> [Stream -> {"none", "running", "done", "failed"}]]
  /\ taken \in [Run -> [Stream -> 0 .. MaxOutput]]
  /\ hand \in [Run -> [Stream -> 0 .. MaxOutput]]
  /\ chan \in [Run -> Seq(Unit)]

BackendInit ==
  /\ pc = "idle"
  /\ caller = "stop"
  /\ child = NoRun
  /\ rx = NoRun
  /\ victim = NoRun
  /\ files = "stale"
  /\ runs = 0
  /\ engine = [r \in Run |-> "none"]
  /\ written = [r \in Run |-> [p \in Stream |-> 0]]
  /\ reader = [r \in Run |-> [p \in Stream |-> "none"]]
  /\ taken = [r \in Run |-> [p \in Stream |-> 0]]
  /\ hand = [r \in Run |-> [p \in Stream |-> 0]]
  /\ chan = [r \in Run |-> << >>]

Alive(r) == engine[r] \in {"running", "killed"}

----------------------------------------------------------------------------
(* stop, which start and Drop also begin with                              *)

\* The caller enters a method of Backend.
call(c) == pc' = "stop" /\ caller' = c

AfterStop == [start |-> "mkdir", stop |-> "stopped", drop |-> "gone"][caller]

\* Variant for the mutation checks: stop does not wait.
KillWithoutWait ==
  /\ pc = "stop"
  /\ child' = NoRun
  /\ rx' = NoRun
  /\ engine' = IF child = NoRun THEN engine
               ELSE [engine EXCEPT ![child] = IF @ = "running" THEN "killed" ELSE @]
  /\ pc' = AfterStop
  /\ UNCHANGED <<caller, victim, files, runs, written, readerVars, chan>>

\* Variant: stop waits for an engine it has not signalled.
WaitWithoutKill ==
  /\ pc = "stop"
  /\ child' = NoRun
  /\ victim' = child
  /\ pc' = IF child = NoRun THEN AfterStop ELSE "wait"
  /\ UNCHANGED <<caller, rx, files, runs, engineVars, readerVars, chan>>

\* vm.rs:139: child.take() and kill().  The signal is sent, not yet acted on.
Kill ==
  /\ pc = "stop"
  /\ IF child = NoRun
     THEN pc' = AfterStop /\ UNCHANGED <<child, victim, engine>>
     ELSE /\ child' = NoRun
          /\ victim' = child
          /\ engine' = [engine EXCEPT ![child] = IF @ = "running" THEN "killed" ELSE @]
          /\ pc' = "wait"
  /\ UNCHANGED <<caller, rx, files, runs, written, readerVars, chan>>

\* vm.rs:141: wait() returns once the engine is dead; then rx is dropped, and
\* with it whatever is left in the channel.
Wait ==
  /\ pc = "wait"
  /\ engine[victim] = "exited"
  /\ rx' = NoRun
  /\ chan' = [chan EXCEPT ![victim] = << >>]
  /\ victim' = NoRun
  /\ pc' = AfterStop
  /\ UNCHANGED <<caller, child, files, runs, engineVars, readerVars>>

----------------------------------------------------------------------------
(* start                                                                   *)

\* A step of start that can fail: on to next, or back with the error.
OrError(next) == pc' \in {next, "err"}

MakeDir ==
  /\ pc = "mkdir"
  /\ OrError("write_disk")
  /\ UNCHANGED <<caller, fieldVars, victim, files, runs, engineVars, readerVars, chan>>

\* vm.rs:75-76: the hypervisor's image is read and the boot disk rebuilt.  The
\* disk is touched as soon as the image could be read, even if building fails.
WriteDisk ==
  /\ pc = "write_disk"
  /\ \/ files' = "disk" /\ pc' = "copy_vars"
     \/ files' \in {files, "stale"} /\ pc' = "err"
  /\ UNCHANGED <<caller, fieldVars, victim, runs, engineVars, readerVars, chan>>

\* An image that is too long for the disk panics in write_fat32_disk (Fat32),
\* before the file is touched; the panic takes the Backend with it.
WriteDiskPanics ==
  /\ pc = "write_disk"
  /\ call("drop")
  /\ UNCHANGED <<fieldVars, victim, files, runs, engineVars, readerVars, chan>>

\* vm.rs:77
CopyVars ==
  /\ pc = "copy_vars"
  /\ OrError("spawn")
  /\ files' = IF pc' = "spawn" THEN "ready" ELSE "stale"
  /\ UNCHANGED <<caller, fieldVars, victim, runs, engineVars, readerVars, chan>>

\* vm.rs:121-135: the engine and its two readers start; the fields are set.
Spawn ==
  /\ pc = "spawn"
  /\ \/ /\ pc' = "err"
        /\ UNCHANGED <<fieldVars, runs, engine, reader>>
     \/ /\ runs' = runs + 1
        /\ engine' = [engine EXCEPT ![runs'] = "running"]
        /\ reader' = [reader EXCEPT ![runs'] = [p \in Stream |-> "running"]]
        /\ child' = runs'
        /\ rx' = runs'
        /\ pc' = "ok"
  /\ UNCHANGED <<caller, victim, files, written, taken, hand, chan>>

----------------------------------------------------------------------------
(* The engine (external) and the two reader threads of each run            *)

\* The engine writes a unit; nobody can take it once the pipe has no reader.
EngineWrites(r, p) ==
  /\ Alive(r)
  /\ reader[r][p] = "running"
  /\ written[r][p] < MaxOutput
  /\ written' = [written EXCEPT ![r][p] = @ + 1]
  /\ UNCHANGED <<pc, caller, fieldVars, victim, files, runs, engine, readerVars, chan>>

\* The engine dies, of the signal or by itself.
EngineExits(r) ==
  /\ Alive(r)
  /\ engine' = [engine EXCEPT ![r] = "exited"]
  /\ UNCHANGED <<pc, caller, fieldVars, victim, files, runs, written, readerVars, chan>>

\* vm.rs:175: read returns some of what the pipe holds.
Read(r, p) ==
  /\ reader[r][p] = "running"
  /\ hand[r][p] = 0
  /\ \E n \in 1 .. written[r][p] - taken[r][p] :
       /\ taken' = [taken EXCEPT ![r][p] = @ + n]
       /\ hand' = [hand EXCEPT ![r][p] = n]
  /\ UNCHANGED <<pc, caller, fieldVars, victim, files, runs, engineVars, reader, chan>>

\* Variant: the thread ends with the engine, whatever the pipe still holds.
EndsWithEngine(r, p) ==
  /\ reader[r][p] = "running"
  /\ hand[r][p] = 0
  /\ ~Alive(r)
  /\ reader' = [reader EXCEPT ![r][p] = "done"]
  /\ UNCHANGED <<pc, caller, fieldVars, victim, files, runs, engineVars, taken, hand, chan>>

\* Variant: end of file is taken for "nothing yet" and the loop goes on.
EofIgnored(r, p) ==
  /\ reader[r][p] = "running"
  /\ hand[r][p] = 0
  /\ ~Alive(r)
  /\ UNCHANGED backendVars

\* vm.rs:176: end of file, once the engine is dead and the pipe is empty.
ReadEof(r, p) ==
  /\ reader[r][p] = "running"
  /\ hand[r][p] = 0
  /\ ~Alive(r)
  /\ taken[r][p] = written[r][p]
  /\ reader' = [reader EXCEPT ![r][p] = "done"]
  /\ UNCHANGED <<pc, caller, fieldVars, victim, files, runs, engineVars, taken, hand, chan>>

\* vm.rs:176: any error of read, an interrupted call included, ends the thread.
ReadFails(r, p) ==
  /\ reader[r][p] = "running"
  /\ hand[r][p] = 0
  /\ reader' = [reader EXCEPT ![r][p] = "failed"]
  /\ UNCHANGED <<pc, caller, fieldVars, victim, files, runs, engineVars, taken, hand, chan>>

\* Variant: the chunk is one unit longer than what was read.
ChunkTooLong(r, p) ==
  [i \in 1 .. hand[r][p] + 1 |->
     [run |-> r, stream |-> p, n |-> taken[r][p] - hand[r][p] + i, intact |-> TRUE]]

\* What a reader makes of what it has in hand: from_utf8_lossy sees one read at a
\* time, and replaces either part of a character that the read has cut in two.
Chunk(r, p) ==
  LET first == taken[r][p] - hand[r][p] + 1
      last == taken[r][p]
      cut == (Wide \cap {last}) \cup {n \in {first} : n - 1 \in Wide}
  IN  [i \in 1 .. hand[r][p] |->
         [run |-> r, stream |-> p, n |-> first + i - 1, intact |-> first + i - 1 \notin cut]]

\* vm.rs:178: send, which fails and ends the thread once rx is dropped.
Send(r, p) ==
  /\ hand[r][p] > 0
  /\ hand' = [hand EXCEPT ![r][p] = 0]
  /\ IF rx = r
     THEN chan' = [chan EXCEPT ![r] = @ \o Chunk(r, p)] /\ UNCHANGED reader
     ELSE reader' = [reader EXCEPT ![r][p] = "failed"] /\ UNCHANGED chan
  /\ UNCHANGED <<pc, caller, fieldVars, victim, files, runs, engineVars, taken>>

----------------------------------------------------------------------------
(* Queries                                                                 *)

\* vm.rs:146
is_running == child # NoRun /\ Alive(child)

\* vm.rs:154: what drain_log returns, and what is left in the channels.
drain_log == IF rx = NoRun THEN << >> ELSE chan[rx]
Emptied == IF rx = NoRun THEN chan ELSE [chan EXCEPT ![rx] = << >>]

BackendStep ==
  Kill \/ Wait \/ MakeDir \/ WriteDisk \/ WriteDiskPanics \/ CopyVars \/ Spawn

\* What happens to an engine and its pipes from outside.
EngineStep ==
  \E r \in Run :
    \/ EngineExits(r)
    \/ \E p \in Stream : EngineWrites(r, p) \/ ReadFails(r, p)

\* What a reader thread does when it is scheduled; an error is not its doing.
ReaderStep(r, p) == Read(r, p) \/ ReadEof(r, p) \/ Send(r, p)
=============================================================================
