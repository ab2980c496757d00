---------------------------- MODULE SelfTestInv ----------------------------
(***************************************************************************)
(* The inductive invariant of SelfTest: where the engine is while the      *)
(* self-test is at each of its steps, and where its output is.             *)
(***************************************************************************)
EXTENDS SelfTest

\* The steps of start after stop, and the returns that leave no engine behind.
AfterStopped == {"mkdir", "write_disk", "copy_vars", "spawn", "err", "stopped", "gone"}

\* Where start has yet to spawn the engine.
BeforeSpawn ==
  \/ st = "check"
  \/ pc \in {"stop", "wait"} /\ caller = "start"
  \/ pc \in {"mkdir", "write_disk", "copy_vars", "spawn"}

ControlInv ==
  /\ st \in {"check", "loop", "search", "sleep", "stop"} => pc = "idle"
  /\ st = "exit" => caller = "drop" /\ pc \in {"stop", "wait", "gone"}
  /\ BeforeSpawn => runs = 0
  /\ pc # "wait" => victim = NoRun /\ child = rx
  /\ pc = "wait" => victim # NoRun /\ victim = rx /\ child = NoRun
  /\ pc \in AfterStopped => child = NoRun
  /\ \A r \in Run : Alive(r) => r = child \/ r = victim

\* A run that has not been spawned has no reader and no output.
FreshInv ==
  /\ runs = 0 => log = << >> /\ rx = NoRun
  /\ \A r \in Run : r > runs =>
       /\ chan[r] = << >>
       /\ \A p \in Stream : reader[r][p] = "none" /\ taken[r][p] = 0 /\ hand[r][p] = 0

\* What has been read, sent or drained has been written.
AllWrote(text, w) == \A i \in DOMAIN text : text[i].n <= w[text[i].run][text[i].stream]
OutputInv ==
  /\ \A r \in Run, p \in Stream :
       hand[r][p] <= taken[r][p] /\ taken[r][p] <= written[r][p]
  /\ \A r \in Run : AllWrote(chan[r], written)
  /\ AllWrote(log, written)

\* Output without a message of the engine in it is the output from the first
\* unit on: what is drained goes on where the log ends, and what the reader of
\* stdout has in hand goes on where the channel ends.
Pure(text) == \A i \in DOMAIN text : text[i].stream = "stdout"
From(text, n) == \A i \in DOMAIN text : text[i].n = n + i
OrderInv ==
  /\ Pure(log) => From(log, 0)
  /\ rx # NoRun /\ Pure(log) /\ Pure(chan[rx]) =>
       /\ From(chan[rx], Len(log))
       /\ Len(log) + Len(chan[rx]) + hand[rx]["stdout"] = taken[rx]["stdout"]

\* The verdict is that of the log, and an exit code of success rests on it.
VerdictInv ==
  /\ st # "search" => (passed <=> Contains(log))
  /\ code = "success" => passed /\ st = "exit"

IInv ==
  /\ TypeOK
  /\ ControlInv
  /\ FreshInv
  /\ OutputInv
  /\ OrderInv
  /\ VerdictInv
=============================================================================
