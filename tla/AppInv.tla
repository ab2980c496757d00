------------------------------- MODULE AppInv -------------------------------
(***************************************************************************)
(* The inductive invariant of App: what the fields of Backend, the engines *)
(* and the log have to do with each other at each step of a call.          *)
(***************************************************************************)
EXTENDS App

\* The steps of start after stop, and the returns that leave no engine behind.
AfterStopped == {"mkdir", "write_disk", "copy_vars", "spawn", "err", "stopped", "gone"}

\* Where a start has yet to spawn its engine.
BeforeSpawn ==
  \/ pc \in {"stop", "wait"} /\ caller = "start"
  \/ pc \in {"mkdir", "write_disk", "copy_vars", "spawn"}

\* child and rx are set and reset together, except that stop takes child before
\* it waits and drops rx after.
FieldsInv ==
  /\ pc # "wait" => victim = NoRun /\ child = rx
  /\ pc = "wait" => victim # NoRun /\ victim = rx /\ child = NoRun
  /\ pc \in AfterStopped => child = NoRun
  /\ pc = "ok" => child # NoRun
  /\ BeforeSpawn => runs < MaxRuns

\* An engine that is alive is the one the Backend holds or is waiting for, and
\* it was started on a complete run directory.
EnginesInv ==
  /\ \A r \in Run : Alive(r) => r = child \/ r = victim
  /\ \A r \in Run : Alive(r) => files = "ready"
  /\ pc = "spawn" => files = "ready"

\* A channel carries the output of its run, and the log that of one run: the
\* current one, until a new engine has replaced it and the log is about to be
\* cleared.
OutputInv ==
  /\ \A r \in Run : \A i \in DOMAIN chan[r] : chan[r][i].run = r
  /\ \A i, j \in DOMAIN log : log[i].run = log[j].run
  /\ pc # "ok" /\ rx # NoRun => \A i \in DOMAIN log : log[i].run = rx

\* No reader holds more than it has taken, or has taken more than was written.
ReadersInv ==
  \A r \in Run, p \in Stream :
    hand[r][p] <= taken[r][p] /\ taken[r][p] <= written[r][p]

\* Inductive without what the console shows.
ControlInv ==
  /\ TypeOK
  /\ FieldsInv
  /\ EnginesInv
  /\ OutputInv
  /\ ReadersInv
  /\ SelectedIsListed
  /\ StatusTellsOfEngine

----------------------------------------------------------------------------
(* The console: how log, channel, hands and pipes fit together             *)

\* How many of the first i units of text are of stream p, and how many of all.
Count(text, p, i) == Cardinality({j \in 1 .. i : text[j].stream = p})
Total(text, p) == Count(text, p, Len(text))

\* The units of stream p in text are those that come after the first b units of
\* that stream, one after the other.
Follows(text, p, b) ==
  \A i \in DOMAIN text : text[i].stream = p => text[i].n = b + Count(text, p, i)

\* A run that was not spawned has sent nothing and has no readers.
FreshInv ==
  \A r \in Run : r > runs =>
    chan[r] = << >> /\ \A p \in Stream : reader[r][p] = "none" /\ taken[r][p] = 0 /\ hand[r][p] = 0

\* A reader that came to the end of its stream has passed on all of it.
DoneInv ==
  \A r \in Run, p \in Stream :
    reader[r][p] = "done" => hand[r][p] = 0 /\ taken[r][p] = written[r][p]

\* What the log lost of a stream is the beginning of it.
LogInv == \A p \in Stream : Follows(log, p, shown[p] - Total(log, p))

\* The channel goes on where the log ends, and the reader's hand where the channel
\* ends.  A new engine's channel begins at its first unit, while the counts are
\* still those of the engine before it.
Polled(p) == IF pc = "ok" THEN 0 ELSE shown[p]
ChannelInv ==
  rx # NoRun => \A p \in Stream :
    /\ Follows(chan[rx], p, Polled(p))
    /\ Polled(p) + Total(chan[rx], p) = taken[rx][p] - hand[rx][p]

ConsoleInv == FreshInv /\ DoneInv /\ LogInv /\ ChannelInv

\* The conjunction is inductive.
IInv == ControlInv /\ ConsoleInv
=============================================================================
