------------------------------ MODULE SelfTest ------------------------------
(***************************************************************************)
(* manager/src/main.rs: run_self_test starts one engine, polls its output  *)
(* until the banner of the hypervisor turns up or the time is over, stops  *)
(* the engine and tells the verdict by a report and by the exit code.      *)
(*                                                                         *)
(* The banner is the output from BannerFirst to BannerLast on stdout, the  *)
(* serial port of the guest, and plain ASCII; stderr carries the engine's  *)
(* own messages.                                                           *)
(***************************************************************************)
EXTENDS Backend

CONSTANTS BannerFirst, BannerLast

ASSUME BannerAssumption ==
  /\ BannerFirst \in Nat \ {0} /\ BannerLast \in Nat
  /\ BannerFirst <= BannerLast
  /\ \A n \in BannerFirst .. BannerLast : ~PartOfWide(n)

VARIABLES
  st,        \* where run_self_test is
  log,       \* all the output drained so far
  expired,   \* the deadline has passed
  passed,
  report,    \* selftest.log, which may be left from an earlier life
  code       \* the exit code: "none" until it is known, "success", "failure"

testVars == <<st, log, expired, passed, report, code>>
vars == <<backendVars, testVars>>

\* The parts of Backend that only its own steps change.
Inside == <<fieldVars, victim, files, runs, engineVars, readerVars>>

Init ==
  /\ BackendInit
  /\ st = "check"
  /\ log = << >>
  /\ expired = FALSE
  /\ passed = FALSE
  /\ report \in {"none", "passed", "failed"}
  /\ code = "none"

----------------------------------------------------------------------------
(* The steps of run_self_test                                              *)

\* write_report, whose errors are ignored; a new file may be left truncated.
write_report(verdict) == report' \in {report, "none", verdict}

\* Every return drops the Backend, and main exits with the code.
Exit(c) ==
  /\ st' = "exit"
  /\ code' = c
  /\ call("drop")

\* main.rs:53: an image or a firmware file is missing.
Missing ==
  /\ st = "check"
  /\ write_report("failed")
  /\ Exit("failure")
  /\ UNCHANGED <<Inside, chan, log, expired, passed>>

\* main.rs:82, once the files are there; an engine that is missing is told of in
\* the report only.
Start ==
  /\ st = "check"
  /\ st' = "start"
  /\ call("start")
  /\ UNCHANGED <<Inside, chan, log, expired, passed, report, code>>

Started ==
  /\ pc = "ok"
  /\ pc' = "idle"
  /\ st' = "loop"
  /\ UNCHANGED <<caller, Inside, chan, log, expired, passed, report, code>>

StartFailed ==
  /\ pc = "err"
  /\ write_report("failed")
  /\ Exit("failure")
  /\ UNCHANGED <<Inside, chan, log, expired, passed>>

\* Variant for the mutation checks: only what was drained last is searched.
DrainAnew ==
  /\ st = "loop" /\ pc = "idle"
  /\ ~expired
  /\ log' = drain_log
  /\ chan' = Emptied
  /\ st' = "search"
  /\ UNCHANGED <<pc, caller, Inside, expired, passed, report, code>>

\* main.rs:94-95
Drain ==
  /\ st = "loop" /\ pc = "idle"
  /\ ~expired
  /\ log' = log \o drain_log
  /\ chan' = Emptied
  /\ st' = "search"
  /\ UNCHANGED <<pc, caller, Inside, expired, passed, report, code>>

\* Variant: the first half of the banner is enough.
ContainsStart(text) == \E i \in DOMAIN text : text[i].stream = "stdout" /\ text[i].n = BannerFirst

\* log.contains: the banner is in the text, in one piece.
Contains(text) ==
  \E i \in DOMAIN text : \A n \in BannerFirst .. BannerLast :
    LET k == i + (n - BannerFirst) IN
    /\ k \in DOMAIN text
    /\ text[k].stream = "stdout" /\ text[k].n = n /\ text[k].intact

Search ==
  /\ st = "search"
  /\ passed' = Contains(log)
  /\ st' = IF passed' THEN "stop" ELSE "sleep"
  /\ UNCHANGED <<pc, caller, Inside, chan, log, expired, report, code>>

\* main.rs:100: a tenth of a second of twenty-five.
Sleep ==
  /\ st = "sleep"
  /\ st' = "loop"
  /\ UNCHANGED <<backendVars, log, expired, passed, report, code>>

TimeIsOver ==
  /\ st = "loop" /\ pc = "idle"
  /\ expired
  /\ st' = "stop"
  /\ UNCHANGED <<backendVars, log, expired, passed, report, code>>

\* main.rs:102, on either way out of the loop.
Stop ==
  /\ st = "stop"
  /\ st' = "report"
  /\ call("stop")
  /\ UNCHANGED <<Inside, chan, log, expired, passed, report, code>>

\* main.rs:110-131
Report ==
  /\ st = "report" /\ pc = "stopped"
  /\ write_report(IF passed THEN "passed" ELSE "failed")
  /\ Exit(IF passed THEN "success" ELSE "failure")
  /\ UNCHANGED <<Inside, chan, log, expired, passed>>

\* The clock runs from the start of the engine to the end of the loop.
Polling == st \in {"loop", "search", "sleep"}
Expire ==
  /\ Polling
  /\ ~expired
  /\ expired' = TRUE
  /\ UNCHANGED <<backendVars, st, log, passed, report, code>>

TestStep ==
  \/ Missing \/ Start \/ Started \/ StartFailed
  \/ Drain \/ Search \/ Sleep \/ TimeIsOver \/ Stop \/ Report

Next ==
  \/ TestStep
  \/ Expire
  \/ BackendStep /\ UNCHANGED testVars
  \/ EngineStep /\ UNCHANGED testVars
  \/ \E r \in Run, p \in Stream : ReaderStep(r, p) /\ UNCHANGED testVars
  \/ pc = "gone" /\ UNCHANGED vars

Spec == Init /\ [][Next]_vars

\* The self-test, its Backend and its readers go on, and an engine that was
\* signalled dies; nothing is asked of what the engine does by itself, and not
\* even that time passes.
FairSpec ==
  /\ Spec
  /\ WF_vars(TestStep)
  /\ WF_vars(BackendStep /\ UNCHANGED testVars)
  /\ \A r \in Run : WF_vars(engine[r] = "killed" /\ EngineExits(r) /\ UNCHANGED testVars)
  /\ \A r \in Run, p \in Stream : WF_vars(ReaderStep(r, p) /\ UNCHANGED testVars)

----------------------------------------------------------------------------
(* What holds                                                              *)

\* The type of every variable.
TypeOK ==
  /\ BackendTypeOK
  /\ st \in {"check", "start", "loop", "search", "sleep", "stop", "report", "exit"}
  /\ log \in Seq(Unit)
  /\ expired \in BOOLEAN
  /\ passed \in BOOLEAN
  /\ report \in {"none", "passed", "failed"}
  /\ code \in {"none", "success", "failure"}

\* However the self-test ends, a panic in start included, its engine is dead.
NoEngineLeft == pc = "gone" => \A r \in Run : ~Alive(r)

\* The exit code says success only if the engine this life has started wrote the
\* whole banner.
PassMeansBooted == code = "success" => \E r \in Run : written[r]["stdout"] >= BannerLast

\* A banner that has been drained is found even when several polls have got it
\* in pieces, unless a message of the engine has come between.
Overlooked(text) ==
  /\ \A i \in DOMAIN text : text[i].stream = "stdout"
  /\ \E i \in DOMAIN text : text[i].n = BannerLast
DrainedBannerIsFound ==
  st \in {"stop", "report", "exit"} /\ ~passed => ~Overlooked(log)

\* The self-test ends whatever the engine does, if time passes: if polling for
\* ever means that the deadline comes.
SelfTestEnds == (<>[]Polling => <>expired) => <>(pc = "gone")

\* An engine that writes the banner in time passes, even if it exits right after:
\* unless reading fails or messages of the engine come in, only the deadline can
\* keep the polls from finding it.
BannerIsSeen ==
  \A r \in Run :
    st = "loop" /\ written[r]["stdout"] >= BannerLast
      ~> \/ passed \/ expired
         \/ reader[r]["stdout"] = "failed" \/ written[r]["stderr"] > 0
=============================================================================
