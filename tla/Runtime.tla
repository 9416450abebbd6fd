------------------------------ MODULE Runtime -------------------------------
(***************************************************************************)
(* prdpr runtime: it starts the finished application and, when that fails, *)
(* starts it again and hands out one repair packet                         *)
(* (internal/engine/runtime.go, internal/apprun, internal/cli/bootstrap.go)*)
(* Composed with RunLoop: the command comes in whenever the lock is free,  *)
(* a phase may be in work, and phase and runtime repairs share             *)
(* incident.json.                                                          *)
(*                                                                         *)
(* The runtime section of state.json is left out: nothing reads it but the *)
(* reports.  So a start that succeeds, or that follows a completion or a   *)
(* resume, leaves no trace here.                                           *)
(***************************************************************************)
EXTENDS RunLoop

CONSTANT Kind  \* what the application is

ASSUME RuntimeAssumption == Kind \in {"none", "tool", "server"}

-----------------------------------------------------------------------------

\* startRuntimeLocked, apprun.Start and isInfraRuntime: what a start comes to.
\* A library has no application.  A tool must end well in time; a server is ready
\* when it still runs by then, or when its log looks ready however it ended.
StartEnds(exit, log) ==
  IF Kind = "none" THEN "skipped"
  ELSE IF exit = "missing" THEN "infra"
  ELSE IF \/ Kind = "tool" /\ exit = "zero"
          \/ Kind = "server" /\ (exit = "timeout" \/ log = "ready")
  THEN "ready" ELSE "failed"
Starts == {StartEnds(exit, log) : exit \in {"zero", "nonzero", "timeout", "missing"},
                                  log \in {"ready", "silent"}}

\* Mutant: an exhausted runtime incident is replaced too.
RuntimeIncidentAnew(d) ==
  IF d.inc.rt /\ CanAttempt(d.inc) THEN d.inc
  ELSE [phase |-> d.phase, attempts |-> 0, exhausted |-> FALSE, rt |-> TRUE]
\* The incident of a runtime repair: an incident of a phase is replaced.
RuntimeIncident(d) ==
  IF d.inc.rt THEN d.inc
  ELSE [phase |-> d.phase, attempts |-> 0, exhausted |-> FALSE, rt |-> TRUE]

\* RepairRuntime and prepareRuntimeRepairLocked, for the end of the second start.
\* The packet is the runtime's own: execution.json keeps the phase's.
RepairRuntime(d, ends) ==
  LET h == Start(d)
      inc == RuntimeIncident(d)
  IN  CASE ends \in {"ready", "skipped"} -> Return(h, "ok")
        [] ends = "infra" -> Return(RequestHuman(h, d.phase, "runtime"), "ok")
        [] ends = "failed" /\ CanAttempt(inc) ->
             Return(Save(SaveIncident(h, [inc EXCEPT !.attempts = @ + 1]),
                         "REPAIRING", d.phase), "ok")
        [] OTHER -> Return(RequestHuman(SaveIncident(h, [inc EXCEPT !.exhausted = TRUE]),
                                        d.phase, "runtime"), "error")

-----------------------------------------------------------------------------

\* StartRuntime.  Before the first phase is prepared there is nothing to start.
RuntimeStart(ends) ==
  /\ disk.phase # NoPhase
  /\ UserCommand("runtime", Return(Start(disk), ends))
  /\ UNCHANGED loop

\* RepairRuntime takes the lock anew.  That a start has failed before needs no
\* variable: since it leaves no trace, it may have in every state in which there
\* is something to start.
RuntimeRepair(ends) ==
  /\ disk.phase # NoPhase
  /\ UserCommand("runtime", RepairRuntime(disk, ends))
  /\ UNCHANGED loop

RuntimeNext ==
  LoopNextState \/ \E ends \in Starts : RuntimeStart(ends) \/ RuntimeRepair(ends)

RuntimeSpec == LoopInit /\ [][RuntimeNext]_loopvars

-----------------------------------------------------------------------------
\* Properties

\* However phase and runtime repairs, verify and prdpr phase are mixed, the one
\* incident.json both use never holds more than MaxAttempts attempts, and attempts
\* are forgotten once in a project's life: an incident of a phase is replaced by
\* one of the runtime, never the other way round, and the latter by none.  So at
\* most twice MaxAttempts repair packets are handed out.
RepairsBounded ==
  [][/\ disk'.inc.attempts <= MaxAttempts
     /\ disk.inc.rt => disk'.inc.rt
     /\ disk'.inc.attempts < disk.inc.attempts => ~disk.inc.rt /\ disk'.inc.rt]_loopvars
=============================================================================
