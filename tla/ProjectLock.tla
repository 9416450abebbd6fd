---------------------------- MODULE ProjectLock ----------------------------
(***************************************************************************)
(* The project lock of internal/state/lock.go: the file .project/LOCK that *)
(* every prdpr command creates with O_EXCL before it writes under          *)
(* .project/, and that a later command removes when it looks stale.        *)
(*                                                                         *)
(* One action is one system call of Lock or Unlock: other processes, and   *)
(* crashes, come between any two of them.  A process is named by its PID.  *)
(* The lock file is modelled by who created it (the inode) and by whether  *)
(* the PID has been written; a file without its PID reads as empty.        *)
(***************************************************************************)
EXTENDS Integers, FiniteSets

CONSTANTS Proc,      \* the PIDs commands run under
          Nobody     \* no PID could be read

ASSUME LockAssumption == Nobody \notin Proc

MaxAttempts == 2     \* "for attempt := 0; attempt < 2; attempt++"

LockFile(p, w) == [creator |-> p, written |-> w]
NoFile == LockFile(Nobody, FALSE)

VARIABLES file,       \* the lock file at its path
          pc,         \* where each process is
          attempt,    \* iterations of Lock's loop already begun
          seen,       \* the PID inspectLock read
          overlapped  \* history: two acquisitions were in progress at once
                      \* since somebody last called Lock while all were Quiet

vars == <<file, pc, attempt, seen, overlapped>>

Locations == {"dead", "idle", "create", "write", "inspect", "alive", "remove",
              "held", "release"}
Acquisition == {"create", "write", "inspect", "alive", "remove"}

Alive(p) == pc[p] # "dead"                      \* pidAlive: kill(pid, 0)
Acquiring(p) == pc[p] \in Acquisition           \* inside Lock
Holds(p) == pc[p] \in {"held", "release"}       \* has a Guard
Quiet == \A p \in Proc : ~Acquiring(p) /\ ~Holds(p)

FilePresent == file.creator # Nobody
Mine(p) == file.creator = p
Content == IF file.written THEN file.creator ELSE Nobody   \* the PID in it

TypeOK ==
  /\ file \in [creator : Proc \cup {Nobody}, written : BOOLEAN]
  /\ pc \in [Proc -> Locations]
  /\ attempt \in [Proc -> 0..MaxAttempts]
  /\ seen \in [Proc -> Proc \cup {Nobody}]
  /\ overlapped \in BOOLEAN
  /\ \A p \in Proc : pc[p] \in Acquisition \ {"create"} => attempt[p] < MaxAttempts

Init ==
  /\ file = NoFile
  /\ pc = [p \in Proc |-> "dead"]
  /\ attempt = [p \in Proc |-> 0]
  /\ seen = [p \in Proc |-> Nobody]
  /\ overlapped = FALSE

Goto(p, location) == pc' = [pc EXCEPT ![p] = location]

-----------------------------------------------------------------------------
\* Processes come and go.  A dead process's PID can be handed out again, also
\* while it is still in the lock file.

Spawn(p) ==
  /\ pc[p] = "dead"
  /\ Goto(p, "idle")
  /\ UNCHANGED <<file, attempt, seen, overlapped>>

\* A command ends or is killed; what it left at the path stays there.
Die(p) ==
  /\ Alive(p)
  /\ Goto(p, "dead")
  /\ seen' = [seen EXCEPT ![p] = Nobody]
  /\ UNCHANGED <<file, attempt, overlapped>>

-----------------------------------------------------------------------------
\* Lock

BeginLock(p) ==
  /\ pc[p] = "idle"
  /\ Goto(p, "create")
  /\ attempt' = [attempt EXCEPT ![p] = 0]
  /\ overlapped' = (~Quiet /\ (overlapped \/ \E q \in Proc : Acquiring(q)))
  /\ UNCHANGED <<file, seen>>

\* OpenFile(O_CREATE|O_EXCL) succeeds: the file is there, still empty.
CreateFresh(p) ==
  /\ pc[p] = "create" /\ attempt[p] < MaxAttempts
  /\ ~FilePresent
  /\ file' = LockFile(p, FALSE)
  /\ Goto(p, "write")
  /\ UNCHANGED <<attempt, seen, overlapped>>

\* Mutant: the loop runs once too often.
CreateExistsOnceMore(p) ==
  /\ pc[p] = "create" /\ attempt[p] <= MaxAttempts
  /\ FilePresent
  /\ Goto(p, "inspect")
  /\ UNCHANGED <<file, attempt, seen, overlapped>>

CreateExists(p) ==
  /\ pc[p] = "create" /\ attempt[p] < MaxAttempts
  /\ FilePresent
  /\ Goto(p, "inspect")
  /\ UNCHANGED <<file, attempt, seen, overlapped>>

\* "could not acquire project lock": the loop is exhausted.
GiveUp(p) ==
  /\ pc[p] = "create" /\ attempt[p] = MaxAttempts
  /\ Goto(p, "idle")
  /\ UNCHANGED <<file, attempt, seen, overlapped>>

\* The PID goes to the open descriptor: when the path has been taken away
\* meanwhile, the bytes land in an unlinked file and Lock succeeds all the same.
WritePid(p) ==
  /\ pc[p] = "write"
  /\ file' = IF Mine(p) THEN LockFile(p, TRUE) ELSE file
  /\ Goto(p, "held")
  /\ UNCHANGED <<attempt, seen, overlapped>>

\* A failed write, flush or close removes whatever is at the path.
WriteFails(p) ==
  /\ pc[p] = "write"
  /\ file' = NoFile
  /\ Goto(p, "idle")
  /\ UNCHANGED <<attempt, seen, overlapped>>

\* Mutant: any lock file is stale.
ReadPidIgnored(p) ==
  /\ pc[p] = "inspect"
  /\ Goto(p, "remove")
  /\ UNCHANGED <<file, attempt, seen, overlapped>>

\* inspectLock, first half: a missing, empty or unparsable file is stale.
ReadPid(p) ==
  /\ pc[p] = "inspect"
  /\ seen' = [seen EXCEPT ![p] = Content]
  /\ Goto(p, IF Content = Nobody THEN "remove" ELSE "alive")
  /\ UNCHANGED <<file, attempt, overlapped>>

\* Mutant: the answer of the signal is read the wrong way round.
CheckAliveInverted(p) ==
  /\ pc[p] = "alive"
  /\ Goto(p, IF Alive(seen[p]) THEN "remove" ELSE "idle")
  /\ seen' = [seen EXCEPT ![p] = Nobody]
  /\ UNCHANGED <<file, attempt, overlapped>>

\* inspectLock, second half: signal 0 to the PID read.
CheckAlive(p) ==
  /\ pc[p] = "alive"
  /\ Goto(p, IF Alive(seen[p]) THEN "idle" ELSE "remove")
  /\ seen' = [seen EXCEPT ![p] = Nobody]
  /\ UNCHANGED <<file, attempt, overlapped>>

\* Mutants: the stale file stays; the attempt is not counted.
RemoveStaleNot(p) ==
  /\ pc[p] = "remove"
  /\ attempt' = [attempt EXCEPT ![p] = @ + 1]
  /\ Goto(p, "create")
  /\ UNCHANGED <<file, seen, overlapped>>

RemoveStaleUncounted(p) ==
  /\ pc[p] = "remove"
  /\ file' = NoFile
  /\ Goto(p, "create")
  /\ UNCHANGED <<attempt, seen, overlapped>>

\* os.Remove goes by path, not by what inspectLock read.
RemoveStale(p) ==
  /\ pc[p] = "remove"
  /\ file' = NoFile
  /\ attempt' = [attempt EXCEPT ![p] = @ + 1]
  /\ Goto(p, "create")
  /\ UNCHANGED <<seen, overlapped>>

-----------------------------------------------------------------------------
\* Guard.Unlock: read the PID, then remove by path.

UnlockRead(p) ==
  /\ pc[p] = "held"
  /\ Goto(p, IF Content = p THEN "release" ELSE "idle")
  /\ UNCHANGED <<file, attempt, seen, overlapped>>

UnlockRemove(p) ==
  /\ pc[p] = "release"
  /\ file' = NoFile
  /\ Goto(p, "idle")
  /\ UNCHANGED <<attempt, seen, overlapped>>

-----------------------------------------------------------------------------
\* What a running process does next, once it has called Lock or Unlock.
LockStep(p) ==
  \/ CreateFresh(p) \/ CreateExists(p) \/ GiveUp(p)
  \/ WritePid(p) \/ WriteFails(p)
  \/ ReadPid(p) \/ CheckAlive(p) \/ RemoveStale(p)
  \/ UnlockRemove(p)

Next == \E p \in Proc : Spawn(p) \/ Die(p) \/ BeginLock(p) \/ UnlockRead(p)
                        \/ LockStep(p)

\* A process that is not killed keeps executing; nothing makes it start a
\* command, call Lock, or finish the work it does under the lock.
Fairness == \A p \in Proc : WF_vars(LockStep(p))

Spec == Init /\ [][Next]_vars /\ Fairness

-----------------------------------------------------------------------------
\* Properties

\* What the comment on Lock promises (lock.go:45, "an exclusive project
\* lock"): two live processes never both have a Guard.
MutualExclusion == \A p, q \in Proc : Holds(p) /\ Holds(q) => p = q

\* The lock is exclusive in every busy period in which no two calls of Lock
\* overlapped, through any crashes, failed writes, stale files and recycled
\* PIDs (a busy period starts when nobody holds or is taking the lock).
ExclusiveUnlessOverlap == ~overlapped => MutualExclusion

\* Without overlapping acquisitions, nobody touches the lock file of a live
\* holder: neither stale-lock recovery, nor a failed write, nor Unlock.
HolderUndisturbed ==
  [][\A p \in Proc : Holds(p) /\ Holds(p)' /\ ~overlapped => file' = file]_vars

\* "could not acquire project lock" needs a competitor: alone, a command
\* takes over a stale file within the two attempts of the loop.
GiveUpOnlyUnderContention ==
  [][\A p \in Proc : GiveUp(p) => overlapped]_vars

\* Every call of Lock returns (or its process dies), whatever the others do.
LockReturns == \A p \in Proc : Acquiring(p) ~> ~Acquiring(p)

\* "recovering a stale PID if needed" (lock.go:45): the file a dead process
\* left does not block a command that calls Lock while no other process is
\* alive.  The command creates its own file, unless it dies or another
\* process appears first.  The exception is the file of a dead process whose
\* PID the command has been given: the command takes itself for the holder.
StaleLockRecovered ==
  \A p \in Proc :
    (pc[p] = "create" /\ attempt[p] = 0 /\ Content # p
       /\ \A q \in Proc \ {p} : ~Alive(q))
      ~> (Holds(p) \/ pc[p] \in {"write", "dead"}
          \/ \E q \in Proc \ {p} : Alive(q))
=============================================================================
