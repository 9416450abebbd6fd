------------------------- MODULE ProjectLock_proofs -------------------------
(***************************************************************************)
(* For any set of PIDs, with or without PID reuse: type correctness of the *)
(* lock, exclusion in every busy period without overlapping acquisitions,  *)
(* and the two action properties that follow from the same invariant.      *)
(***************************************************************************)
EXTENDS ProjectLock, TLAPS

(***************************************************************************)
(* The invariant behind exclusion.  While no two acquisitions have         *)
(* overlapped, the file names whoever holds the lock; an acquirer that is  *)
(* about to remove the file has ruled every holder out; and the loop needs *)
(* its second attempt only for a path it has just cleared.                 *)
(***************************************************************************)
OneAcquirer == \A p, q \in Proc : Acquiring(p) /\ Acquiring(q) => p = q
FileNamesHolder == \A p \in Proc : Holds(p) => Content = p
FreshFileIsMine == \A p \in Proc : pc[p] = "write" => Mine(p) /\ ~file.written
SeenNamesHolder ==
  \A p, q \in Proc : pc[p] = "alive" /\ Holds(q) => seen[p] = q
RemoverSawNoHolder ==
  \A p, q \in Proc : pc[p] = "remove" => ~Holds(q)
SecondAttemptIsClear ==
  \A p \in Proc :
    /\ pc[p] \in {"inspect", "alive", "remove"} => attempt[p] = 0
    /\ pc[p] = "create" =>
         attempt[p] = 0 \/ (attempt[p] = 1 /\ ~FilePresent)

Undisturbed == /\ OneAcquirer /\ FileNamesHolder /\ FreshFileIsMine
               /\ SeenNamesHolder /\ RemoverSawNoHolder /\ SecondAttemptIsClear

IInv == TypeOK /\ (~overlapped => Undisturbed)

-----------------------------------------------------------------------------
\* The initial state has the types: no process is in Lock, no file exists.
LEMMA TypeInit == Init => TypeOK
<1> SUFFICES ASSUME Init PROVE TypeOK
  OBVIOUS
<1>1. file \in [creator : Proc \cup {Nobody}, written : BOOLEAN]
  BY DEF Init, NoFile, LockFile
<1>2. pc \in [Proc -> Locations] /\ \A p \in Proc : pc[p] \notin Acquisition
  BY DEF Init, Locations, Acquisition
<1>3. attempt \in [Proc -> 0..MaxAttempts]
  BY DEF Init, MaxAttempts
<1> QED
  BY <1>1, <1>2, <1>3 DEF Init, TypeOK

\* Every system call of Lock and Unlock keeps the types.
LEMMA TypeStep == TypeOK /\ [Next]_vars => TypeOK'
<1> SUFFICES ASSUME TypeOK, [Next]_vars PROVE TypeOK'
  OBVIOUS
<1> USE LockAssumption DEF TypeOK, Locations, Acquisition, MaxAttempts, Goto, LockFile, NoFile
<1>1. ASSUME NEW p \in Proc, Spawn(p) PROVE TypeOK'
  BY <1>1 DEF Spawn
<1>2. ASSUME NEW p \in Proc, Die(p) PROVE TypeOK'
  BY <1>2 DEF Die
<1>3. ASSUME NEW p \in Proc, BeginLock(p) PROVE TypeOK'
  BY <1>3 DEF BeginLock
<1>4. ASSUME NEW p \in Proc, UnlockRead(p) PROVE TypeOK'
  BY <1>4 DEF UnlockRead
<1>5. ASSUME NEW p \in Proc, CreateFresh(p) PROVE TypeOK'
  BY <1>5 DEF CreateFresh
<1>6. ASSUME NEW p \in Proc, CreateExists(p) PROVE TypeOK'
  BY <1>6 DEF CreateExists
<1>7. ASSUME NEW p \in Proc, GiveUp(p) PROVE TypeOK'
  BY <1>7 DEF GiveUp
<1>8. ASSUME NEW p \in Proc, WritePid(p) PROVE TypeOK'
  BY <1>8 DEF WritePid
<1>9. ASSUME NEW p \in Proc, WriteFails(p) PROVE TypeOK'
  BY <1>9 DEF WriteFails
<1>10. ASSUME NEW p \in Proc, ReadPid(p) PROVE TypeOK'
  <2>1. Content \in Proc \cup {Nobody}
    BY DEF Content
  <2> QED
    BY <1>10, <2>1 DEF ReadPid
<1>11. ASSUME NEW p \in Proc, CheckAlive(p) PROVE TypeOK'
  BY <1>11 DEF CheckAlive
<1>12. ASSUME NEW p \in Proc, RemoveStale(p) PROVE TypeOK'
  BY <1>12 DEF RemoveStale
<1>13. ASSUME NEW p \in Proc, UnlockRemove(p) PROVE TypeOK'
  BY <1>13 DEF UnlockRemove
<1>14. CASE UNCHANGED vars
  BY <1>14 DEF vars
<1> QED
  BY <1>1, <1>2, <1>3, <1>4, <1>5, <1>6, <1>7, <1>8, <1>9, <1>10, <1>11,
     <1>12, <1>13, <1>14 DEF Next, LockStep

\* The state stays in its types: the file names a PID or none, every PID read
\* is a PID or none, and Lock's loop never runs a third time.
THEOREM TypeCorrect == Spec => []TypeOK
BY TypeInit, TypeStep, PTL DEF Spec

-----------------------------------------------------------------------------
\* The invariant is inductive: it holds when nobody has called Lock.
LEMMA IInvInit == Init => IInv
<1> SUFFICES ASSUME Init PROVE TypeOK /\ Undisturbed
  BY DEF IInv
<1>1. TypeOK
  BY TypeInit
<1>2. Undisturbed
  BY DEF Init, Undisturbed, OneAcquirer, FileNamesHolder, FreshFileIsMine,
         SeenNamesHolder, RemoverSawNoHolder, SecondAttemptIsClear,
         Acquiring, Acquisition, Holds
<1> QED
  BY <1>1, <1>2

\* Each step of Lock, Unlock and of a crash preserves the invariant: until two
\* calls overlap, only the one process inside Lock touches the file.
LEMMA IInvStep == IInv /\ [Next]_vars => IInv'
<1> SUFFICES ASSUME IInv, [Next]_vars, ~overlapped' PROVE Undisturbed'
  BY TypeStep DEF IInv
<1> USE DEF Acquiring, Acquisition, Holds, Goto
<1>1. TypeOK /\ TypeOK'
  BY TypeStep DEF IInv
<1>2. ASSUME NEW p \in Proc, BeginLock(p) PROVE Undisturbed'
  <2>1. \A q \in Proc : ~Acquiring(q)
    BY <1>2 DEF BeginLock, Quiet
  <2>2. Quiet \/ ~overlapped
    BY <1>2 DEF BeginLock
  <2>3. \A q \in Proc : Holds(q) => Content = q
    BY <2>2 DEF Quiet, IInv, Undisturbed, FileNamesHolder
  <2> QED
    BY <1>1, <1>2, <2>1, <2>3 DEF TypeOK, BeginLock, Undisturbed, OneAcquirer,
       FileNamesHolder, FreshFileIsMine, SeenNamesHolder, RemoverSawNoHolder,
       SecondAttemptIsClear, Content
<1>3. ASSUME ~(\E p \in Proc : BeginLock(p)) PROVE Undisturbed'
  <2>1. ~overlapped /\ Undisturbed
    <3>1. overlapped' = overlapped
      BY <1>3, Zenon DEF Next, LockStep, vars, Spawn, Die, UnlockRead,
         CreateFresh, CreateExists, GiveUp, WritePid, WriteFails, ReadPid,
         CheckAlive, RemoveStale, UnlockRemove
    <3> QED
      BY <3>1 DEF IInv
  <2> USE <1>1, <2>1 DEF TypeOK, Undisturbed, OneAcquirer, FileNamesHolder,
       FreshFileIsMine, SeenNamesHolder, RemoverSawNoHolder,
       SecondAttemptIsClear, Content, FilePresent, Mine
  <2>2. ASSUME NEW p \in Proc, Spawn(p) PROVE Undisturbed'
    BY <2>2 DEF Spawn
  <2>3. ASSUME NEW p \in Proc, Die(p) PROVE Undisturbed'
    BY <2>3 DEF Die
  <2>4. ASSUME NEW p \in Proc, UnlockRead(p) PROVE Undisturbed'
    BY <2>4 DEF UnlockRead
  <2>5. ASSUME NEW p \in Proc, CreateFresh(p) PROVE Undisturbed'
    BY <2>5, LockAssumption DEF CreateFresh, LockFile
  <2>6. ASSUME NEW p \in Proc, CreateExists(p) PROVE Undisturbed'
    BY <2>6 DEF CreateExists
  <2>7. ASSUME NEW p \in Proc, GiveUp(p) PROVE Undisturbed'
    BY <2>7 DEF GiveUp
  <2>8. ASSUME NEW p \in Proc, WritePid(p) PROVE Undisturbed'
    <3>1. \A q \in Proc : ~Holds(q)
      BY <2>8, LockAssumption DEF WritePid
    <3>2. file' = [creator |-> p, written |-> TRUE]
      BY <2>8 DEF WritePid, LockFile
    <3>3. Content' = p
      BY <3>2
    <3>4. \A q \in Proc : ~Acquiring(q)'
      BY <2>8 DEF WritePid
    <3>5. \A q \in Proc : Holds(q)' => q = p
      BY <2>8, <3>1 DEF WritePid
    <3> HIDE <1>1, <2>1 DEF TypeOK, Content, Mine, FilePresent
    <3> QED
      BY <3>3, <3>4, <3>5
  <2>9. ASSUME NEW p \in Proc, WriteFails(p) PROVE Undisturbed'
    BY <2>9, LockAssumption DEF WriteFails, NoFile, LockFile
  <2>10. ASSUME NEW p \in Proc, ReadPid(p) PROVE Undisturbed'
    <3>1. CASE Content = Nobody
      <4>1. \A q \in Proc : ~Holds(q)
        BY <3>1, LockAssumption
      <4> QED
        BY <2>10, <3>1, <4>1 DEF ReadPid
    <3>2. CASE Content # Nobody
      <4>1. \A q \in Proc : Holds(q) => Content = q
        OBVIOUS
      <4>2. pc' = [pc EXCEPT ![p] = "alive"] /\ seen' = [seen EXCEPT ![p] = Content]
        BY <2>10, <3>2 DEF ReadPid
      <4> QED
        BY <2>10, <4>1, <4>2 DEF ReadPid
    <3> QED
      BY <3>1, <3>2
  <2>11. ASSUME NEW p \in Proc, CheckAlive(p) PROVE Undisturbed'
    BY <2>11 DEF CheckAlive, Alive
  <2>12. ASSUME NEW p \in Proc, RemoveStale(p) PROVE Undisturbed'
    BY <2>12, LockAssumption DEF RemoveStale, NoFile, LockFile
  <2>13. ASSUME NEW p \in Proc, UnlockRemove(p) PROVE Undisturbed'
    BY <2>13, LockAssumption DEF UnlockRemove, NoFile, LockFile
  <2>14. CASE UNCHANGED vars
    BY <2>14 DEF vars
  <2> QED
    BY <1>3, <2>2, <2>3, <2>4, <2>5, <2>6, <2>7, <2>8, <2>9, <2>10, <2>11,
       <2>12, <2>13, <2>14 DEF Next, LockStep
<1> QED
  BY <1>2, <1>3

\* The inductive invariant holds in every reachable state.
LEMMA Invariance == Spec => []IInv
BY IInvInit, IInvStep, PTL DEF Spec

\* Two live processes never both hold the lock in a busy period in which no
\* two calls of Lock have overlapped.
THEOREM Exclusion == Spec => []ExclusiveUnlessOverlap
<1>1. IInv => ExclusiveUnlessOverlap
  BY DEF IInv, Undisturbed, FileNamesHolder, ExclusiveUnlessOverlap,
         MutualExclusion
<1> QED
  BY <1>1, Invariance, PTL

\* In such a period no step of any process changes the file of a live holder.
THEOREM HolderKeepsFile == Spec => HolderUndisturbed
<1>1. IInv /\ IInv' /\ [Next]_vars =>
        [\A p \in Proc :
           Holds(p) /\ Holds(p)' /\ ~overlapped => file' = file]_vars
  <2> SUFFICES ASSUME IInv, Next, NEW p \in Proc, Holds(p), Holds(p)', ~overlapped
               PROVE  file' = file
    BY DEF vars
  <2> USE DEF IInv, Undisturbed, TypeOK, Holds, Goto, FileNamesHolder,
              FreshFileIsMine, RemoverSawNoHolder, Content, Mine, FilePresent
  <2>1. ASSUME NEW q \in Proc, CreateFresh(q) PROVE FALSE
    BY <2>1, LockAssumption DEF CreateFresh
  <2>2. ASSUME NEW q \in Proc, WritePid(q) \/ WriteFails(q) PROVE FALSE
    BY <2>2, LockAssumption DEF WritePid, WriteFails
  <2>3. ASSUME NEW q \in Proc, RemoveStale(q) PROVE FALSE
    BY <2>3 DEF RemoveStale
  <2>4. ASSUME NEW q \in Proc, UnlockRemove(q) PROVE FALSE
    BY <2>4 DEF UnlockRemove
  <2> QED
    BY <2>1, <2>2, <2>3, <2>4 DEF Next, LockStep, Spawn, Die, BeginLock,
       UnlockRead, CreateExists, GiveUp, ReadPid, CheckAlive
<1> QED
  BY <1>1, Invariance, PTL DEF Spec, HolderUndisturbed

\* Lock's two attempts suffice for a command without a competitor.
THEOREM TwoAttemptsSuffice == Spec => GiveUpOnlyUnderContention
<1>1. IInv => \A p \in Proc : GiveUp(p) => overlapped
  BY DEF IInv, Undisturbed, SecondAttemptIsClear, GiveUp, MaxAttempts
<1> QED
  BY <1>1, Invariance, PTL DEF GiveUpOnlyUnderContention
=============================================================================
