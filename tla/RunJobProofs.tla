--------------------------- MODULE RunJobProofs ---------------------------
(***************************************************************************)
(* Proofs about run_job: the process group is gone before the lock is given *)
(* up, commands never overlap, and the two files say how the job ended, for *)
(* any number of runners and signals.  The first two hold as long as no     *)
(* signal strikes between the fork and the try of run_process or inside its *)
(* finally, and no descendant leaves the process group: the runs            *)
(* RunJobSignals and RunJobNested show that neither condition can go.       *)
(***************************************************************************)
EXTENDS RunJob, TLAPS

Step(j) == \/ RunnerStep(j) \/ LeaderForks(j) \/ LeaderExits(j)
           \/ DescendantExits(j) \/ DeadlinePasses(j) \/ Signal(j)

-----------------------------------------------------------------------------
(* Types, whatever the signals: what is recorded is the exit of a leader     *)
(* that has been reaped.                                                    *)
Reaped(j) == pc[j] = "record" => leader[j] \in Exits
TypeInv == TypeOK /\ \A j \in Jobs : Reaped(j)

(* A signal sends the runner to one of its program points. *)
LEMMA SignalTarget ==
  ASSUME NEW p \in SignalPoints
  PROVE  /\ UnwindsTo[p] \in {"except", "unlock", "term", "restore", "escaped"}
         /\ p \in {"check", "spawn", "reap", "record"} => UnwindsTo[p] = "unlock"
         /\ p = "acquire" => UnwindsTo[p] = "except"
         /\ p = "wait" => UnwindsTo[p] = "term"
         /\ p \in {"spawned", "term", "grace", "kill"} => UnwindsTo[p] = "unlock"
         /\ p = "unlock" => UnwindsTo[p] = "except"
         /\ p = "except" => UnwindsTo[p] = "restore"
         /\ p = "restore" => UnwindsTo[p] = "escaped"
         /\ p \notin {"report", "event", "returned"}
  BY SignalAssumption DEF UnwindsTo, Points

(* Every step keeps TypeInv. *)
LEMMA TypeStep == ASSUME TypeInv, NEW j \in Jobs, Step(j) PROVE TypeInv'
<1> USE DEF TypeInv, TypeOK, Reaped, Goto, Raise, Points, Exits, job, group
<1>1. CASE AcquireLock(j)
  BY <1>1 DEF AcquireLock
<1>2. CASE LockDeadline(j)
  BY <1>2 DEF LockDeadline
<1>3. CASE StartLate(j)
  BY <1>3 DEF StartLate
<1>4. CASE StartRunning(j)
  BY <1>4 DEF StartRunning
<1>5. CASE Spawn(j)
  BY <1>5 DEF Spawn
<1>6. CASE SpawnFails(j)
  BY <1>6 DEF SpawnFails
<1>7. CASE EnterTry(j)
  BY <1>7 DEF EnterTry
<1>8. CASE WaitEnds(j)
  BY <1>8 DEF WaitEnds
<1>9. CASE WaitExpires(j)
  BY <1>9 DEF WaitExpires
<1>10. CASE SendTerm(j)
  BY <1>10 DEF SendTerm, KilledLeader
<1>11. CASE GraceEnds(j)
  BY <1>11 DEF GraceEnds
<1>12. CASE SendKill(j)
  BY <1>12 DEF SendKill, KilledLeader
<1>13. CASE Reap(j)
  BY <1>13 DEF Reap
<1>14. CASE RecordExit(j)
  BY <1>14 DEF RecordExit
<1>15. CASE Unlock(j)
  BY <1>15 DEF Unlock
<1>16. CASE HandleException(j)
  BY <1>16 DEF HandleException
<1>17. CASE RestoreHandlers(j)
  BY <1>17 DEF RestoreHandlers
<1>18. CASE WriteReport(j)
  BY <1>18 DEF WriteReport
<1>19. CASE WriteEvent(j)
  BY <1>19 DEF WriteEvent
<1>20. CASE LeaderForks(j)
  BY <1>20 DEF LeaderForks
<1>21. CASE LeaderExits(j)
  BY <1>21 DEF LeaderExits
<1>22. CASE DescendantExits(j)
  BY <1>22 DEF DescendantExits
<1>23. CASE DeadlinePasses(j)
  BY <1>23 DEF DeadlinePasses
<1>24. CASE Signal(j)
  <2>1. pc[j] \in SignalPoints
        /\ UnwindsTo[pc[j]] \in {"except", "unlock", "term", "restore", "escaped"}
    BY <1>24, SignalTarget DEF Signal
  <2>2. signals' \in 0 .. MaxSignals
    BY <1>24, MaxSignalsAssumption DEF Signal
  <2>3. holder' \in {{}} \cup {{k} : k \in Jobs}
    BY <1>24 DEF Signal
  <2>4. pc' \in [Jobs -> Points \cup {"escaped"}] /\ \A k \in Jobs : Reaped(k)'
    BY <1>24, <2>1 DEF Signal
  <2>5. QED
    BY <1>24, <2>2, <2>3, <2>4 DEF Signal
<1>25. QED
  BY <1>1, <1>2, <1>3, <1>4, <1>5, <1>6, <1>7, <1>8, <1>9, <1>10, <1>11, <1>12,
     <1>13, <1>14, <1>15, <1>16, <1>17, <1>18, <1>19, <1>20, <1>21, <1>22, <1>23,
     <1>24 DEF Step, RunnerStep

(* Every variable keeps its type. *)
THEOREM TypeCorrect == Spec => []TypeOK
<1>1. Init => TypeInv
  BY MaxSignalsAssumption DEF Init, TypeInv, TypeOK, Reaped, Points
<1>2. TypeInv /\ [Next]_vars => TypeInv'
  <2>1. ASSUME TypeInv, UNCHANGED vars PROVE TypeInv'
    BY <2>1 DEF TypeInv, TypeOK, Reaped, vars, job, group
  <2>2. ASSUME TypeInv, NEW j \in Jobs, Step(j) PROVE TypeInv'
    BY <2>2, TypeStep
  <2>3. QED
    BY <2>1, <2>2 DEF Next, Step, AllReturned
<1>3. TypeInv => TypeOK
  BY DEF TypeInv
<1>4. QED
  BY <1>1, <1>2, <1>3, PTL DEF Spec

-----------------------------------------------------------------------------
(* A process group is alive only between the fork and SIGKILL, and its       *)
(* runner holds the lock all that time.                                     *)
Hosting == {"spawned", "wait", "term", "grace", "kill"}
Locking == Hosting \cup {"check", "spawn", "reap", "record", "unlock"}

Cleanup(j) == /\ Alive(j) => pc[j] \in Hosting
              /\ pc[j] \in Locking => holder = {j}
CleanInv == TypeInv /\ \A j \in Jobs : Cleanup(j)

(* No signal strikes where it would skip the rest of the cleanup, and every *)
(* descendant stays in the process group.                                   *)
Orderly == /\ SignalPoints \cap {"spawned", "term", "grace", "kill"} = {}
           /\ Kinds \subseteq {"group"}

(* Every step keeps Cleanup. *)
LEMMA CleanStep ==
  ASSUME CleanInv, Orderly, NEW j \in Jobs, Step(j)
  PROVE  \A k \in Jobs : Cleanup(k)'
<1> USE DEF CleanInv, TypeInv, TypeOK, Cleanup, Alive, Hosting, Locking, Goto, Raise, Exits,
            job, group
<1>1. CASE AcquireLock(j)
  BY <1>1 DEF AcquireLock
<1>2. CASE LockDeadline(j)
  BY <1>2 DEF LockDeadline
<1>3. CASE StartLate(j)
  BY <1>3 DEF StartLate
<1>4. CASE StartRunning(j)
  BY <1>4 DEF StartRunning
<1>5. CASE Spawn(j)
  BY <1>5 DEF Spawn
<1>6. CASE SpawnFails(j)
  BY <1>6 DEF SpawnFails
<1>7. CASE EnterTry(j)
  BY <1>7 DEF EnterTry
<1>8. CASE WaitEnds(j)
  BY <1>8 DEF WaitEnds
<1>9. CASE WaitExpires(j)
  BY <1>9 DEF WaitExpires
<1>10. CASE SendTerm(j)
  BY <1>10 DEF SendTerm, KilledLeader
<1>11. CASE GraceEnds(j)
  BY <1>11 DEF GraceEnds
<1>12. CASE SendKill(j)
  <2>1. holder = {j} /\ pc' = [pc EXCEPT ![j] = "reap"] /\ holder' = holder
    BY <1>12 DEF SendKill
  <2>2. leader'[j] # "running" /\ \A k \in Jobs \ {j} : leader'[k] = leader[k]
    BY <1>12 DEF SendKill, KilledLeader
  <2>3. descendants'[j] = {} /\ \A k \in Jobs \ {j} : descendants'[k] = descendants[k]
    <3>1. descendants[j] \subseteq {"group"}
      BY DEF Orderly
    <3>2. QED
      BY <1>12, <3>1 DEF SendKill
  <2>4. QED
    BY <2>1, <2>2, <2>3
<1>13. CASE Reap(j)
  BY <1>13 DEF Reap
<1>14. CASE RecordExit(j)
  BY <1>14 DEF RecordExit
<1>15. CASE Unlock(j)
  BY <1>15 DEF Unlock
<1>16. CASE HandleException(j)
  BY <1>16 DEF HandleException
<1>17. CASE RestoreHandlers(j)
  BY <1>17 DEF RestoreHandlers
<1>18. CASE WriteReport(j)
  BY <1>18 DEF WriteReport
<1>19. CASE WriteEvent(j)
  BY <1>19 DEF WriteEvent
<1>20. CASE LeaderForks(j)
  BY <1>20 DEF LeaderForks
<1>21. CASE LeaderExits(j)
  BY <1>21 DEF LeaderExits
<1>22. CASE DescendantExits(j)
  BY <1>22 DEF DescendantExits
<1>23. CASE DeadlinePasses(j)
  BY <1>23 DEF DeadlinePasses
<1>24. CASE Signal(j)
  <2>1. pc[j] \in SignalPoints
    BY <1>24 DEF Signal
  <2>2. UNCHANGED <<leader, descendants>> /\ pc' = [pc EXCEPT ![j] = UnwindsTo[pc[j]]]
    BY <1>24 DEF Signal
  <2>3. ASSUME NEW k \in Jobs, k # j PROVE Cleanup(k)'
    <3>1. pc'[k] = pc[k]
      BY <2>2, <2>3
    <3>2. pc[k] \in Locking => holder' = holder
      BY <1>24, <2>3 DEF Signal
    <3>3. QED
      BY <2>2, <3>1, <3>2
  <2>4. Cleanup(j)'
    <3>1. pc'[j] = UnwindsTo[pc[j]]
      BY <2>2
    <3>2. Alive(j) => pc[j] = "wait"
      BY <2>1 DEF Orderly
    <3>3. Alive(j)' => pc'[j] \in Hosting
      BY <2>1, <2>2, <3>1, <3>2, SignalTarget
    <3>4. pc'[j] \in Locking => pc[j] \in Locking /\ pc[j] # "unlock"
      BY <2>1, <3>1, SignalTarget, SignalAssumption DEF Points
    <3>5. pc'[j] \in Locking => holder' = {j}
      BY <1>24, <3>4 DEF Signal
    <3>6. QED
      BY <3>3, <3>5
  <2>5. QED
    BY <2>3, <2>4
<1>25. QED
  BY <1>1, <1>2, <1>3, <1>4, <1>5, <1>6, <1>7, <1>8, <1>9, <1>10, <1>11, <1>12,
     <1>13, <1>14, <1>15, <1>16, <1>17, <1>18, <1>19, <1>20, <1>21, <1>22, <1>23,
     <1>24 DEF Step, RunnerStep

(* CleanInv is an invariant of an orderly run. *)
LEMMA CleanInvariant == ASSUME Orderly PROVE Spec => []CleanInv
<1>1. Init => CleanInv
  BY MaxSignalsAssumption
  DEF Init, CleanInv, TypeInv, TypeOK, Reaped, Points, Cleanup, Alive, Hosting, Locking
<1>2. CleanInv /\ [Next]_vars => CleanInv'
  <2>1. ASSUME CleanInv, UNCHANGED vars PROVE CleanInv'
    BY <2>1 DEF CleanInv, TypeInv, TypeOK, Reaped, Cleanup, Alive, vars, job, group
  <2>2. ASSUME CleanInv, NEW j \in Jobs, Step(j) PROVE CleanInv'
    BY <2>2, TypeStep, CleanStep DEF CleanInv
  <2>3. QED
    BY <2>1, <2>2 DEF Next, Step, AllReturned
<1>3. QED
  BY <1>1, <1>2, PTL DEF Spec

(* run_process, lines 80-82: "so a caller can safely release its lock". *)
THEOREM ReapsBeforeRelease == ASSUME Orderly PROVE Spec => []ReapedBeforeRelease
<1>1. CleanInv => ReapedBeforeRelease
  BY DEF CleanInv, Cleanup, Hosting, ReapedBeforeRelease
<1>2. QED
  BY <1>1, CleanInvariant, PTL

(* What the lock is for: commands of two jobs never run side by side. *)
THEOREM ResourceIsExclusive == ASSUME Orderly PROVE Spec => []ExclusiveResource
<1>1. CleanInv => ExclusiveResource
  BY DEF CleanInv, Cleanup, Locking, ExclusiveResource
<1>2. QED
  BY <1>1, CleanInvariant, PTL

-----------------------------------------------------------------------------
(* The verdict, whatever the signals: how it follows a job to its return. *)
Using == Hosting \cup {"acquire", "check", "spawn", "reap", "record"}
Ending == {"restore", "report", "event", "returned"}

Completed(j) ==
  state[j] = "completed" =>
    /\ pc[j] \in {"unlock", "except", "escaped"} \cup Ending
    /\ exitCode[j] = "ok" /\ leader[j] = "ok" /\ ~timedOut[j]
Concluded(j) ==
  /\ pc[j] \in {"unlock", "except"} /\ raised[j] = "none" => state[j] \in {"completed", "failed"}
  /\ pc[j] \in Ending /\ raised[j] = "none" => state[j] \in {"completed", "failed", "timed_out"}
  /\ pc[j] = "returned" => raised[j] = "none"
Undisturbed(j) ==
  /\ pc[j] \in {"acquire", "check", "spawn", "spawned", "wait"} => ~timedOut[j]
  /\ signals = 0 =>
       /\ pc[j] \in Using => raised[j] = "none"
       /\ timedOut[j] => \/ pc[j] \in Using
                         \/ pc[j] \in {"unlock", "except"} /\ raised[j] = "timeout"
                         \/ pc[j] \in Ending /\ state[j] = "timed_out"
                         \/ pc[j] = "escaped"
Written(j) ==
  /\ pc[j] \in {"event", "returned"} => runJson[j] = state[j]
  /\ pc[j] = "returned" => completion[j] = state[j]

Told(j) == Completed(j) /\ Concluded(j) /\ Undisturbed(j) /\ Written(j)
ToldInv == TypeInv /\ \A j \in Jobs : Told(j)

(* Every step keeps Told. *)
LEMMA ToldStep ==
  ASSUME ToldInv, NEW j \in Jobs, Step(j)
  PROVE  \A k \in Jobs : Told(k)'
<1> USE DEF ToldInv, TypeInv, TypeOK, Reaped, Told, Completed, Concluded, Undisturbed, Written,
            Using, Ending, Hosting, Goto, Raise, Exits, job, group
<1>1. CASE AcquireLock(j)
  BY <1>1 DEF AcquireLock
<1>2. CASE LockDeadline(j)
  BY <1>2 DEF LockDeadline
<1>3. CASE StartLate(j)
  BY <1>3 DEF StartLate
<1>4. CASE StartRunning(j)
  BY <1>4 DEF StartRunning
<1>5. CASE Spawn(j)
  BY <1>5 DEF Spawn
<1>6. CASE SpawnFails(j)
  BY <1>6 DEF SpawnFails
<1>7. CASE EnterTry(j)
  BY <1>7 DEF EnterTry
<1>8. CASE WaitEnds(j)
  BY <1>8 DEF WaitEnds
<1>9. CASE WaitExpires(j)
  BY <1>9 DEF WaitExpires
<1>10. CASE SendTerm(j)
  BY <1>10 DEF SendTerm, KilledLeader
<1>11. CASE GraceEnds(j)
  BY <1>11 DEF GraceEnds
<1>12. CASE SendKill(j)
  BY <1>12 DEF SendKill, KilledLeader
<1>13. CASE Reap(j)
  BY <1>13 DEF Reap
<1>14. CASE RecordExit(j)
  BY <1>14 DEF RecordExit
<1>15. CASE Unlock(j)
  BY <1>15 DEF Unlock
<1>16. CASE HandleException(j)
  BY <1>16 DEF HandleException
<1>17. CASE RestoreHandlers(j)
  BY <1>17 DEF RestoreHandlers
<1>18. CASE WriteReport(j)
  BY <1>18 DEF WriteReport
<1>19. CASE WriteEvent(j)
  BY <1>19 DEF WriteEvent
<1>20. CASE LeaderForks(j)
  BY <1>20 DEF LeaderForks
<1>21. CASE LeaderExits(j)
  BY <1>21 DEF LeaderExits
<1>22. CASE DescendantExits(j)
  BY <1>22 DEF DescendantExits
<1>23. CASE DeadlinePasses(j)
  BY <1>23 DEF DeadlinePasses
<1>24. CASE Signal(j)
  <2>1. pc[j] \in SignalPoints /\ pc[j] \notin {"report", "event", "returned"}
    BY <1>24, SignalTarget DEF Signal
  <2>2. signals' # 0 /\ raised' = [raised EXCEPT ![j] = "interrupted"]
        /\ pc' = [pc EXCEPT ![j] = UnwindsTo[pc[j]]]
    BY <1>24 DEF Signal
  <2>3. UNCHANGED <<state, exitCode, leader, timedOut, runJson, completion>>
    BY <1>24 DEF Signal
  <2>4. state[j] = "completed" => pc'[j] \in {"except", "restore", "escaped"}
    <3>1. pc[j] # "escaped"
      BY <2>1, SignalAssumption DEF Points
    <3>2. state[j] = "completed" => pc[j] \in {"unlock", "except", "restore"}
      BY <2>1, <3>1
    <3>3. QED
      BY <2>1, <2>2, <3>2, SignalTarget
  <2>5. pc'[j] \in {"except", "unlock", "term", "restore", "escaped"}
    BY <2>1, <2>2, SignalTarget
  <2>6. QED
    BY <2>2, <2>3, <2>4, <2>5 DEF TypeInv
<1>25. QED
  BY <1>1, <1>2, <1>3, <1>4, <1>5, <1>6, <1>7, <1>8, <1>9, <1>10, <1>11, <1>12,
     <1>13, <1>14, <1>15, <1>16, <1>17, <1>18, <1>19, <1>20, <1>21, <1>22, <1>23,
     <1>24 DEF Step, RunnerStep

(* run_job, lines 181-298: on return both files carry the final verdict. *)
THEOREM ReportIsTruthful == Spec => []ReportTruthful
<1>1. Init => ToldInv
  BY MaxSignalsAssumption
  DEF Init, ToldInv, TypeInv, TypeOK, Reaped, Points, Told, Completed, Concluded, Undisturbed,
      Written, Using, Ending, Hosting
<1>2. ToldInv /\ [Next]_vars => ToldInv'
  <2>1. ASSUME ToldInv, UNCHANGED vars PROVE ToldInv'
    BY <2>1 DEF ToldInv, TypeInv, TypeOK, Reaped, Told, Completed, Concluded, Undisturbed,
                Written, vars, job, group
  <2>2. ASSUME ToldInv, NEW j \in Jobs, Step(j) PROVE ToldInv'
    BY <2>2, TypeStep, ToldStep DEF ToldInv
  <2>3. QED
    BY <2>1, <2>2 DEF Next, Step, AllReturned
<1>3. ToldInv => ReportTruthful
  BY DEF ToldInv, Told, Completed, Concluded, Undisturbed, Written, Using, Ending, Hosting,
         ReportTruthful
<1>4. QED
  BY <1>1, <1>2, <1>3, PTL DEF Spec
=============================================================================
