------------------------------- MODULE RunJob -------------------------------
(***************************************************************************)
(* run_job (benchmarks/jobs.py) around run_process (benchmarks/process.py): *)
(* several runners contend for one flock'ed resource; the holder runs a      *)
(* command in a process group of its own, under a deadline that covers the  *)
(* wait for the lock, and is expected to leave no process of the group       *)
(* alive when it gives the lock up.                                         *)
(*                                                                         *)
(* A signal to a runner raises InterruptedError wherever the runner is; the *)
(* places where it may strike are the constant SignalPoints.                *)
(***************************************************************************)
EXTENDS Naturals

CONSTANTS
  Jobs,                 \* the runners
  Kinds,                \* of descendants a command may have, see below
  SignalPoints,         \* program points at which a signal may arrive
  MaxSignals            \* signals considered, over all runners

Points == {"acquire", "check", "spawn", "spawned", "wait", "term", "grace", "kill",
           "reap", "record", "unlock", "except", "restore", "report", "event", "returned"}

(* Where the handlers that raise InterruptedError are installed. *)
ASSUME SignalAssumption == SignalPoints \subseteq Points \ {"report", "event", "returned"}
ASSUME MaxSignalsAssumption == MaxSignals \in Nat

(* A descendant stays in the leader's process group, or leads a session of   *)
(* its own: that is how the packed runner (benchmarks/packed.py), itself a   *)
(* caller of run_process, starts the native program.                        *)
ASSUME KindsAssumption == Kinds \subseteq {"group", "session"}

VARIABLES
  pc,                   \* where each runner is
  expired,              \* its deadline has passed
  raised,               \* the exception on its way up, "none" if none
  timedOut,             \* run_process's timed_out
  leader,               \* "none", "running", or how the group leader ended
  descendants,          \* the kinds of descendants alive
  holder,               \* the runner holding the flock, if any
  state, exitCode,      \* of the record in memory
  runJson, completion,  \* the state in each file, "absent" before it is written
  signals               \* delivered so far

job == <<state, exitCode, runJson, completion>>
group == <<leader, descendants>>
vars == <<pc, expired, raised, timedOut, group, holder, job, signals>>

Exits == {"ok", "error", "killed"}
Alive(j) == leader[j] = "running" \/ descendants[j] # {}

TypeOK ==
  /\ pc \in [Jobs -> Points \cup {"escaped"}]
  /\ expired \in [Jobs -> BOOLEAN] /\ timedOut \in [Jobs -> BOOLEAN]
  /\ raised \in [Jobs -> {"none", "interrupted", "timeout", "oserror"}]
  /\ leader \in [Jobs -> {"none", "running"} \cup Exits]
  /\ descendants \in [Jobs -> SUBSET Kinds]
  /\ holder \in {{}} \cup {{j} : j \in Jobs}
  /\ state \in [Jobs -> {"waiting", "running", "completed", "failed", "timed_out"}]
  /\ exitCode \in [Jobs -> {"null"} \cup Exits]
  /\ runJson \in [Jobs -> {"waiting", "running", "completed", "failed", "timed_out"}]
  /\ completion \in [Jobs -> {"absent", "waiting", "running", "completed", "failed", "timed_out"}]
  /\ signals \in 0 .. MaxSignals

Init ==
  /\ pc = [j \in Jobs |-> "acquire"]
  /\ expired = [j \in Jobs |-> FALSE] /\ timedOut = [j \in Jobs |-> FALSE]
  /\ raised = [j \in Jobs |-> "none"]
  /\ leader = [j \in Jobs |-> "none"] /\ descendants = [j \in Jobs |-> {}]
  /\ holder = {}
  /\ state = [j \in Jobs |-> "waiting"] /\ exitCode = [j \in Jobs |-> "null"]
  /\ runJson = [j \in Jobs |-> "waiting"]
  /\ completion = [j \in Jobs |-> "absent"]
  /\ signals = 0

Goto(j, from, to) == pc[j] = from /\ pc' = [pc EXCEPT ![j] = to]
Raise(j, exception) == raised' = [raised EXCEPT ![j] = exception]

-----------------------------------------------------------------------------
(* The command: its leader may leave descendants behind, exit at any time,  *)
(* and ignore SIGTERM for as long as it likes; but a leader that started a   *)
(* session with run_process does not exit before it has reaped it.          *)

LeaderForks(j) ==
  /\ leader[j] = "running"
  /\ \E kind \in Kinds \ descendants[j] :
       descendants' = [descendants EXCEPT ![j] = @ \cup {kind}]
  /\ UNCHANGED <<pc, expired, raised, timedOut, leader, holder, job, signals>>

LeaderExits(j) ==
  /\ leader[j] = "running" /\ "session" \notin descendants[j]
  /\ \E how \in {"ok", "error"} : leader' = [leader EXCEPT ![j] = how]
  /\ UNCHANGED <<pc, expired, raised, timedOut, descendants, holder, job, signals>>

DescendantExits(j) ==
  /\ \E kind \in descendants[j] :
       descendants' = [descendants EXCEPT ![j] = @ \ {kind}]
  /\ UNCHANGED <<pc, expired, raised, timedOut, leader, holder, job, signals>>

DeadlinePasses(j) ==
  /\ ~expired[j] /\ pc[j] # "returned"
  /\ expired' = [expired EXCEPT ![j] = TRUE]
  /\ UNCHANGED <<pc, raised, timedOut, group, holder, job, signals>>

-----------------------------------------------------------------------------
(* _resource_lock: poll a non-blocking flock until the deadline *)

\* Wrong on purpose: starts without the lock when it is taken.
AcquireHeld(j) ==
  /\ Goto(j, "acquire", "check")
  /\ holder' = holder \cup {j}
  /\ UNCHANGED <<expired, raised, timedOut, group, job, signals>>

AcquireLock(j) ==
  /\ Goto(j, "acquire", "check")
  /\ holder = {}
  /\ holder' = holder \cup {j}
  /\ UNCHANGED <<expired, raised, timedOut, group, job, signals>>

LockDeadline(j) ==
  /\ Goto(j, "acquire", "except")
  /\ holder # {} /\ expired[j]
  /\ Raise(j, "timeout")
  /\ UNCHANGED <<expired, timedOut, group, holder, job, signals>>

(* With the lock: a last look at the deadline, then the record says running. *)
StartLate(j) ==
  /\ Goto(j, "check", "unlock")
  /\ expired[j]
  /\ Raise(j, "timeout")
  /\ UNCHANGED <<expired, timedOut, group, holder, job, signals>>

StartRunning(j) ==
  /\ Goto(j, "check", "spawn")
  /\ ~expired[j]
  /\ state' = [state EXCEPT ![j] = "running"]
  /\ runJson' = [runJson EXCEPT ![j] = "running"]
  /\ UNCHANGED <<expired, raised, timedOut, group, holder, exitCode, completion, signals>>

-----------------------------------------------------------------------------
(* run_process *)

Spawn(j) ==
  /\ Goto(j, "spawn", "spawned")
  /\ leader' = [leader EXCEPT ![j] = "running"]
  /\ UNCHANGED <<expired, raised, timedOut, descendants, holder, job, signals>>

SpawnFails(j) ==
  /\ Goto(j, "spawn", "unlock")
  /\ Raise(j, "oserror")
  /\ UNCHANGED <<expired, timedOut, group, holder, job, signals>>

EnterTry(j) ==
  /\ Goto(j, "spawned", "wait")
  /\ UNCHANGED <<expired, raised, timedOut, group, holder, job, signals>>

(* process.wait returns the leader's exit, whatever its descendants do. *)
WaitEnds(j) ==
  /\ Goto(j, "wait", "term")
  /\ leader[j] \in Exits
  /\ UNCHANGED <<expired, raised, timedOut, group, holder, job, signals>>

WaitExpires(j) ==
  /\ Goto(j, "wait", "term")
  /\ leader[j] = "running" /\ expired[j]
  /\ timedOut' = [timedOut EXCEPT ![j] = TRUE]
  /\ UNCHANGED <<expired, raised, group, holder, job, signals>>

(* finally: SIGTERM to the group, a grace period, SIGKILL, reap.  What       *)
(* SIGTERM makes of a process is one of the exits above, except that the    *)
(* packed runner, which installs no handler, dies of it on the spot.        *)
KilledLeader(j) ==
  leader' = IF leader[j] = "running" THEN [leader EXCEPT ![j] = "killed"] ELSE leader

SendTerm(j) ==
  /\ Goto(j, "term", "grace")
  /\ IF "session" \in descendants[j] THEN KilledLeader(j) ELSE UNCHANGED leader
  /\ UNCHANGED <<expired, raised, timedOut, descendants, holder, job, signals>>

GraceEnds(j) ==
  /\ Goto(j, "grace", "kill")
  /\ UNCHANGED <<expired, raised, timedOut, group, holder, job, signals>>

\* Wrong on purpose: kills the process, not its group.
SendKillToLeader(j) ==
  /\ Goto(j, "kill", "reap")
  /\ KilledLeader(j)
  /\ UNCHANGED <<expired, raised, timedOut, descendants, holder, job, signals>>

\* Wrong on purpose: a second SIGTERM, which the group may ignore.
SendTermAgain(j) ==
  /\ Goto(j, "kill", "reap")
  /\ UNCHANGED <<expired, raised, timedOut, group, holder, job, signals>>

SendKill(j) ==
  /\ Goto(j, "kill", "reap")
  /\ KilledLeader(j)
  /\ descendants' = [descendants EXCEPT ![j] = @ \ {"group"}]
  /\ UNCHANGED <<expired, raised, timedOut, holder, job, signals>>

(* run_process returns or lets the pending exception through. *)
Reap(j) ==
  /\ leader[j] \in Exits
  /\ Goto(j, "reap", IF raised[j] = "none" THEN "record" ELSE "unlock")
  /\ UNCHANGED <<expired, raised, timedOut, group, holder, job, signals>>

-----------------------------------------------------------------------------
(* The rest of run_job *)

\* Wrong on purpose: records the exit of a job that ran out of time.
RecordExitAlways(j) ==
  /\ Goto(j, "record", "unlock")
  /\ exitCode' = [exitCode EXCEPT ![j] = leader[j]]
  /\ state' = [state EXCEPT ![j] = IF leader[j] = "ok" THEN "completed" ELSE "failed"]
  /\ UNCHANGED <<expired, raised, timedOut, group, holder, runJson, completion, signals>>

RecordExit(j) ==
  /\ Goto(j, "record", "unlock")
  /\ IF timedOut[j] THEN Raise(j, "timeout") /\ UNCHANGED <<exitCode, state>>
     ELSE /\ exitCode' = [exitCode EXCEPT ![j] = leader[j]]
          /\ state' = [state EXCEPT ![j] = IF leader[j] = "ok" THEN "completed" ELSE "failed"]
          /\ UNCHANGED raised
  /\ UNCHANGED <<expired, timedOut, group, holder, runJson, completion, signals>>

Unlock(j) ==
  /\ Goto(j, "unlock", "except")
  /\ holder' = holder \ {j}
  /\ UNCHANGED <<expired, raised, timedOut, group, job, signals>>

(* InterruptedError is an OSError: it fails the job and goes no further. *)
HandleException(j) ==
  /\ Goto(j, "except", "restore")
  /\ state' = [state EXCEPT ![j] = CASE raised[j] = "none" -> @
                                     [] raised[j] = "timeout" -> "timed_out"
                                     [] OTHER -> "failed"]
  /\ Raise(j, "none")
  /\ UNCHANGED <<expired, timedOut, group, holder, exitCode, runJson, completion, signals>>

RestoreHandlers(j) ==
  /\ Goto(j, "restore", "report")
  /\ UNCHANGED <<expired, raised, timedOut, group, holder, job, signals>>

WriteReport(j) ==
  /\ Goto(j, "report", "event")
  /\ runJson' = [runJson EXCEPT ![j] = state[j]]
  /\ UNCHANGED <<expired, raised, timedOut, group, holder, state, exitCode, completion, signals>>

(* completion.json, then the line in the shared events file. *)
WriteEvent(j) ==
  /\ Goto(j, "event", IF raised[j] = "none" THEN "returned" ELSE "escaped")
  /\ completion' = [completion EXCEPT ![j] = state[j]]
  /\ UNCHANGED <<expired, raised, timedOut, group, holder, state, exitCode, runJson, signals>>

-----------------------------------------------------------------------------
(* A signal: InterruptedError leaves the current statement.  Before the try  *)
(* of run_process and inside its finally nothing else is cleaned up on the  *)
(* way; the except clauses do not guard themselves nor the finally.         *)
UnwindsTo ==
  [p \in Points |->
     CASE p = "acquire" -> "except"
       [] p \in {"check", "spawn", "spawned", "term", "grace", "kill", "reap", "record"} -> "unlock"
       [] p = "wait" -> "term"
       [] p = "unlock" -> "except"
       [] p = "except" -> "restore"
       [] OTHER -> "escaped"]

(* Leaving _resource_lock closes the file, and that alone unlocks it. *)
Signal(j) ==
  /\ pc[j] \in SignalPoints
  /\ signals < MaxSignals
  /\ signals' = signals + 1
  /\ pc' = [pc EXCEPT ![j] = UnwindsTo[pc[j]]]
  /\ Raise(j, "interrupted")
  /\ holder' = IF pc[j] = "unlock" THEN holder \ {j} ELSE holder
  /\ UNCHANGED <<expired, timedOut, group, job>>

-----------------------------------------------------------------------------
RunnerStep(j) ==
  \/ AcquireLock(j) \/ LockDeadline(j) \/ StartLate(j) \/ StartRunning(j)
  \/ Spawn(j) \/ SpawnFails(j) \/ EnterTry(j) \/ WaitEnds(j) \/ WaitExpires(j)
  \/ SendTerm(j) \/ GraceEnds(j) \/ SendKill(j) \/ Reap(j) \/ RecordExit(j)
  \/ Unlock(j) \/ HandleException(j) \/ RestoreHandlers(j) \/ WriteReport(j) \/ WriteEvent(j)

AllReturned == /\ \A j \in Jobs : pc[j] \in {"returned", "escaped"} /\ ~Alive(j)
               /\ UNCHANGED vars

Next == \/ \E j \in Jobs : \/ RunnerStep(j) \/ LeaderForks(j) \/ LeaderExits(j)
                           \/ DescendantExits(j) \/ DeadlinePasses(j) \/ Signal(j)
        \/ AllReturned

(* Runners are scheduled and time passes; the command owes nothing. *)
Fairness == \A j \in Jobs : WF_vars(RunnerStep(j)) /\ WF_vars(DeadlinePasses(j))

Spec == Init /\ [][Next]_vars /\ Fairness

-----------------------------------------------------------------------------
(* Properties *)

(* run_process: "Cleanup finishes before returning or propagating           *)
(* cancellation, so a caller can safely release its lock": once a runner is *)
(* past its use of the lock, its whole process group is gone.               *)
ReapedBeforeRelease ==
  \A j \in Jobs : pc[j] \in {"record", "unlock", "except", "restore", "report",
                             "event", "returned", "escaped"} => ~Alive(j)

(* What the lock is for: commands of two jobs never run side by side. *)
ExclusiveResource ==
  \A j, k \in Jobs : Alive(j) /\ Alive(k) => j = k

(* "report failure before returning": on return both files carry the same   *)
(* final verdict, and "completed" means the leader exited 0 in time.        *)
ReportTruthful ==
  \A j \in Jobs : pc[j] = "returned" =>
    /\ completion[j] = state[j] /\ runJson[j] = state[j]
    /\ state[j] \in {"completed", "failed", "timed_out"}
    /\ state[j] = "completed" => exitCode[j] = "ok" /\ leader[j] = "ok" /\ ~timedOut[j]
    /\ timedOut[j] /\ signals = 0 => state[j] = "timed_out"

(* Every call returns: the deadline bounds the wait for the lock and for a   *)
(* command that ignores SIGTERM.                                            *)
JobsReturn == \A j \in Jobs : <>(pc[j] = "returned")
=============================================================================
