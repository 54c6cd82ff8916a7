----------------------------- MODULE GpuBudget -----------------------------
(***************************************************************************)
(* The shared GPU budget of the packed runner (benchmarks/packed.py, run):  *)
(* a JSON ledger under flock.  A run is admitted while more than Reserve    *)
(* seconds are left, gets a timeout that leaves the reserve, and is charged *)
(* its wall time whether it succeeds, fails or times out.                   *)
(*                                                                         *)
(* The rewrite of the ledger is not atomic: it is truncated, then written   *)
(* by one or several writes.  A runner may die at the points in DeathPoints *)
(* (SIGTERM, which it does not handle, or SIGKILL).                         *)
(***************************************************************************)
EXTENDS Integers

CONSTANTS
  Runs,                 \* the calls of run()
  Limit,                \* budget_seconds of the campaign
  OtherLimit,           \* a budget_seconds that differs
  Reserve,              \* 15 seconds
  Overrun,              \* wall time beyond the timeout: hashing, termination
  Timeouts,             \* requested timeouts
  DeathPoints

ASSUME LimitAssumption == Limit \in Nat /\ OtherLimit \in Nat /\ OtherLimit # Limit
ASSUME TimeoutAssumption == Timeouts \subseteq Nat \ {0}
(* "Leave room for process-group termination if the hard timeout fires." *)
ASSUME ReserveAssumption == Reserve \in Nat /\ Overrun \in 0 .. Reserve

VARIABLES
  pc, asked, timeout,   \* per run: where it is, its budget_seconds, its timeout
  read,                 \* per run: used_seconds as it read it
  wall,                 \* per run: its wall time
  ledger,               \* the file: its form, limit_seconds and used_seconds
  holder,               \* the run holding the lock, if any
  spent                 \* history: wall time of all runs so far

vars == <<pc, asked, timeout, read, wall, ledger, holder, spent>>

Critical == {"locked", "run", "truncate", "write", "release"}

TypeOK ==
  /\ pc \in [Runs -> Critical \cup {"lock", "done", "refused", "dead"}]
  /\ asked \in [Runs -> {Limit, OtherLimit}]
  /\ timeout \in [Runs -> Int] /\ read \in [Runs -> Int] /\ wall \in [Runs -> Nat]
  /\ ledger \in [form : {"empty", "torn", "whole"}, limit : {0, Limit, OtherLimit}, used : Nat]
  /\ \A r \in Runs : pc[r] \in Critical => holder = {r}
  /\ holder \subseteq Runs /\ spent \in Nat

(* A ledger that says nothing. *)
Blank(form) == [form |-> form, limit |-> 0, used |-> 0]
Charged(limit, used) == [form |-> "whole", limit |-> limit, used |-> used]

Init ==
  /\ pc = [r \in Runs |-> "lock"]
  /\ asked \in [Runs -> {Limit, OtherLimit}]
  /\ timeout \in [Runs -> Timeouts]
  /\ read = [r \in Runs |-> 0] /\ wall = [r \in Runs |-> 0]
  /\ ledger = Blank("empty")
  /\ holder = {} /\ spent = 0

Goto(r, from, to) == pc[r] = from /\ pc' = [pc EXCEPT ![r] = to]

(* LOCK_EX waits; opening with "a+" creates an empty ledger. *)
Lock(r) == /\ Goto(r, "lock", "locked")
           /\ holder = {}
           /\ holder' = holder \cup {r}
           /\ UNCHANGED <<asked, timeout, read, wall, ledger, spent>>

(* A blank ledger is a new campaign with the caller's own budget. *)
Remaining(r) == asked[r] - ledger.used
Agrees(r) == ledger.form = "whole" => asked[r] = ledger.limit
Admissible(r) == ledger.form # "torn" /\ Agrees(r) /\ Remaining(r) > Reserve

(* A torn ledger does not parse; the lock goes with the file. *)
Refuse(r) == /\ Goto(r, "locked", "refused")
             /\ ~Admissible(r)
             /\ holder' = holder \ {r}
             /\ UNCHANGED <<asked, timeout, read, wall, ledger, spent>>

Least(a, b) == IF a < b THEN a ELSE b

\* Wrong on purpose: the timeout leaves no room for termination.
AdmitWithoutReserve(r) ==
  /\ Goto(r, "locked", "run")
  /\ Admissible(r)
  /\ read' = [read EXCEPT ![r] = ledger.used]
  /\ timeout' = [timeout EXCEPT ![r] = Least(@, Remaining(r))]
  /\ UNCHANGED <<asked, wall, ledger, holder, spent>>

Admit(r) == /\ Goto(r, "locked", "run")
            /\ Admissible(r)
            /\ read' = [read EXCEPT ![r] = ledger.used]
            /\ timeout' = [timeout EXCEPT ![r] = Least(@, Remaining(r) - Reserve)]
            /\ UNCHANGED <<asked, wall, ledger, holder, spent>>

(* _run: passes, fails or raises after some time; the ledger is not touched. *)
Work(r) == /\ Goto(r, "run", "truncate")
           /\ \E t \in 1 .. (timeout[r] + Overrun) : /\ wall' = [wall EXCEPT ![r] = t]
                                                  /\ spent' = spent + t
           /\ UNCHANGED <<asked, timeout, read, ledger, holder>>

Truncate(r) == /\ Goto(r, "truncate", "write")
               /\ ledger' = Blank("empty")
               /\ UNCHANGED <<asked, timeout, read, wall, holder, spent>>

(* A ledger longer than the file buffer reaches the file in pieces. *)
WritePart(r) == /\ pc[r] = "write" /\ ledger.form = "empty"
                /\ ledger' = Blank("torn")
                /\ UNCHANGED <<pc, asked, timeout, read, wall, holder, spent>>

\* Wrong on purpose: charges the run but drops what was charged before.
WriteOwnCharge(r) ==
  /\ Goto(r, "write", "release")
  /\ ledger' = Charged(asked[r], wall[r])
  /\ UNCHANGED <<asked, timeout, read, wall, holder, spent>>

Write(r) == /\ Goto(r, "write", "release")
            /\ ledger' = Charged(asked[r], read[r] + wall[r])
            /\ UNCHANGED <<asked, timeout, read, wall, holder, spent>>

Release(r) == /\ Goto(r, "release", "done")
              /\ holder' = holder \ {r}
              /\ UNCHANGED <<asked, timeout, read, wall, ledger, spent>>

(* Death releases the flock and charges nothing. *)
Die(r) == /\ pc[r] \in DeathPoints
          /\ pc' = [pc EXCEPT ![r] = "dead"]
          /\ holder' = holder \ {r}
          /\ UNCHANGED <<asked, timeout, read, wall, ledger, spent>>

Finished == /\ \A r \in Runs : pc[r] \in {"done", "refused", "dead"}
            /\ UNCHANGED vars

Next == \/ \E r \in Runs : \/ Lock(r) \/ Refuse(r) \/ Admit(r) \/ Work(r)
                           \/ Truncate(r) \/ WritePart(r) \/ Write(r) \/ Release(r) \/ Die(r)
        \/ Finished

Spec == Init /\ [][Next]_vars

-----------------------------------------------------------------------------
(* Properties *)

(* The campaign never uses more than the budget it was opened with, however  *)
(* its runs end and whatever budget later callers name.                     *)
WithinBudget == ledger.form = "whole" => spent <= ledger.limit

(* Between runs the ledger is exactly what was spent: no charge is lost by  *)
(* two runs that read the same balance, or by a run that was refused.       *)
LedgerExact == holder = {} => ledger.form # "torn" /\ spent = ledger.used

(* "Charge total runner wall time conservatively": a ledger that is free     *)
(* and can be read never says less than was spent.                          *)
NeverUndercharged ==
  holder = {} /\ ledger.form # "torn" => spent <= ledger.used
=============================================================================
