-------------------------- MODULE GpuBudgetProofs --------------------------
(***************************************************************************)
(* The ledger is exact and the campaign stays within its budget, for any    *)
(* number of runs, any budget, reserve and timeouts, as long as no runner   *)
(* dies between its admission and the end of its charge.                    *)
(***************************************************************************)
EXTENDS GpuBudget, TLAPS

Charging == {"run", "truncate", "write"}

(* What is on disk is consistent: an exact balance within its limit. *)
Balanced == /\ ledger.form # "torn"
            /\ spent = ledger.used
            /\ ledger.form = "empty" => ledger.used = 0
            /\ ledger.form = "whole" => ledger.used <= ledger.limit

(* The strengthening: what each program point knows about the ledger. *)
Running(r) ==
  pc[r] = "run" => /\ Balanced /\ Agrees(r)
                   /\ read[r] = ledger.used
                   /\ timeout[r] <= asked[r] - read[r] - Reserve
                   /\ asked[r] - read[r] > Reserve
Ran(r) ==
  pc[r] \in {"truncate", "write"} => /\ spent = read[r] + wall[r]
                                     /\ spent <= asked[r]
Untouched(r) ==
  pc[r] = "truncate" /\ ledger.form = "whole" => asked[r] = ledger.limit
Rewriting(r) == pc[r] = "write" => ledger.form # "whole"
Settled(r) == pc[r] \in {"locked", "release"} => Balanced
Free == holder = {} => Balanced
(* A run that holds the lock is still inside run(). *)
HolderActive == \A r \in holder : pc[r] \in Critical

IInv == TypeOK /\ Free /\ HolderActive
        /\ \A r \in Runs : Running(r) /\ Ran(r) /\ Untouched(r) /\ Rewriting(r) /\ Settled(r)

-----------------------------------------------------------------------------
(* IInv holds initially. *)
LEMMA InitIInv == Init => IInv
<1>1. SUFFICES ASSUME Init PROVE IInv
  OBVIOUS
<1>2. TypeOK
  <2>1. timeout \in [Runs -> Int]
    <3>1. timeout \in [Runs -> Timeouts] /\ Timeouts \subseteq Int
      BY <1>1, TimeoutAssumption DEF Init
    <3>2. \A r \in Runs : timeout[r] \in Int
      BY <3>1
    <3>3. QED
      BY <3>1, <3>2
  <2>2. ledger \in [form : {"empty", "torn", "whole"}, limit : {0, Limit, OtherLimit}, used : Nat]
    BY <1>1 DEF Init, Blank
  <2>3. QED
    BY <1>1, <2>1, <2>2 DEF Init, TypeOK, Critical
<1>3. Free /\ HolderActive
  BY <1>1 DEF Init, Free, HolderActive, Balanced, Blank
<1>4. \A r \in Runs : Running(r) /\ Ran(r) /\ Untouched(r) /\ Rewriting(r) /\ Settled(r)
  BY <1>1 DEF Init, Running, Ran, Untouched, Rewriting, Settled
<1>5. QED
  BY <1>2, <1>3, <1>4 DEF IInv

(* Every step of one run keeps IInv, unless it is a death while charging. *)
LEMMA RunStep ==
  ASSUME IInv, NEW r \in Runs, DeathPoints \cap Charging = {},
         Lock(r) \/ Refuse(r) \/ Admit(r) \/ Work(r) \/ Truncate(r)
           \/ WritePart(r) \/ Write(r) \/ Release(r) \/ Die(r)
  PROVE  IInv'
<1> USE LimitAssumption, TimeoutAssumption, ReserveAssumption
<1> USE DEF IInv, TypeOK, Critical, Goto, HolderActive
<1>1. CASE Lock(r)
  BY <1>1 DEF Lock, Free, Balanced, Agrees, Running, Ran, Untouched, Rewriting, Settled
<1>2. CASE Refuse(r)
  BY <1>2 DEF Refuse, Free, Balanced, Agrees, Running, Ran, Untouched, Rewriting, Settled
<1>3. CASE Admit(r)
  <2>1. pc[r] = "locked" /\ holder = {r} /\ Balanced /\ Remaining(r) > Reserve /\ Agrees(r)
    BY <1>3 DEF Admit, Settled, Admissible
  <2>2. timeout'[r] <= asked[r] - ledger.used - Reserve /\ timeout'[r] \in Int
    BY <1>3, <2>1 DEF Admit, Least, Remaining
  <2>3. TypeOK'
    BY <1>3, <2>2, <2>1 DEF Admit
  <2>4. pc' = [pc EXCEPT ![r] = "run"] /\ holder' = {r} /\ Balanced' /\ Agrees(r)'
    BY <1>3, <2>1 DEF Admit, Balanced, Agrees
  <2>5. Free' /\ HolderActive'
    BY <2>4 DEF Free
  <2>6. Running(r)' /\ Ran(r)' /\ Untouched(r)' /\ Rewriting(r)' /\ Settled(r)'
    BY <1>3, <2>1, <2>2, <2>4 DEF Admit, Remaining, Running, Ran, Untouched, Rewriting, Settled
  <2>7. ASSUME NEW q \in Runs, q # r
        PROVE  Running(q)' /\ Ran(q)' /\ Untouched(q)' /\ Rewriting(q)' /\ Settled(q)'
    <3>1. pc'[q] = pc[q] /\ pc[q] \notin {"locked", "run", "truncate", "write", "release"}
      BY <2>1, <2>4, <2>7
    <3>2. QED
      BY <3>1 DEF Running, Ran, Untouched, Rewriting, Settled
  <2>8. QED
    BY <2>3, <2>5, <2>6, <2>7
<1>4. CASE Work(r)
  <2>1. holder = {r} /\ pc[r] = "run"
    BY <1>4 DEF Work
  <2>2. PICK t \in 1 .. (timeout[r] + Overrun) : /\ wall' = [wall EXCEPT ![r] = t]
                                              /\ spent' = spent + t
    BY <1>4 DEF Work
  <2>3. t \in Nat /\ spent' = read[r] + wall'[r] /\ spent' <= asked[r]
    BY <2>1, <2>2 DEF Running, Balanced
  <2>4. TypeOK'
    BY <1>4, <2>2, <2>3 DEF Work
  <2>5. Free' /\ HolderActive'
    BY <1>4, <2>1 DEF Work, Free
  <2>6. Running(r)' /\ Ran(r)' /\ Untouched(r)' /\ Rewriting(r)' /\ Settled(r)'
    BY <1>4, <2>1, <2>3 DEF Work, Balanced, Agrees, Running, Ran, Untouched, Rewriting, Settled
  <2>7. ASSUME NEW q \in Runs, q # r
        PROVE  Running(q)' /\ Ran(q)' /\ Untouched(q)' /\ Rewriting(q)' /\ Settled(q)'
    <3>1. pc'[q] = pc[q] /\ pc[q] \notin {"locked", "run", "truncate", "write", "release"}
      BY <1>4, <2>1, <2>7 DEF Work
    <3>2. QED
      BY <3>1 DEF Running, Ran, Untouched, Rewriting, Settled
  <2>8. QED
    BY <2>4, <2>5, <2>6, <2>7
<1>5. CASE Truncate(r)
  BY <1>5 DEF Truncate, Blank, Free, Balanced, Agrees, Running, Ran, Untouched, Rewriting, Settled
<1>6. CASE WritePart(r)
  BY <1>6 DEF WritePart, Blank, Free, Balanced, Agrees, Running, Ran, Untouched, Rewriting, Settled
<1>7. CASE Write(r)
  <2>1. read[r] + wall[r] \in Nat /\ holder = {r} /\ spent = read[r] + wall[r] /\ spent <= asked[r]
    BY <1>7 DEF Write, Ran
  <2>2. TypeOK'
    BY <1>7, <2>1 DEF Write, Charged
  <2>3. Balanced'
    BY <1>7, <2>1 DEF Write, Charged, Balanced
  <2>4. pc' = [pc EXCEPT ![r] = "release"] /\ holder' = {r}
    BY <1>7, <2>1 DEF Write
  <2>5. Free' /\ HolderActive'
    BY <2>3, <2>4 DEF Free
  <2>6. ASSUME NEW q \in Runs
        PROVE  Running(q)' /\ Ran(q)' /\ Untouched(q)' /\ Rewriting(q)' /\ Settled(q)'
    <3>1. pc'[q] \notin {"locked", "run", "truncate", "write"}
      BY <2>1, <2>4
    <3>2. QED
      BY <2>3, <3>1 DEF Running, Ran, Untouched, Rewriting, Settled
  <2>7. QED
    BY <2>2, <2>5, <2>6
<1>8. CASE Release(r)
  BY <1>8 DEF Release, Free, Balanced, Agrees, Running, Ran, Untouched, Rewriting, Settled
<1>9. CASE Die(r)
  <2>1. pc[r] \notin {"run", "truncate", "write"} /\ pc' = [pc EXCEPT ![r] = "dead"]
        /\ holder' = holder \ {r}
    BY <1>9 DEF Die, Charging
  <2>2. Balanced' <=> Balanced
    BY <1>9 DEF Die, Balanced
  <2>3. \A q \in Runs : Agrees(q)' <=> Agrees(q)
    BY <1>9 DEF Die, Agrees
  <2>4. TypeOK'
    <3>1. pc' \in [Runs -> Critical \cup {"lock", "done", "refused", "dead"}]
      BY <2>1
    <3>2. ASSUME NEW q \in Runs, pc'[q] \in Critical PROVE holder' = {q}
      BY <2>1, <3>2
    <3>3. QED
      BY <1>9, <2>1, <3>1, <3>2 DEF Die
  <2>5. HolderActive'
    BY <2>1
  <2>6. Free'
    <3>1. CASE holder = {}
      BY <2>2, <3>1 DEF Free
    <3>2. CASE r \in holder
      BY <2>1, <2>2, <3>2 DEF Free, Settled
    <3>3. CASE r \notin holder /\ holder # {}
      BY <2>1, <3>3 DEF Free
    <3>4. QED
      BY <3>1, <3>2, <3>3
  <2>7. ASSUME NEW q \in Runs
        PROVE  Running(q)' /\ Ran(q)' /\ Untouched(q)' /\ Rewriting(q)' /\ Settled(q)'
    <3>1. CASE q = r
      BY <2>1, <3>1 DEF Running, Ran, Untouched, Rewriting, Settled
    <3>2. CASE q # r
      BY <1>9, <2>1, <2>2, <2>3, <3>2 DEF Die, Running, Ran, Untouched, Rewriting, Settled
    <3>3. QED
      BY <3>1, <3>2
  <2>8. QED
    BY <2>4, <2>5, <2>6, <2>7
<1>10. QED
  BY <1>1, <1>2, <1>3, <1>4, <1>5, <1>6, <1>7, <1>8, <1>9

(* IInv is inductive. *)
LEMMA NextIInv ==
  ASSUME IInv, [Next]_vars, DeathPoints \cap Charging = {}
  PROVE  IInv'
<1>1. CASE UNCHANGED vars
  BY <1>1 DEF vars, IInv, TypeOK, Free, HolderActive, Balanced, Agrees, Running, Ran, Untouched,
              Rewriting, Settled
<1>2. CASE Finished
  BY <1>1, <1>2 DEF Finished
<1>3. ASSUME NEW r \in Runs,
             Lock(r) \/ Refuse(r) \/ Admit(r) \/ Work(r) \/ Truncate(r)
               \/ WritePart(r) \/ Write(r) \/ Release(r) \/ Die(r)
      PROVE  IInv'
  BY <1>3, RunStep
<1>4. QED
  BY <1>1, <1>2, <1>3 DEF Next

(* With no death while charging, IInv holds in every reachable state. *)
LEMMA Invariance ==
  ASSUME DeathPoints \cap Charging = {}
  PROVE  Spec => []IInv
<1>1. Init => IInv
  BY InitIInv
<1>2. IInv /\ [Next]_vars => IInv'
  BY NextIInv
<1>3. QED
  BY <1>1, <1>2, PTL DEF Spec

(* A free ledger says exactly what was spent (run, lines 299-329). *)
THEOREM LedgerIsExact ==
  ASSUME DeathPoints \cap Charging = {}
  PROVE  Spec => []LedgerExact
<1>1. IInv => LedgerExact
  BY DEF IInv, Free, Balanced, LedgerExact
<1>2. QED
  BY <1>1, Invariance, PTL

(* The campaign never exceeds the budget it was opened with: the overrun of  *)
(* the last run fits the reserve its timeout left (run, lines 314-320).     *)
THEOREM BudgetRespected ==
  ASSUME DeathPoints \cap Charging = {}
  PROVE  Spec => []WithinBudget
<1>1. ASSUME IInv PROVE WithinBudget
  <2>1. CASE holder = {}
    BY <1>1, <2>1 DEF IInv, Free, Balanced, WithinBudget
  <2>2. CASE holder # {}
    <3>1. PICK r \in Runs : pc[r] \in Critical
      BY <1>1, <2>2 DEF IInv, HolderActive, TypeOK
    <3>2. spent \in Nat /\ ledger.limit \in Int /\ asked[r] \in Int
      BY <1>1, LimitAssumption DEF IInv, TypeOK
    <3>3. CASE pc[r] \in {"locked", "run", "release"}
      BY <1>1, <3>2, <3>3 DEF IInv, Running, Settled, Balanced, WithinBudget
    <3>4. CASE pc[r] \in {"truncate", "write"}
      BY <1>1, <3>2, <3>4 DEF IInv, Ran, Untouched, Rewriting, WithinBudget
    <3>5. QED
      BY <3>1, <3>3, <3>4 DEF Critical
  <2>3. QED
    BY <2>1, <2>2
<1>2. QED
  BY <1>1, Invariance, PTL

-----------------------------------------------------------------------------
(* Types need no condition on deaths, only that what was read is no charge   *)
(* below zero.                                                              *)
Typed == TypeOK /\ \A r \in Runs : read[r] \in Nat

LEMMA TypedStep ==
  ASSUME Typed, NEW r \in Runs,
         Lock(r) \/ Refuse(r) \/ Admit(r) \/ Work(r) \/ Truncate(r)
           \/ WritePart(r) \/ Write(r) \/ Release(r) \/ Die(r)
  PROVE  Typed'
<1> USE LimitAssumption, TimeoutAssumption, ReserveAssumption
<1> USE DEF Typed, TypeOK, Critical, Goto
<1>1. CASE Lock(r) \/ Refuse(r) \/ Release(r) \/ Die(r)
  BY <1>1 DEF Lock, Refuse, Release, Die
<1>2. CASE Admit(r)
  <2>1. Least(timeout[r], Remaining(r) - Reserve) \in Int /\ ledger.used \in Nat
    BY DEF Least, Remaining
  <2>2. QED
    BY <1>2, <2>1 DEF Admit
<1>3. CASE Work(r)
  <2>1. PICK t \in 1 .. (timeout[r] + Overrun) : /\ wall' = [wall EXCEPT ![r] = t]
                                              /\ spent' = spent + t
    BY <1>3 DEF Work
  <2>2. t \in Nat
    OBVIOUS
  <2>3. QED
    BY <1>3, <2>1, <2>2 DEF Work
<1>4. CASE Truncate(r) \/ WritePart(r)
  BY <1>4 DEF Truncate, WritePart, Blank
<1>5. CASE Write(r)
  <2>1. read[r] + wall[r] \in Nat
    OBVIOUS
  <2>2. QED
    BY <1>5, <2>1 DEF Write, Charged
<1>6. QED
  BY <1>1, <1>2, <1>3, <1>4, <1>5

(* Every variable keeps its type, wherever runs die. *)
THEOREM TypeCorrect == Spec => []TypeOK
<1>1. Init => Typed
  BY InitIInv DEF IInv, Init, Typed
<1>2. Typed /\ [Next]_vars => Typed'
  <2>1. ASSUME Typed, Next PROVE Typed'
    BY <2>1, TypedStep DEF Next, Finished, vars, Typed, TypeOK
  <2>2. ASSUME Typed, UNCHANGED vars PROVE Typed'
    BY <2>2 DEF vars, Typed, TypeOK
  <2>3. QED
    BY <2>1, <2>2
<1>3. Typed => TypeOK
  BY DEF Typed
<1>4. QED
  BY <1>1, <1>2, <1>3, PTL DEF Spec
=============================================================================
