------------------------- MODULE ListingBudgetProofs ------------------------
(* The listing budget of a window holds for any limit, window, set of      *)
(* tasks, clock and number of mishaps.                                     *)
EXTENDS ListingBudget, TLAPS

\* Every page admitted since a budget's window began is counted in it.
AllCounted(budget) ==
    /\ admitted - budget.opened <= budget.attempts
    /\ budget.opened <= admitted

BudgetInv == TypeOK /\ AllCounted(mem) /\ AllCounted(disk)

(* The registry is created with no window.                                 *)
LEMMA InitBudget == Init => BudgetInv
<1> SUFFICES ASSUME Init PROVE BudgetInv
    OBVIOUS
<1>1. NoWindow \in Budgets /\ NoWindow.attempts = 0 /\ NoWindow.opened = 0
    BY BudgetAssumption DEF NoWindow, Budgets
<1>2. admitted \in Nat /\ admitted = 0
    BY DEF Init
<1>3. AllCounted(mem) /\ AllCounted(disk)
    BY <1>1, <1>2 DEF Init, AllCounted
<1>4. now \in 0 .. MaxTime /\ mishaps \in 0 .. MaxMishaps
    BY BudgetAssumption DEF Init
<1>5. mem \in Budgets /\ disk \in Budgets /\ failed \in BOOLEAN /\ asked = Nobody
    BY <1>1, Zenon DEF Init
<1>6. asked \in [Tasks -> -1 .. MaxTime]
    BY <1>5, BudgetAssumption DEF Nobody
<1> QED
    BY <1>2, <1>3, <1>4, <1>5, <1>6, Zenon DEF BudgetInv, TypeOK

(* The window an attempt falls into is a budget that counts every page.    *)
LEMMA CurrentCounts ==
    ASSUME BudgetInv, NEW t \in Tasks, asked[t] # -1
    PROVE  /\ Current(t) \in Budgets /\ AllCounted(Current(t))
           /\ Current(t).opened \in Nat /\ Current(t).attempts \in Nat
           /\ admitted \in Nat
BY BudgetAssumption DEF BudgetInv, TypeOK, AllCounted, Current, Budgets

(* Counting one more page keeps a budget below its limit.                  *)
LEMMA CountedCounts ==
    ASSUME BudgetInv, NEW t \in Tasks, asked[t] # -1, Current(t).attempts < Limit
    PROVE  /\ Counted(t) \in Budgets
           /\ Counted(t).attempts = Current(t).attempts + 1
           /\ Counted(t).opened = Current(t).opened
BY CurrentCounts, BudgetAssumption DEF Counted, Budgets

(* Every step of admit_listing, of the clock and of a restart keeps it.    *)
LEMMA BudgetStep == BudgetInv /\ [Next]_vars => BudgetInv'
<1> SUFFICES ASSUME BudgetInv, [Next]_vars PROVE BudgetInv'
    OBVIOUS
<1> USE BudgetAssumption
<1>1. ASSUME NEW t \in Tasks, Enter(t) PROVE BudgetInv'
    BY <1>1 DEF Enter, BudgetInv, TypeOK, AllCounted
<1>2. ASSUME NEW t \in Tasks, Admit(t) PROVE BudgetInv'
  <2>1. mem' \in Budgets /\ disk' \in Budgets
      BY <1>2, CountedCounts DEF Admit
  <2>2. admitted' \in Nat /\ admitted' = admitted + 1
      BY <1>2 DEF Admit, BudgetInv, TypeOK
  <2>3. AllCounted(mem)' /\ AllCounted(disk)'
    <3>1. mem' = Counted(t) /\ disk' = Counted(t)
          /\ asked[t] # -1 /\ Current(t).attempts < Limit
        BY <1>2 DEF Admit
    <3>2. mem'.opened = Current(t).opened /\ mem'.attempts = Current(t).attempts + 1
        BY <3>1, CountedCounts
    <3> QED
        BY <2>2, <3>1, <3>2, CurrentCounts DEF AllCounted
  <2> QED
      BY <1>2, <2>1, <2>2, <2>3 DEF Admit, BudgetInv, TypeOK
<1>3. ASSUME NEW t \in Tasks, SaveFails(t) PROVE BudgetInv'
  <2>1. mem' \in Budgets /\ disk' \in Budgets
      BY <1>3, CountedCounts DEF SaveFails, BudgetInv, TypeOK
  <2>2. AllCounted(mem)' /\ AllCounted(disk)'
    <3>1. mem' = Counted(t) /\ disk' \in {disk, mem'} /\ admitted' = admitted
          /\ asked[t] # -1 /\ Current(t).attempts < Limit
        BY <1>3 DEF SaveFails
    <3>2. mem'.opened = Current(t).opened /\ mem'.attempts = Current(t).attempts + 1
        BY <3>1, CountedCounts
    <3> QED
        BY <3>1, <3>2, CurrentCounts DEF AllCounted, BudgetInv
  <2> QED
      BY <1>3, <2>1, <2>2 DEF SaveFails, Mishap, BudgetInv, TypeOK
<1>4. ASSUME NEW t \in Tasks, Refuse(t) PROVE BudgetInv'
    BY <1>4, CurrentCounts DEF Refuse, BudgetInv, TypeOK, AllCounted
<1>5. CASE Tick \/ SetBack
    BY <1>5 DEF Tick, SetBack, Mishap, BudgetInv, TypeOK, AllCounted
<1>6. CASE Restart
  <2>1. asked' \in [Tasks -> -1 .. MaxTime]
      BY <1>6 DEF Restart, Nobody
  <2>2. failed' \in BOOLEAN
      BY <1>6, Zenon DEF Restart
  <2> QED
      BY <1>6, <2>1, <2>2, Zenon DEF Restart, BudgetInv, TypeOK, AllCounted
<1>7. CASE UNCHANGED vars
    BY <1>7 DEF vars, BudgetInv, TypeOK, AllCounted
<1> QED
    BY <1>1, <1>2, <1>3, <1>4, <1>5, <1>6, <1>7, Zenon DEF Next

(* No window of admit_listing admits more than the limit.                  *)
THEOREM BudgetKept == Spec => []WindowBudget
<1>1. BudgetInv => WindowBudget
    BY BudgetAssumption DEF BudgetInv, TypeOK, AllCounted, WindowBudget, Budgets
<1> QED
    BY <1>1, InitBudget, BudgetStep, PTL DEF Spec

=============================================================================
