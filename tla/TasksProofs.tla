---------------------------- MODULE TasksProofs ----------------------------
(***************************************************************************)
(* Proofs about Tasks, for any number of CPUs and of tasks.                *)
(***************************************************************************)
EXTENDS ForkProofs, FiniteSetTheorems, WellFoundedInduction

USE TasksAssumption

\* The state at boot has the ranges of IInv.
LEMMA InitIInv == Init => IInv
<1> SUFFICES ASSUME Init PROVE IInv
  BY Zenon
<1> USE ConstFacts
<1>1. TypeOK
  <2>1. state \in [TaskIds -> TaskState] /\ ticks \in [TaskIds -> 0 .. TICK_MOD - 1]
    BY DEF Init, TaskState
  <2>2. rq \in [CPUs -> [TaskIds -> TaskIds \cup {NULL}]] /\ cnt \in [CPUs -> 0 .. NR_TASKS]
    BY DEF Init
  <2>3. pc \in [CPUs -> PC] /\ ts \in [CPUs -> TaskIds \cup {NULL}] /\ tgt \in [CPUs -> 0 .. ncpu]
    BY DEF Init, PC
  <2>4. idx \in [CPUs -> 0 .. NR_TASKS] /\ cur \in [CPUs -> TaskIds]
    BY DEF Init
  <2>5. wild \in BOOLEAN
    BY Zenon DEF Init
  <2>6. spill \in 0 .. SPILL_WORDS /\ built \subseteq TaskIds
    BY DEF Init
  <2>7. nextCPU \in CPUs /\ lock \in CPUs \cup {NULL}
    BY Zenon DEF Init
  <2> QED
    BY <2>1, <2>2, <2>3, <2>4, <2>5, <2>6, <2>7 DEF TypeOK
<1>2. Locals /\ LockHeld /\ ShellListed
  BY DEF Init, Locals, LockHeld, ShellListed
<1> QED
  BY <1>1, <1>2, Zenon DEF IInv

\* An unsigned counter that is taken down stays in its range.
LEMMA DecType ==
    ASSUME NEW n \in Int, NEW k \in Int
    PROVE  Dec(n, k) \in 0 .. TICK_MOD - 1
BY DEF Dec

\* So does the tick counter of a task.
LEMMA LeftType ==
    ASSUME NEW f \in [TaskIds -> 0 .. TICK_MOD - 1], NEW t \in TaskIds
    PROVE  Dec(f[t], 1) \in 0 .. TICK_MOD - 1
<1>1. f[t] \in Int
  OBVIOUS
<1>2. 1 \in Int
  OBVIOUS
<1> QED
  BY <1>1, <1>2, DecType, Zenon

\* A task is on a list a natural number of times.
LEMMA EntriesType ==
    ASSUME TypeOK, NEW c \in CPUs, NEW t \in TaskIds
    PROVE  Entries(c, t) \in Nat
<1>1. cnt[c] - 1 \in Int
  BY DEF TypeOK
<1>2. IsFiniteSet(Slots(c))
  BY <1>1, FS_Interval DEF Slots
<1>3. IsFiniteSet({i \in Served(c) : rq[c][i] = t})
  BY <1>2, FS_Subset, Zenon DEF Served
<1> QED
  BY <1>3, FS_CardinalityType, Zenon DEF Entries

\* The timer keeps the ranges of states and ticks.
LEMMA WakeType ==
    ASSUME TypeOK, NEW c \in CPUs
    PROVE  /\ WakeSleepers(c).st \in [TaskIds -> TaskState]
           /\ WakeSleepers(c).tk \in [TaskIds -> 0 .. TICK_MOD - 1]
<1>1. WakeSleepers(c).st \in [TaskIds -> TaskState]
  BY WakeStates, Zenon
<1>2. \A t \in TaskIds : Dec(ticks[t], Entries(c, t)) \in 0 .. TICK_MOD - 1
  <2> TAKE t \in TaskIds
  <2>1. ticks[t] \in Int /\ Entries(c, t) \in Int
    BY EntriesType DEF TypeOK
  <2> QED
    BY <2>1, DecType, Zenon
<1>3. WakeSleepers(c).tk \in [TaskIds -> 0 .. TICK_MOD - 1]
  BY <1>2, SMTT(20) DEF WakeSleepers, TypeOK
<1> QED
  BY <1>1, <1>3, Zenon

\* Every step keeps the ranges and the lock of the task table.
LEMMA StepIInv == IInv /\ [Next]_vars => IInv'
<1> SUFFICES ASSUME IInv, [Next]_vars PROVE IInv'
  BY Zenon
<1> USE ConstFacts DEF IInv, taskVars, rqVars, localVars, Goto, Return, Interruptible
<1>1. CASE UNCHANGED vars
  BY <1>1, Zenon DEF vars, TypeOK, Locals, LockHeld, ShellListed
<1>2. ASSUME NEW c \in CPUs, TimerFault(c) PROVE IInv'
  <2>1. TypeOK'
    BY <1>2, WakeType, Zenon DEF TimerFault, TypeOK, Locals, PC, TaskState
  <2>2. Locals'
    BY <1>2, WakeType, Zenon DEF TimerFault, TypeOK, Locals, ShellListed
  <2>3. LockHeld'
    BY <1>2, Zenon DEF TimerFault, TypeOK, LockHeld
  <2>4. ShellListed'
    BY <1>2 DEF TimerFault, TypeOK, Locals, ShellListed
  <2> QED
    BY <2>1, <2>2, <2>3, <2>4, Zenon
<1>3. ASSUME NEW c \in CPUs, Tick(c) PROVE IInv'
  <2> DEFINE w == WakeSleepers(c)
  <2> DEFINE left == Dec(w.tk[cur[c]], 1)
  <2>a. cur[c] \in TaskIds /\ w.st \in [TaskIds -> TaskState]
        /\ w.tk \in [TaskIds -> 0 .. TICK_MOD - 1]
    BY WakeType, Zenon DEF TypeOK
  <2>c. left \in 0 .. TICK_MOD - 1
    BY <2>a, LeftType, Zenon
  <2> HIDE DEF w
  <2> HIDE DEF left
  <2>d. /\ ticks' = [w.tk EXCEPT ![cur[c]] = left]
        /\ \/ state' = [w.st EXCEPT ![cur[c]] = "RUNNABLE"] /\ pc' = [pc EXCEPT ![c] = "sched"]
           \/ state' = w.st /\ pc' = pc
        /\ UNCHANGED <<built, rq, cnt, nextCPU, cur, lock, ts, tgt, idx, spill, wild>>
    BY <1>3, Zenon DEF Tick, w, left
  <2>1. TypeOK'
    <3>1. ticks' \in [TaskIds -> 0 .. TICK_MOD - 1] /\ state' \in [TaskIds -> TaskState]
      BY <2>a, <2>c, <2>d, Zenon DEF TaskState
    <3>2. pc' \in [CPUs -> PC]
      BY <2>d, Zenon DEF TypeOK, PC
    <3> QED
      BY <3>1, <3>2, <2>d, Zenon DEF TypeOK
  <2>2. Locals'
    <3>1. pc[c] \in {"user", "loop"}
      BY <1>3, Zenon DEF Tick
    <3> QED
      BY <2>d, <3>1 DEF TypeOK, Locals
  <2>3. LockHeld'
    BY <1>3 DEF Tick, TypeOK, LockHeld
  <2>4. ShellListed'
    BY <1>3, Zenon DEF Tick, TypeOK, Locals, ShellListed
  <2> QED
    BY <2>1, <2>2, <2>3, <2>4, Zenon
<1>4. ASSUME NEW c \in CPUs, NEW n \in SleepArgs, Sleep(c, n) PROVE IInv'
  <2>1. TypeOK'
    BY <1>4, Zenon DEF Sleep, TypeOK, Locals, PC, TaskState
  <2>2. Locals'
    BY <1>4, Zenon DEF Sleep, TypeOK, Locals, ShellListed
  <2>3. LockHeld'
    BY <1>4, Zenon DEF Sleep, TypeOK, LockHeld
  <2>4. ShellListed'
    BY <1>4, ZenonT(30) DEF Sleep, TypeOK, Locals, ShellListed
  <2> QED
    BY <2>1, <2>2, <2>3, <2>4, Zenon
<1>5. ASSUME NEW c \in CPUs, Scan(c) PROVE IInv'
  <2>1. TypeOK'
    BY <1>5 DEF Scan, TypeOK, Locals, PC, TaskState, Slots
  <2>2. Locals'
    BY <1>5 DEF Scan, TypeOK, Locals, ShellListed, Slots
  <2>3. LockHeld'
    BY <1>5 DEF Scan, TypeOK, LockHeld
  <2>4. ShellListed'
    BY <1>5 DEF Scan, TypeOK, Locals, ShellListed, Slots
  <2> QED
    BY <2>1, <2>2, <2>3, <2>4, Zenon
<1>6. ASSUME NEW c \in CPUs, ScanFault(c) PROVE IInv'
  <2>1. TypeOK'
    BY <1>6, Zenon DEF ScanFault, TypeOK, Locals, PC, TaskState
  <2>2. Locals'
    BY <1>6, Zenon DEF ScanFault, TypeOK, Locals, ShellListed
  <2>3. LockHeld'
    BY <1>6, Zenon DEF ScanFault, TypeOK, LockHeld
  <2>4. ShellListed'
    BY <1>6, SMTT(20) DEF ScanFault, TypeOK, Locals, ShellListed
  <2> QED
    BY <2>1, <2>2, <2>3, <2>4, Zenon
<1>7. ASSUME NEW c \in CPUs, Dispatch(c) PROVE IInv'
  <2>1. TypeOK'
    BY <1>7 DEF Dispatch, TypeOK, Locals, PC, TaskState
  <2>2. Locals'
    BY <1>7 DEF Dispatch, TypeOK, Locals, ShellListed
  <2>3. LockHeld'
    BY <1>7 DEF Dispatch, TypeOK, LockHeld
  <2>4. ShellListed'
    BY <1>7, Zenon DEF Dispatch, TypeOK, Locals, ShellListed
  <2> QED
    BY <2>1, <2>2, <2>3, <2>4, Zenon
<1>8. ASSUME NEW c \in CPUs, ForkCall(c) PROVE IInv'
  <2>1. TypeOK'
    BY <1>8, Zenon DEF ForkCall, TypeOK, Locals, PC, TaskState
  <2>2. Locals'
    BY <1>8, Zenon DEF ForkCall, TypeOK, Locals, ShellListed
  <2>3. LockHeld'
    BY <1>8, Zenon DEF ForkCall, TypeOK, LockHeld
  <2>4. ShellListed'
    BY <1>8, SMTT(20) DEF ForkCall, TypeOK, Locals, ShellListed
  <2> QED
    BY <2>1, <2>2, <2>3, <2>4, Zenon
<1>9. ASSUME NEW c \in CPUs, ForkLock(c) PROVE IInv'
  <2>1. TypeOK'
    BY <1>9 DEF ForkLock, TypeOK, Locals, PC, TaskState
  <2>2. Locals'
    BY <1>9 DEF ForkLock, TypeOK, Locals, ShellListed
  <2>3. LockHeld'
    BY <1>9, Zenon DEF ForkLock, TypeOK, LockHeld
  <2>4. ShellListed'
    BY <1>9 DEF ForkLock, TypeOK, Locals, ShellListed
  <2> QED
    BY <2>1, <2>2, <2>3, <2>4, Zenon
<1>10. ASSUME NEW c \in CPUs, ForkFull(c) PROVE IInv'
  <2>1. TypeOK'
    BY <1>10, Zenon DEF ForkFull, TypeOK, Locals, PC, TaskState
  <2>2. Locals'
    BY <1>10, Zenon DEF ForkFull, TypeOK, Locals, ShellListed
  <2>3. LockHeld'
    BY <1>10, Zenon DEF ForkFull, TypeOK, LockHeld
  <2>4. ShellListed'
    BY <1>10, SMTT(20) DEF ForkFull, TypeOK, Locals, ShellListed
  <2> QED
    BY <2>1, <2>2, <2>3, <2>4, Zenon
<1>11. ASSUME NEW c \in CPUs, LockPanic(c) PROVE IInv'
  <2>1. TypeOK'
    BY <1>11 DEF LockPanic, TypeOK, Locals, PC, TaskState
  <2>2. Locals'
    BY <1>11 DEF LockPanic, TypeOK, Locals, ShellListed
  <2>3. LockHeld'
    BY <1>11, Zenon DEF LockPanic, TypeOK, LockHeld
  <2>4. ShellListed'
    BY <1>11, ZenonT(30) DEF LockPanic, TypeOK, Locals, ShellListed
  <2> QED
    BY <2>1, <2>2, <2>3, <2>4, Zenon
<1>12. ASSUME NEW c \in CPUs, CreateFails(c) PROVE IInv'
  <2>1. TypeOK'
    BY <1>12 DEF CreateFails, TypeOK, Locals, PC, TaskState
  <2>2. Locals'
    BY <1>12 DEF CreateFails, TypeOK, Locals, ShellListed
  <2>3. LockHeld'
    BY <1>12 DEF CreateFails, TypeOK, LockHeld
  <2>4. ShellListed'
    BY <1>12, ZenonT(30) DEF CreateFails, TypeOK, Locals, ShellListed
  <2> QED
    BY <2>1, <2>2, <2>3, <2>4, Zenon
<1>13. ASSUME NEW c \in CPUs, Create(c) PROVE IInv'
  <2>1. TypeOK'
    BY <1>13 DEF Create, TypeOK, Locals, PC, TaskState
  <2>2. Locals'
    BY <1>13 DEF Create, TypeOK, Locals, ShellListed
  <2>3. LockHeld'
    BY <1>13, Zenon DEF Create, TypeOK, LockHeld
  <2>4. ShellListed'
    BY <1>13, SMTT(20) DEF Create, TypeOK, Locals, ShellListed
  <2> QED
    BY <2>1, <2>2, <2>3, <2>4, Zenon
<1>14. ASSUME NEW c \in CPUs, Copy(c) PROVE IInv'
  <2>1. TypeOK'
    BY <1>14, ZenonT(30) DEF Copy, TypeOK, Locals, PC, TaskState
  <2>2. Locals'
    BY <1>14 DEF Copy, TypeOK, Locals, ShellListed
  <2>3. LockHeld'
    BY <1>14, Zenon DEF Copy, TypeOK, LockHeld
  <2>4. ShellListed'
    BY <1>14 DEF Copy, TypeOK, Locals, ShellListed
  <2> QED
    BY <2>1, <2>2, <2>3, <2>4, Zenon
<1>16. ASSUME NEW c \in CPUs, EnqueueLoad(c) PROVE IInv'
  <2>1. TypeOK'
    BY <1>16 DEF EnqueueLoad, TypeOK, Locals, PC, TaskState
  <2>2. Locals'
    BY <1>16 DEF EnqueueLoad, TypeOK, Locals, ShellListed
  <2>3. LockHeld'
    BY <1>16 DEF EnqueueLoad, TypeOK, LockHeld
  <2>4. ShellListed'
    BY <1>16, SMTT(20) DEF EnqueueLoad, TypeOK, Locals, ShellListed
  <2> QED
    BY <2>1, <2>2, <2>3, <2>4, Zenon
<1>17. ASSUME NEW c \in CPUs, EnqueueStore(c) PROVE IInv'
  <2>1. TypeOK'
    BY <1>17 DEF EnqueueStore, TypeOK, Locals, PC, TaskState
  <2>2. Locals'
    BY <1>17, Zenon DEF EnqueueStore, TypeOK, Locals, ShellListed
  <2>3. LockHeld'
    BY <1>17, Zenon DEF EnqueueStore, TypeOK, LockHeld
  <2>4. ShellListed'
    BY <1>17 DEF EnqueueStore, TypeOK, Locals, ShellListed
  <2> QED
    BY <2>1, <2>2, <2>3, <2>4, Zenon
<1>18. ASSUME NEW c \in CPUs, EnqueueOverflow(c) PROVE IInv'
  <2>1. TypeOK'
    BY <1>18, Zenon DEF EnqueueOverflow, TypeOK, Locals, PC, TaskState
  <2>2. Locals'
    BY <1>18 DEF EnqueueOverflow, TypeOK, Locals, ShellListed
  <2>3. LockHeld'
    BY <1>18 DEF EnqueueOverflow, TypeOK, LockHeld
  <2>4. ShellListed'
    BY <1>18, SMTT(20) DEF EnqueueOverflow, TypeOK, Locals, ShellListed
  <2> QED
    BY <2>1, <2>2, <2>3, <2>4, Zenon
<1>19. ASSUME NEW c \in CPUs, EnqueueCount(c) PROVE IInv'
  <2>1. TypeOK'
    BY <1>19 DEF EnqueueCount, TypeOK, Locals, PC, TaskState
  <2>2. Locals'
    BY <1>19 DEF EnqueueCount, TypeOK, Locals, ShellListed
  <2>3. LockHeld'
    BY <1>19 DEF EnqueueCount, TypeOK, LockHeld
  <2>4. ShellListed'
    BY <1>19 DEF EnqueueCount, TypeOK, Locals, ShellListed
  <2> QED
    BY <2>1, <2>2, <2>3, <2>4, Zenon
<1>20. ASSUME NEW c \in CPUs, EnqueueAdvance(c) PROVE IInv'
  <2>1. TypeOK'
    BY <1>20 DEF EnqueueAdvance, TypeOK, Locals, PC, TaskState
  <2>2. Locals'
    BY <1>20 DEF EnqueueAdvance, TypeOK, Locals, ShellListed
  <2>3. LockHeld'
    BY <1>20, Zenon DEF EnqueueAdvance, TypeOK, LockHeld
  <2>4. ShellListed'
    BY <1>20, SMTT(20) DEF EnqueueAdvance, TypeOK, Locals, ShellListed
  <2> QED
    BY <2>1, <2>2, <2>3, <2>4, Zenon
<1>21. ASSUME NEW c \in CPUs, KillCall(c) PROVE IInv'
  <2>1. TypeOK'
    BY <1>21 DEF KillCall, TypeOK, Locals, PC, TaskState
  <2>2. Locals'
    BY <1>21, Zenon DEF KillCall, TypeOK, Locals, ShellListed
  <2>3. LockHeld'
    BY <1>21, Zenon DEF KillCall, TypeOK, LockHeld
  <2>4. ShellListed'
    BY <1>21, SMTT(20) DEF KillCall, TypeOK, Locals, ShellListed
  <2> QED
    BY <2>1, <2>2, <2>3, <2>4, Zenon
<1>22. ASSUME NEW c \in CPUs, KillLock(c) PROVE IInv'
  <2>1. TypeOK'
    BY <1>22 DEF KillLock, TypeOK, Locals, PC, TaskState
  <2>2. Locals'
    BY <1>22 DEF KillLock, TypeOK, Locals, ShellListed
  <2>3. LockHeld'
    BY <1>22 DEF KillLock, TypeOK, LockHeld
  <2>4. ShellListed'
    BY <1>22, SMTT(20) DEF KillLock, TypeOK, Locals, ShellListed
  <2> QED
    BY <2>1, <2>2, <2>3, <2>4, Zenon
<1>23. ASSUME NEW c \in CPUs, KillRelease(c) PROVE IInv'
  <2>1. TypeOK'
    BY <1>23, ZenonT(30) DEF KillRelease, TypeOK, Locals, PC, TaskState
  <2>2. Locals'
    BY <1>23 DEF KillRelease, TypeOK, Locals, ShellListed
  <2>3. LockHeld'
    BY <1>23 DEF KillRelease, TypeOK, LockHeld
  <2>4. ShellListed'
    BY <1>23 DEF KillRelease, TypeOK, Locals, ShellListed
  <2> QED
    BY <2>1, <2>2, <2>3, <2>4, Zenon
<1>24. ASSUME NEW c \in CPUs, Unqueue(c) PROVE IInv'
  <2>1. tgt[c] \in CPUs /\ tgt[c] + 1 \in 0 .. ncpu /\ cur[c] > 0
    BY <1>24 DEF Unqueue, TypeOK, Locals
  <2>2. Closed(tgt[c], cur[c]) \in [TaskIds -> TaskIds \cup {NULL}]
    BY <2>1 DEF Closed, Slots, TypeOK
  <2>3. rq' = [rq EXCEPT ![tgt[c]] = Closed(tgt[c], cur[c])]
    BY <1>24, Zenon DEF Unqueue
  <2>4. rq' \in [CPUs -> [TaskIds -> TaskIds \cup {NULL}]]
    BY <2>1, <2>2, <2>3, SMTT(20) DEF TypeOK
  <2>5. TypeOK'
    BY <1>24, <2>1, <2>4, SMTT(20) DEF Unqueue, TypeOK, PC
  <2>6. Locals'
    BY <1>24, <2>1 DEF Unqueue, TypeOK, Locals
  <2>7. LockHeld'
    BY <1>24, Zenon DEF Unqueue, TypeOK, LockHeld
  <2>8. tgt[c] = 0 => Closed(tgt[c], cur[c])[0] = 0
    BY <2>1 DEF Closed, ShellListed, TypeOK
  <2>9. ShellListed'
    BY <1>24, <2>1, <2>3, <2>8, SMTT(20) DEF Unqueue, TypeOK, ShellListed
  <2> QED
    BY <2>5, <2>6, <2>7, <2>9, Zenon
<1>25. ASSUME NEW c \in CPUs, Truncate(c) PROVE IInv'
  <2>1. TypeOK'
    <3>1. idx' \in [CPUs -> 0 .. NR_TASKS] /\ pc' \in [CPUs -> PC]
      BY <1>25, Zenon DEF Truncate, TypeOK, PC
    <3>2. rq' \in [CPUs -> [TaskIds -> TaskIds \cup {NULL}]]
      <4>1. cnt[tgt[c]] > 0 => cnt[tgt[c]] - 1 \in TaskIds
        BY <1>25 DEF Truncate, TypeOK
      <4> QED
        BY <4>1, <1>25 DEF Truncate, TypeOK
    <3>3. wild' \in BOOLEAN
      BY <1>25, ZenonT(30) DEF Truncate, TypeOK
    <3> QED
      BY <1>25, <3>1, <3>2, <3>3 DEF Truncate, TypeOK
  <2>2. Locals'
    BY <1>25, Zenon DEF Truncate, TypeOK, Locals, ShellListed
  <2>3. LockHeld'
    BY <1>25 DEF Truncate, TypeOK, LockHeld
  <2>4. ShellListed'
    BY <1>25 DEF Truncate, TypeOK, Locals, ShellListed
  <2> QED
    BY <2>1, <2>2, <2>3, <2>4, Zenon
<1>26. ASSUME NEW c \in CPUs, Uncount(c) PROVE IInv'
  <2>1. TypeOK'
    <3>1. cnt' \in [CPUs -> 0 .. NR_TASKS] /\ wild' \in BOOLEAN
      <4>1. tgt[c] \in CPUs /\ idx[c] \in 0 .. NR_TASKS /\ cnt[tgt[c]] \in 0 .. NR_TASKS
        BY <1>26, Zenon DEF Uncount, TypeOK, Locals
      <4>2. PICK n \in 0 .. NR_TASKS :
                /\ wild' = (n = 0)
                /\ cnt' = [cnt EXCEPT ![tgt[c]] = IF n = 0 THEN n ELSE n - 1]
        BY <1>26, <4>1, ZenonT(30) DEF Uncount
      <4>3. (IF n = 0 THEN n ELSE n - 1) \in 0 .. NR_TASKS
        BY <4>2
      <4> QED
        BY <4>1, <4>2, <4>3 DEF TypeOK
    <3> QED
      BY <1>26, <3>1 DEF Uncount, TypeOK, PC
  <2>2. Locals'
    BY <1>26 DEF Uncount, TypeOK, Locals, ShellListed
  <2>3. LockHeld'
    BY <1>26 DEF Uncount, TypeOK, LockHeld
  <2>4. ShellListed'
    BY <1>26 DEF Uncount, TypeOK, Locals, ShellListed
  <2> QED
    BY <2>1, <2>2, <2>3, <2>4, Zenon
<1>27. ASSUME NEW c \in CPUs, TruncateSpill(c) PROVE IInv'
  <2>1. TypeOK'
    <3>1. spill' \in 0 .. SPILL_WORDS
      BY <1>27 DEF TruncateSpill, TypeOK
    <3>4. wild' \in BOOLEAN
      BY <1>27, Zenon DEF TruncateSpill, TypeOK
    <3>2. pc' \in [CPUs -> PC] /\ ts' \in [CPUs -> TaskIds \cup {NULL}]
      BY <1>27 DEF TruncateSpill, TypeOK, PC
    <3>3. tgt' \in [CPUs -> 0 .. ncpu] /\ idx' \in [CPUs -> 0 .. NR_TASKS]
      BY <1>27 DEF TruncateSpill, TypeOK
    <3> QED
      BY <1>27, <3>1, <3>2, <3>3, <3>4, ZenonT(30) DEF TruncateSpill, TypeOK
  <2>2. Locals'
    BY <1>27 DEF TruncateSpill, TypeOK, Locals, ShellListed
  <2>3. LockHeld'
    BY <1>27, Zenon DEF TruncateSpill, TypeOK, LockHeld
  <2>4. ShellListed'
    BY <1>27, Zenon DEF TruncateSpill, TypeOK, Locals, ShellListed
  <2> QED
    BY <2>1, <2>2, <2>3, <2>4, Zenon
<1> QED
  BY <1>1, <1>2, <1>3, <1>4, <1>5, <1>6, <1>7, <1>8, <1>9, <1>10, <1>11, <1>12, <1>13,
     <1>14, <1>16, <1>17, <1>18, <1>19, <1>20, <1>21, <1>22, <1>23, <1>24,
     <1>25, <1>26, <1>27
    , SMTT(20) DEF Next, Timer, Yield, Fork, Kill

\* So they hold at all times.
LEMMA AlwaysIInv == Spec => []IInv
BY InitIInv, StepIInv, PTL DEF Spec

\* Every variable keeps its range; in particular cnt never passes the array
\* without the write that leaves it being recorded in wild.
THEOREM TasksTypeOK == Spec => []TypeOK
BY AlwaysIInv, PTL DEF IInv

\* The critical sections of task_create and sys_kill on task_lock exclude each
\* other for any number of CPUs, early returns and running out of memory included.
THEOREM TasksTableExclusive == Spec => []TableExclusive
<1>1. IInv => TableExclusive
  BY Zenon DEF IInv, LockHeld, TableExclusive
<1> QED
  BY <1>1, AlwaysIInv, PTL

\* Whatever is forked and killed, and although sys_kill drops entries of the wrong
\* runqueue, the boot CPU's first entry stays the shell.
THEOREM TasksShellListed == Spec => []ShellListed
BY AlwaysIInv, PTL DEF IInv

-----------------------------------------------------------------------------
\* Every step keeps each task with one owner, when nobody kills.
LEMMA StepOwnInv ==
    ASSUME Killers = {}, IInv, OwnInv, [Next]_vars
    PROVE  OwnInv'
BY RunOwnInv, ForkOwnInv DEF Next, RunStep

\* Every step keeps the lists sound.
LEMMA StepListInv ==
    ASSUME OnlyShellForks, ScanEnds, IInv, OwnInv, ListInv, [Next]_vars
    PROVE  ListInv'
BY RunListInv, ForkListInv, Zenon DEF Next, RunStep

\* When no program kills, no task is ever the current task of two CPUs, although
\* the runqueues and nextCPU are updated without a lock.
THEOREM TasksOneCpuPerTask == (Killers = {}) /\ Spec => []OneCpuPerTask
<1> SUFFICES ASSUME Killers = {} PROVE Spec => []OneCpuPerTask
  BY Zenon
<1>1. IInv /\ OwnInv /\ [Next]_vars => OwnInv'
  BY StepOwnInv, Zenon
<1>2. IInv /\ OwnInv => OneCpuPerTask
  BY DEF IInv, TypeOK, OwnInv, Owns, OneCpuPerTask
<1> QED
  BY InitOwnInv, AlwaysIInv, <1>1, <1>2, PTL DEF Spec

-----------------------------------------------------------------------------
\* A non-empty set of numbers below a bound has a largest element.
LEMMA Largest ==
    ASSUME NEW n \in Nat, NEW S, S \subseteq 0 .. n, S # {}
    PROVE  \E i \in S : Last(S, i)
<1> DEFINE R == {ss \in Nat \X Nat : ss[1] < ss[2]}
           T == {k \in Nat : n - k \in S}
<1>1. IsWellFoundedOn(R, Nat)
  BY NatLessThanWellFounded, Zenon DEF OpToRel
<1>2. \A j, k \in Nat : j < k => <<j, k>> \in R
  BY Zenon
<1> HIDE DEF R
<1>3. ASSUME NEW i \in S PROVE n - i \in T /\ i \in Nat
  <2>1. i \in Nat /\ n - i \in Nat /\ n - (n - i) = i
    OBVIOUS
  <2> QED
    BY <2>1, Zenon
<1>4. T \subseteq Nat /\ T # {}
  <2>1. PICK i : i \in S
    BY Zenon
  <2>2. n - i \in T
    BY <1>3, <2>1, Zenon
  <2>3. T \subseteq Nat
    BY Zenon
  <2> HIDE DEF T
  <2> QED
    BY <2>2, <2>3, Zenon
<1>5. \E k \in T : \A j \in T : ~(<<j, k>> \in R)
  <2> HIDE DEF T
  <2> QED
    BY <1>1, <1>4, WFMin, Zenon
<1>k. PICK k \in T : \A j \in T : ~(<<j, k>> \in R)
  BY <1>5, Zenon
<1>6. n - k \in S /\ k \in Nat
  BY Zenon
<1>7. \A i \in S : i <= n - k
  <2> TAKE i \in S
  <2>1. n - i \in T /\ n - i \in Nat /\ i \in Nat
    BY <1>3, Zenon
  <2>2. ~(n - i < k)
    <3> SUFFICES ASSUME n - i < k PROVE FALSE
      BY Zenon
    <3> HIDE DEF T
    <3>1. <<n - i, k>> \in R
      BY <1>2, <1>6, <2>1
    <3> QED
      BY <1>k, <2>1, <3>1
  <2> HIDE DEF T
  <2> QED
    BY <1>6, <2>1, <2>2
<1> QED
  BY <1>6, <1>7, Zenon DEF Last

\* So the three invariants hold together at all times.
LEMMA AlwaysListInv ==
    ASSUME OnlyShellForks
    PROVE  Spec => [](IInv /\ OwnInv /\ ListInv)
<1>1. Killers = {}
  BY Zenon DEF OnlyShellForks
<1>2. IInv /\ OwnInv /\ [Next]_vars => OwnInv'
  BY <1>1, StepOwnInv, Zenon
<1>3. IInv /\ OwnInv /\ ListInv /\ [Next]_vars => ListInv'
  <2>1. IInv => ScanEnds
    <3> SUFFICES ASSUME IInv, NEW c \in CPUs, Stops(c) # {}
                 PROVE  \E i \in Slots(c) : Last(Stops(c), i)
      BY Zenon DEF ScanEnds
    <3>1. Stops(c) \subseteq 0 .. cnt[c] - 1 /\ Stops(c) \subseteq Slots(c)
      BY Zenon DEF Stops, Slots
    <3>2. cnt[c] - 1 \in Nat
      BY <3>1 DEF IInv, TypeOK
    <3> QED
      BY <3>1, <3>2, Largest, Zenon
  <2> QED
    BY <2>1, StepListInv
<1> QED
  BY InitOwnInv, InitListInv, AlwaysIInv, <1>2, <1>3, PTL DEF Spec

\* While only the shell forks and nothing kills, the runqueues stay right on any
\* number of CPUs although no lock protects them: no task is lost, none is listed
\* twice, no scan or tick faults, no array overflows (that sets wild, which leaves
\* no step), and the task in front of the user is alive.
THEOREM TasksListsSound == OnlyShellForks /\ Spec => []ListsSound
<1> SUFFICES ASSUME OnlyShellForks PROVE Spec => []ListsSound
  BY Zenon
<1>1. IInv /\ OwnInv /\ ListInv => ListsSound
  BY ListInvSound
<1> QED
  BY AlwaysListInv, <1>1, PTL

\* sched_yield picks an idle task only when nothing else its CPU lists is RUNNABLE:
\* the scan goes down, entries increase, and the idle task of a CPU is its first.
THEOREM TasksIdleLast == OnlyShellForks /\ Spec => IdleLast
<1> SUFFICES ASSUME OnlyShellForks PROVE Spec => IdleLast
  BY Zenon
<1>1. IInv /\ OwnInv /\ ListInv /\ [Next]_vars =>
        [\A c \in CPUs :
            pc[c] = "sched" /\ ts'[c] \in IdleTasks =>
                \A i \in Slots(c) : rq[c][i] # ts'[c] => state[rq[c][i]] # "RUNNABLE"]_vars
  BY ScanIdleLast, Zenon
<1> QED
  BY AlwaysListInv, <1>1, PTL DEF Spec, IdleLast

\* The task table under kills, several forkers and a failing page_alloc: its critical
\* sections exclude each other and the shell keeps its entry, on any machine.
THEOREM TasksTableSound == Spec => []TableSound
BY TasksTableExclusive, TasksShellListed, PTL DEF TableSound
=============================================================================
