--------------------------- MODULE RunqueueProofs ---------------------------
(***************************************************************************)
(* The invariants of Tasks, for any number of CPUs and of tasks, and that  *)
(* the timer, sched_yield, sleep and sys_kill keep them.  ForkProofs has   *)
(* the steps of fork, TasksProofs closes the arguments.                    *)
(***************************************************************************)
EXTENDS Tasks, TLAPS

(***************************************************************************)
(* What the locals hold at each place.  ts is a task wherever it is used,  *)
(* tgt a CPU wherever it indexes cpus[]; sys_kill has tgt >= 1 when it     *)
(* drops an entry, and an enqueue on the boot CPU has idx >= 1.            *)
(***************************************************************************)
Locals ==
    \A c \in CPUs :
        /\ pc[c] \in {"dispatch", "create", "copy", "load", "store", "count"}
              => ts[c] \in TaskIds
        /\ pc[c] \notin {"truncate", "panic", "fault"} => tgt[c] \in CPUs
        /\ pc[c] \in {"truncate", "uncount"} => tgt[c] >= 1
        /\ pc[c] \in {"store", "count"} /\ tgt[c] = 0 => idx[c] >= 1
        /\ pc[c] = "count" => idx[c] \in TaskIds \/ wild
        /\ pc[c] \in {"kill", "release", "unqueue"} => cur[c] > 0

LockHeld == \A c \in CPUs : pc[c] \in {"create", "release"} => lock = c

IInv == TypeOK /\ Locals /\ LockHeld /\ ShellListed

-----------------------------------------------------------------------------
(***************************************************************************)
(* Programs that never call sys_kill.  A CPU owns the tasks it runs, is    *)
(* about to run, or lists anywhere in its array; a task has at most one    *)
(* owner, and none between task_create and the store into a runqueue.      *)
(* OneCpuPerTask is not inductive alone: the current task of a CPU comes   *)
(* from its runqueue, so the runqueues must be disjoint, and what is       *)
(* stored there comes from a fork that must not meet another one's slot.   *)
(***************************************************************************)
Owns(c, t) ==
    \/ cur[c] = t
    \/ pc[c] = "dispatch" /\ ts[c] = t
    \/ \E i \in TaskIds : rq[c][i] = t

Pending(c) == pc[c] \in {"create", "copy", "load", "store"}

NoKill == \A c \in CPUs : pc[c] \notin {"kill", "release", "unqueue", "truncate", "uncount"}

OwnInv ==
    /\ NoKill
    /\ \A c, d \in CPUs : \A t \in TaskIds : Owns(c, t) /\ Owns(d, t) => c = d
    /\ \A c, d \in CPUs : Pending(c) => ~Owns(d, ts[c])
    /\ \A c, d \in CPUs : Pending(c) /\ Pending(d) /\ ts[c] = ts[d] => c = d
    /\ \A c \in CPUs : \A t \in TaskIds : Owns(c, t) => state[t] # "FREE"
    /\ \A c \in CPUs : Pending(c) => (state[ts[c]] = "FREE" <=> pc[c] = "create")

-----------------------------------------------------------------------------
(***************************************************************************)
(* Programs of which only the shell forks and none kills, with memory      *)
(* enough; the shell itself does not sleep.  Then one CPU enqueues, so the *)
(* unlocked runqueues stay right.  That a runqueue never overflows needs   *)
(* no counting: slots of the table are taken in increasing order and never *)
(* given back, so each runqueue is strictly increasing, entry i is at      *)
(* least i, and the task about to be listed is above them all.             *)
(***************************************************************************)
OnlyShellForks ==
    Killers = {} /\ Forkers \subseteq {0} /\ 0 \notin Sleepers /\ MemoryMayFail = FALSE

ForkPC == {"fork", "create", "copy", "load", "store", "count", "advance"}
NewPC == {"copy", "load", "store", "count"}

In(c, t) == \E i \in Slots(c) : rq[c][i] = t

Places ==
    \A c \in CPUs :
        /\ pc[c] \in {"user", "panic", "sched", "dispatch"} \cup ForkPC
        /\ pc[c] \in ForkPC => c = 0
        /\ pc[c] \in {"user", "sched", "fork"} => ts[c] = NULL
        /\ pc[c] \in {"sched", "dispatch"} <=> state[cur[c]] # "RUNNING"
        /\ state[c] \in {"RUNNABLE", "RUNNING"}
        /\ In(c, cur[c])
        /\ pc[c] = "dispatch" => In(c, ts[c])

Listing ==
    \A c \in CPUs :
        /\ rq[c][0] = c /\ cnt[c] >= 1
        /\ \A i \in Slots(c) :
              /\ rq[c][i] \in built /\ i <= rq[c][i]
              /\ rq[c][i] # cur[c] => state[rq[c][i]] # "RUNNING"
        /\ \A i, j \in Slots(c) : i < j => rq[c][i] < rq[c][j]

NewTask ==
    /\ pc[0] \in {"create"} \cup NewPC =>
          /\ \A c \in CPUs : \A i \in Slots(c) : rq[c][i] < ts[0]
          /\ \A u \in TaskIds : ts[0] < u => state[u] = "FREE"
    /\ pc[0] = "create" => \A u \in TaskIds : u < ts[0] => state[u] # "FREE"
    /\ pc[0] \in NewPC => state[ts[0]] = "RUNNABLE"
    /\ pc[0] \in {"load", "store", "count"} => ts[0] \in built
    /\ pc[0] \in {"store", "count"} => idx[0] = cnt[tgt[0]] /\ idx[0] <= ts[0]
    /\ pc[0] = "count" => rq[tgt[0]][idx[0]] = ts[0]

Table ==
    /\ \A t, u \in TaskIds : state[t] = "FREE" /\ t < u => state[u] = "FREE"
    /\ \A t \in TaskIds :
          state[t] = "FREE" \/ (\E c \in CPUs : In(c, t)) \/ (pc[0] \in NewPC /\ ts[0] = t)

ListInv == ~wild /\ Places /\ Listing /\ NewTask /\ Table

\* A scan that has an entry to stop at stops: of these there is a last.
ScanEnds == \A c \in CPUs : Stops(c) # {} => \E i \in Slots(c) : Last(Stops(c), i)

\* Every step that is not part of fork.
RunStep ==
    \E c \in CPUs : Timer(c) \/ Yield(c) \/ (\E n \in SleepArgs : Sleep(c, n)) \/ Kill(c)

-----------------------------------------------------------------------------
\* What TasksAssumption says of the sets of CPUs and tasks.
LEMMA ConstFacts ==
    /\ CPUs \subseteq TaskIds /\ TaskIds \subseteq Nat
    /\ 0 \in CPUs /\ 0 \in TaskIds
    /\ NULL \notin TaskIds /\ NULL \notin CPUs
    /\ \A n \in Int : n \in TaskIds <=> 0 <= n /\ n < NR_TASKS
    /\ \A n \in Int : n \in CPUs <=> 0 <= n /\ n < ncpu
BY TasksAssumption DEF CPUs, TaskIds, NULL

\* The timer leaves every task in a state of the enumeration.
LEMMA WakeStates ==
    ASSUME TypeOK, NEW c \in CPUs
    PROVE  WakeSleepers(c).st \in [TaskIds -> TaskState]
BY Zenon DEF WakeSleepers, TypeOK, TaskState

USE TasksAssumption

\* At boot every CPU owns its idle task.
LEMMA InitOwnInv == Init => OwnInv
BY ConstFacts DEF Init, OwnInv, NoKill, Owns, Pending

\* Owning the task a local will name, with the task given a name.
LEMMA OwnPrimed ==
    \A d, e \in CPUs : \A t \in TaskIds : t = ts'[d] /\ Owns(e, ts[d])' => Owns(e, t)'
BY Zenon DEF Owns

\* A step that makes no owner, no pending task, and frees or creates nothing.
LEMMA OwnKept ==
    ASSUME IInv, OwnInv, NoKill',
           \A d \in CPUs : \A t \in TaskIds : Owns(d, t)' => Owns(d, t),
           \A d \in CPUs : Pending(d)' =>
               Pending(d) /\ ts'[d] = ts[d] /\ (pc'[d] = "create" <=> pc[d] = "create"),
           \A t \in TaskIds : state'[t] = "FREE" <=> state[t] = "FREE"
    PROVE  OwnInv'
<1>1. \A d \in CPUs : Pending(d) => ts[d] \in TaskIds
  BY Zenon DEF IInv, Locals, Pending
<1>2. \A c, d \in CPUs : Pending(c)' => ~Owns(d, ts[c])'
  <2> SUFFICES ASSUME NEW c \in CPUs, NEW d \in CPUs, Pending(c)', Owns(d, ts[c])' PROVE FALSE
    BY Zenon
  <2>1. Pending(c) /\ ts'[c] = ts[c] /\ ts[c] \in TaskIds
    BY <1>1, Zenon
  <2>2. PICK t \in TaskIds : t = ts'[c]
    BY <2>1, Zenon
  <2>3. Owns(d, t)'
    BY <2>2, Zenon DEF Owns
  <2>4. Owns(d, t)
    BY <2>3, Zenon
  <2> QED
    BY <2>1, <2>2, <2>4, Zenon DEF OwnInv
<1>3. \A c, d \in CPUs : (Pending(c) /\ Pending(d) /\ ts[c] = ts[d])' => c = d
  BY DEF OwnInv
<1>4. \A c \in CPUs : Pending(c)' => (state'[ts'[c]] = "FREE" <=> pc'[c] = "create")
  BY <1>1 DEF OwnInv
<1>5. \A c, d \in CPUs : \A t \in TaskIds : Owns(c, t)' /\ Owns(d, t)' => c = d
  <2>1. \A c, d \in CPUs : \A t \in TaskIds : Owns(c, t) /\ Owns(d, t) => c = d
    BY Zenon DEF OwnInv
  <2> QED
    BY <2>1, Zenon
<1>6. \A c \in CPUs : \A t \in TaskIds : Owns(c, t)' => state'[t] # "FREE"
  <2>1. \A c \in CPUs : \A t \in TaskIds : Owns(c, t) => state[t] # "FREE"
    BY Zenon DEF OwnInv
  <2> QED
    BY <2>1, Zenon
<1> QED
  BY <1>2, <1>3, <1>4, <1>5, <1>6, Zenon DEF OwnInv

\* Every step but those of sys_fork keeps each task with one owner.
LEMMA RunOwnInv ==
    ASSUME Killers = {}, IInv, OwnInv, [RunStep]_vars
    PROVE  OwnInv'
<1> USE ConstFacts DEF IInv, taskVars, rqVars, localVars, Goto, Return, Interruptible
<1>0. NoKill
  BY Zenon DEF OwnInv
<1>a. \A d, e \in CPUs : \A t \in TaskIds : Owns(d, t) /\ Owns(e, t) => d = e
  BY Zenon DEF OwnInv
<1>b. \A d, e \in CPUs : Pending(d) => ~Owns(e, ts[d])
  BY Zenon DEF OwnInv
<1>c. \A d, e \in CPUs : Pending(d) /\ Pending(e) /\ ts[d] = ts[e] => d = e
  BY Zenon DEF OwnInv
<1>d. \A d \in CPUs : \A t \in TaskIds : Owns(d, t) => state[t] # "FREE"
  BY Zenon DEF OwnInv
<1>e. \A d \in CPUs : Pending(d) => (state[ts[d]] = "FREE" <=> pc[d] = "create")
  BY Zenon DEF OwnInv
<1>f. \A d \in CPUs : Pending(d) => ts[d] \in TaskIds
  BY Zenon DEF Locals, Pending
<1>1. CASE UNCHANGED vars
  <2>1. NoKill' /\ \A d \in CPUs : \A t \in TaskIds : Owns(d, t)' => Owns(d, t)
    BY <1>1, Zenon DEF vars, Owns, OwnInv, NoKill
  <2> QED
    BY <1>1, <2>1, OwnKept, Zenon DEF vars, Pending
<1>2. ASSUME NEW c \in CPUs, TimerFault(c) PROVE OwnInv'
  <2>1. NoKill'
    BY <1>0, <1>2, Zenon DEF TimerFault, TypeOK, NoKill
  <2>2. \A d \in CPUs : \A t \in TaskIds : Owns(d, t)' => Owns(d, t)
    BY <1>2, Zenon DEF TimerFault, TypeOK, Locals, Owns
  <2>3. \A d \in CPUs : Pending(d)' =>
            Pending(d) /\ ts'[d] = ts[d] /\ (pc'[d] = "create" <=> pc[d] = "create")
    BY <1>2, Zenon DEF TimerFault, TypeOK, Pending
  <2>4. \A t \in TaskIds : state'[t] = "FREE" <=> state[t] = "FREE"
    <3>1. \A t \in TaskIds : WakeSleepers(c).st[t] = "FREE" <=> state[t] = "FREE"
      BY Zenon DEF WakeSleepers, Woken
    <3>2. cur[c] \in TaskIds /\ state[cur[c]] # "FREE"
      BY Zenon DEF TypeOK, OwnInv, Owns
    <3> QED
      BY <1>2, <3>1, <3>2, WakeStates, Zenon DEF TimerFault
  <2> QED
    BY <2>1, <2>2, <2>3, <2>4, OwnKept, Zenon
<1>3. ASSUME NEW c \in CPUs, Tick(c) PROVE OwnInv'
  <2>1. NoKill'
    <3>1. pc' = [pc EXCEPT ![c] = "sched"] \/ pc' = pc
      BY <1>3, Zenon DEF Tick
    <3> QED
      BY <3>1 DEF TypeOK, OwnInv, NoKill
  <2>2. \A d \in CPUs : \A t \in TaskIds : Owns(d, t)' => Owns(d, t)
    BY <1>3 DEF Tick, TypeOK, Locals, Owns
  <2>3. \A d \in CPUs : Pending(d)' =>
            Pending(d) /\ ts'[d] = ts[d] /\ (pc'[d] = "create" <=> pc[d] = "create")
    BY <1>3 DEF Tick, TypeOK, Pending
  <2>4. \A t \in TaskIds : state'[t] = "FREE" <=> state[t] = "FREE"
    <3>1. \A t \in TaskIds : WakeSleepers(c).st[t] = "FREE" <=> state[t] = "FREE"
      BY Zenon DEF WakeSleepers, Woken
    <3>2. cur[c] \in TaskIds /\ state[cur[c]] # "FREE"
      BY Zenon DEF TypeOK, OwnInv, Owns
    <3>3. \/ state' = WakeSleepers(c).st
          \/ state' = [WakeSleepers(c).st EXCEPT ![cur[c]] = "RUNNABLE"]
      BY <1>3, Zenon DEF Tick
    <3>4. WakeSleepers(c).st \in [TaskIds -> TaskState]
      BY WakeStates, Zenon
    <3> QED
      BY <3>1, <3>2, <3>3, <3>4, Zenon
  <2> QED
    BY <2>1, <2>2, <2>3, <2>4, OwnKept, Zenon
<1>4. ASSUME NEW c \in CPUs, NEW n \in SleepArgs, Sleep(c, n) PROVE OwnInv'
  <2>1. NoKill'
    BY <1>0, <1>4, Zenon DEF Sleep, TypeOK, NoKill
  <2>2. \A d \in CPUs : \A t \in TaskIds : Owns(d, t)' => Owns(d, t)
    BY <1>4, Zenon DEF Sleep, TypeOK, Locals, Owns
  <2>3. \A d \in CPUs : Pending(d)' =>
            Pending(d) /\ ts'[d] = ts[d] /\ (pc'[d] = "create" <=> pc[d] = "create")
    BY <1>4, Zenon DEF Sleep, TypeOK, Pending
  <2>4. \A t \in TaskIds : state'[t] = "FREE" <=> state[t] = "FREE"
    <3>1. cur[c] \in TaskIds /\ state[cur[c]] # "FREE"
      BY <1>4, Zenon DEF Sleep, TypeOK, Locals, OwnInv, Owns
    <3> QED
      BY <1>4, <3>1, Zenon DEF Sleep, TypeOK
  <2> QED
    BY <2>1, <2>2, <2>3, <2>4, OwnKept, Zenon
<1>5. ASSUME NEW c \in CPUs, Scan(c) PROVE OwnInv'
  <2>1. NoKill'
    BY <1>0, <1>5, Zenon DEF Scan, TypeOK, NoKill
  <2>2. \A d \in CPUs : \A t \in TaskIds : Owns(d, t)' => Owns(d, t)
    <3>1. rq' = rq /\ cur' = cur
      BY <1>5, Zenon DEF Scan
    <3>2. \A d \in CPUs \ {c} : pc'[d] = pc[d] /\ ts'[d] = ts[d]
      BY <1>5 DEF Scan, TypeOK
    <3>3. \E i \in TaskIds : ts'[c] = rq[c][i]
      BY <1>5 DEF Scan, TypeOK, Slots
    <3> QED
      BY <3>1, <3>2, <3>3, Zenon DEF Owns
  <2>3. \A d \in CPUs : Pending(d)' =>
            Pending(d) /\ ts'[d] = ts[d] /\ (pc'[d] = "create" <=> pc[d] = "create")
    BY <1>5, Zenon DEF Scan, TypeOK, Pending
  <2>4. \A t \in TaskIds : state'[t] = "FREE" <=> state[t] = "FREE"
    BY <1>5, Zenon DEF Scan, TypeOK
  <2> QED
    BY <2>1, <2>2, <2>3, <2>4, OwnKept, Zenon
<1>6. ASSUME NEW c \in CPUs, ScanFault(c) PROVE OwnInv'
  <2>1. NoKill'
    BY <1>0, <1>6, Zenon DEF ScanFault, TypeOK, NoKill
  <2>2. \A d \in CPUs : \A t \in TaskIds : Owns(d, t)' => Owns(d, t)
    BY <1>6, Zenon DEF ScanFault, TypeOK, Locals, Owns
  <2>3. \A d \in CPUs : Pending(d)' =>
            Pending(d) /\ ts'[d] = ts[d] /\ (pc'[d] = "create" <=> pc[d] = "create")
    BY <1>6, Zenon DEF ScanFault, TypeOK, Pending
  <2>4. \A t \in TaskIds : state'[t] = "FREE" <=> state[t] = "FREE"
    BY <1>6, Zenon DEF ScanFault, TypeOK
  <2> QED
    BY <2>1, <2>2, <2>3, <2>4, OwnKept, Zenon
<1>7. ASSUME NEW c \in CPUs, Dispatch(c) PROVE OwnInv'
  <2>1. NoKill'
    BY <1>0, <1>7 DEF Dispatch, TypeOK, NoKill
  <2>2. \A d \in CPUs : \A t \in TaskIds : Owns(d, t)' => Owns(d, t)
    <3>1. rq' = rq
      BY <1>7, Zenon DEF Dispatch
    <3>2. \A d \in CPUs \ {c} : cur'[d] = cur[d] /\ pc'[d] = pc[d] /\ ts'[d] = ts[d]
      BY <1>7 DEF Dispatch, TypeOK
    <3>3. cur'[c] = ts[c] /\ pc[c] = "dispatch" /\ pc'[c] # "dispatch"
      BY <1>7 DEF Dispatch, TypeOK
    <3> QED
      BY <3>1, <3>2, <3>3, Zenon DEF Owns
  <2>3. \A d \in CPUs : Pending(d)' =>
            Pending(d) /\ ts'[d] = ts[d] /\ (pc'[d] = "create" <=> pc[d] = "create")
    BY <1>7 DEF Dispatch, TypeOK, Pending
  <2>4. \A t \in TaskIds : state'[t] = "FREE" <=> state[t] = "FREE"
    <3>1. ts[c] \in TaskIds /\ state[ts[c]] # "FREE"
      BY <1>7, Zenon DEF Dispatch, TypeOK, Locals, OwnInv, Owns
    <3> QED
      BY <1>7, <3>1, Zenon DEF Dispatch, TypeOK
  <2> QED
    BY <2>1, <2>2, <2>3, <2>4, OwnKept, Zenon
<1>8. ASSUME NEW c \in CPUs, Kill(c) PROVE FALSE
  BY <1>8, Zenon DEF Kill, KillCall, KillLock, KillRelease, Unqueue, Truncate, Uncount,
     TruncateSpill, OwnInv, NoKill
<1> QED
  BY <1>1, <1>2, <1>3, <1>4, <1>5, <1>6, <1>7, <1>8
    , Zenon DEF RunStep, Timer, Yield

HIDE TasksAssumption

-----------------------------------------------------------------------------
\* The numbers of tasks and CPUs, for the scan of the task table.
LEMMA Numbers ==
    /\ \A t \in TaskIds : t \in Int /\ 0 <= t /\ t < NR_TASKS
    /\ \A c \in CPUs : c \in TaskIds
    /\ 0 \in CPUs /\ NULL \notin TaskIds
BY TasksAssumption DEF TaskIds, CPUs, NULL

\* At boot each list holds the idle task of its CPU.
LEMMA InitListInv == Init => ListInv
<1> SUFFICES ASSUME Init PROVE ListInv
  BY Zenon
<1> USE Numbers DEF Slots, ForkPC, NewPC
<1>1. ~wild /\ NewTask
  BY Zenon DEF Init, NewTask
<1>2. \A c \in CPUs : cnt[c] = 1 /\ rq[c][0] = c /\ cur[c] = c
  BY Zenon DEF Init
<1>3. \A c \in CPUs : state[c] = "RUNNING" /\ c \in built
  BY Zenon DEF Init
<1>4. Places
  BY <1>2, <1>3 DEF Init, Places, In
<1>5. Listing
  BY <1>2, <1>3 DEF Listing
<1>6. Table
  <2>1. \A t \in TaskIds : (t \in CPUs => In(t, t)) /\ (t \notin CPUs => state[t] = "FREE")
    BY <1>2 DEF Init, In
  <2>2. \A t, u \in TaskIds : t \notin CPUs /\ t < u => u \notin CPUs
    BY TasksAssumption DEF CPUs, TaskIds
  <2> QED
    BY <1>3, <2>1, <2>2, Zenon DEF Table
<1> QED
  BY <1>1, <1>4, <1>5, <1>6, Zenon DEF ListInv

\* A number up to that of a task is that of a task.
LEMMA UpTo ==
    ASSUME NEW n \in Nat, NEW t \in TaskIds, n <= t
    PROVE  n \in TaskIds /\ n # NR_TASKS
BY TasksAssumption DEF TaskIds

\* The idle tasks of the other CPUs have their numbers.
LEMMA IdleCpus == \A t \in IdleTasks : t \in CPUs /\ t # 0
BY TasksAssumption DEF IdleTasks, CPUs

\* What the invariants say together: entries are tasks that exist; what a CPU runs,
\* lists or is about to run is none of another's; a task being made is new to all.
LEMMA ListFacts ==
    ASSUME IInv, OwnInv, ListInv
    PROVE  /\ \A d \in CPUs : \A i \in Slots(d) :
                 i \in TaskIds /\ rq[d][i] \in TaskIds /\ state[rq[d][i]] # "FREE"
           /\ \A d, e \in CPUs : d # e => cur[d] # cur[e]
           /\ \A d, e \in CPUs : d # e => \A i \in Slots(e) : rq[e][i] # cur[d]
           /\ \A d, e \in CPUs : d # e =>
                 \A i \in Slots(d), j \in Slots(e) : rq[d][i] # rq[e][j]
           /\ \A d, e \in CPUs : d # e /\ pc[d] = "dispatch" =>
                 ts[d] # cur[e] /\ \A i \in Slots(e) : rq[e][i] # ts[d]
           /\ \A d \in CPUs : pc[0] \in {"create"} \cup NewPC => cur[d] # ts[0]
           /\ \A d \in CPUs : pc[0] \in {"create"} \cup NewPC /\ pc[d] = "dispatch" => ts[d] # ts[0]
           /\ pc[0] = "create" => state[ts[0]] = "FREE"
<1> USE Numbers
<1>1. TypeOK /\ Locals /\ Places /\ Listing /\ NewTask
  BY Zenon DEF IInv, ListInv
<1>2. \A d, e \in CPUs : \A t \in TaskIds : Owns(d, t) /\ Owns(e, t) => d = e
  BY Zenon DEF OwnInv
<1>3. \A d \in CPUs : \A t \in TaskIds : Owns(d, t) => state[t] # "FREE"
  BY Zenon DEF OwnInv
<1>4. \A d \in CPUs : \A i \in Slots(d) : i \in TaskIds
  BY <1>1, ConstFacts, TasksAssumption DEF TypeOK, Slots
<1>5. ASSUME NEW d \in CPUs, NEW i \in Slots(d)
      PROVE  rq[d][i] \in TaskIds /\ Owns(d, rq[d][i])
  <2>1. i \in TaskIds /\ rq[d] \in [TaskIds -> TaskIds \cup {NULL}]
    BY <1>1, <1>4, Zenon DEF TypeOK
  <2>2. i <= rq[d][i]
    BY <1>1, Zenon DEF Listing
  <2>3. rq[d][i] \in TaskIds
    BY <2>1, <2>2 DEF NULL
  <2> QED
    BY <2>1, <2>3, Zenon DEF Owns
<1>7. \A d \in CPUs : cur[d] \in TaskIds /\ Owns(d, cur[d])
  BY <1>1, Zenon DEF TypeOK, Owns
<1>8. \A d \in CPUs : pc[d] = "dispatch" => ts[d] \in TaskIds /\ Owns(d, ts[d])
  BY <1>1, Zenon DEF Locals, Owns
<1>9. pc[0] \in {"create"} \cup NewPC => \A d \in CPUs : \A i \in Slots(d) : rq[d][i] < ts[0]
  BY <1>1, Zenon DEF NewTask
<1>10. \A d \in CPUs : \E i \in Slots(d) : rq[d][i] = cur[d]
  BY <1>1, Zenon DEF Places, In
<1>11. \A d \in CPUs : pc[d] = "dispatch" => \E i \in Slots(d) : rq[d][i] = ts[d]
  BY <1>1, Zenon DEF Places, In
<1>12. pc[0] \in {"create"} \cup NewPC => \A d \in CPUs : \A i \in Slots(d) : rq[d][i] # ts[0]
  BY <1>5, <1>9
<1>13. \A d \in CPUs : \A i \in Slots(d) : state[rq[d][i]] # "FREE"
  <2> TAKE d \in CPUs
  <2> TAKE i \in Slots(d)
  <2> QED
    BY <1>3, <1>5, Zenon
<1>14. \A d, e \in CPUs : d # e => cur[d] # cur[e] /\ \A i \in Slots(e) : rq[e][i] # cur[d]
  BY <1>2, <1>5, <1>7, Zenon
<1>15. \A d, e \in CPUs : d # e => \A i \in Slots(d), j \in Slots(e) : rq[d][i] # rq[e][j]
  <2> SUFFICES ASSUME NEW d \in CPUs, NEW e \in CPUs, d # e,
                      NEW i \in Slots(d), NEW j \in Slots(e), rq[d][i] = rq[e][j]
               PROVE  FALSE
    BY Zenon
  <2>1. rq[d][i] \in TaskIds /\ Owns(d, rq[d][i]) /\ Owns(e, rq[e][j])
    BY <1>5, Zenon
  <2> QED
    BY <1>2, <2>1, Zenon
<1>16. \A d, e \in CPUs : d # e /\ pc[d] = "dispatch" =>
          ts[d] # cur[e] /\ \A i \in Slots(e) : rq[e][i] # ts[d]
  <2> SUFFICES ASSUME NEW d \in CPUs, NEW e \in CPUs, d # e, pc[d] = "dispatch"
               PROVE  ts[d] # cur[e] /\ \A i \in Slots(e) : rq[e][i] # ts[d]
    BY Zenon
  <2>1. \A i \in Slots(e) : Owns(e, rq[e][i])
    BY <1>5, Zenon
  <2> QED
    BY <1>2, <1>7, <1>8, <2>1, Zenon
<1>17. pc[0] = "create" => state[ts[0]] = "FREE"
  BY Zenon DEF OwnInv, Pending
<1> QED
  BY <1>4, <1>5, <1>10, <1>11, <1>12, <1>13, <1>14, <1>15, <1>16, <1>17

\* A step in which a CPU in user code keeps its task or takes it off, as timer_handler
\* and sleep do, and otherwise at most wakes sleepers.
LEMMA ListStop ==
    ASSUME IInv, OwnInv, ListInv, NEW c \in CPUs, pc[c] = "user",
           UNCHANGED <<built, rq, cnt, cur, ts, tgt, idx, wild>>,
           state' \in [TaskIds -> TaskState],
           \A t \in TaskIds : state'[t] = "FREE" <=> state[t] = "FREE",
           \A t \in TaskIds \ {cur[c]} : state'[t] = "RUNNING" <=> state[t] = "RUNNING",
           \A t \in TaskIds \ {cur[c]} : state[t] = "RUNNABLE" => state'[t] = "RUNNABLE",
           \/ pc' = pc /\ state'[cur[c]] = "RUNNING"
           \/ /\ pc' = [pc EXCEPT ![c] = "sched"] /\ state'[cur[c]] # "RUNNING"
              /\ cur[c] \in CPUs => state'[cur[c]] = "RUNNABLE"
    PROVE  ListInv'
<1> USE Numbers DEF Slots, ForkPC, NewPC
<1>1. TypeOK /\ ~wild /\ Places /\ Listing /\ NewTask /\ Table
  BY Zenon DEF IInv, ListInv
<1>2. \A d \in CPUs : cur[d] \in TaskIds
  BY <1>1, Zenon DEF TypeOK
<1>3. \A d \in CPUs : \A i \in Slots(d) : rq[d][i] \in TaskIds
  BY ListFacts, Zenon
<1>4. \A d \in CPUs : d # c => cur[d] # cur[c] /\ pc'[d] = pc[d]
  BY <1>1, ListFacts DEF TypeOK
<1>5. \A d \in CPUs : d # c => \A i \in Slots(d) : rq[d][i] # cur[c]
  BY ListFacts
<1>6. \A d \in CPUs : pc'[d] = pc[d] \/ (d = c /\ pc[d] = "user" /\ pc'[d] = "sched")
  BY <1>1, Zenon DEF TypeOK
<1>7. Places'
  <2> SUFFICES ASSUME NEW d \in CPUs
               PROVE  /\ pc'[d] \in {"user", "panic", "sched", "dispatch"} \cup ForkPC
                      /\ pc'[d] \in ForkPC => d = 0
                      /\ pc'[d] \in {"user", "sched", "fork"} => ts'[d] = NULL
                      /\ pc'[d] \in {"sched", "dispatch"} <=> state'[cur'[d]] # "RUNNING"
                      /\ state'[d] \in {"RUNNABLE", "RUNNING"}
                      /\ In(d, cur[d])'
                      /\ pc'[d] = "dispatch" => In(d, ts[d])'
    BY Zenon DEF Places
  <2>1. pc'[d] \in {"user", "panic", "sched", "dispatch"} \cup ForkPC /\ (pc'[d] \in ForkPC => d = 0)
    BY <1>1, <1>6 DEF Places
  <2>2. pc'[d] \in {"user", "sched", "fork"} => ts'[d] = NULL
    BY <1>1, <1>6, Zenon DEF Places
  <2>3. pc'[d] \in {"sched", "dispatch"} <=> state'[cur'[d]] # "RUNNING"
    <3>1. CASE d = c
      BY <3>1, <1>1, Zenon DEF TypeOK
    <3>2. CASE d # c
      <4>1. cur[d] \in TaskIds \ {cur[c]} /\ pc'[d] = pc[d]
        BY <3>2, <1>2, <1>4, Zenon
      <4>2. pc[d] \in {"sched", "dispatch"} <=> state[cur[d]] # "RUNNING"
        BY <1>1, Zenon DEF Places
      <4> QED
        BY <4>1, <4>2, Zenon
    <3> QED
      BY <3>1, <3>2, Zenon
  <2>4. state'[d] \in {"RUNNABLE", "RUNNING"}
    BY <1>1 DEF Places
  <2>5. In(d, cur[d])' /\ (pc'[d] = "dispatch" => In(d, ts[d])')
    BY <1>1, <1>6 DEF Places, In
  <2> QED
    BY <2>1, <2>2, <2>3, <2>4, <2>5, Zenon
<1>8. Listing'
  <2>1. \A d \in CPUs : \A i \in Slots(d) : rq[d][i] # cur[d] => state'[rq[d][i]] # "RUNNING"
    <3> TAKE d \in CPUs
    <3> TAKE i \in Slots(d)
    <3>1. rq[d][i] \in TaskIds /\ (d # c => rq[d][i] # cur[c])
      BY <1>3, <1>5, Zenon
    <3>2. rq[d][i] # cur[d] => state[rq[d][i]] # "RUNNING"
      BY <1>1, Zenon DEF Listing
    <3> QED
      BY <3>1, <3>2, Zenon
  <2> QED
    BY <1>1, <2>1 DEF Listing
<1>9. NewTask'
  <2>1. pc'[0] \in {"create"} \cup NewPC <=> pc[0] \in {"create"} \cup NewPC
    BY <1>6, Zenon
  <2>2. pc[0] \in {"create"} \cup NewPC => pc'[0] = pc[0]
    BY <1>6, Zenon
  <2>3. pc[0] \in NewPC => state'[ts[0]] = "RUNNABLE"
    <3>1. pc[0] \in NewPC => ts[0] # cur[c] /\ ts[0] \in TaskIds
      BY ListFacts, Zenon DEF IInv, Locals
    <3> QED
      BY <1>1, <3>1, Zenon DEF NewTask
  <2>4. pc[0] = "create" => \A u \in TaskIds : u < ts[0] => state'[u] # "FREE"
    BY <1>1, Zenon DEF NewTask
  <2>5. pc[0] \in {"create"} \cup NewPC => \A u \in TaskIds : ts[0] < u => state'[u] = "FREE"
    BY <1>1, Zenon DEF NewTask
  <2> QED
    BY <1>1, <2>1, <2>2, <2>3, <2>4, <2>5, Zenon DEF NewTask
<1>10. Table'
  BY <1>1, <1>6 DEF Table, In
<1> QED
  BY <1>1, <1>7, <1>8, <1>9, <1>10, Zenon DEF ListInv

\* Every step but those of sys_fork keeps the lists sound.
LEMMA RunListInv ==
    ASSUME OnlyShellForks, ScanEnds, IInv, OwnInv, ListInv, [RunStep]_vars
    PROVE  ListInv'
<1> USE Numbers DEF taskVars, rqVars, localVars, Goto, Return, Interruptible, Slots, ForkPC, NewPC
<1>a. TypeOK /\ Locals /\ ~wild
  BY Zenon DEF IInv, ListInv
<1>b. Places
  BY Zenon DEF ListInv
<1>c. Listing
  BY Zenon DEF ListInv
<1>d. NewTask
  BY Zenon DEF ListInv
<1>e. Table
  BY Zenon DEF ListInv
<1>1. CASE UNCHANGED vars
  BY <1>1 DEF vars, ListInv, Places, Listing, NewTask, Table, In
<1>2. ASSUME NEW c \in CPUs, TimerFault(c) PROVE ListInv'
  <2>1. \A i \in Slots(c) : \A j \in 0 .. i : j \in Slots(c) /\ rq[c][j] # NULL
    BY <1>a, ListFacts DEF TypeOK
  <2>2. Served(c) = Slots(c)
    BY <2>1, Zenon DEF Served
  <2> QED
    BY <1>2, <2>2, Zenon DEF TimerFault
<1>3. ASSUME NEW c \in CPUs, Tick(c) PROVE ListInv'
  <2> DEFINE w == WakeSleepers(c).st
  <2>0. pc[c] = "user"
    BY <1>3, <1>b, Zenon DEF Tick, Places
  <2>1. cur[c] \in TaskIds /\ state[cur[c]] = "RUNNING"
    BY <2>0, <1>a, <1>b, Zenon DEF TypeOK, Places
  <2>2. w \in [TaskIds -> TaskState]
    BY <1>a, Zenon DEF WakeSleepers, TypeOK, TaskState
  <2>3. \A t \in TaskIds : w[t] = state[t] \/ (state[t] = "SLEEP" /\ w[t] = "RUNNABLE")
    BY Zenon DEF WakeSleepers, Woken
  <2>4. \/ pc' = pc /\ state' = w
        \/ pc' = [pc EXCEPT ![c] = "sched"] /\ state' = [w EXCEPT ![cur[c]] = "RUNNABLE"]
    BY <1>3, Zenon DEF Tick
  <2>5. UNCHANGED <<built, rq, cnt, cur, ts, tgt, idx, wild>>
    BY <1>3, Zenon DEF Tick
  <2> HIDE DEF w
  <2>6. w[cur[c]] = "RUNNING"
    BY <2>1, <2>3, Zenon
  <2>7. state' \in [TaskIds -> TaskState]
    BY <2>2, <2>4, Zenon DEF TaskState
  <2>8. \A t \in TaskIds : state'[t] = "FREE" <=> state[t] = "FREE"
    BY <2>1, <2>2, <2>3, <2>4, Zenon
  <2>9. \A t \in TaskIds \ {cur[c]} : state'[t] = "RUNNING" <=> state[t] = "RUNNING"
    BY <2>1, <2>2, <2>3, <2>4, Zenon
  <2>10. \A t \in TaskIds \ {cur[c]} : state[t] = "RUNNABLE" => state'[t] = "RUNNABLE"
    BY <2>1, <2>2, <2>3, <2>4, Zenon
  <2>11. \/ pc' = pc /\ state'[cur[c]] = "RUNNING"
         \/ /\ pc' = [pc EXCEPT ![c] = "sched"] /\ state'[cur[c]] # "RUNNING"
            /\ cur[c] \in CPUs => state'[cur[c]] = "RUNNABLE"
    BY <2>1, <2>2, <2>4, <2>6, Zenon
  <2> QED
    BY <2>0, <2>5, <2>7, <2>8, <2>9, <2>10, <2>11, ListStop, Zenon
<1>4. ASSUME NEW c \in CPUs, NEW n \in SleepArgs, Sleep(c, n) PROVE ListInv'
  <2>1. /\ pc[c] = "user" /\ cur[c] \in TaskIds /\ state[cur[c]] = "RUNNING"
        /\ pc' = [pc EXCEPT ![c] = "sched"] /\ state' = [state EXCEPT ![cur[c]] = "SLEEP"]
        /\ UNCHANGED <<built, rq, cnt, cur, ts, tgt, idx, wild>>
    BY <1>4, <1>a, <1>b, Zenon DEF Sleep, TypeOK, Places
  <2>2. cur[c] \notin CPUs
    BY <1>4, TasksAssumption DEF Sleep, OnlyShellForks, CPUs, IdleTasks
  <2>3. state' \in [TaskIds -> TaskState]
    BY <2>1, <1>a, Zenon DEF TypeOK, TaskState
  <2>4. \A t \in TaskIds : state'[t] = IF t = cur[c] THEN "SLEEP" ELSE state[t]
    BY <2>1, <1>a, Zenon DEF TypeOK
  <2>5. \A t \in TaskIds : state'[t] = "FREE" <=> state[t] = "FREE"
    BY <2>1, <2>4
  <2>6. \A t \in TaskIds \ {cur[c]} : state'[t] = "RUNNING" <=> state[t] = "RUNNING"
    BY <2>4, Zenon
  <2>7. \A t \in TaskIds \ {cur[c]} : state[t] = "RUNNABLE" => state'[t] = "RUNNABLE"
    BY <2>4, Zenon
  <2>8. state'[cur[c]] # "RUNNING"
    BY <2>1, <2>4
  <2> QED
    BY <2>1, <2>2, <2>3, <2>5, <2>6, <2>7, <2>8, ListStop, Zenon
<1>5. ASSUME NEW c \in CPUs, Scan(c) PROVE ListInv'
  <2>1. ~wild'
    BY <1>5, <1>a, Zenon DEF Scan
  <2>2. Places'
    BY <1>5, <1>a, <1>b, <1>c DEF Scan, TypeOK, Places, In, Listing
  <2>3. Listing'
    BY <1>5, <1>a, <1>c DEF Scan, TypeOK, Listing
  <2>4. NewTask'
    BY <1>5, <1>a, <1>b, <1>d DEF Scan, TypeOK, NewTask, Places
  <2>5. Table'
    BY <1>5, <1>a, <1>b, <1>e DEF Scan, TypeOK, Table, In, Places
  <2> QED
    BY <2>1, <2>2, <2>3, <2>4, <2>5, Zenon DEF ListInv
<1>6. ASSUME NEW c \in CPUs, ScanFault(c) PROVE ListInv'
  <2>1. pc[c] = "sched" /\ state[cur[c]] # "RUNNING"
    BY <1>6, <1>b, Zenon DEF ScanFault, Places
  <2>2. 0 \in Slots(c) /\ rq[c][0] = c
    BY <1>a, <1>c DEF TypeOK, Listing
  <2>3. state[c] = "RUNNABLE"
    <3>1. CASE cur[c] = c
      BY <2>1, <3>1, <1>b, Zenon DEF Places
    <3>2. CASE cur[c] # c
      BY <2>2, <3>2, <1>b, <1>c DEF Places, Listing
    <3> QED
      BY <3>1, <3>2, Zenon
  <2>4. 0 \in Stops(c) /\ Stops(c) \subseteq Slots(c)
    BY <2>2, <2>3, Zenon DEF Stops
  <2>5. \E i \in Slots(c) : Last(Stops(c), i)
    BY <2>4, Zenon DEF ScanEnds
  <2>6. \A i \in Slots(c) : rq[c][i] # NULL
    BY ListFacts, Zenon
  <2> QED
    BY <1>6, <2>5, <2>6, Zenon DEF ScanFault
<1>7. ASSUME NEW c \in CPUs, Dispatch(c) PROVE ListInv'
  <2> DEFINE t == ts[c]
  <2>1. pc[c] = "dispatch" /\ t \in TaskIds
    BY <1>7, <1>a, Zenon DEF Dispatch, Locals
  <2>2. t \in built /\ state[t] # "FREE"
    <3>0. \E i \in Slots(c) : rq[c][i] = t
      BY <2>1, <1>b, Zenon DEF Places, In
    <3>1. PICK i \in Slots(c) : rq[c][i] = t
      BY <3>0, Zenon
    <3> QED
      BY <3>1, <1>c, ListFacts DEF Listing
  <2>3. /\ cur' = [cur EXCEPT ![c] = t] /\ state' = [state EXCEPT ![t] = "RUNNING"]
        /\ pc' = [pc EXCEPT ![c] = "user"] /\ ts' = [ts EXCEPT ![c] = NULL]
        /\ tgt' = [tgt EXCEPT ![c] = 0] /\ idx' = [idx EXCEPT ![c] = 0]
        /\ UNCHANGED <<built, rq, cnt, wild>>
    BY <1>7, <2>2, Zenon DEF Dispatch
  <2>4. \A u \in TaskIds : state'[u] = IF u = t THEN "RUNNING" ELSE state[u]
    BY <2>1, <2>3, <1>a, Zenon DEF TypeOK
  <2>5. \A d \in CPUs : /\ pc'[d] = IF d = c THEN "user" ELSE pc[d]
                        /\ cur'[d] = IF d = c THEN t ELSE cur[d]
                        /\ ts'[d] = IF d = c THEN NULL ELSE ts[d]
                        /\ d # c => tgt'[d] = tgt[d] /\ idx'[d] = idx[d]
    BY <2>3, <1>a, Zenon DEF TypeOK
  <2>6. \A d \in CPUs : d # c => cur[d] # t /\ \A i \in Slots(d) : rq[d][i] # t
    BY <2>1, ListFacts, Zenon
  <2>7. \A d \in CPUs : cur[d] \in TaskIds /\ \A i \in Slots(d) : rq[d][i] \in TaskIds
    BY <1>a, ListFacts, Zenon DEF TypeOK
  <2>8. \A d \in CPUs : \A u : In(d, u)' <=> In(d, u)
    BY <2>3, Zenon DEF In
  <2> HIDE DEF t
  <2>9. Places'
    <3> SUFFICES ASSUME NEW d \in CPUs
                 PROVE  /\ pc'[d] \in {"user", "panic", "sched", "dispatch"} \cup ForkPC
                        /\ pc'[d] \in ForkPC => d = 0
                        /\ pc'[d] \in {"user", "sched", "fork"} => ts'[d] = NULL
                        /\ pc'[d] \in {"sched", "dispatch"} <=> state'[cur'[d]] # "RUNNING"
                        /\ state'[d] \in {"RUNNABLE", "RUNNING"}
                        /\ In(d, cur[d])'
                        /\ pc'[d] = "dispatch" => In(d, ts[d])'
      BY Zenon DEF Places
    <3>1. In(d, cur[d])' /\ (pc'[d] = "dispatch" => In(d, ts[d])')
      BY <2>1, <2>3, <2>5, <1>b DEF Places, In, t
    <3>2. state'[d] \in {"RUNNABLE", "RUNNING"}
      BY <2>4, <1>b, Zenon DEF Places
    <3>3. CASE d = c
      BY <2>1, <2>4, <2>5, <3>1, <3>2, <3>3, Zenon
    <3>4. CASE d # c
      BY <2>4, <2>5, <2>6, <2>7, <3>1, <3>2, <3>4, <1>b DEF Places
    <3> QED
      BY <3>3, <3>4, Zenon
  <2>10. Listing'
    <3>1. ASSUME NEW d \in CPUs, NEW i \in Slots(d), rq[d][i] # cur'[d]
          PROVE  state'[rq[d][i]] # "RUNNING"
      <4>1. rq[d][i] \in TaskIds /\ (rq[d][i] # cur[d] => state[rq[d][i]] # "RUNNING")
        BY <2>7, <1>c, Zenon DEF Listing
      <4>2. CASE d = c
        <5>1. state[cur[c]] # "RUNNING"
          BY <2>1, <1>b, Zenon DEF Places
        <5>2. state[rq[d][i]] # "RUNNING"
          BY <4>1, <4>2, <5>1, Zenon
        <5>3. rq[d][i] # t
          BY <2>5, <3>1, <4>2, Zenon
        <5> QED
          BY <2>4, <4>1, <5>2, <5>3, Zenon
      <4>3. CASE d # c
        BY <2>4, <2>5, <2>6, <3>1, <4>1, <4>3, Zenon
      <4> QED
        BY <4>2, <4>3, Zenon
    <3>2. \A d \in CPUs :
             /\ rq[d][0] = d /\ cnt[d] >= 1
             /\ \A i \in Slots(d) : rq[d][i] \in built /\ i <= rq[d][i]
             /\ \A i, j \in Slots(d) : i < j => rq[d][i] < rq[d][j]
      BY <1>c, Zenon DEF Listing
    <3> SUFFICES ASSUME NEW d \in CPUs
                 PROVE  /\ rq'[d][0] = d /\ cnt'[d] >= 1
                        /\ \A i \in Slots(d)' :
                              /\ rq'[d][i] \in built' /\ i <= rq'[d][i]
                              /\ rq'[d][i] # cur'[d] => state'[rq'[d][i]] # "RUNNING"
                        /\ \A i, j \in Slots(d)' : i < j => rq'[d][i] < rq'[d][j]
      BY Zenon DEF Listing
    <3> QED
      BY <2>3, <3>1, <3>2
  <2>11. NewTask'
    <3>1. CASE c = 0
      BY <2>5, <3>1, Zenon DEF NewTask
    <3>2. CASE c # 0
      <4>1. pc'[0] = pc[0] /\ ts'[0] = ts[0] /\ tgt'[0] = tgt[0] /\ idx'[0] = idx[0]
        BY <2>5, <3>2, Zenon
      <4>2. pc[0] \in {"create"} \cup NewPC => ts[0] \in TaskIds /\ ts[0] # t
        <5>1. pc[0] \in {"create"} \cup NewPC => ts[0] \in TaskIds
          BY <1>a, Zenon DEF Locals
        <5>2. pc[0] \in {"create"} \cup NewPC => ts[c] # ts[0]
          BY <2>1, ListFacts, Zenon
        <5> QED
          BY <5>1, <5>2, Zenon DEF t
      <4>3. \A u \in TaskIds : state'[u] = "FREE" <=> state[u] = "FREE"
        BY <2>2, <2>4, Zenon
      <4>4. pc[0] \in NewPC => state'[ts[0]] = "RUNNABLE"
        BY <2>4, <4>2, <1>d, Zenon DEF NewTask
      <4>5. /\ pc[0] \in {"create"} \cup NewPC =>
                  /\ \A d \in CPUs : \A i \in Slots(d) : rq[d][i] < ts[0]
                  /\ \A u \in TaskIds : ts[0] < u => state'[u] = "FREE"
            /\ pc[0] = "create" => \A u \in TaskIds : u < ts[0] => state'[u] # "FREE"
        BY <4>3, <1>d, Zenon DEF NewTask
      <4>6. /\ pc[0] \in {"load", "store", "count"} => ts[0] \in built
            /\ pc[0] \in {"store", "count"} => idx[0] = cnt[tgt[0]] /\ idx[0] <= ts[0]
            /\ pc[0] = "count" => rq[tgt[0]][idx[0]] = ts[0]
        BY <1>d, Zenon DEF NewTask
      <4>7. /\ pc'[0] \in {"create"} \cup NewPC =>
                  /\ \A d \in CPUs : \A i \in Slots(d)' : rq'[d][i] < ts'[0]
                  /\ \A u \in TaskIds : ts'[0] < u => state'[u] = "FREE"
            /\ pc'[0] = "create" => \A u \in TaskIds : u < ts'[0] => state'[u] # "FREE"
        BY <2>3, <4>1, <4>5, Zenon
      <4>8. /\ pc'[0] \in NewPC => state'[ts'[0]] = "RUNNABLE"
            /\ pc'[0] \in {"load", "store", "count"} => ts'[0] \in built'
        BY <2>3, <4>1, <4>4, <4>6
      <4>9. /\ pc'[0] \in {"store", "count"} => idx'[0] = cnt'[tgt'[0]] /\ idx'[0] <= ts'[0]
            /\ pc'[0] = "count" => rq'[tgt'[0]][idx'[0]] = ts'[0]
        BY <2>3, <4>1, <4>6, Zenon
      <4> QED
        BY <4>7, <4>8, <4>9, Zenon DEF NewTask
    <3> QED
      BY <3>1, <3>2, Zenon
  <2>12. Table'
    <3>1. \A u \in TaskIds : state'[u] = "FREE" <=> state[u] = "FREE"
      BY <2>2, <2>4, Zenon
    <3>2. pc[0] \in NewPC => pc'[0] = pc[0] /\ ts'[0] = ts[0]
      BY <2>1, <2>5, Zenon
    <3> QED
      BY <2>8, <3>1, <3>2, <1>e, Zenon DEF Table
  <2> QED
    BY <2>3, <2>9, <2>10, <2>11, <2>12, <1>a, Zenon DEF ListInv
<1>8. ASSUME NEW c \in CPUs, Kill(c) PROVE ListInv'
  BY <1>8, Zenon DEF Kill, KillCall, KillLock, KillRelease, Unqueue, Truncate, Uncount,
     TruncateSpill, OnlyShellForks, OwnInv, NoKill
<1> QED
  BY <1>1, <1>2, <1>3, <1>4, <1>5, <1>6, <1>7, <1>8
    , Zenon DEF RunStep, Timer, Yield

\* The invariants give what ListsSound says of the lists.
LEMMA ListInvSound ==
    ASSUME IInv, OwnInv, ListInv
    PROVE  ListsSound
<1> USE Numbers
<1>1. TypeOK /\ Places /\ Listing /\ Table
  BY Zenon DEF IInv, ListInv
<1>2. NoTaskLost
  BY <1>1, Zenon DEF NoTaskLost, InFork, Listed, Table, In, NewPC
<1>3. ListedOnce
  <2> SUFFICES ASSUME NEW c \in CPUs, NEW d \in CPUs, NEW i \in Slots(c), NEW j \in Slots(d),
                      rq[c][i] = rq[d][j]
               PROVE  c = d /\ i = j
    BY Zenon DEF ListedOnce
  <2>1. c = d
    BY ListFacts, Zenon
  <2>2. i \in TaskIds /\ j \in TaskIds /\ rq[c][i] \in TaskIds
    BY ListFacts, Zenon
  <2>3. (i < j => rq[c][i] < rq[c][j]) /\ (j < i => rq[c][j] < rq[c][i])
    BY <1>1, <2>1, Zenon DEF Listing
  <2> QED
    BY <2>1, <2>2, <2>3
<1>4. NoFault
  BY <1>1, Zenon DEF NoFault, Places, ForkPC
<1>5. UserTaskAlive
  <2> SUFFICES ASSUME NEW c \in CPUs, pc[c] = "user"
               PROVE  state[cur[c]] = "RUNNING" /\ cur[c] \in built
    BY Zenon DEF UserTaskAlive
  <2>1. PICK i \in Slots(c) : rq[c][i] = cur[c]
    BY <1>1, Zenon DEF Places, In
  <2> QED
    BY <1>1, <2>1 DEF Places, Listing
<1> QED
  BY <1>2, <1>3, <1>4, <1>5, Zenon DEF ListsSound

\* A scan that takes an idle task passed no other RUNNABLE entry.
LEMMA ScanIdleLast ==
    ASSUME OnlyShellForks, IInv, OwnInv, ListInv, [Next]_vars, NEW c \in CPUs,
           pc[c] = "sched", ts'[c] \in IdleTasks, NEW j \in Slots(c), rq[c][j] # ts'[c]
    PROVE  state[rq[c][j]] # "RUNNABLE"
<1> SUFFICES ASSUME state[rq[c][j]] = "RUNNABLE" PROVE FALSE
  BY Zenon
<1> USE Numbers
<1>1. TypeOK /\ Places /\ Listing
  BY Zenon DEF IInv, ListInv
<1>2. ts'[c] \in CPUs /\ ts'[c] # 0 /\ ts'[c] # ts[c]
  <2>1. ts'[c] \in CPUs /\ ts'[c] # 0
    BY IdleCpus, Zenon
  <2>2. ts[c] = NULL
    BY <1>1, Zenon DEF Places
  <2> QED
    BY <2>1, <2>2, Zenon
<1>c. ASSUME NEW d \in CPUs, Kill(d) PROVE FALSE
  BY <1>c, Zenon DEF Kill, KillCall, KillLock, KillRelease, Unqueue, Truncate, Uncount,
     TruncateSpill, Goto, OnlyShellForks, OwnInv, NoKill
<1>3. Scan(c)
  <2> USE <1>1, <1>2 DEF TypeOK, Goto, Return, Interruptible, localVars
  <2>1. ts' # ts
    BY Zenon
  <2>2. ASSUME NEW d \in CPUs, Timer(d) PROVE FALSE
    BY <2>1, <2>2, Zenon DEF Timer, Tick, TimerFault
  <2>3. ASSUME NEW d \in CPUs, Yield(d) PROVE Scan(c)
    <3>1. CASE Scan(d)
      <4>1. PICK v : ts' = [ts EXCEPT ![d] = v]
        BY <3>1, Zenon DEF Scan
      <4>2. d = c
        BY <4>1, Zenon
      <4> QED
        BY <3>1, <4>2, Zenon
    <3>2. CASE Dispatch(d)
      BY <3>2, Zenon DEF Dispatch
    <3> QED
      BY <2>1, <2>3, <3>1, <3>2, Zenon DEF Yield, ScanFault
  <2>4. ASSUME NEW d \in CPUs, NEW n \in SleepArgs, Sleep(d, n) PROVE FALSE
    BY <2>1, <2>4, Zenon DEF Sleep
  <2>5. ASSUME NEW d \in CPUs, Fork(d) PROVE FALSE
    <3>1. CASE ForkLock(d)
      BY <3>1, Zenon DEF ForkLock
    <3>2. CASE CreateFails(d)
      BY <3>2, Zenon DEF CreateFails
    <3>3. CASE EnqueueAdvance(d)
      BY <3>3, Zenon DEF EnqueueAdvance
    <3> QED
      BY <2>1, <2>5, <3>1, <3>2, <3>3, Zenon DEF Fork, ForkCall, ForkFull, LockPanic, Create, Copy,
         EnqueueLoad, EnqueueStore, EnqueueOverflow, EnqueueCount
  <2> QED
    BY <2>1, <2>2, <2>3, <2>4, <2>5, <1>c, Zenon DEF Next, vars
<1>4. PICK i \in Slots(c) : Last(Stops(c), i) /\ ts' = [ts EXCEPT ![c] = rq[c][i]]
  BY <1>3, Zenon DEF Scan
<1>a. ts'[c] = rq[c][i]
  BY <1>1, <1>4, Zenon DEF TypeOK
<1>5. j \in Stops(c)
  BY Zenon DEF Stops
<1>b. j <= i
  BY <1>4, <1>5, Zenon DEF Last
<1>6. i \in TaskIds /\ j \in TaskIds
  BY ListFacts, Zenon
<1>7. j < i
  BY <1>a, <1>b, <1>6
<1>8. ts'[c] = c
  <2>1. 0 \in Slots(ts'[c]) /\ rq[ts'[c]][0] = ts'[c]
    BY <1>1, <1>2 DEF TypeOK, Listing, Slots
  <2>2. \A d, e \in CPUs : d # e =>
           \A k \in Slots(d), l \in Slots(e) : rq[d][k] # rq[e][l]
    BY ListFacts, Zenon
  <2> QED
    BY <1>2, <1>a, <2>1, <2>2, Zenon
<1>9. 0 \in Slots(c) /\ rq[c][0] = c
  BY <1>1 DEF TypeOK, Listing, Slots
<1>d. i \in Int /\ j \in Int /\ 0 <= j
  BY <1>6, Zenon
<1>10. 0 < i
  BY <1>7, <1>d
<1>11. rq[c][0] < rq[c][i]
  BY <1>1, <1>9, <1>10 DEF Listing
<1> QED
  BY <1>a, <1>8, <1>9, <1>11
=============================================================================
