------------------------------- MODULE Tasks -------------------------------
(***************************************************************************)
(* The task table, the per-CPU runqueues and the scheduler of nctuOS       *)
(* (kernel/task.c, kernel/sched.c, kernel/timer.c, the task calls of       *)
(* kernel/syscall.c), from the moment boot_aps has started every CPU.      *)
(*                                                                         *)
(* A system call or a timer interrupt runs with interrupts disabled, so a  *)
(* CPU finishes one before it takes the next; the steps of different CPUs  *)
(* interleave.  pc[c] says where CPU c is: "user" is user code with        *)
(* interrupts enabled, "panic" and "fault" are the endless loops of        *)
(* _panic and page_fault_handler, "loop" is the latter entered from user   *)
(* code through its trap gate, with interrupts still enabled.              *)
(*                                                                         *)
(* task_lock is the atomic lock that Spinlock.tla is shown to implement,   *)
(* with its debug check: a CPU that locks what it already holds panics.    *)
(* The runqueues and nextCPU are shared and NOT protected by it.           *)
(***************************************************************************)
EXTENDS Integers, FiniteSets

CONSTANTS
    ncpu,           \* CPUs found by mp_init; CPU 0 boots
    NR_TASKS,       \* size of tasks[] and of every runqueue array
    TIME_QUANT,     \* ticks of a time slice
    TICK_MOD,       \* 2^32 in the code: remind_ticks wraps
    SPILL_WORDS,    \* words below cpus[ncpu].rq that nobody reads (27)
    SleepArgs,      \* the arguments user programs give to sleep
    Forkers, Sleepers, Killers,   \* the tasks whose program makes the call
    MemoryMayFail   \* whether page_alloc may find no page

CPUs == 0 .. ncpu - 1
TaskIds == 0 .. NR_TASKS - 1
NULL == -1

(***************************************************************************)
(* Task 0 is the shell of the boot CPU, tasks 1 .. ncpu-1 are the idle     *)
(* loops of the other CPUs, which make no system call (idle_entry).        *)
(***************************************************************************)
IdleTasks == 1 .. ncpu - 1

ASSUME TasksAssumption ==
    /\ ncpu \in Nat \ {0}
    /\ NR_TASKS \in Nat /\ NR_TASKS >= ncpu
    /\ TICK_MOD \in Nat
    /\ TIME_QUANT \in 1 .. TICK_MOD - 1
    /\ SleepArgs \subseteq 0 .. TICK_MOD - 1
    /\ Forkers \subseteq TaskIds \ IdleTasks
    /\ Sleepers \subseteq TaskIds \ IdleTasks
    /\ Killers \subseteq TaskIds \ IdleTasks
    /\ MemoryMayFail \in BOOLEAN
    /\ SPILL_WORDS \in Nat

VARIABLES
    state,      \* tasks[t].state
    ticks,      \* tasks[t].remind_ticks
    built,      \* the tasks whose trap frame, stack and program are in place
    rq,         \* cpus[c].cpu_rq.rq
    cnt,        \* cpus[c].cpu_rq.cnt
    nextCPU,    \* the static of sys_fork
    cur,        \* cpus[c].cpu_task
    lock,       \* the holder of task_lock, or NULL
    pc,         \* where each CPU is
    ts,         \* the local task pointer (task_create, sched_yield), or NULL
    tgt,        \* the local CPU index (sys_fork, sys_kill)
    idx,        \* the local copy of a runqueue's cnt
    spill,      \* words written below cpus[ncpu].cpu_rq.rq by sys_kill
    wild        \* a write left every object this module models

taskVars == <<state, ticks, built>>
rqVars == <<rq, cnt>>
localVars == <<ts, tgt, idx>>
vars == <<state, ticks, built, rq, cnt, nextCPU, cur, lock, pc, ts, tgt, idx,
          spill, wild>>

TaskState == {"FREE", "RUNNABLE", "RUNNING", "SLEEP"}
PC == {"user", "loop", "sched", "dispatch",
       "fork", "create", "copy", "load", "store", "count", "advance",
       "kill", "release", "unqueue", "truncate", "uncount",
       "panic", "fault"}

Slots(c) == 0 .. cnt[c] - 1

\* thiscpu's control moves.  The model ends at a write that left its objects.
Goto(c, from, to) ==
    /\ ~wild
    /\ pc[c] = from
    /\ pc' = [pc EXCEPT ![c] = to]

\* The system call is over: its locals are gone.
Return(c, to) ==
    /\ pc' = [pc EXCEPT ![c] = to]
    /\ ts' = [ts EXCEPT ![c] = NULL]
    /\ tgt' = [tgt EXCEPT ![c] = 0]
    /\ idx' = [idx EXCEPT ![c] = 0]

Dec(n, k) == (n - k) % TICK_MOD

-----------------------------------------------------------------------------
(* task_init, and task_init_percpu on every CPU: its first task runs.      *)
Init ==
    /\ state = [t \in TaskIds |-> IF t \in CPUs THEN "RUNNING" ELSE "FREE"]
    /\ ticks = [t \in TaskIds |-> IF t \in CPUs THEN TIME_QUANT ELSE 0]
    /\ built = CPUs
    /\ rq = [c \in CPUs |-> [i \in TaskIds |-> IF i = 0 THEN c ELSE NULL]]
    /\ cnt = [c \in CPUs |-> 1]
    /\ nextCPU = 0
    /\ cur = [c \in CPUs |-> c]
    /\ lock = NULL
    /\ pc = [c \in CPUs |-> "user"]
    /\ ts = [c \in CPUs |-> NULL]
    /\ tgt = [c \in CPUs |-> 0]
    /\ idx = [c \in CPUs |-> 0]
    /\ spill = 0
    /\ wild = FALSE

-----------------------------------------------------------------------------
(***************************************************************************)
(* timer_handler: the loop counts down the sleepers listed in this CPU's   *)
(* runqueue (once per entry), then the current task's slice is counted     *)
(* down.  The loop dereferences every entry, so a NULL one faults after    *)
(* the entries before it were served.                                      *)
(***************************************************************************)
Served(c) == {i \in Slots(c) : \A j \in 0 .. i : rq[c][j] # NULL}

\* Mutant of Entries: the loop ends one entry early.
Entries_Short(c, t) == Cardinality({i \in Served(c) : rq[c][i] = t /\ i < cnt[c] - 1})

Entries(c, t) == Cardinality({i \in Served(c) : rq[c][i] = t})
Woken(c, t) == state[t] = "SLEEP" /\ ticks[t] \in 1 .. Entries(c, t)

WakeSleepers(c) ==
    [st |-> [t \in TaskIds |-> IF Woken(c, t) THEN "RUNNABLE" ELSE state[t]],
     tk |-> [t \in TaskIds |->
                IF Woken(c, t) THEN 0
                ELSE IF state[t] = "SLEEP" THEN Dec(ticks[t], Entries(c, t))
                ELSE ticks[t]]]

Interruptible(c) == pc[c] \in {"user", "loop"} /\ ~wild

TimerFault(c) ==
    /\ Interruptible(c)
    /\ pc' = [pc EXCEPT ![c] = "fault"]
    /\ Served(c) # Slots(c)
    /\ state' = WakeSleepers(c).st
    /\ ticks' = WakeSleepers(c).tk
    /\ UNCHANGED <<built, rqVars, nextCPU, cur, lock, localVars, spill, wild>>

Tick(c) ==
    /\ Interruptible(c)
    /\ Served(c) = Slots(c)
    /\ LET w == WakeSleepers(c)
           left == Dec(w.tk[cur[c]], 1)
       IN  /\ ticks' = [w.tk EXCEPT ![cur[c]] = left]
           /\ \/ /\ left = 0
                 /\ state' = [w.st EXCEPT ![cur[c]] = "RUNNABLE"]
                 /\ pc' = [pc EXCEPT ![c] = "sched"]
              \/ /\ left # 0
                 /\ state' = w.st
                 /\ UNCHANGED pc
    /\ UNCHANGED <<built, rqVars, nextCPU, cur, lock, localVars, spill, wild>>

(***************************************************************************)
(* sched_yield: the scan goes down from the last entry to the first        *)
(* RUNNABLE one.  A NULL entry faults; so does rq[-1], the value of cnt    *)
(* taken for a pointer, when the scan finds nothing.                       *)
(***************************************************************************)
Stops(c) == {i \in Slots(c) : rq[c][i] = NULL \/ state[rq[c][i]] = "RUNNABLE"}

\* Mutant of Last: the scan goes up.
Last_Up(S, i) == i \in S /\ \A j \in S : i <= j

Last(S, i) == i \in S /\ \A j \in S : j <= i

\* Mutant of Scan: bootcpu's runqueue instead of thiscpu's.
Scan_BootCpu(c) ==
    /\ Goto(c, "sched", "dispatch")
    /\ \E i \in Slots(0) :
          /\ Last(Stops(0), i)
          /\ rq[0][i] # NULL
          /\ ts' = [ts EXCEPT ![c] = rq[0][i]]
    /\ UNCHANGED <<taskVars, rqVars, nextCPU, cur, lock, tgt, idx, spill, wild>>

Scan(c) ==
    /\ Goto(c, "sched", "dispatch")
    /\ \E i \in Slots(c) :
          /\ Last(Stops(c), i)
          /\ rq[c][i] # NULL
          /\ ts' = [ts EXCEPT ![c] = rq[c][i]]
    /\ UNCHANGED <<taskVars, rqVars, nextCPU, cur, lock, tgt, idx, spill, wild>>

ScanFault(c) ==
    /\ Goto(c, "sched", "fault")
    /\ \A i \in Slots(c) : Last(Stops(c), i) => rq[c][i] = NULL
    /\ UNCHANGED <<taskVars, rqVars, nextCPU, cur, lock, localVars, spill, wild>>

\* A task that sys_fork has not finished faults at its first instruction: with
\* interrupts off while its trap frame is zero, with the parent's flags after.
Dispatch(c) ==
    /\ pc[c] = "dispatch" /\ ~wild
    /\ cur' = [cur EXCEPT ![c] = ts[c]]
    /\ state' = [state EXCEPT ![ts[c]] = "RUNNING"]
    /\ ticks' = [ticks EXCEPT ![ts[c]] = TIME_QUANT]
    /\ \E to \in IF ts[c] \in built THEN {"user"} ELSE {"fault", "loop"} : Return(c, to)
    /\ UNCHANGED <<built, rqVars, nextCPU, lock, spill, wild>>

-----------------------------------------------------------------------------
(* SYS_sleep *)
Sleep(c, n) ==
    /\ Goto(c, "user", "sched")
    /\ cur[c] \in Sleepers
    /\ state' = [state EXCEPT ![cur[c]] = "SLEEP"]
    /\ ticks' = [ticks EXCEPT ![cur[c]] = n]
    /\ UNCHANGED <<built, rqVars, nextCPU, cur, lock, localVars, spill, wild>>

(***************************************************************************)
(* sys_fork.  task_create takes task_lock and the first FREE slot; its     *)
(* early returns keep the lock.  The new task is RUNNABLE from the unlock  *)
(* on, before its frame, stack and program are copied.                     *)
(***************************************************************************)
ForkCall(c) ==
    /\ Goto(c, "user", "fork")
    /\ cur[c] \in Forkers
    /\ UNCHANGED <<taskVars, rqVars, nextCPU, cur, lock, localVars, spill, wild>>

FreeSlot(t) ==
    /\ state[t] = "FREE"
    /\ \A u \in TaskIds : u < t => state[u] # "FREE"

ForkLock(c) ==
    /\ Goto(c, "fork", "create")
    /\ lock = NULL
    /\ lock' = c
    /\ \E t \in TaskIds : FreeSlot(t) /\ ts' = [ts EXCEPT ![c] = t]
    /\ UNCHANGED <<taskVars, rqVars, nextCPU, cur, tgt, idx, spill, wild>>

\* "return -1" without spin_unlock: the table is full.
ForkFull(c) ==
    /\ Goto(c, "fork", "user")
    /\ lock = NULL
    /\ lock' = c
    /\ \A t \in TaskIds : state[t] # "FREE"
    /\ UNCHANGED <<taskVars, rqVars, nextCPU, cur, localVars, spill, wild>>

\* spin_lock's debug check, for task_create and sys_kill.
LockPanic(c) ==
    /\ \/ Goto(c, "fork", "panic")
       \/ Goto(c, "kill", "panic")
    /\ lock = c
    /\ UNCHANGED <<taskVars, rqVars, nextCPU, cur, lock, localVars, spill, wild>>

(***************************************************************************)
(* Out of memory in task_create: setupkvm panics or faults in              *)
(* boot_map_region, the stack loop returns -1; all with the lock held.     *)
(* (A page_insert that fails goes unnoticed, as it returns -E_NO_MEM and   *)
(* not -1, but then the next page_alloc of the loop fails too: every other *)
(* user of memory waits for task_lock.)                                    *)
(***************************************************************************)
CreateFails(c) ==
    /\ MemoryMayFail
    /\ pc[c] = "create" /\ ~wild
    /\ \E to \in {"panic", "fault", "user"} : Return(c, to)
    /\ UNCHANGED <<taskVars, rqVars, nextCPU, cur, lock, spill, wild>>

Create(c) ==
    /\ Goto(c, "create", "copy")
    /\ state' = [state EXCEPT ![ts[c]] = "RUNNABLE"]
    /\ ticks' = [ticks EXCEPT ![ts[c]] = TIME_QUANT]
    /\ lock' = NULL
    /\ UNCHANGED <<built, rqVars, nextCPU, cur, localVars, spill, wild>>

\* The frame, the stack and setupvm, whose page tables setupkvm has made: the user
\* program is linked into the kernel image, above KERNBASE.
Copy(c) ==
    /\ Goto(c, "copy", "load")
    /\ built' = built \cup {ts[c]}
    /\ UNCHANGED <<state, ticks, rqVars, nextCPU, cur, lock, localVars, spill, wild>>

(***************************************************************************)
(* The enqueue: nextCPU and cnt are loaded, the entry is stored, cnt is    *)
(* incremented, nextCPU is stored.  Nothing orders this against another    *)
(* CPU; the increment adds to the loaded value or to the one in memory,    *)
(* as the compiler chooses.  A cnt that leaves 0 .. NR_TASKS, here or in   *)
(* Uncount, makes the loops leave the array: wild.                         *)
(***************************************************************************)
EnqueueLoad(c) ==
    /\ Goto(c, "load", "store")
    /\ tgt' = [tgt EXCEPT ![c] = nextCPU]
    /\ idx' = [idx EXCEPT ![c] = cnt[nextCPU]]
    /\ UNCHANGED <<taskVars, rqVars, nextCPU, cur, lock, ts, spill, wild>>

EnqueueStore(c) ==
    /\ Goto(c, "store", "count")
    /\ idx[c] \in TaskIds
    /\ rq' = [rq EXCEPT ![tgt[c]] = [@ EXCEPT ![idx[c]] = ts[c]]]
    /\ UNCHANGED <<taskVars, cnt, nextCPU, cur, lock, localVars, spill, wild>>

\* rq[NR_TASKS] is the first word of cpu_tss.
EnqueueOverflow(c) ==
    /\ Goto(c, "store", "count")
    /\ idx[c] \notin TaskIds
    /\ wild' = TRUE
    /\ UNCHANGED <<taskVars, rqVars, nextCPU, cur, lock, localVars, spill>>

\* Mutant of EnqueueCount: cnt is not incremented.
EnqueueCount_Dropped(c) ==
    /\ Goto(c, "count", "advance")
    /\ UNCHANGED <<taskVars, rqVars, nextCPU, cur, lock, localVars, spill, wild>>

EnqueueCount(c) ==
    /\ Goto(c, "count", "advance")
    /\ \E n \in {idx[c], cnt[tgt[c]]} :
          /\ wild' = (n = NR_TASKS)
          /\ cnt' = [cnt EXCEPT ![tgt[c]] = IF n = NR_TASKS THEN n ELSE n + 1]
    /\ UNCHANGED <<taskVars, rq, nextCPU, cur, lock, localVars, spill>>

EnqueueAdvance(c) ==
    /\ pc[c] = "advance" /\ ~wild
    /\ nextCPU' = (tgt[c] + 1) % ncpu
    /\ Return(c, "user")
    /\ UNCHANGED <<taskVars, rqVars, cur, lock, spill, wild>>

-----------------------------------------------------------------------------
(***************************************************************************)
(* sys_kill(the caller).  The slot is freed under the lock.  Then, without *)
(* it, the runqueues are searched; the one that lists the task closes the  *)
(* gap, but "++i" has already run when the outer loop ends, so the entry   *)
(* that is dropped is the last one of the NEXT CPU.                        *)
(***************************************************************************)
KillCall(c) ==
    /\ Goto(c, "user", "kill")
    /\ cur[c] \in Killers
    /\ cur[c] > 0
    /\ UNCHANGED <<taskVars, rqVars, nextCPU, cur, lock, localVars, spill, wild>>

\* Mutant of KillLock: no spin_lock.
KillLock_NoLock(c) ==
    /\ Goto(c, "kill", "release")
    /\ state' = [state EXCEPT ![cur[c]] = "FREE"]
    /\ UNCHANGED <<ticks, built, rqVars, nextCPU, cur, lock, localVars, spill, wild>>

KillLock(c) ==
    /\ Goto(c, "kill", "release")
    /\ lock = NULL
    /\ lock' = c
    /\ state' = [state EXCEPT ![cur[c]] = "FREE"]
    /\ UNCHANGED <<ticks, built, rqVars, nextCPU, cur, localVars, spill, wild>>

\* task_free: the stack, the page tables and the page directory are gone.
KillRelease(c) ==
    /\ Goto(c, "release", "unqueue")
    /\ lock' = NULL
    /\ built' = built \ {cur[c]}
    /\ UNCHANGED <<state, ticks, rqVars, nextCPU, cur, localVars, spill, wild>>

\* The inner loop over runqueue i: entries from the first match on move down.
Closed(i, t) ==
    [j \in TaskIds |->
        IF /\ j + 1 \in Slots(i) /\ j \in Served(i)
           /\ \E k \in 0 .. j : rq[i][k] = t
        THEN rq[i][j + 1] ELSE rq[i][j]]

Unqueue(c) ==
    LET i == tgt[c]
        found == \E j \in Served(i) : rq[i][j] = cur[c]
        null == Served(i) # Slots(i)
        more == ~found /\ i + 1 < ncpu
    IN  /\ Goto(c, "unqueue", IF null THEN "fault"
                              ELSE IF more THEN "unqueue" ELSE "truncate")
        /\ rq' = [rq EXCEPT ![i] = Closed(i, cur[c])]
        /\ tgt' = [tgt EXCEPT ![c] = i + 1]
        /\ UNCHANGED <<taskVars, cnt, nextCPU, cur, lock, ts, idx, spill, wild>>

\* rq[cnt - 1] = NULL on cpus[tgt], where tgt is one past the CPU searched.
Truncate(c) ==
    /\ Goto(c, "truncate", "uncount")
    /\ tgt[c] \in CPUs
    /\ idx' = [idx EXCEPT ![c] = cnt[tgt[c]]]
    /\ \/ /\ cnt[tgt[c]] > 0
          /\ rq' = [rq EXCEPT ![tgt[c]] = [@ EXCEPT ![cnt[tgt[c]] - 1] = NULL]]
          /\ UNCHANGED wild
       \/ /\ cnt[tgt[c]] = 0      \* rq[-1] is cnt, which then wraps
          /\ wild' = TRUE
          /\ UNCHANGED rq
    /\ UNCHANGED <<taskVars, cnt, nextCPU, cur, lock, ts, tgt, spill>>

Uncount(c) ==
    /\ pc[c] = "uncount" /\ ~wild
    /\ \E n \in {idx[c], cnt[tgt[c]]} :
          /\ wild' = (n = 0)
          /\ cnt' = [cnt EXCEPT ![tgt[c]] = IF n = 0 THEN n ELSE n - 1]
    /\ Return(c, "sched")
    /\ UNCHANGED <<taskVars, rq, nextCPU, cur, lock, spill>>

\* cpus[ncpu] has no runqueue: its cnt wraps and each kill writes a NULL one
\* word lower, up to the stack pointer in cpus[ncpu - 1].cpu_tss.
TruncateSpill(c) ==
    /\ pc[c] = "truncate" /\ ~wild
    /\ tgt[c] = ncpu
    /\ \/ spill < SPILL_WORDS /\ spill' = spill + 1 /\ UNCHANGED wild
       \/ spill = SPILL_WORDS /\ wild' = TRUE /\ UNCHANGED spill
    /\ Return(c, "sched")
    /\ UNCHANGED <<taskVars, rqVars, nextCPU, cur, lock>>

-----------------------------------------------------------------------------
Timer(c) == Tick(c) \/ TimerFault(c)

Yield(c) == Scan(c) \/ ScanFault(c) \/ Dispatch(c)

Fork(c) ==
    \/ ForkCall(c) \/ ForkLock(c) \/ ForkFull(c) \/ LockPanic(c)
    \/ CreateFails(c) \/ Create(c) \/ Copy(c)
    \/ EnqueueLoad(c) \/ EnqueueStore(c) \/ EnqueueOverflow(c)
    \/ EnqueueCount(c) \/ EnqueueAdvance(c)

Kill(c) ==
    \/ KillCall(c) \/ KillLock(c) \/ KillRelease(c)
    \/ Unqueue(c) \/ Truncate(c) \/ Uncount(c) \/ TruncateSpill(c)

Next ==
    \E c \in CPUs :
        Timer(c) \/ Yield(c) \/ (\E n \in SleepArgs : Sleep(c, n)) \/ Fork(c) \/ Kill(c)

Spec == Init /\ [][Next]_vars

(***************************************************************************)
(* A CPU in the kernel keeps executing.  A timer interrupt that is pending *)
(* while interrupts are off is delivered once they are on again, hence the *)
(* strong fairness.  User programs owe no system call, and nothing says    *)
(* who wins a race for task_lock.                                          *)
(***************************************************************************)
InKernel(c) == pc[c] # "user" /\ (Yield(c) \/ Fork(c) \/ Kill(c))

FairSpec ==
    /\ Spec
    /\ \A c \in CPUs : WF_vars(InKernel(c)) /\ SF_vars(Timer(c))

-----------------------------------------------------------------------------
\* Every variable stays in its range; remind_ticks is a 32-bit counter and cnt
\* never passes the array (a write beyond it sets wild instead).
TypeOK ==
    /\ state \in [TaskIds -> TaskState]
    /\ ticks \in [TaskIds -> 0 .. TICK_MOD - 1]
    /\ built \subseteq TaskIds
    /\ rq \in [CPUs -> [TaskIds -> TaskIds \cup {NULL}]]
    /\ cnt \in [CPUs -> 0 .. NR_TASKS]
    /\ nextCPU \in CPUs
    /\ cur \in [CPUs -> TaskIds]
    /\ lock \in CPUs \cup {NULL}
    /\ pc \in [CPUs -> PC]
    /\ ts \in [CPUs -> TaskIds \cup {NULL}]
    /\ tgt \in [CPUs -> 0 .. ncpu]
    /\ idx \in [CPUs -> 0 .. NR_TASKS]
    /\ spill \in 0 .. SPILL_WORDS
    /\ wild \in BOOLEAN

\* The task-table critical sections of task_create and sys_kill exclude each
\* other, also after task_create has returned with the lock still held.
TableExclusive ==
    \A c, d \in CPUs :
        /\ pc[c] \in {"create", "release"}
        /\ pc[d] \in {"create", "release"}
        => c = d

\* However many tasks are killed, and wherever, the boot CPU's runqueue keeps
\* the shell as its first entry (sys_kill's loop index is at least 1 when it
\* drops an entry, and the "pid > 0" guard spares task 0).
ShellListed == rq[0][0] = 0 /\ cnt[0] >= 1

\* What survives kills, several forkers and a page_alloc that fails: the critical
\* sections on the table exclude each other, and the shell keeps its entry.
TableSound == TableExclusive /\ ShellListed

\* No task is the current task of two CPUs: sys_fork lists a task in one
\* runqueue and sched_yield only looks at its own.
OneCpuPerTask == \A c, d \in CPUs : c # d => cur[c] # cur[d]

\* The task in front of the user is alive: marked RUNNING, and its stack and
\* page directory exist (not yet freed by sys_kill, already built by sys_fork).
UserTaskAlive ==
    \A c \in CPUs : pc[c] = "user" => state[cur[c]] = "RUNNING" /\ cur[c] \in built

InFork(t) == \E c \in CPUs : ts[c] = t /\ pc[c] \in {"copy", "load", "store", "count"}
Listed(t) == \E c \in CPUs : \E i \in Slots(c) : rq[c][i] = t

\* Once sys_fork is done with a task, some CPU's runqueue lists it: it can be
\* scheduled, and its sleep is counted down.
NoTaskLost == \A t \in TaskIds : state[t] # "FREE" /\ ~InFork(t) => Listed(t)

\* No runqueue entry is listed twice, within one runqueue or in two.
ListedOnce ==
    \A c, d \in CPUs : \A i \in Slots(c), j \in Slots(d) :
        rq[c][i] = rq[d][j] => c = d /\ i = j

\* No CPU ends in page_fault_handler: timer_handler and sched_yield meet no NULL
\* entry, and sched_yield always finds a RUNNABLE task.
NoFault == \A c \in CPUs : pc[c] \notin {"fault", "loop"}

\* While only the shell forks and nothing kills, the unlocked runqueues stay right:
\* no task is lost between task_create and a runqueue, none is listed twice, no CPU
\* faults, and the task in front of the user is alive.
ListsSound == NoTaskLost /\ ListedOnce /\ NoFault /\ UserTaskAlive

\* "do not schedule idle task if there are still another process can run":
\* sched_yield picks an idle task only when nothing else it lists is RUNNABLE.
IdleLast ==
    [][\A c \in CPUs :
        pc[c] = "sched" /\ ts'[c] \in IdleTasks =>
            \A i \in Slots(c) : rq[c][i] # ts'[c] => state[rq[c][i]] # "RUNNABLE"]_vars

\* A sleeping task is woken, even one that called sleep(0): the timer of the CPU
\* that lists it counts it down, unless that CPU has stopped in panic.
SleepersWake ==
    \A t \in TaskIds :
        state[t] = "SLEEP" ~>
            \/ state[t] # "SLEEP"
            \/ \E c \in CPUs : pc[c] = "panic" /\ \E i \in Slots(c) : rq[c][i] = t

-----------------------------------------------------------------------------
\* "the task will be removed form cpu runqueue" (sys_kill): when sys_kill calls
\* sched_yield, no runqueue lists the task it killed.
KillUnlists ==
    \A c \in CPUs : pc[c] = "sched" /\ state[cur[c]] = "FREE" => ~Listed(cur[c])
=============================================================================
