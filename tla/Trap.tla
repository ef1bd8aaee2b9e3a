-------------------------------- MODULE Trap --------------------------------
(***************************************************************************)
(* How one CPU of nctuOS enters and leaves the kernel (kernel/trap.c,      *)
(* kernel/trap_entry.S, syscall_handler and syscall_init in                *)
(* kernel/syscall.c, the gates of kernel/timer.c).                         *)
(*                                                                         *)
(* A timer interrupt enters through an interrupt gate: interrupts are off. *)
(* A system call enters through a trap gate, which leaves them on, and     *)
(* trap_dispatch turns them off before it copies the frame from the kernel *)
(* stack to the task.  In between the CPU is at "gate": a timer interrupt  *)
(* may nest there, and its sched_yield never comes back to the outer       *)
(* frame, because the next entry from user mode starts a fresh stack.      *)
(*                                                                         *)
(* A program is a sequence of instructions 0 .. LENGTH - 1; those in       *)
(* SysCalls are "int T_SYSCALL".  The scheduler may pick any task.         *)
(***************************************************************************)
EXTENDS Integers, Sequences

CONSTANTS
    Task,
    CODE_LENGTH,      \* bound: the instructions of a program
    SysCalls     \* the instructions that are system calls

VARIABLES
    mode,       \* "user", "gate" or "kernel"
    cur,        \* thiscpu->cpu_task
    eip,        \* the next instruction of cur, in user mode
    frame,      \* the eip of the frame that the system call pushed
    tf,         \* tasks[t].tf: where each task restarts
    left,       \* where each task last left user mode
    calls       \* the system calls performed for each task, in order

trapVars == <<mode, cur, eip, frame, tf, left, calls>>

TrapInit ==
    /\ mode = "user"
    /\ cur \in Task
    /\ eip = 0
    /\ frame = 0
    /\ tf = [t \in Task |-> 0]
    /\ left = [t \in Task |-> 0]
    /\ calls = [t \in Task |-> <<>>]

-----------------------------------------------------------------------------
Execute ==
    /\ mode = "user"
    /\ eip < CODE_LENGTH /\ eip \notin SysCalls
    /\ eip' = eip + 1
    /\ UNCHANGED <<mode, cur, frame, tf, left, calls>>

\* "int T_SYSCALL" pushes the address of the instruction after it.
SysCallGate ==
    /\ mode = "user"
    /\ eip \in SysCalls
    /\ mode' = "gate"
    /\ frame' = eip + 1
    /\ left' = [left EXCEPT ![cur] = eip + 1]
    /\ UNCHANGED <<cur, eip, tf, calls>>

\* sched_yield and env_pop_tf: the frame of the task picked is popped.
Switch(frames) ==
    \E t \in Task :
        /\ cur' = t
        /\ eip' = frames[t]
        /\ mode' = "user"

Resume(frames) == cur' = cur /\ eip' = frames[cur] /\ mode' = "user"

\* Mutant: the frame stays on the kernel stack, cur_task->tf keeps the old one.
Dispatch_NoCopy ==
    /\ mode = "gate"
    /\ mode' = "kernel"
    /\ calls' = [calls EXCEPT ![cur] = Append(@, frame - 1)]
    /\ UNCHANGED <<cur, eip, frame, tf, left>>

\* trap_dispatch for a system call: cli, the copy of the frame, the handler.
Dispatch ==
    /\ mode = "gate"
    /\ mode' = "kernel"
    /\ tf' = [tf EXCEPT ![cur] = frame]
    /\ calls' = [calls EXCEPT ![cur] = Append(@, frame - 1)]
    /\ UNCHANGED <<cur, eip, frame, left>>

\* The call returns to the caller, or it is sleep or kill and yields.
SysCallEnds ==
    /\ mode = "kernel"
    /\ Resume(tf) \/ Switch(tf)
    /\ UNCHANGED <<frame, tf, left, calls>>

\* The whole of a timer interrupt from user mode.
TimerFromUser ==
    /\ mode = "user"
    /\ tf' = [tf EXCEPT ![cur] = eip]
    /\ left' = [left EXCEPT ![cur] = eip]
    /\ Resume(tf') \/ Switch(tf')
    /\ UNCHANGED <<frame, calls>>

\* A nested one: the frame is the kernel's, so nothing is copied.  One that ends
\* no time slice returns to the gate.
TimerInGate ==
    /\ mode = "gate"
    /\ Switch(tf)
    /\ UNCHANGED <<frame, tf, left, calls>>

TrapNext ==
    Execute \/ SysCallGate \/ Dispatch \/ SysCallEnds \/ TimerFromUser \/ TimerInGate

TrapSpec == TrapInit /\ [][TrapNext]_trapVars

-----------------------------------------------------------------------------
\* A restart point is an instruction of the program or its end.
TrapTypeOK ==
    /\ mode \in {"user", "gate", "kernel"}
    /\ cur \in Task
    /\ eip \in 0 .. CODE_LENGTH
    /\ frame \in 0 .. CODE_LENGTH
    /\ tf \in [Task -> 0 .. CODE_LENGTH]
    /\ left \in [Task -> 0 .. CODE_LENGTH]
    /\ \A t \in Task : \A i \in DOMAIN calls[t] : calls[t][i] \in SysCalls

\* No system call is performed twice or out of program order, and none is passed
\* over, although a nested timer interrupt drops the frame of one that was
\* entered: the task comes back to a point before it.
CallsInOrder ==
    \A t \in Task :
        LET at == IF t = cur /\ mode = "user" THEN eip ELSE tf[t]
        IN  /\ \A i, j \in DOMAIN calls[t] : i < j => calls[t][i] < calls[t][j]
            /\ {n \in SysCalls : n < at} = {calls[t][i] : i \in DOMAIN calls[t]}

\* "running the environment will restart at the trap point" (trap_dispatch): a
\* task that does not run restarts where it left user mode.
RestartsAtTrapPoint == \A t \in Task \ {cur} : tf[t] = left[t]
=============================================================================
