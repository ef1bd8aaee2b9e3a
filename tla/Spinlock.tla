------------------------------ MODULE Spinlock ------------------------------
(***************************************************************************)
(* One spinlock (kernel/spinlock.c, built with DEBUG_SPINLOCK) and the     *)
(* CPUs that use it in pairs, spin_lock ... spin_unlock, as page_alloc,    *)
(* page_free, do_puts and the successful path of task_create do.  A        *)
(* careless CPU also returns with the lock held, as task_create does when  *)
(* it finds no free task, or unlocks what it does not hold.                *)
(*                                                                         *)
(* lk->locked and lk->cpu are separate words: holding() reads one, then    *)
(* the other, and the owner is recorded after the xchg that takes the lock *)
(* and cleared before the xchg that releases it.  Every access is a step.  *)
(***************************************************************************)
CONSTANTS CPU, NoCpu,
          Careless    \* the CPUs that may be careless

ASSUME SpinlockAssumption == NoCpu \notin CPU /\ Careless \subseteq CPU

VARIABLES
    locked,     \* lk->locked
    cpu,        \* lk->cpu, NoCpu for 0
    pc,         \* where each CPU is
    careless    \* the CPUs that are careless, the same all the time

vars == <<locked, cpu, pc, careless>>

PC == {"out", "lock", "lock2", "spin", "record", "in",
       "unlock", "unlock2", "clear", "release", "panic"}

Goto(c, from, to) == pc[c] = from /\ pc' = [pc EXCEPT ![c] = to]

(* __spin_initlock *)
Init ==
    /\ locked = FALSE
    /\ cpu = NoCpu
    /\ pc = [c \in CPU |-> "out"]
    /\ careless \in SUBSET Careless

-----------------------------------------------------------------------------
Call(c) == Goto(c, "out", "lock") /\ UNCHANGED <<locked, cpu>>

(* spin_lock: panic if holding(lk), which reads locked, then cpu. *)
LockCheck(c) ==
    /\ \/ ~locked /\ Goto(c, "lock", "spin")
       \/ locked /\ Goto(c, "lock", "lock2")
    /\ UNCHANGED <<locked, cpu>>

\* Mutant of LockCheckOwner: holding() ignores who holds the lock.
LockCheckOwner_Any(c) == Goto(c, "lock2", "panic") /\ UNCHANGED <<locked, cpu>>

LockCheckOwner(c) ==
    /\ \/ cpu # c /\ Goto(c, "lock2", "spin")
       \/ cpu = c /\ Goto(c, "lock2", "panic")
    /\ UNCHANGED <<locked, cpu>>

\* Mutant of Xchg: a store that does not look at the old value.
Xchg_Plain(c) ==
    /\ Goto(c, "spin", "record")
    /\ locked' = TRUE
    /\ UNCHANGED cpu

\* while (xchg(&lk->locked, 1) != 0): a failed exchange stores the 1 it finds.
Spin(c) == pc[c] = "spin" /\ locked /\ UNCHANGED vars

Xchg(c) ==
    /\ Goto(c, "spin", "record")
    /\ ~locked
    /\ locked' = TRUE
    /\ UNCHANGED cpu

Record(c) ==
    /\ Goto(c, "record", "in")
    /\ cpu' = c
    /\ UNCHANGED locked

\* The caller returns without spin_unlock (task_create's "return -1").
Forget(c) ==
    /\ c \in careless
    /\ Goto(c, "in", "out")
    /\ UNCHANGED <<locked, cpu>>

StrayUnlock(c) ==
    /\ c \in careless
    /\ Goto(c, "out", "unlock")
    /\ UNCHANGED <<locked, cpu>>

(* spin_unlock: unless holding(lk), panic (or fault: it prints lk->cpu->cpu_id). *)
Unlock(c) == Goto(c, "in", "unlock") /\ UNCHANGED <<locked, cpu>>

UnlockCheck(c) ==
    /\ \/ locked /\ Goto(c, "unlock", "unlock2")
       \/ ~locked /\ Goto(c, "unlock", "panic")
    /\ UNCHANGED <<locked, cpu>>

\* Mutant of UnlockCheckOwner: any CPU may unlock.
UnlockCheckOwner_Any(c) == Goto(c, "unlock2", "clear") /\ UNCHANGED <<locked, cpu>>

UnlockCheckOwner(c) ==
    /\ \/ cpu = c /\ Goto(c, "unlock2", "clear")
       \/ cpu # c /\ Goto(c, "unlock2", "panic")
    /\ UNCHANGED <<locked, cpu>>

Clear(c) ==
    /\ Goto(c, "clear", "release")
    /\ cpu' = NoCpu
    /\ UNCHANGED locked

\* Mutant of XchgRelease: the word is left at 1.
XchgRelease_Dropped(c) == Goto(c, "release", "out") /\ UNCHANGED <<locked, cpu>>

XchgRelease(c) ==
    /\ Goto(c, "release", "out")
    /\ locked' = FALSE
    /\ UNCHANGED cpu

-----------------------------------------------------------------------------
Acquire(c) == LockCheck(c) \/ LockCheckOwner(c) \/ Spin(c) \/ Xchg(c) \/ Record(c)

Release(c) ==
    Unlock(c) \/ UnlockCheck(c) \/ UnlockCheckOwner(c) \/ Clear(c) \/ XchgRelease(c)

Next ==
    /\ UNCHANGED careless
    /\ \E c \in CPU : Call(c) \/ Acquire(c) \/ Release(c) \/ Forget(c) \/ StrayUnlock(c)

Spec == Init /\ [][Next]_vars

(***************************************************************************)
(* A CPU keeps executing its kernel code, and a critical section ends; no  *)
(* CPU is bound to call spin_lock, and the xchg race has no fair winner.   *)
(***************************************************************************)
FairSpec ==
    Spec /\ \A c \in CPU : /\ WF_vars(Acquire(c) /\ UNCHANGED careless)
                           /\ WF_vars(Release(c) /\ UNCHANGED careless)

-----------------------------------------------------------------------------
\* locked is a bit, lk->cpu is 0 or a CPU that exists.
TypeOK ==
    /\ locked \in BOOLEAN
    /\ cpu \in CPU \cup {NoCpu}
    /\ pc \in [CPU -> PC]
    /\ careless \subseteq Careless

\* c has won the exchange and has not released: it is in the code between the
\* two, or it is the recorded owner.
Holds(c) == pc[c] \in {"record", "in", "clear", "release"} \/ cpu = c

\* At most one CPU holds the lock, whatever careless CPUs do: spin_unlock by a
\* CPU that is not the recorded owner panics instead of releasing.
MutualExclusion == \A c, d \in CPU : Holds(c) /\ Holds(d) => c = d

\* The debug checks never stop a CPU that pairs its calls, although holding()
\* reads two words that other CPUs are changing.
NoFalsePanic == \A c \in CPU \ careless : pc[c] # "panic"

\* When CPUs that pair their calls are waiting in spin_lock, one of them gets in.
Progress ==
    careless = {} /\ (\E c \in CPU : pc[c] \in {"lock", "lock2", "spin"})
      ~> (\E c \in CPU : pc[c] = "in")

(***************************************************************************)
(* The refinement mapping to Mutex, for CPUs that pair their calls: what   *)
(* the others do is mapped to a lock that nobody uses.                     *)
(***************************************************************************)
holderBar == IF careless = {} /\ \E c \in CPU : Holds(c) THEN CHOOSE c \in CPU : Holds(c) ELSE NoCpu

PhaseOf(p) ==
    CASE p \in {"lock", "lock2", "spin", "record"} -> "waiting"
      [] p = "in" -> "inside"
      [] p \in {"unlock", "unlock2", "clear", "release"} -> "leaving"
      [] OTHER -> "out"

phaseBar == [c \in CPU |-> IF careless = {} THEN PhaseOf(pc[c]) ELSE "out"]

M == INSTANCE Mutex WITH holder <- holderBar, phase <- phaseBar

\* The spinlock implements the atomic lock, for CPUs that pair their calls.
ImplementsMutex == M!MSpec
=============================================================================
