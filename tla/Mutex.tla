------------------------------- MODULE Mutex -------------------------------
(***************************************************************************)
(* What a spinlock of nctuOS promises its users: an atomic lock.  Each CPU *)
(* is outside, waiting in spin_lock, inside the critical section, or       *)
(* leaving through spin_unlock; at most one CPU is inside or leaving.      *)
(***************************************************************************)
CONSTANT CPU, NoCpu

VARIABLES holder, phase

mvars == <<holder, phase>>

MInit ==
    /\ holder = NoCpu
    /\ phase = [c \in CPU |-> "out"]

Request(c) ==
    /\ phase[c] = "out"
    /\ phase' = [phase EXCEPT ![c] = "waiting"]
    /\ UNCHANGED holder

Acquire(c) ==
    /\ phase[c] = "waiting"
    /\ holder = NoCpu
    /\ holder' = c
    /\ UNCHANGED phase

Enter(c) ==
    /\ phase[c] = "waiting"
    /\ holder = c
    /\ phase' = [phase EXCEPT ![c] = "inside"]
    /\ UNCHANGED holder

Leave(c) ==
    /\ phase[c] = "inside"
    /\ holder = c
    /\ phase' = [phase EXCEPT ![c] = "leaving"]
    /\ UNCHANGED holder

Release(c) ==
    /\ phase[c] = "leaving"
    /\ holder = c
    /\ holder' = NoCpu
    /\ phase' = [phase EXCEPT ![c] = "out"]

MNext == \E c \in CPU : Request(c) \/ Acquire(c) \/ Enter(c) \/ Leave(c) \/ Release(c)

MSpec == MInit /\ [][MNext]_mvars
=============================================================================
