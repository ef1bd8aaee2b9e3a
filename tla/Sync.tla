-------------------------------- MODULE Sync --------------------------------
(*****************************************************************************)
(* Processes and threads that wait for each other: TELL and WAIT, semaphores *)
(* with a use count, and messages of threads.                                *)
(*****************************************************************************)
EXTENDS Integers, FiniteSets

(* apue.2e/lib/tellwait.c in the use advio/devzero.c makes of it: parent and *)
(* child tell each other with SIGUSR1 and SIGUSR2 whose turn it is to add to *)
(* a counter in shared memory.  Delivery of signals is the kernel's.         *)
CONSTANTS NLOOPS       \* bound: turns, even
VARIABLES tellPc, turn, sigflag, tellBlocked, tellPending, counter, wrong
tellVars == <<tellPc, turn, sigflag, tellBlocked, tellPending, counter, wrong>>

TellProcs == {"parent", "child"}
Other(p) == IF p = "parent" THEN "child" ELSE "parent"

\* TELL_WAIT () blocks both signals before the fork ().
TELL_WAIT == [p \in TellProcs |-> TRUE]
TellInit ==
    /\ tellBlocked = TELL_WAIT /\ tellPending = [p \in TellProcs |-> FALSE]
    /\ sigflag = [p \in TellProcs |-> 0] /\ counter = 0 /\ wrong = FALSE
    /\ tellPc = [p \in TellProcs |-> IF p = "parent" THEN "update" ELSE "test"]
    /\ turn = [p \in TellProcs |-> IF p = "parent" THEN 0 ELSE 1]

TellGoto(p, l) == tellPc' = [tellPc EXCEPT ![p] = l]

\* sig_usr (): when the signal is not blocked, or in sigsuspend ().
sig_usr(p) ==
    /\ tellPending[p] /\ (~tellBlocked[p] \/ tellPc[p] = "asleep") /\ tellPc[p] # "end"
    /\ tellPending' = [tellPending EXCEPT ![p] = FALSE] /\ sigflag' = [sigflag EXCEPT ![p] = 1]
    /\ tellPc' = [tellPc EXCEPT ![p] = IF @ = "asleep" THEN "test" ELSE @]
    /\ UNCHANGED <<turn, tellBlocked, counter, wrong>>

\* Mutant of TellWait: sigflag is not reset.
Wait_KeepFlag(p) ==
    \/ /\ tellPc[p] = "test" /\ TellGoto(p, IF sigflag[p] = 0 THEN "suspend" ELSE "told")
       /\ UNCHANGED <<sigflag, tellBlocked>>
    \/ tellPc[p] = "suspend" /\ TellGoto(p, "asleep") /\ UNCHANGED <<sigflag, tellBlocked>>
    \/ /\ tellPc[p] = "told" /\ tellBlocked' = [tellBlocked EXCEPT ![p] = FALSE]
       /\ TellGoto(p, IF p = "child" THEN "update" ELSE "next") /\ UNCHANGED sigflag
\* WAIT_PARENT () and WAIT_CHILD (): the test, the sigsuspend (), and the mask
\* put back to what it was before TELL_WAIT ().
TellWait(p) ==
    \/ /\ tellPc[p] = "test" /\ TellGoto(p, IF sigflag[p] = 0 THEN "suspend" ELSE "told")
       /\ UNCHANGED <<sigflag, tellBlocked>>
    \/ tellPc[p] = "suspend" /\ TellGoto(p, "asleep") /\ UNCHANGED <<sigflag, tellBlocked>>
    \/ /\ tellPc[p] = "told" /\ sigflag' = [sigflag EXCEPT ![p] = 0]
       /\ TellGoto(p, "unmask") /\ UNCHANGED tellBlocked
    \/ /\ tellPc[p] = "unmask" /\ tellBlocked' = [tellBlocked EXCEPT ![p] = FALSE]
       /\ TellGoto(p, IF p = "child" THEN "update" ELSE "next") /\ UNCHANGED sigflag
WAIT(p) == TellWait(p) /\ UNCHANGED <<turn, tellPending, counter, wrong>>

\* One turn of the loop; err_quit () when the counter is not what is expected.
Turn(p) ==
    /\ tellPc[p] = "update" /\ wrong' = (wrong \/ counter # turn[p]) /\ counter' = counter + 1
    /\ TellGoto(p, "tell") /\ UNCHANGED <<turn, sigflag, tellBlocked, tellPending>>
\* TELL_CHILD () and TELL_PARENT (); then the parent waits, the child goes on
\* to its next turn.
TELL(p) ==
    /\ tellPc[p] = "tell"
    /\ tellPending' = IF tellPc[Other(p)] = "end" THEN tellPending ELSE [tellPending EXCEPT ![Other(p)] = TRUE]
    /\ TellGoto(p, IF p = "child" THEN "next" ELSE "test")
    /\ UNCHANGED <<turn, sigflag, tellBlocked, counter, wrong>>
Again(p) ==
    /\ tellPc[p] = "next" /\ turn' = [turn EXCEPT ![p] = @ + 2]
    /\ TellGoto(p, IF turn[p] + 2 >= (IF p = "parent" THEN NLOOPS ELSE NLOOPS + 1) THEN "end"
                   ELSE IF p = "parent" THEN "update" ELSE "test")
    /\ UNCHANGED <<sigflag, tellBlocked, tellPending, counter, wrong>>

Run(p) == WAIT(p) \/ Turn(p) \/ TELL(p) \/ Again(p) \/ sig_usr(p)
TellNext == \E p \in TellProcs : Run(p)
TellSpec == TellInit /\ [][TellNext]_tellVars /\ \A p \in TellProcs : WF_tellVars(Run(p))

-----------------------------------------------------------------------------
\* The two take turns: whenever one adds, the counter is the one it expects,
\* in every interleaving of the signals with the tests of sigflag.
TurnsTaken == ~wrong /\ counter <= NLOOPS

Round(p) == IF p = "parent" THEN turn[p] \div 2 ELSE (turn[p] - 1) \div 2
Missed == \E p \in TellProcs : tellPc[p] = "asleep" /\ sigflag[p] = 1 /\ Round(p) > 0
\* A wait ends.  The mask is put back after the first one, so in a later round
\* the signal may come between the test and the sigsuspend (), and is missed:
\* then both sleep for ever.
WaitEnds == \A p \in TellProcs : tellPc[p] = "asleep" ~> tellPc[p] # "asleep" \/ Missed

-----------------------------------------------------------------------------
(* apue.2e/lib/semaph.c: named semaphores on a System V set of three         *)
(* members, [0] the value, [1] the count of processes, [2] a lock.  Every    *)
(* semop () carries SEM_UNDO, so a process that ends at any point gives back *)
(* what it took.  The kernel's side (identifiers, adjustments, the error a   *)
(* sleeper gets when its set is removed) is external.  Callers take and give *)
(* the semaphore in pairs and close it when they do not hold it.             *)
CONSTANTS SemProcs, BIGCOUNT, INITVAL,
          MAXIDS,      \* bound: sets created over time
          MAXCRASH     \* bound: processes that end without closing
VARIABLES id, ids, sem, adj, semPc, my, semHow, holds, crashes
semVars == <<id, ids, sem, adj, semPc, my, semHow, holds, crashes>>

\* id: the set the key names, or 0; ids: sets made so far; sem: the values of
\* that set; adj: what the kernel adds back when a process exits.
Zero == [k \in 0..2 |-> 0]
D(a, b, c) == [k \in 0..2 |-> IF k = 0 THEN a ELSE IF k = 1 THEN b ELSE c]
SemInit ==
    /\ id = 0 /\ ids = 0 /\ sem = Zero /\ adj = [p \in SemProcs |-> Zero]
    /\ semPc = [p \in SemProcs |-> "out"] /\ my = [p \in SemProcs |-> 0]
    /\ semHow = [p \in SemProcs |-> "none"]
    /\ holds = [p \in SemProcs |-> FALSE] /\ crashes = 0

SemGoto(p, l) == semPc' = [semPc EXCEPT ![p] = l]
Valid(p) == my[p] = id /\ id # 0
Kept == <<id, ids, my, semHow, crashes>>

\* A semop () of SEM_UNDO operations on the members, all or none; locks: it
\* first waits for [2] to be zero.
Ready(d, locks) == (locks => sem[2] = 0) /\ \A k \in 0..2 : sem[k] + d[k] >= 0
Semop(p, d) == /\ sem' = [k \in 0..2 |-> sem[k] + d[k]]
               /\ adj' = [adj EXCEPT ![p] = [k \in 0..2 |-> @[k] - d[k]]]
op_lock == D(0, 0, 1)
\* Mutant of op_endcreate: the new user is not counted.
op_endcreate_Uncounted == D(0, 0, -1)
op_endcreate == D(0, -1, -1)
op_open == D(0, -1, 0)
op_close == D(0, 1, 1)
op_unlock == D(0, 0, -1)

\* exit (): the adjustments are applied, no value below zero.
Undone(p) == IF Valid(p)
             THEN [k \in 0..2 |-> IF sem[k] + adj[p][k] < 0 THEN 0 ELSE sem[k] + adj[p][k]]
             ELSE sem
Exit(p, l) == /\ SemGoto(p, l) /\ sem' = Undone(p)
              /\ adj' = [adj EXCEPT ![p] = Zero]
              /\ holds' = [holds EXCEPT ![p] = FALSE]
err_sys(p) == Exit(p, "quit") /\ UNCHANGED Kept

\* One semop () of p: done, or asleep, or the identifier is gone (EINVAL).
Attempt(p, d, locks, done, asleep) ==
    /\ Valid(p)
    /\ IF Ready(d, locks) THEN Semop(p, d) /\ SemGoto(p, done)
       ELSE semPc[p] # asleep /\ SemGoto(p, asleep) /\ UNCHANGED <<sem, adj>>
    /\ UNCHANGED <<Kept, holds>>

-----------------------------------------------------------------------------
\* sem_create (): the set is made if the key has none, then locked.
sem_create(p) ==
    /\ semPc[p] \in {"out", "again"}
    /\ id = 0 => ids < MAXIDS
    /\ id' = IF id = 0 THEN ids + 1 ELSE id
    /\ ids' = IF id = 0 THEN ids + 1 ELSE ids
    /\ sem' = IF id = 0 THEN Zero ELSE sem
    /\ my' = [my EXCEPT ![p] = id'] /\ semHow' = [semHow EXCEPT ![p] = "create"]
    /\ SemGoto(p, "c_got") /\ UNCHANGED <<adj, holds, crashes>>

CreateLock(p) ==
    /\ semPc[p] \in {"c_got", "c_sleep"}
    /\ \/ Attempt(p, op_lock, TRUE, "c_locked", "c_sleep")
       \/ ~Valid(p) /\ SemGoto(p, "again") /\ UNCHANGED <<Kept, sem, adj, holds>>

\* A SETVAL also forgets every process's adjustment of that member.
Setval(k, v) == /\ sem' = [sem EXCEPT ![k] = v]
                /\ adj' = [p \in SemProcs |-> [adj[p] EXCEPT ![k] = 0]]
CreateInit(p) ==
    /\ \/ semPc[p] = "c_locked" /\ sem[1] = 0 /\ Setval(0, INITVAL) /\ SemGoto(p, "c_set0")
       \/ semPc[p] = "c_set0" /\ Setval(1, BIGCOUNT) /\ SemGoto(p, "c_init")
       \/ semPc[p] = "c_locked" /\ sem[1] # 0 /\ SemGoto(p, "c_init") /\ UNCHANGED <<sem, adj>>
    /\ UNCHANGED <<Kept, holds>>
EndCreate(p) == semPc[p] = "c_init" /\ Attempt(p, op_endcreate, FALSE, "in", "none")

\* sem_open (): of an existing set, its counter taken down without the lock.
sem_open(p) ==
    /\ semPc[p] = "out" /\ id # 0
    /\ my' = [my EXCEPT ![p] = id] /\ semHow' = [semHow EXCEPT ![p] = "open"]
    /\ SemGoto(p, "o_got") /\ UNCHANGED <<id, ids, sem, adj, holds, crashes>>
OpenCount(p) ==
    /\ semPc[p] \in {"o_got", "o_sleep"}
    /\ \/ Attempt(p, op_open, FALSE, "in", "o_sleep")
       \/ ~Valid(p) /\ err_sys(p)

\* sem_op (): sem_wait () takes one, sem_signal () gives it back.
sem_op(p, value) ==
    /\ semPc[p] \in {"in", "w_sleep"}
    /\ value = (IF holds[p] THEN 1 ELSE -1)
    /\ \/ /\ Valid(p) /\ Ready(D(value, 0, 0), FALSE) /\ Semop(p, D(value, 0, 0))
          /\ SemGoto(p, "in") /\ holds' = [holds EXCEPT ![p] = value < 0]
          /\ UNCHANGED Kept
       \/ /\ Valid(p) /\ ~Ready(D(value, 0, 0), FALSE) /\ semPc[p] = "in"
          /\ SemGoto(p, "w_sleep") /\ UNCHANGED <<Kept, sem, adj, holds>>
       \/ ~Valid(p) /\ err_sys(p)

\* sem_close (): locks and counts in one call, and the last process removes
\* the set; a process asleep on a removed set gets EIDRM, which no caller
\* treats as EINVAL.
sem_close(p) ==
    /\ (semPc[p] = "in" /\ ~holds[p]) \/ semPc[p] = "x_sleep"
    /\ \/ Attempt(p, op_close, TRUE, "x_locked", "x_sleep")
       \/ ~Valid(p) /\ err_sys(p)
CloseCheck(p) ==
    /\ semPc[p] = "x_locked" /\ sem[1] <= BIGCOUNT
    /\ SemGoto(p, IF sem[1] = BIGCOUNT THEN "x_rm" ELSE "x_un")
    /\ UNCHANGED <<Kept, sem, adj, holds>>
Asleep == {"c_sleep", "o_sleep", "w_sleep", "x_sleep"}
sem_rm(p) ==
    /\ semPc[p] = "x_rm"
    /\ id' = 0 /\ sem' = Zero /\ adj' = [q \in SemProcs |-> Zero]
    /\ semPc' = [q \in SemProcs |-> IF q = p THEN "out"
                                    ELSE IF semPc[q] \in Asleep /\ Valid(q) THEN "quit" ELSE semPc[q]]
    /\ UNCHANGED <<ids, my, semHow, holds, crashes>>
CloseUnlock(p) == semPc[p] = "x_un" /\ Attempt(p, op_unlock, FALSE, "out", "none")

\* A process that ends anywhere, sem_close () not called.
Crash(p) ==
    /\ semPc[p] \notin {"out", "quit"} /\ crashes < MAXCRASH /\ crashes' = crashes + 1
    /\ Exit(p, "out") /\ UNCHANGED <<id, ids, my, semHow>>

SemCall(p) ==
    \/ CreateLock(p) \/ CreateInit(p) \/ EndCreate(p) \/ OpenCount(p)
    \/ CloseCheck(p) \/ sem_rm(p) \/ CloseUnlock(p)
    \/ semPc[p] = "x_sleep" /\ sem_close(p)
SemNext == \E p \in SemProcs :
       \/ sem_create(p) \/ sem_open(p) \/ SemCall(p) \/ Crash(p)
       \/ sem_close(p) \/ \E v \in {-1, 1} : sem_op(p, v)
\* A call that has begun goes on, and the kernel wakes sleepers in turn.
SemSpec == SemInit /\ [][SemNext]_semVars /\ \A p \in SemProcs : SF_semVars(SemCall(p))

-----------------------------------------------------------------------------
SemTypeOK ==
    /\ id \in 0..MAXIDS /\ ids \in 0..MAXIDS /\ sem \in [0..2 -> Int]
    /\ my \in [SemProcs -> 0..MAXIDS] /\ holds \in [SemProcs -> BOOLEAN]

SemCounted == {"in", "w_sleep", "x_sleep"}
\* The counter of [1] is BIGCOUNT less the processes that have the set open,
\* whoever ended without sem_close (): so the test for the last one is right
\* and "sem[1] > BIGCOUNT" never dumps.
CountRight ==
    id # 0 /\ sem[1] # 0
      => sem[1] = BIGCOUNT - Cardinality({p \in SemProcs : Valid(p) /\ semPc[p] \in SemCounted})

\* Once initialised the value is the initial one less its holders: a second
\* sem_create () does not set it again and an exit gives it back.
ValueKept ==
    id # 0 /\ sem[1] # 0
      => sem[0] = INITVAL - Cardinality({p \in SemProcs : Valid(p) /\ holds[p]})

\* The set is never removed under a process that came in by sem_create ():
\* the lock orders it with sem_close () (sem_open () takes no lock, and may
\* lose the set between the test of the counter and the removal).
CreatorSafe ==
    \A p \in SemProcs : semPc[p] \in SemCounted /\ semHow[p] = "create" => Valid(p)

\* What sem_create () to sem_close () promise their callers: a set that counts
\* its users and its holders, and stays as long as a creator uses it.
SemaphRight == CountRight /\ ValueKept /\ CreatorSafe

\* Whoever sleeps for the lock gets on, also when its holder ends.
LockPasses ==
    \A p \in SemProcs : semPc[p] \in {"c_sleep", "x_sleep"} ~> semPc[p] \notin {"c_sleep", "x_sleep"}

-----------------------------------------------------------------------------
(* pth_semaphore.c of Parallel_Programming/1_pthread: every thread leaves a  *)
(* message for the next one, posts its semaphore and waits for its own; main *)
(* creates the threads, joins them and frees the messages.                   *)
CONSTANT MAXT              \* bound: threads
VARIABLES thread_count, messages, semaphores, at, main, pthPrinted, freed
pthVars == <<thread_count, messages, semaphores, at, main, pthPrinted, freed>>

T == 0..(MAXT - 1)
Live == 0..(thread_count - 1)
PthNobody == -1
\* messages[r] is the thread that wrote it; main is a step and a thread.
PthInit ==
    /\ thread_count \in 1..MAXT /\ messages = [r \in T |-> PthNobody] /\ semaphores = [r \in T |-> 0]
    /\ at = [r \in T |-> "none"] /\ main = <<"create", 0>> /\ pthPrinted = [r \in T |-> PthNobody] /\ freed = {}

dest(r) == (r + 1) % thread_count
source(r) == (r + thread_count - 1) % thread_count

\* pthread_create, pthread_join and the freeing loop, a thread at a time.
PthMain ==
    /\ main[1] # "end"
    /\ CASE main[1] = "create" ->
              at' = [at EXCEPT ![main[2]] = "write"] /\ UNCHANGED <<freed, semaphores>>
         [] main[1] = "join" -> at[main[2]] = "ended" /\ UNCHANGED <<at, freed, semaphores>>
         [] main[1] = "free" -> freed' = freed \cup {messages[main[2]]} /\ UNCHANGED <<at, semaphores>>
    /\ main' = IF main[2] + 1 < thread_count THEN <<main[1], main[2] + 1>>
               ELSE <<IF main[1] = "create" THEN "join" ELSE IF main[1] = "join" THEN "free" ELSE "end", 0>>
    /\ UNCHANGED <<thread_count, messages, pthPrinted>>

To(r, step) == at' = [at EXCEPT ![r] = step]
Write(r) ==
    /\ at[r] = "write" /\ messages' = [messages EXCEPT ![dest(r)] = r] /\ To(r, "post")
    /\ UNCHANGED <<thread_count, semaphores, main, pthPrinted, freed>>
\* Mutant of Post: a thread posts its own semaphore.
Post_Own(r) ==
    /\ at[r] = "post" /\ semaphores' = [semaphores EXCEPT ![r] = @ + 1] /\ To(r, "wait")
    /\ UNCHANGED <<thread_count, messages, main, pthPrinted, freed>>
Post(r) ==
    /\ at[r] = "post" /\ semaphores' = [semaphores EXCEPT ![dest(r)] = @ + 1] /\ To(r, "wait")
    /\ UNCHANGED <<thread_count, messages, main, pthPrinted, freed>>
PthWait(r) ==
    /\ at[r] = "wait" /\ semaphores[r] > 0 /\ semaphores' = [semaphores EXCEPT ![r] = @ - 1] /\ To(r, "print")
    /\ UNCHANGED <<thread_count, messages, main, pthPrinted, freed>>
Show(r) ==
    /\ at[r] = "print" /\ pthPrinted' = [pthPrinted EXCEPT ![r] = messages[r]] /\ To(r, "ended")
    /\ UNCHANGED <<thread_count, messages, semaphores, main, freed>>

Send_msg == \E r \in Live : Write(r) \/ Post(r) \/ PthWait(r) \/ Show(r)
PthNext == PthMain \/ Send_msg
PthSpec == PthInit /\ [][PthNext]_pthVars

-----------------------------------------------------------------------------
\* What a thread prints is the message of the thread before it: never none, as
\* in the versions left in comments, and never one already freed (Send_msg).
GetsMessage ==
    \A r \in Live : /\ at[r] = "ended" => pthPrinted[r] = source(r)
                    /\ at[r] = "print" => messages[r] # PthNobody /\ messages[r] \notin freed
=============================================================================
