------------------------------ MODULE ClassCode ------------------------------
(*****************************************************************************)
(* Class code: the shell with pipelines, the job queue of threads, and the   *)
(* preforked server.                                                         *)
(*****************************************************************************)
EXTENDS Integers, Sequences, FiniteSets

(* The pipeline shell of the class (inclass-20190428/procctl/shell.cpp): a   *)
(* line is split at "|", every command is forked with its end of the pipes,  *)
(* all of a line in one process group that is given the terminal.  A process *)
(* is <<line, place>>; a pipe is named by the command that writes it.        *)
CONSTANTS MAXLINES, MAXCMDS    \* bounds
VARIABLES line, ncmds, shellPc, cmd, infd, pfd, pgid, ends, state, group, tty, failed
shellVars == <<line, ncmds, shellPc, cmd, infd, pfd, pgid, ends, state, group, tty, failed>>

Shell == <<0, 0>>
None == <<0, -1>>              \* no group yet, no pipe: 0, -1 in the code
Cmds == (1..MAXLINES) \X (1..MAXCMDS)
Me == <<line, cmd>>
R(p) == <<"r", p>>
W(p) == <<"w", p>>

\* ends: the pipe ends a process holds, by whatever number; the terminal is not.
ShellInit ==
    /\ line = 0 /\ ncmds = 0 /\ shellPc = "prompt" /\ cmd = 1 /\ infd = None /\ pfd = None /\ pgid = None
    /\ ends = [p \in Cmds \cup {Shell} |-> {}] /\ state = [p \in Cmds |-> "none"]
    /\ group = [p \in Cmds |-> Shell] /\ tty = Shell /\ failed = FALSE

tokenize ==
    /\ shellPc = "prompt" /\ line < MAXLINES /\ line' = line + 1
    /\ ncmds' \in 0..MAXCMDS /\ shellPc' = IF ncmds' = 0 THEN "prompt" ELSE "pipe"
    /\ cmd' = 1 /\ infd' = None /\ pfd' = None /\ pgid' = None
    /\ UNCHANGED <<ends, state, group, tty, failed>>

\* A pipe to the next command, if there is one; without it the loop ends.
Pipe ==
    /\ shellPc = "pipe"
    /\ \/ cmd < ncmds /\ pfd' = Me /\ ends' = [ends EXCEPT ![Shell] = @ \cup {R(Me), W(Me)}]
          /\ shellPc' = "fork" /\ UNCHANGED failed
       \/ cmd < ncmds /\ shellPc' = "wait" /\ failed' = TRUE /\ UNCHANGED <<pfd, ends>>
       \/ cmd = ncmds /\ shellPc' = "fork" /\ UNCHANGED <<pfd, ends, failed>>
    /\ UNCHANGED <<line, ncmds, cmd, infd, pgid, state, group, tty>>
\* runcmd: the child has all the shell has open; no child, back to the prompt.
runcmd ==
    /\ shellPc = "fork"
    /\ \/ /\ ends' = [ends EXCEPT ![Me] = ends[Shell]] /\ state' = [state EXCEPT ![Me] = "new"]
          /\ shellPc' = "setpgid" /\ UNCHANGED failed
       \/ shellPc' = "prompt" /\ failed' = TRUE /\ UNCHANGED <<ends, state>>
    /\ UNCHANGED <<line, ncmds, cmd, infd, pfd, pgid, group, tty>>
\* The shell's half of setpgid (it fails after exec), and the terminal for the
\* group of a first command.
Setpgid ==
    /\ shellPc = "setpgid" /\ shellPc' = "close"
    /\ group' = IF state[Me] \in {"new", "set"} THEN [group EXCEPT ![Me] = IF pgid = None THEN Me ELSE pgid] ELSE group
    /\ tty' = IF pgid = None THEN Me ELSE tty
    /\ UNCHANGED <<line, ncmds, cmd, infd, pfd, pgid, ends, state, failed>>
Step == IF cmd < ncmds THEN shellPc' = "pipe" /\ cmd' = cmd + 1 ELSE shellPc' = "wait" /\ UNCHANGED cmd
\* Mutant of Close: one end of the pipe stays open.
Close_OneEnd ==
    /\ shellPc = "close"
    /\ ends' = [ends EXCEPT ![Shell] = @ \ {R(infd)}]
    /\ pgid' = (IF pgid = None THEN Me ELSE pgid) /\ infd' = pfd /\ Step
    /\ UNCHANGED <<line, ncmds, pfd, state, group, tty, failed>>
Close ==
    /\ shellPc = "close"
    /\ ends' = [ends EXCEPT ![Shell] = @ \ ({R(infd)} \cup (IF cmd < ncmds THEN {W(pfd)} ELSE {}))]
    /\ pgid' = (IF pgid = None THEN Me ELSE pgid) /\ infd' = pfd /\ Step
    /\ UNCHANGED <<line, ncmds, pfd, state, group, tty, failed>>
\* waitpid (-pgid): one process of the group, no more, and not one that has only
\* stopped; with no such child, none.
ShellWait ==
    /\ shellPc = "wait"
    /\ \/ pgid = None /\ UNCHANGED state
       \/ (\A p \in Cmds : group[p] = pgid => state[p] = "gone") /\ UNCHANGED state
       \/ \E p \in Cmds : group[p] = pgid /\ state[p] = "zombie" /\ state' = [state EXCEPT ![p] = "gone"]
    /\ shellPc' = "prompt" /\ tty' = Shell
    /\ UNCHANGED <<line, ncmds, cmd, infd, pfd, pgid, ends, group, failed>>
ShellMain == tokenize \/ Pipe \/ runcmd \/ Setpgid \/ Close \/ ShellWait

(* --- a child of runcmd                                                     *)
\* pgid as it was at the fork: 0 for a first command, which leads.
Leader(p) == <<p[1], 1>>
\* Its own half of setpgid, then dup2 and exec: the ends it was given stay.
ShellChild(p) ==
    /\ state[p] \in {"new", "set"}
    /\ state' = [state EXCEPT ![p] = IF state[p] = "new" THEN "set" ELSE "run"]
    /\ group' = IF state[p] = "new" THEN [group EXCEPT ![p] = Leader(p)] ELSE group
    /\ UNCHANGED <<line, ncmds, shellPc, cmd, infd, pfd, pgid, ends, tty, failed>>
\* External: a command reads its input to the end before it exits.
Exit(p) ==
    /\ state[p] = "run" /\ (\A q \in DOMAIN ends : W(<<p[1], p[2] - 1>>) \notin ends[q])
    /\ state' = [state EXCEPT ![p] = "zombie"] /\ ends' = [ends EXCEPT ![p] = {}]
    /\ UNCHANGED <<line, ncmds, shellPc, cmd, infd, pfd, pgid, group, tty, failed>>
\* A first command that reads the terminal before the shell has given it to its
\* group: SIGTTIN stops it, and nothing continues it.
SigTtin(p) ==
    /\ state[p] = "run" /\ p[2] = 1 /\ group[p] # tty /\ state' = [state EXCEPT ![p] = "stopped"]
    /\ UNCHANGED <<line, ncmds, shellPc, cmd, infd, pfd, pgid, ends, group, tty, failed>>
Commands == \E p \in Cmds : ShellChild(p) \/ Exit(p) \/ SigTtin(p)

ShellNext == ShellMain \/ Commands

-----------------------------------------------------------------------------
\* A reader meets the end of its input: once the shell has gone on to the next
\* command, a pipe is open for writing in the command it is named for and in no
\* other process, unless a fork or pipe failed and left one (main, runcmd).
EofComes ==
    ~failed => \A p \in Cmds, q \in Cmds \cup {Shell} :
        W(p) \in ends[q] => q = p \/ (q = Shell /\ p = Me /\ shellPc \in {"fork", "setpgid", "close"})
\* Back at the prompt the shell has no pipe left and the terminal again, unless
\* a pipe or a fork failed (main).
PromptClean == shellPc = "prompt" /\ ~failed => ends[Shell] = {} /\ tty = Shell
\* A command runs in the group of its line's first command, whichever of the
\* two setpgid () calls came first (runcmd).
InGroup == \A p \in Cmds : state[p] \in {"run", "stopped", "zombie"} => group[p] = <<p[1], 1>>
\* The commands of every line have ended and the prompt is back, unless a pipe or
\* fork failed, or a command read the terminal before its group had it.
AllEnded == \/ shellPc = "prompt" /\ \A p \in Cmds : state[p] \in {"none", "zombie", "gone"}
            \/ failed \/ \E p \in Cmds : state[p] = "stopped"

-----------------------------------------------------------------------------
(* The job queue of the class (inclass-20190428/threads/jobqueue.cpp): main  *)
(* pushes a job for every character and one -1 for every worker, signalling  *)
(* after each; a worker waits on the condition, takes the front job and does *)
(* it.  ASSIGNID and ORDERED are the build's options, undefined by default.  *)
(* What is done between a lock and its unlock is one step.                   *)
CONSTANTS N_WORKERS, NCHARS
VARIABLES opts, jobsMain, at, jobqueue, jobs, doing, printed,
          spurious, broken   \* a wait that returned by itself; front () of no job
jobsVars == <<opts, jobsMain, at, jobqueue, jobs, doing, printed, spurious, broken>>

Workers == 0..(N_WORKERS - 1)
Anyone == -1
Total == NCHARS + N_WORKERS
\* Job k: its worker, if assigned, and its character; 0 is the -1 that ends one.
Job(k) ==
    LET nth == IF k <= NCHARS THEN (k - 1) % N_WORKERS ELSE k - NCHARS - 1
    IN [id |-> IF "ASSIGNID" \in opts THEN nth ELSE Anyone, ch |-> IF k <= NCHARS THEN k ELSE 0]

JobsInit ==
    /\ opts \in SUBSET {"ASSIGNID", "ORDERED"} /\ jobsMain = <<"push", 1>>
    /\ at = [w \in Workers |-> "lock"] /\ jobqueue = <<>> /\ jobs = 0
    /\ doing = [w \in Workers |-> 0] /\ printed = <<>> /\ spurious = FALSE /\ broken = FALSE

(* --- main                                                                  *)
\* pthread_cond_signal: one of those that wait, if any does.
Signal == \/ /\ \A w \in Workers : at[w] # "wait"
             /\ UNCHANGED at
          \/ \E w \in Workers : at[w] = "wait" /\ at' = [at EXCEPT ![w] = "woken"]
Push ==
    /\ jobsMain[1] = "push" /\ jobqueue' = Append(jobqueue, Job(jobsMain[2])) /\ jobsMain' = <<"signal", jobsMain[2]>>
    /\ UNCHANGED <<opts, at, jobs, doing, printed, spurious, broken>>
SignalPush ==
    /\ jobsMain[1] = "signal" /\ Signal
    /\ jobsMain' = IF jobsMain[2] < Total THEN <<"push", jobsMain[2] + 1>> ELSE <<"size", 0>>
    /\ UNCHANGED <<opts, jobqueue, jobs, doing, printed, spurious, broken>>
\* The loop that signals until the queue was seen empty, then the joins.
Size ==
    /\ jobsMain[1] = "size" /\ jobs' = Len(jobqueue) /\ jobsMain' = <<"again", 0>>
    /\ UNCHANGED <<opts, at, jobqueue, doing, printed, spurious, broken>>
SignalAgain ==
    /\ jobsMain[1] = "again" /\ Signal
    /\ jobsMain' = <<IF jobs > 0 THEN "size" ELSE "join", 0>>
    /\ UNCHANGED <<opts, jobqueue, jobs, doing, printed, spurious, broken>>
Join ==
    /\ jobsMain[1] = "join" /\ (\A w \in Workers : at[w] = "ended") /\ jobsMain' = <<"end", 0>>
    /\ UNCHANGED <<opts, at, jobqueue, jobs, doing, printed, spurious, broken>>
JobsMain == Push \/ SignalPush \/ Size \/ SignalAgain \/ Join

(* --- worker_main                                                           *)
\* The mutex is taken and given up in pthread_cond_wait () at once: a job that
\* is already there is not looked for.
JobsWait(w) ==
    /\ at[w] = "lock" /\ at' = [at EXCEPT ![w] = "wait"]
    /\ UNCHANGED <<opts, jobsMain, jobqueue, jobs, doing, printed, spurious, broken>>
\* Allowed by pthread_cond_wait (): it returns without a signal.
Spurious(w) ==
    /\ at[w] = "wait" /\ ~spurious /\ at' = [at EXCEPT ![w] = "woken"] /\ spurious' = TRUE
    /\ UNCHANGED <<opts, jobsMain, jobqueue, jobs, doing, printed, broken>>
Finish(w, ch) == at' = [at EXCEPT ![w] = IF ch = 0 THEN "ended" ELSE "lock"]
Says(ch) == printed' = IF ch = 0 THEN printed ELSE Append(printed, ch)
\* The mutex again, and the front job: done under it if ORDERED, else after.
Front(w) ==
    /\ at[w] = "woken"
    /\ IF jobqueue = <<>> THEN broken' = TRUE /\ at' = [at EXCEPT ![w] = "lost"] /\ UNCHANGED <<jobqueue, doing, printed>>
       ELSE /\ UNCHANGED broken
            /\ IF Head(jobqueue).id \notin {Anyone, w}
               THEN at' = [at EXCEPT ![w] = "lock"] /\ UNCHANGED <<jobqueue, doing, printed>>
               ELSE /\ jobqueue' = Tail(jobqueue)
                    /\ IF "ORDERED" \in opts
                       THEN Says(Head(jobqueue).ch) /\ Finish(w, Head(jobqueue).ch) /\ UNCHANGED doing
                       ELSE /\ doing' = [doing EXCEPT ![w] = Head(jobqueue).ch]
                            /\ at' = [at EXCEPT ![w] = "do"] /\ UNCHANGED printed
    /\ UNCHANGED <<opts, jobsMain, jobs, spurious>>
do_the_job(w) ==
    /\ at[w] = "do" /\ Says(doing[w]) /\ Finish(w, doing[w])
    /\ UNCHANGED <<opts, jobsMain, jobqueue, jobs, doing, spurious, broken>>
worker_main == \E w \in Workers : JobsWait(w) \/ Front(w) \/ do_the_job(w)

JobsNext == JobsMain \/ worker_main \/ \E w \in Workers : Spurious(w)

-----------------------------------------------------------------------------
\* "has at least one job": a worker that was signalled finds a job in front,
\* although it never looks before it waits and signals are lost, since main
\* signals no more often than it pushes and keeps a -1 for every worker left;
\* only a wait that returns by itself can find none (worker_main).
HasOneJob == broken => spurious
\* Every character is printed once when main has joined the workers, and in
\* the order of the argument if ORDERED (worker_main).
PrintedOnce ==
    /\ "ORDERED" \in opts => \A k \in DOMAIN printed : printed[k] = k
    /\ jobsMain[1] = "end" => Len(printed) = NCHARS /\ {printed[k] : k \in DOMAIN printed} = 1..NCHARS
\* The program ends, if jobs are not assigned and no wait returned by itself.
Over == jobsMain[1] = "end" \/ spurious \/ "ASSIGNID" \in opts

-----------------------------------------------------------------------------
(* The server of inclass/advipc/echoprefork1.c: a thread keeps WORKERS       *)
(* children ready, the main thread sends one of them SIGUSR1 whenever the    *)
(* listening socket is readable, and that child accepts and serves one       *)
(* connection.                                                               *)
CONSTANTS WORKERS,
          NPROC,      \* bound: children forked in all
          Clients,
          CRASHES     \* bound: children killed from outside
VARIABLES workers,    \* the table, nworker is its length
          lock,       \* the mutex: "none", "create" or "main"
          create, forkMain,                 \* where the two threads are
          child,      \* [pc, mask, pending, notification, conn]
          backlog,    \* connections not accepted yet
          served, crashes
forkVars == <<workers, lock, create, forkMain, child, backlog, served, crashes>>

Pids == 1..NPROC
NoChild == [pc |-> "none", mask |-> FALSE, pending |-> FALSE, notification |-> FALSE]
ForkInit == /\ workers = <<>> /\ lock = "none" /\ create = "lock" /\ forkMain = "select"
            /\ child = [p \in Pids |-> NoChild] /\ backlog = {} /\ served = {} /\ crashes = 0

(* ----------------------------- create_worker --------------------------- *)
CreateLock == /\ create = "lock" /\ lock = "none" /\ lock' = "create" /\ create' = "fork"
              /\ UNCHANGED <<workers, forkMain, child, backlog, served, crashes>>
\* The child starts with SIGUSR1 blocked and with the handler in place, for
\* both were set before the fork.
Born == [NoChild EXCEPT !.pc = "test", !.mask = TRUE]
Unborn == {p \in Pids : child[p].pc = "none"}
Fork == /\ create = "fork" /\ Len(workers) < WORKERS /\ Unborn # {}
        /\ LET p == CHOOSE p \in Unborn : \A q \in Unborn : p <= q
           IN /\ child' = [child EXCEPT ![p] = Born]
              /\ workers' = Append(workers, p)
        /\ create' = "unlock"
        /\ UNCHANGED <<lock, forkMain, backlog, served, crashes>>
\* err_sys ("fork") ends the process with both its threads; the children stay.
ForkFails == /\ create = "fork" /\ Len(workers) < WORKERS /\ create' = "exit" /\ forkMain' = "exit"
             /\ UNCHANGED <<workers, lock, child, backlog, served, crashes>>
Full == /\ create = "fork" /\ (Len(workers) = WORKERS \/ Unborn = {}) /\ create' = "unlock"
        /\ UNCHANGED <<workers, lock, forkMain, child, backlog, served, crashes>>
CreateUnlock == /\ create = "unlock" /\ lock' = "none" /\ create' = "lock"
                /\ UNCHANGED <<workers, forkMain, child, backlog, served, crashes>>

(* --------------------------------- main -------------------------------- *)
Select == /\ forkMain = "select" /\ backlog # {} /\ forkMain' = "lock"
          /\ UNCHANGED <<workers, lock, create, child, backlog, served, crashes>>
MainLock == /\ forkMain = "lock" /\ lock = "none" /\ lock' = "main" /\ forkMain' = "kill"
            /\ UNCHANGED <<workers, create, child, backlog, served, crashes>>
\* SIGUSR1 at a child: kept while it is blocked, otherwise the handler runs.
kill(p) == child' = [child EXCEPT ![p] =
              IF @.pc \in {"none", "dead", "serve"} THEN @
              ELSE IF @.pc = "asleep" THEN [@ EXCEPT !.pc = "test", !.notification = TRUE]
              ELSE IF @.mask THEN [@ EXCEPT !.pending = TRUE]
              ELSE [@ EXCEPT !.notification = TRUE]]
\* Mutant of workers_Next: the last worker goes, and the one that was told stays.
workers_Stale == SubSeq(workers, 1, Len(workers) - 1)
workers_Next == LET n == Len(workers)
                IN [i \in 1..n - 1 |-> IF i = 1 THEN workers[n] ELSE workers[i]]
Kill == /\ forkMain = "kill" /\ forkMain' = "unlock"
        /\ IF workers # <<>> THEN kill(workers[1]) /\ workers' = workers_Next
           ELSE UNCHANGED <<workers, child>>
        /\ UNCHANGED <<lock, create, backlog, served, crashes>>
MainUnlock == /\ forkMain = "unlock" /\ lock' = "none" /\ forkMain' = "select"
              /\ UNCHANGED <<workers, create, child, backlog, served, crashes>>

(* ----------------------------- handle_client --------------------------- *)
Test(p) == /\ child[p].pc = "test"
           /\ child' = [child EXCEPT ![p].pc = IF child[p].notification THEN "accept" ELSE "suspend"]
           /\ UNCHANGED <<workers, lock, create, forkMain, backlog, served, crashes>>
\* sigsuspend (): opens the mask and returns after the handler; a signal that
\* came before it, and was not kept, does not wake it.
sigsuspend(p) == /\ child[p].pc = "suspend"
                 /\ child' = [child EXCEPT ![p] =
                      IF @.pending THEN [@ EXCEPT !.pc = "test", !.pending = FALSE, !.notification = TRUE]
                      ELSE [@ EXCEPT !.pc = "asleep"]]
                 /\ UNCHANGED <<workers, lock, create, forkMain, backlog, served, crashes>>
accept(p) == /\ child[p].pc = "accept" /\ backlog # {}
             /\ \E c \in backlog : backlog' = backlog \ {c} /\ served' = served \cup {c}
             /\ child' = [child EXCEPT ![p].pc = "serve"]
             /\ UNCHANGED <<workers, lock, create, forkMain, crashes>>
Leave(p) == /\ child[p].pc = "serve" /\ child' = [child EXCEPT ![p].pc = "dead"]
            /\ UNCHANGED <<workers, lock, create, forkMain, backlog, served, crashes>>

Connect(c) == /\ c \notin backlog \cup served /\ backlog' = backlog \cup {c}
              /\ UNCHANGED <<workers, lock, create, forkMain, child, served, crashes>>
Crash(p) == /\ crashes < CRASHES /\ child[p].pc \in {"test", "suspend", "asleep", "accept"}
            /\ crashes' = crashes + 1 /\ child' = [child EXCEPT ![p].pc = "dead"]
            /\ UNCHANGED <<workers, lock, create, forkMain, backlog, served>>

ForkChild(p) == Test(p) \/ sigsuspend(p) \/ accept(p) \/ Leave(p)
Creator == CreateLock \/ Fork \/ ForkFails \/ Full \/ CreateUnlock
ForkMain == Select \/ MainLock \/ Kill \/ MainUnlock
ForkNext == Creator \/ ForkMain \/ (\E p \in Pids : ForkChild(p) \/ Crash(p)) \/ \E c \in Clients : Connect(c)

(* ------------------------------ properties ----------------------------- *)
\* A child that waits and was not told yet is in the table, once: none is
\* forgotten, whichever thread changes the table.
NoneForgotten ==
    \A p \in Pids : child[p].pc \in {"test", "suspend", "asleep"} /\ ~child[p].pending /\ ~child[p].notification =>
        Cardinality({i \in DOMAIN workers : workers[i] = p}) = 1

\* Every connection is accepted in the end, also when waiting children are
\* killed: the socket stays readable, and no SIGUSR1 is lost between the test of
\* notification and sigsuspend; unless a fork fails, which ends the server.
Accepted == \A c \in Clients : c \in backlog ~> c \in served \/ forkMain = "exit"
=============================================================================
