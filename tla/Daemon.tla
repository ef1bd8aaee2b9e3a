------------------------------- MODULE Daemon -------------------------------
(* The daemons of apue.2e/daemons and inclass-20190428/daemon/lock.c:        *)
(* daemonize () (lib/daemonize.c), already_running () with its locked file   *)
(* of the process number, and the handling of SIGHUP and SIGTERM, by a       *)
(* thread that waits for them (reread.c), by handlers (reread2.c), or not at *)
(* all (class).  A process is <<copy, generation>>: a fork leaves its parent *)
(* behind, and the locks of fcntl are not inherited.                         *)
EXTENDS Integers, Sequences, FiniteSets

CONSTANTS Copies, MAXSIGS       \* bound: signals sent
VARIABLES prog, daemonPc, gen, leader, ctty, daemonFds, hup, term, daemonBlocked, daemonPending, lock, pidfile, ended, sigs
daemonVars == <<prog, daemonPc, gen, leader, ctty, daemonFds, hup, term, daemonBlocked, daemonPending, lock, pidfile, ended, sigs>>

DaemonNobody == <<0, 0>>
Empty == <<0, -1>>
Pid(d) == <<d, gen[d]>>
\* The steps of each program, in order.
DaemonSteps(p) ==
    IF p = "class" THEN <<"fork1", "open", "truncate", "write", "run">>
    ELSE <<"fork1", "setsid", "ignore", "fork2", "close", "null", "open", "truncate", "write">>
         \o (IF p = "reread" THEN <<"default", "block", "thread", "run">> ELSE <<"sigterm", "sighup", "run">>)
DaemonInit ==
    /\ prog \in {"reread", "reread2", "class"} /\ daemonPc = [d \in Copies |-> 1] /\ gen = [d \in Copies |-> 1]
    /\ leader = [d \in Copies |-> FALSE] /\ ctty = [d \in Copies |-> TRUE] /\ daemonFds = [d \in Copies |-> "tty"]
    /\ hup = [d \in Copies |-> "default"] /\ term = [d \in Copies |-> "default"] /\ daemonBlocked = {}
    /\ daemonPending = [d \in Copies |-> {}] /\ lock = DaemonNobody /\ pidfile = Empty
    /\ ended = [d \in Copies |-> "no"] /\ sigs = 0

At(d, step) == ended[d] = "no" /\ DaemonSteps(prog)[daemonPc[d]] = step
Go(d) == daemonPc' = [daemonPc EXCEPT ![d] = @ + 1]
\* A process that ends gives up its lock; the file stays as it is.
End(d, why) == ended' = [ended EXCEPT ![d] = why] /\ lock' = IF lock = Pid(d) THEN DaemonNobody ELSE lock
signals == <<hup, term, daemonBlocked, daemonPending, sigs>>
session == <<leader, ctty, daemonFds>>

(* --- daemonize                                                             *)
\* A fork: the child goes on, the parent exits; or it fails.
Fork(d) ==
    /\ At(d, "fork1") \/ At(d, "fork2")
    /\ \/ /\ gen' = [gen EXCEPT ![d] = @ + 1] /\ leader' = [leader EXCEPT ![d] = FALSE] /\ Go(d)
          /\ lock' = (IF lock = Pid(d) THEN DaemonNobody ELSE lock) /\ UNCHANGED ended
       \/ End(d, "can't fork") /\ UNCHANGED <<daemonPc, gen, leader>>
    /\ UNCHANGED <<prog, ctty, daemonFds, signals, pidfile>>
setsid(d) ==
    /\ At(d, "setsid") /\ leader' = [leader EXCEPT ![d] = TRUE] /\ ctty' = [ctty EXCEPT ![d] = FALSE] /\ Go(d)
    /\ UNCHANGED <<prog, gen, daemonFds, signals, lock, pidfile, ended>>
Ignore(d) ==
    /\ At(d, "ignore") /\ hup' = [hup EXCEPT ![d] = "ignore"] /\ Go(d)
    /\ UNCHANGED <<prog, gen, session, term, daemonBlocked, daemonPending, sigs, lock, pidfile, ended>>
\* chdir and close of every descriptor: with the file's, its lock would go.
CloseAll(d) ==
    /\ At(d, "close") /\ daemonFds' = [daemonFds EXCEPT ![d] = "closed"] /\ Go(d)
    /\ lock' = IF lock = Pid(d) THEN DaemonNobody ELSE lock
    /\ UNCHANGED <<prog, gen, leader, ctty, signals, pidfile, ended>>
Null(d) ==
    /\ At(d, "null") /\ daemonFds' = [daemonFds EXCEPT ![d] = "null"] /\ Go(d)
    /\ UNCHANGED <<prog, gen, leader, ctty, signals, lock, pidfile, ended>>

(* --- already_running                                                       *)
lockfile(d) == lock = DaemonNobody
\* Mutant of Open: the file is written before it is locked.
Open_Writes(d) ==
    /\ At(d, "open") /\ pidfile' = Pid(d)
    /\ IF lockfile(d) THEN lock' = Pid(d) /\ Go(d) /\ UNCHANGED ended
       ELSE End(d, "already running") /\ UNCHANGED daemonPc
    /\ UNCHANGED <<prog, gen, session, signals>>
\* The file is opened and locked, or its holder makes this copy end.
Open(d) ==
    /\ At(d, "open")
    /\ IF lockfile(d) THEN lock' = Pid(d) /\ Go(d) /\ UNCHANGED ended
       ELSE End(d, "already running") /\ UNCHANGED daemonPc
    /\ UNCHANGED <<prog, gen, session, signals, pidfile>>
\* ftruncate, then the number is written.
Truncate(d) ==
    /\ At(d, "truncate") /\ pidfile' = Empty /\ Go(d)
    /\ UNCHANGED <<prog, gen, session, signals, lock, ended>>
WritePid(d) ==
    /\ At(d, "write") /\ pidfile' = Pid(d) /\ Go(d)
    /\ UNCHANGED <<prog, gen, session, signals, lock, ended>>
already_running(d) == Open(d) \/ Truncate(d) \/ WritePid(d)

(* --- the signals                                                           *)
\* reread.c: SIGHUP back to its default, all signals blocked, a thread that
\* waits for them.
Default(d) ==
    /\ At(d, "default") /\ hup' = [hup EXCEPT ![d] = "default"] /\ Go(d)
    /\ UNCHANGED <<prog, gen, session, term, daemonBlocked, daemonPending, sigs, lock, pidfile, ended>>
Block(d) ==
    /\ At(d, "block") /\ daemonBlocked' = daemonBlocked \cup {d} /\ Go(d)
    /\ UNCHANGED <<prog, gen, session, hup, term, daemonPending, sigs, lock, pidfile, ended>>
Thread(d) ==
    /\ At(d, "thread") /\ Go(d)
    /\ UNCHANGED <<prog, gen, session, signals, lock, pidfile, ended>>
\* reread2.c: the two handlers, SIGTERM's first.
Handlers(d) ==
    \/ /\ At(d, "sigterm") /\ term' = [term EXCEPT ![d] = "catch"] /\ Go(d)
       /\ UNCHANGED <<prog, gen, session, hup, daemonBlocked, daemonPending, sigs, lock, pidfile, ended>>
    \/ /\ At(d, "sighup") /\ hup' = [hup EXCEPT ![d] = "catch"] /\ Go(d)
       /\ UNCHANGED <<prog, gen, session, term, daemonBlocked, daemonPending, sigs, lock, pidfile, ended>>

\* A signal: kept for the thread, ignored, handled (sighup rereads the file), or
\* the end of the process.
Signal(d, s) ==
    /\ ended[d] = "no" /\ sigs < MAXSIGS /\ sigs' = sigs + 1
    /\ LET how == IF s = "SIGHUP" THEN hup[d] ELSE term[d]
       IN IF d \in daemonBlocked THEN daemonPending' = [daemonPending EXCEPT ![d] = @ \cup {s}] /\ UNCHANGED <<ended, lock>>
          ELSE IF how = "default" \/ (s = "SIGTERM" /\ how = "catch") THEN End(d, s) /\ UNCHANGED daemonPending
          ELSE UNCHANGED <<daemonPending, ended, lock>>
    /\ UNCHANGED <<prog, daemonPc, gen, session, hup, term, daemonBlocked, pidfile>>
\* The thread's sigwait: SIGHUP rereads the file, SIGTERM ends the daemon.
thr_fn(d) ==
    /\ prog = "reread" /\ At(d, "run")
    /\ \E s \in daemonPending[d] :
         /\ daemonPending' = [daemonPending EXCEPT ![d] = @ \ {s}]
         /\ IF s = "SIGTERM" THEN End(d, s) ELSE UNCHANGED <<ended, lock>>
    /\ UNCHANGED <<prog, daemonPc, gen, session, hup, term, daemonBlocked, sigs, pidfile>>

daemonize(d) == Fork(d) \/ setsid(d) \/ Ignore(d) \/ CloseAll(d) \/ Null(d)
DaemonMain(d) == daemonize(d) \/ already_running(d) \/ Default(d) \/ Block(d) \/ Thread(d) \/ Handlers(d) \/ thr_fn(d)
DaemonMains == \E d \in Copies : DaemonMain(d)
DaemonNext == DaemonMains \/ \E d \in Copies, s \in {"SIGHUP", "SIGTERM"} : Signal(d, s)
DaemonSpec == DaemonInit /\ [][DaemonNext]_daemonVars

-----------------------------------------------------------------------------
Past(d, step) == ended[d] = "no" /\ \E k \in 1..(daemonPc[d] - 1) : DaemonSteps(prog)[k] = step
\* "Make sure only one copy of the daemon is running": at most one copy is past
\* already_running (), and the file names it, whatever copies that found it
\* running did meanwhile.
OneDaemon ==
    /\ \A d, e \in Copies : Past(d, "open") /\ Past(e, "open") => d = e
    /\ \A d \in Copies : Past(d, "write") => lock = Pid(d) /\ pidfile = Pid(d)
\* A copy that has been through daemonize () leads no session and has neither
\* the terminal nor a descriptor of it, so it can never acquire one.
Detached == \A d \in Copies : Past(d, "null") => ~leader[d] /\ ~ctty[d] /\ daemonFds[d] = "null"
\* Once SIGHUP was ignored it never ends a daemon, except in reread.c between
\* the return to the default and the blocking of signals.
HupHarmless ==
    \A d \in Copies : ended[d] = "SIGHUP" =>
        prog = "class" \/ DaemonSteps(prog)[daemonPc[d]] \in {"fork1", "setsid", "ignore", "block"}
=============================================================================
