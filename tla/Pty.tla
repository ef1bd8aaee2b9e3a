--------------------------------- MODULE Pty ---------------------------------
(*****************************************************************************)
(* Programs behind pseudo terminals and pipes: pty, popen () and pclose (), and *)
(* the terminal modes of the library.                                        *)
(*****************************************************************************)
EXTENDS Naturals, FiniteSets, Sequences, TLC

(* apue.2e/pty: main () opens a pseudo terminal, starts a program on its     *)
(* slave side, may start a driver, and loop () copies in two processes, the  *)
(* parent from the master to stdout and its child from stdin to the master.  *)
(* Data is counted in blocks; how the line discipline changes it is not      *)
(* followed.                                                                 *)
CONSTANTS NIN,        \* bound: blocks on stdin before its end
          NOUT        \* bound: blocks the program writes
VARIABLES opts,       \* interactive, driver, ignoreeof
          ppc, cpc,   \* main () with loop ()'s parent; its child
          prog, slave, drv,
          master,     \* who has the master open
          left,       \* blocks left on stdin
          mbuf, taken, out,   \* in the pty, read by the parent, on stdout
          pend, sigcaught,    \* SIGTERM for the parent
          tty, how
ptyVars == <<opts, ppc, cpc, prog, slave, drv, master, left, mbuf, taken, out, pend, sigcaught, tty, how>>

PtyInit ==
    /\ opts \in [interactive : BOOLEAN, driver : BOOLEAN, ignoreeof : BOOLEAN]
    /\ ppc = "open" /\ cpc = "none" /\ prog = "none" /\ slave = "never" /\ drv = "none"
    /\ master = {} /\ left = NIN /\ mbuf = 0 /\ taken = 0 /\ out = 0
    /\ pend = FALSE /\ sigcaught = FALSE /\ tty = "user" /\ how = "none"

copied == <<mbuf, taken, out>>
Raw == opts.interactive /\ ~opts.driver
\* exit () of a process that has set tty_atexit () or inherited it.
tty_atexit == tty' = "user"
\* exit () by err_sys (); before tty_raw () there is nothing to reset.
Exit(why) == /\ ppc' = "end" /\ how' = why /\ tty_atexit /\ master' = master \ {"parent"}

(* ---------------------------------- main ------------------------------- *)
ptym_open ==
    /\ ppc = "open"
    /\ \/ ppc' = "fork" /\ master' = {"parent"} /\ UNCHANGED <<how, tty>>
       \/ Exit("fail")
    /\ UNCHANGED <<opts, cpc, prog, slave, drv, left, copied, pend, sigcaught>>
pty_fork ==
    /\ ppc = "fork"
    /\ \/ ppc' = "raw" /\ prog' = "setup" /\ UNCHANGED <<how, tty, master>>
       \/ Exit("fail") /\ UNCHANGED prog
    /\ UNCHANGED <<opts, cpc, slave, drv, left, copied, pend, sigcaught>>
\* pty_fork ()'s child, and execvp (): setsid () or ptys_open () may fail, with
\* the slave never opened, or a later call, which closes it.
Setup ==
    /\ prog = "setup"
    /\ \/ prog' = "run" /\ slave' = "open"
       \/ prog' = "gone" /\ slave' \in {"never", "closed"}
    /\ UNCHANGED <<opts, ppc, cpc, drv, master, left, copied, pend, sigcaught, tty, how>>
tty_raw ==
    /\ ppc = "raw"
    /\ \/ /\ ppc' = (IF opts.driver THEN "driver" ELSE "loop")
          /\ tty' = (IF Raw THEN "raw" ELSE tty) /\ UNCHANGED <<how, master>>
       \/ Raw /\ Exit("fail")
    /\ UNCHANGED <<opts, cpc, prog, slave, drv, left, copied, pend, sigcaught>>
\* The driver keeps the master it inherits.
do_driver ==
    /\ ppc = "driver"
    /\ \/ ppc' = "loop" /\ drv' = "run" /\ master' = master \cup {"driver"} /\ UNCHANGED <<how, tty>>
       \/ Exit("fail") /\ UNCHANGED drv
    /\ UNCHANGED <<opts, cpc, prog, slave, left, copied, pend, sigcaught>>

(* ---------------------------- loop (), the parent ---------------------- *)
Fork ==
    /\ ppc = "loop"
    /\ \/ ppc' = "early" /\ cpc' = "read" /\ master' = master \cup {"child"} /\ UNCHANGED <<how, tty>>
       \/ Exit("fail") /\ UNCHANGED cpc
    /\ UNCHANGED <<opts, prog, slave, drv, left, copied, pend, sigcaught>>
signal_intr ==
    /\ ppc = "early" /\ ppc' = "read"
    /\ UNCHANGED <<opts, cpc, prog, slave, drv, master, left, copied, pend, sigcaught, tty, how>>
\* SIGTERM: fatal before signal_intr (), with no exit (); later it may end a
\* read (), or a write () that is blocked, or come between two calls.
sig_term ==
    /\ pend /\ pend' = FALSE
    /\ \/ /\ ppc = "early" /\ ppc' = "end" /\ how' = "killed" /\ master' = master \ {"parent"}
          /\ UNCHANGED <<sigcaught, tty>>
       \/ /\ ppc \in {"read", "write", "tell"} /\ sigcaught' = TRUE
          /\ UNCHANGED <<ppc, how, tty, master>>
       \/ ppc = "read" /\ sigcaught' = TRUE /\ ppc' = "tell" /\ how' = "sig" /\ UNCHANGED <<tty, master>>
       \/ ppc = "write" /\ sigcaught' = TRUE /\ Exit("stdout")
    /\ UNCHANGED <<opts, cpc, prog, slave, drv, left, copied>>
\* What the slave wrote before it was closed can still be read.
Read ==
    /\ ppc = "read"
    /\ \/ mbuf > 0 /\ ppc' = "write" /\ mbuf' = mbuf - 1 /\ taken' = taken + 1 /\ UNCHANGED how
       \/ mbuf = 0 /\ slave = "closed" /\ ppc' = "tell" /\ how' = "eof" /\ UNCHANGED <<mbuf, taken>>
    /\ UNCHANGED <<opts, cpc, prog, slave, drv, master, left, out, pend, sigcaught, tty>>
Write ==
    /\ ppc = "write"
    /\ \/ ppc' = "read" /\ out' = out + 1 /\ UNCHANGED <<how, tty, master>>
       \/ Exit("stdout") /\ UNCHANGED out
    /\ UNCHANGED <<opts, cpc, prog, slave, drv, left, mbuf, taken, pend, sigcaught>>
Tell ==
    /\ ppc = "tell" /\ ppc' = "exit"
    /\ IF sigcaught THEN UNCHANGED <<cpc, master>>
       ELSE cpc' = "gone" /\ master' = master \ {"child"}
    /\ UNCHANGED <<opts, prog, slave, drv, left, copied, pend, sigcaught, tty, how>>
Return ==
    /\ ppc = "exit" /\ Exit(how)
    /\ UNCHANGED <<opts, cpc, prog, slave, drv, left, copied, pend, sigcaught>>
Parent == ptym_open \/ pty_fork \/ tty_raw \/ do_driver \/ Fork \/ signal_intr \/ sig_term
          \/ Read \/ Write \/ Tell \/ Return

(* ----------------------------- loop (), the child ---------------------- *)
Stdin ==
    /\ cpc = "read"
    /\ IF left > 0 THEN left' = left - 1 /\ cpc' = "write" ELSE cpc' = "eof" /\ UNCHANGED left
    /\ UNCHANGED <<opts, ppc, prog, slave, drv, master, copied, pend, sigcaught, tty, how>>
ToMaster ==
    /\ cpc = "write" /\ cpc' \in {"read"} \cup (IF slave = "open" THEN {} ELSE {"exit"})
    /\ UNCHANGED <<opts, ppc, prog, slave, drv, master, left, copied, pend, sigcaught, tty, how>>
\* kill (getppid ()): a parent that is gone is not reached.
Eof ==
    /\ cpc = "eof" /\ cpc' = "exit" /\ pend' = (~opts.ignoreeof /\ ppc # "end")
    /\ UNCHANGED <<opts, ppc, prog, slave, drv, master, left, copied, sigcaught, tty, how>>
ChildExit ==
    /\ cpc = "exit" /\ cpc' = "gone" /\ tty_atexit /\ master' = master \ {"child"}
    /\ UNCHANGED <<opts, ppc, prog, slave, drv, left, copied, pend, sigcaught, how>>

(* ---------------------- the program and the driver --------------------- *)
Produce ==
    /\ prog = "run" /\ mbuf + taken < NOUT /\ mbuf' = mbuf + 1
    /\ UNCHANGED <<opts, ppc, cpc, prog, slave, drv, master, left, taken, out, pend, sigcaught, tty, how>>
Finish ==
    /\ prog = "run" /\ prog' = "gone" /\ slave' = "closed"
    /\ UNCHANGED <<opts, ppc, cpc, drv, master, left, copied, pend, sigcaught, tty, how>>
DriverEnds ==
    /\ drv = "run" /\ drv' = "gone" /\ master' = master \ {"driver"}
    /\ UNCHANGED <<opts, ppc, cpc, prog, slave, left, copied, pend, sigcaught, tty, how>>

PtyNext == Parent \/ Setup \/ Stdin \/ ToMaster \/ Eof \/ ChildExit \/ Produce \/ Finish \/ DriverEnds
PtySpec == PtyInit /\ [][PtyNext]_ptyVars /\ WF_ptyVars(Parent) /\ WF_ptyVars(ChildExit)

-----------------------------------------------------------------------------
\* When both processes of loop () have ended the user's terminal is out of raw
\* mode, also when the child's SIGTERM killed a parent that could not reset it.
Restored == ppc = "end" /\ cpc \in {"none", "gone"} => tty = "user"

\* What the parent read of the program's output is on stdout, and it is all
\* the program wrote when the end of the output made the parent stop; only a
\* stdout that failed loses any.
OutputWhole ==
    ppc = "end" /\ how # "stdout" => taken = out /\ (how = "eof" => mbuf = 0)

\* When the program has ended both processes end, unless stdout failed, where
\* the child is left behind.  A program whose slave was never opened is not
\* noticed to have ended.
Over == ppc = "end" /\ (cpc \in {"none", "gone"} \/ how \in {"stdout", "fail"})
AllEnd == prog = "gone" /\ slave = "closed" ~> Over

-----------------------------------------------------------------------------
(* apue.2e/lib/popen.c: popen () and pclose () with their table of child     *)
(* pids.  Descriptors are numbers, the lowest free one first, and an end of  *)
(* a pipe is <<pipe, "r">> or <<pipe, "w">>; a command reads its standard    *)
(* input to the end, or writes its output, and exits.                        *)
CONSTANTS MAXFD,       \* bound: descriptors of the program, from 0
          NPIPES,      \* bound: streams opened over time
          Starts       \* sets of descriptors open at first
VARIABLES fds, childpid, kids, npipes, waiting, leaked
popenVars == <<fds, childpid, kids, npipes, waiting, leaked>>

\* fds, and kids[k].fds: descriptor -> end; the standard ones of the start
\* are <<0, "tty">>.  Child k is the one of pipe k.
Fds == 0..MAXFD - 1
Ends(f) == {f[d] : d \in DOMAIN f}
PopenInit ==
    /\ \E s \in Starts : fds = [d \in s |-> <<0, "tty">>]
    /\ childpid = [d \in Fds |-> 0] /\ kids = <<>> /\ npipes = 0 /\ waiting = 0 /\ leaked = {}

Free == Fds \ DOMAIN fds
Lowest(s) == CHOOSE d \in s : \A e \in s : d <= e
Without(f, s) == [d \in DOMAIN f \ s |-> f[d]]

\* The child: its own end on descriptor 0 or 1, the ends of earlier streams
\* closed by number.
Dup(f, from, to) == IF from = to THEN f ELSE to :> f[from] @@ Without(f, {from})
Child(f, a, b, type) ==
    LET own == IF type = "r" THEN Dup(Without(f, {a}), b, 1) ELSE Dup(Without(f, {b}), a, 0)
    IN Without(own, {d \in Fds : childpid[d] > 0})

\* popen (): without two descriptors nothing happens; a fork () or fdopen ()
\* that fails leaves what was opened before it.
popen(type) ==
    /\ waiting = 0 /\ npipes < NPIPES /\ Cardinality(Free) >= 2 /\ npipes' = npipes + 1
    /\ LET n == npipes + 1
           a == Lowest(Free)
           b == Lowest(Free \ {a})
           both == a :> <<n, "r">> @@ b :> <<n, "w">> @@ fds
           mine == Without(both, {IF type = "r" THEN b ELSE a})
           keep == IF type = "r" THEN a ELSE b
           born == [fds |-> Child(both, a, b, type), type |-> type, st |-> "run",
                    clash |-> childpid[IF type = "r" THEN 1 ELSE 0] > 0]
       IN \/ /\ fds' = both /\ leaked' = leaked \cup {a, b}
             /\ kids' = Append(kids, [born EXCEPT !.st = "none", !.fds = <<>>])
             /\ UNCHANGED childpid
          \/ /\ fds' = mine /\ leaked' = leaked \cup {keep} /\ kids' = Append(kids, born)
             /\ UNCHANGED childpid
          \/ /\ fds' = mine /\ kids' = Append(kids, born)
             /\ childpid' = [childpid EXCEPT ![keep] = n] /\ UNCHANGED leaked
    /\ UNCHANGED waiting

\* pclose (): the table entry goes before the stream is closed, then the wait.
pclose(d) ==
    /\ waiting = 0 /\ childpid[d] # 0
    /\ waiting' = childpid[d] /\ childpid' = [childpid EXCEPT ![d] = 0]
    /\ fds' = Without(fds, {d}) /\ UNCHANGED <<kids, npipes, leaked>>
Reaped == /\ waiting # 0 /\ kids[waiting].st = "zombie"
          /\ kids' = [kids EXCEPT ![waiting].st = "gone"] /\ waiting' = 0
          /\ UNCHANGED <<fds, childpid, npipes, leaked>>

\* The command of stream k: a reader sees the end of its input when nobody
\* holds the other end for writing, a writer just ends.
Holders(e) == {k \in DOMAIN kids : e \in Ends(kids[k].fds)}
Ended(k) ==
    /\ kids[k].st = "run"
    /\ kids[k].type = "w" => <<k, "w">> \notin Ends(fds) /\ Holders(<<k, "w">>) = {}
    /\ kids' = [kids EXCEPT ![k].st = "zombie", ![k].fds = <<>>]
    /\ UNCHANGED <<fds, childpid, npipes, waiting, leaked>>

PopenNext == \/ \E t \in {"r", "w"} : popen(t)
             \/ \E d \in Fds : pclose(d)
             \/ Reaped \/ \E k \in DOMAIN kids : Ended(k)
PopenSpec == PopenInit /\ [][PopenNext]_popenVars /\ WF_popenVars(Reaped \/ \E k \in DOMAIN kids : Ended(k))

-----------------------------------------------------------------------------
\* A command is connected: descriptor 0 or 1 is its end of its own pipe, unless
\* an earlier stream of the program has that very number, as it may when the
\* program began with 0 or 1 closed.
Slot(k) == IF kids[k].type = "r" THEN 1 ELSE 0
Own(k) == <<k, IF kids[k].type = "r" THEN "w" ELSE "r">>
Connected ==
    \A k \in DOMAIN kids : kids[k].st = "run" =>
        \/ Slot(k) \in DOMAIN kids[k].fds /\ kids[k].fds[Slot(k)] = Own(k)
        \/ kids[k].clash

\* pclose () comes back: no other command keeps the pipe open, whatever the
\* order of the streams; but one the program leaked is inherited by all.
PcloseReturns == waiting # 0 /\ leaked = {} ~> waiting = 0

-----------------------------------------------------------------------------
(* apue.2e/lib/ttymodes.c with the program that tries it, termios/t_raw.c:   *)
(* raw mode, back, cbreak mode, back, and a signal that may end it anywhere. *)
(* A mode is the set of flags that are on.  tcsetattr () may make some of    *)
(* the changes and report success, or none and fail; tcgetattr () may fail.  *)
CONSTANTS MAXFAULTS    \* bound: calls to the terminal that go wrong
VARIABLES modes, save_termios, ttystate, user, faults, spoiled, tpc, mode, caught
ttyVars == <<modes, save_termios, ttystate, user, faults, spoiled, tpc, mode, caught>>

\* user: the mode the terminal was found in; spoiled: a tcsetattr () that was
\* to restore it did not; mode: the one being entered; caught: where a signal
\* interrupted.
Flags == {"canon", "sig"}
Clears(m) == IF m = "RAW" THEN Flags ELSE {"canon"}
TtyInit == /\ user \in SUBSET Flags /\ modes = user /\ save_termios = {} /\ ttystate = "RESET"
           /\ faults = 0 /\ spoiled = FALSE /\ tpc = "save" /\ mode = "RAW" /\ caught = "no"

\* tcsetattr (): the modes that may result, with the faults spent.
Differ(s, t) == (s \ t) \cup (t \ s)
tcsetattr(want) ==
    {[ok |-> TRUE, tty |-> want, f |-> 0], [ok |-> FALSE, tty |-> modes, f |-> 1]}
    \cup {[ok |-> TRUE, tty |-> t, f |-> 1] :
            t \in {u \in SUBSET Flags : u # want /\ Differ(u, want) \subseteq Differ(modes, want)}}
Faulty(n) == faults + n <= MAXFAULTS /\ faults' = faults + n

\* tty_cbreak () and tty_raw (), call by call: refused unless RESET; save;
\* change; read back; keep, or restore and fail.
Save == /\ tpc = "save"
        /\ \/ ttystate # "RESET" /\ tpc' = "err_sys" /\ UNCHANGED <<save_termios, faults>>
           \/ ttystate = "RESET" /\ Faulty(1) /\ tpc' = "err_sys" /\ UNCHANGED save_termios
           \/ ttystate = "RESET" /\ Faulty(0) /\ tpc' = "set" /\ save_termios' = modes
        /\ UNCHANGED <<modes, ttystate, user, spoiled, mode, caught>>
Set == /\ tpc = "set"
       /\ \E o \in tcsetattr(modes \ Clears(mode)) :
             Faulty(o.f) /\ modes' = o.tty /\ tpc' = IF o.ok THEN "verify" ELSE "err_sys"
       /\ UNCHANGED <<save_termios, ttystate, user, spoiled, mode, caught>>
Verify ==
    /\ tpc = "verify"
    /\ \/ Faulty(1) /\ tpc' = "restore"
       \/ Faulty(0) /\ tpc' = IF modes \cap Clears(mode) = {} THEN "commit" ELSE "restore"
    /\ UNCHANGED <<modes, save_termios, ttystate, user, spoiled, mode, caught>>
Restore ==
    /\ tpc = "restore" /\ tpc' = "err_sys"
    /\ \E o \in tcsetattr(save_termios) :
          Faulty(o.f) /\ modes' = o.tty /\ spoiled' = (spoiled \/ o.tty # save_termios)
    /\ UNCHANGED <<save_termios, ttystate, user, mode, caught>>
Commit == /\ tpc = "commit" /\ ttystate' = mode /\ tpc' = "read"
          /\ UNCHANGED <<modes, save_termios, user, faults, spoiled, mode, caught>>

\* tty_reset (): what tcsetattr () reports decides, the mode is not read back.
tty_reset(good, bad) ==
    \/ ttystate = "RESET" /\ tpc' = good
       /\ UNCHANGED <<modes, save_termios, ttystate, user, faults, spoiled>>
    \/ /\ ttystate # "RESET"
       /\ \E o \in tcsetattr(save_termios) :
            /\ Faulty(o.f) /\ modes' = o.tty /\ tpc' = (IF o.ok THEN good ELSE bad)
            /\ ttystate' = (IF o.ok THEN "RESET" ELSE ttystate)
            /\ spoiled' = (spoiled \/ o.tty # save_termios)
       /\ UNCHANGED <<save_termios, user>>

\* main (): characters until DELETE, or a read error, then the other mode.
GetAttr == tpc = "read" /\ tpc' = "back"
           /\ UNCHANGED <<modes, save_termios, ttystate, user, faults, spoiled, mode, caught>>
Back == /\ tpc = "back" /\ tty_reset("done", "err_sys") /\ UNCHANGED <<mode, caught>>
Done == /\ tpc = "done"
        /\ \/ mode = "RAW" /\ mode' = "CBREAK" /\ tpc' = "save"
           \/ tpc' = "exit" /\ UNCHANGED mode
        /\ UNCHANGED <<modes, save_termios, ttystate, user, faults, spoiled, caught>>
err_sys == tpc = "err_sys" /\ tpc' = "exit"
           /\ UNCHANGED <<modes, save_termios, ttystate, user, faults, spoiled, mode, caught>>
\* A signal between any two calls: restore, and exit in any case.
sig_catch == /\ tpc # "exit" /\ tty_reset("exit", "exit") /\ caught' = tpc /\ UNCHANGED mode

tty_enter == Save \/ Set \/ Verify \/ Restore \/ Commit
TtyNext == tty_enter \/ GetAttr \/ Back \/ Done \/ err_sys \/ sig_catch
TtySpec == TtyInit /\ [][TtyNext]_ttyVars

-----------------------------------------------------------------------------
\* While the terminal is in one of the two modes all the flags of the mode are
\* off and the library holds the mode to go back to.
ModeWhole == ttystate # "RESET" /\ ~spoiled => /\ save_termios = user
                                               /\ modes \cap Clears(ttystate) = {}

\* However the program ends, the terminal is as it was found, but for a restore
\* that itself failed, or a signal after tcsetattr () and before ttystate is
\* set, when sig_catch () believes there is nothing to restore.
FoundMode == tpc = "exit" /\ ~spoiled => modes = user \/ caught \in {"verify", "restore", "commit"}
=============================================================================
