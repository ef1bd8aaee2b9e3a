------------------------------- MODULE MCLive -------------------------------
(*****************************************************************************)
(* The programs that wait for others, in one run: the first state picks a    *)
(* part, and only that part moves.  The constants of Opend, Daemon and Sync  *)
(* are in the .cfg.                                                          *)
(*****************************************************************************)
EXTENDS Opend, Daemon, Sync, Integers, Sequences, FiniteSets, TLC

\* What send_fd sends: descriptors, and errors to the limits of a byte.
SendCodes == {0, 3, -1, -255, -256, -300}
SendTexts == 0..9

\* Configuration files of PrintClient: whole, with a keyword alone, without.
Configs == {<<<<"printer", "p">>, <<"printserver", "h">>>>, <<<<"printserver">>, <<"printserver", "h", "x">>>>,
            <<<<"printer", "p">>>>}

\* What a printer may answer: of this job, of another, refused; with a 100 first.
PrinterAnswers ==
    {<<"200", "h", "C", "L", "n", "r", "n", s, "a", "a">> : s \in {"ok", "bad", "other"}}
    \cup {<<"500", "h", "n", "r", "n">>,
          <<"100", "n", "r", "n", "200", "C", "L", "h", "n", "r", "n", "ok", "a">>}

\* The devices of the entries each system of Calld has.
DialLines == [c \in {"a", "b"} |-> IF c = "a" THEN <<"d1", "d2">> ELSE <<"d2", "no", "d1">>]

\* Systems files of three entries for Calling, Devices files of two.
CallSys(h, c, b) == [host |-> h, class |-> c, type |-> "acu", bad |-> b]
CallDev(c, l, d, b) == [type |-> "acu", class |-> c, line |-> l, dialer |-> d, bad |-> b]
CallTried(h, b, k, known) ==
    [systems |-> <<CallSys(TRUE, "9600", FALSE), CallSys(h, "1200", b), CallSys(TRUE, k, FALSE)>>,
     devices |-> <<CallDev("9600", "tty1", "hayes", FALSE), CallDev("1200", "tty2", "direct", FALSE)>>,
     dialers |-> known]
CallFilesTried ==
    {CallTried(TRUE, FALSE, "9600", {"hayes"}), CallTried(FALSE, FALSE, "75", {"hayes"}),
     CallTried(TRUE, TRUE, "75", {"hayes"}), CallTried(TRUE, FALSE, "75", {})}

\* A chat with a modem: expect, send, expect, send; the second string overlaps itself.
Chats == {<<[expect |-> <<"O", "K">>, send |-> <<"A", "esc-T", "esc-d", "esc-c">>],
            [expect |-> <<"O", "O", "K">>, send |-> <<"esc-r", "esc-T">>]>>}

VARIABLES part,    \* the part that moves
          v1, v2, v3, v4, v5, v6, v7, v8, v9, v10, v11, v12, v13, v14, v15, v16, v17, v18    \* its variables

Oq == INSTANCE Opend WITH
       Procs <- {"a", "b"}, NOBODY <- "nobody", NSLOTS <- 2, MAXASK <- 2, POLL <- TRUE,
       Codes <- 0, Texts <- 0, BUF <- 0, ost <- v1, asked <- v2, replies <- v3, left <- v4,
       fds <- v5, maxi <- v6, revents <- v7, next <- v8, srv <- v9, fd <- v1, text <- v1,
       wire <- v1, spc <- v1, passPrinted <- v1, got <- v1, rpc <- v1
Pr == INSTANCE Printd WITH
       Clients <- {"a", "b"}, NBlocks <- 1, MaxStops <- 1, Threads <- {"a", "b", "c"},
       NULL <- "null", up <- v1, scan <- v2, wpc <- v3, job <- v4, got <- v5, acked <- v6,
       data <- v7, reqs <- v8, jobno <- v9, nextjob <- v10, queue <- v11, reread <- v12,
       ppc <- v13, cur <- v14, held <- v15, printed <- v16, stops <- v17, givenup <- v18,
       workers <- v1,
       next <- v2, prev <- v3, tstate <- v4, freed <- v5, closed <- v6, cancelled <- v7,
       wild <- v8, overlap <- v9
Pc == INSTANCE PrintClient WITH
       Configs <- Configs, NADDR <- 2, MAXSLEEP <- 8, NBLOCKS <- 2, PIECES <- 2,
       Answers <- PrinterAnswers, conf <- v1, pc <- v2, aip <- v3, nsec <- v4, tries <- v5,
       slept <- v6, socks <- v7, sent <- v8, taken <- v9, srv <- v10, arrived <- v11,
       had <- v12, faulty <- v13, shown <- v14, answer <- v1, statusSent <- v2, reads <- v3,
       bp <- v4, pos <- v5, spc <- v6, success <- v7
Cd == INSTANCE Calld WITH
       Procs <- {"a", "b"}, Lines <- DialLines, Devs <- {"d1", "d2"}, NoDev <- "no",
       NOBODY <- "nobody", NSLOTS <- 2, MAXKIDS <- 3, cst <- v1, gone <- v2, slot <- v3,
       lock <- v4, kid <- v5, nkids <- v6, pend <- v7, flag <- v8, mpc <- v9, merged <- v10,
       at <- v11, early <- v12
Ca == INSTANCE Calling WITH
       Clients <- 1..2, Files <- CallFilesTried, Rates <- {"9600", "1200"},
       Speeds <- {"", "1200"}, Chats <- Chats, Chars <- {"O", "K"}, MAXIN <- 7,
       Typed <- {"~", ".", "susp", "t", "p", "#", "x", "nl", "high"}, MAXTYPED <- 5,
       RemoteFile <- <<"a", "cr", "nl", "b", "nul", "c">>, Message <- <<"m", "nl">>,
       MAXFAULTS <- 1, tried <- v1, skipped <- v2, asked <- v3, files <- v4, fpsys <- v5,
       opts <- v6, client <- v7, lock <- v8, lineSet <- v9, quit <- v10, chat <- v1,
       step <- v2, dpc <- v3, ch <- v4, inbuf <- v5, heard <- v6, caught <- v7, wrote <- v8,
       nread <- v9, cpc <- v1, bol <- v2, typed <- v3, ttyMode <- v4, umode <- v5, saved <- v6,
       line <- v7, rem <- v8, out <- v9, file <- v10, pend <- v11, leak <- v12, faults <- v13,
       ended <- v14
Ru == INSTANCE Ruptime WITH
       Clients <- {"c", "d"}, LINES <- 2, QLEN <- 1, NADDR <- 2, kind <- v1, srv <- v2,
       aip <- v3, queue <- v4, cl <- v5, line <- v6, child <- v7, sock <- v8, open <- v9,
       at <- v10, got <- v11, alarm <- v12, lost <- v13, early <- v14, shown <- v15
Cl == INSTANCE ClassCode WITH
       WORKERS <- 2, NPROC <- 3, Clients <- 1..2, CRASHES <- 1, N_WORKERS <- 2, NCHARS <- 2,
       MAXLINES <- 2, MAXCMDS <- 3, workers <- v1, lock <- v2, create <- v3, forkMain <- v4,
       child <- v5, backlog <- v6, served <- v7, crashes <- v8, opts <- v1, jobsMain <- v2,
       at <- v3, jobqueue <- v4, jobs <- v5, doing <- v6, printed <- v7, spurious <- v8,
       broken <- v9, line <- v1, ncmds <- v2, shellPc <- v3, cmd <- v4, infd <- v5, pfd <- v6,
       pgid <- v7, ends <- v8, state <- v9, group <- v10, tty <- v11, failed <- v12
Pt == INSTANCE Pty WITH
       NIN <- 1, NOUT <- 2, MAXFD <- 7, NPIPES <- 3, Starts <- {{0, 1, 2}, {1, 2}, {2}},
       MAXFAULTS <- 2, opts <- v1, ppc <- v2, cpc <- v3, prog <- v4, slave <- v5, drv <- v6,
       master <- v7, left <- v8, mbuf <- v9, taken <- v10, out <- v11, pend <- v12,
       sigcaught <- v13, tty <- v14, how <- v15, fds <- v1, childpid <- v2, kids <- v3,
       npipes <- v4, waiting <- v5, leaked <- v6, modes <- v1, save_termios <- v2,
       ttystate <- v3, user <- v4, faults <- v5, spoiled <- v6, tpc <- v7, mode <- v8,
       caught <- v9

allvars == <<part, opendVars, passVars, daemonVars, tellVars, semVars, pthVars, v1, v2, v3, v4, v5, v6, v7, v8, v9, v10, v11, v12, v13, v14, v15, v16, v17, v18>>

\* What the parts that are not picked look like.
Rest_opend == OpendInit
Rest_fdpass == PassInit /\ fd = 0
Rest_daemon == DaemonInit /\ prog = "class"
Rest_tell == TellInit
Rest_sem == SemInit
Rest_messages == PthInit /\ thread_count = 1
Rest == Rest_opend /\ Rest_fdpass /\ Rest_daemon /\ Rest_tell /\ Rest_sem /\ Rest_messages
restvars == <<opendVars, passVars, daemonVars, tellVars, semVars, pthVars>>
\* The variables that the part does not have are 0 and stay so.
Zero18 == v18 = 0
Zero17 == v17 = 0 /\ Zero18
Zero16 == v16 = 0 /\ Zero17
Zero15 == v15 = 0 /\ Zero16
Zero14 == v14 = 0 /\ Zero15
Zero13 == v13 = 0 /\ Zero14
Zero12 == v12 = 0 /\ Zero13
Zero11 == v11 = 0 /\ Zero12
Zero10 == v10 = 0 /\ Zero11
Zero9 == v9 = 0 /\ Zero10
Zero8 == v8 = 0 /\ Zero9
Zero7 == v7 = 0 /\ Zero8
Zero6 == v6 = 0 /\ Zero7
Zero5 == v5 = 0 /\ Zero6
Zero4 == v4 = 0 /\ Zero5
Zero3 == v3 = 0 /\ Zero4
Zero2 == v2 = 0 /\ Zero3
Zero1 == v1 = 0 /\ Zero2

Keep18 == UNCHANGED v18
Keep17 == UNCHANGED v17 /\ Keep18
Keep16 == UNCHANGED v16 /\ Keep17
Keep15 == UNCHANGED v15 /\ Keep16
Keep14 == UNCHANGED v14 /\ Keep15
Keep13 == UNCHANGED v13 /\ Keep14
Keep12 == UNCHANGED v12 /\ Keep13
Keep11 == UNCHANGED v11 /\ Keep12
Keep10 == UNCHANGED v10 /\ Keep11
Keep9 == UNCHANGED v9 /\ Keep10
Keep8 == UNCHANGED v8 /\ Keep9
Keep7 == UNCHANGED v7 /\ Keep8
Keep6 == UNCHANGED v6 /\ Keep7
Keep5 == UNCHANGED v5 /\ Keep6
Keep4 == UNCHANGED v4 /\ Keep5
Keep3 == UNCHANGED v3 /\ Keep4
Keep2 == UNCHANGED v2 /\ Keep3
Keep1 == UNCHANGED v1 /\ Keep2

Init ==
    \/ part = "opend" /\ Rest_fdpass /\ Rest_daemon /\ Rest_tell /\ Rest_sem /\ Rest_messages /\ Zero1 /\ OpendInit
    \/ part = "fdpass" /\ Rest_opend /\ Rest_daemon /\ Rest_tell /\ Rest_sem /\ Rest_messages /\ Zero1 /\ PassInit
    \/ part = "openp" /\ Rest /\ Zero10 /\ Oq!OpendInit
    \/ part = "daemon" /\ Rest_opend /\ Rest_fdpass /\ Rest_tell /\ Rest_sem /\ Rest_messages /\ Zero1 /\ DaemonInit
    \/ part = "tell" /\ Rest_opend /\ Rest_fdpass /\ Rest_daemon /\ Rest_sem /\ Rest_messages /\ Zero1 /\ TellInit
    \/ part = "sem" /\ Rest_opend /\ Rest_fdpass /\ Rest_daemon /\ Rest_tell /\ Rest_messages /\ Zero1 /\ SemInit
    \/ part = "messages" /\ Rest_opend /\ Rest_fdpass /\ Rest_daemon /\ Rest_tell /\ Rest_sem /\ Zero1 /\ PthInit
    \/ part = "printd" /\ Rest /\ Pr!SpoolInit
    \/ part = "workers" /\ Rest /\ Zero10 /\ Pr!WorkInit
    \/ part = "print" /\ Rest /\ Zero15 /\ Pc!ClientInit
    \/ part = "status" /\ Rest /\ Zero8 /\ Pc!StatusInit
    \/ part = "calld" /\ Rest /\ Zero13 /\ Cd!Init
    \/ part = "callfiles" /\ Rest /\ Zero11 /\ Ca!EntryInit
    \/ part = "dial" /\ Rest /\ Zero10 /\ Ca!DialInit
    \/ part = "client" /\ Rest /\ Zero15 /\ Ca!CallInit
    \/ part = "ruptime" /\ Rest /\ Zero16 /\ Ru!Init
    \/ part = "prefork" /\ Rest /\ Zero9 /\ Cl!ForkInit
    \/ part = "jobs" /\ Rest /\ Zero10 /\ Cl!JobsInit
    \/ part = "shell" /\ Rest /\ Zero13 /\ Cl!ShellInit
    \/ part = "pty" /\ Rest /\ Zero16 /\ Pt!PtyInit
    \/ part = "popen" /\ Rest /\ Zero7 /\ Pt!PopenInit
    \/ part = "tty" /\ Rest /\ Zero10 /\ Pt!TtyInit

Next ==
    /\ UNCHANGED part
    /\ \/ part = "opend" /\ OpendNext /\ Keep1 /\ UNCHANGED <<passVars, daemonVars, tellVars, semVars, pthVars>>
       \/ part = "fdpass" /\ PassNext /\ Keep1 /\ UNCHANGED <<opendVars, daemonVars, tellVars, semVars, pthVars>>
       \/ part = "openp" /\ Oq!OpendNext /\ Keep10 /\ UNCHANGED restvars
       \/ part = "daemon" /\ DaemonNext /\ Keep1 /\ UNCHANGED <<opendVars, passVars, tellVars, semVars, pthVars>>
       \/ part = "tell" /\ TellNext /\ Keep1 /\ UNCHANGED <<opendVars, passVars, daemonVars, semVars, pthVars>>
       \/ part = "sem" /\ SemNext /\ Keep1 /\ UNCHANGED <<opendVars, passVars, daemonVars, tellVars, pthVars>>
       \/ part = "messages" /\ PthNext /\ Keep1 /\ UNCHANGED <<opendVars, passVars, daemonVars, tellVars, semVars>>
       \/ part = "printd" /\ Pr!SpoolNext /\ UNCHANGED restvars
       \/ part = "workers" /\ Pr!WorkNext /\ Keep10 /\ UNCHANGED restvars
       \/ part = "print" /\ Pc!ClientNext /\ Keep15 /\ UNCHANGED restvars
       \/ part = "status" /\ Pc!StatusNext /\ Keep8 /\ UNCHANGED restvars
       \/ part = "calld" /\ Cd!Next /\ Keep13 /\ UNCHANGED restvars
       \/ part = "callfiles" /\ Ca!EntryNext /\ Keep11 /\ UNCHANGED restvars
       \/ part = "dial" /\ Ca!DialNext /\ Keep10 /\ UNCHANGED restvars
       \/ part = "client" /\ Ca!CallNext /\ Keep15 /\ UNCHANGED restvars
       \/ part = "ruptime" /\ Ru!Next /\ Keep16 /\ UNCHANGED restvars
       \/ part = "prefork" /\ Cl!ForkNext /\ Keep9 /\ UNCHANGED restvars
       \/ part = "jobs" /\ Cl!JobsNext /\ Keep10 /\ UNCHANGED restvars
       \/ part = "shell" /\ Cl!ShellNext /\ Keep13 /\ UNCHANGED restvars
       \/ part = "pty" /\ Pt!PtyNext /\ Keep16 /\ UNCHANGED restvars
       \/ part = "popen" /\ Pt!PopenNext /\ Keep7 /\ UNCHANGED restvars
       \/ part = "tty" /\ Pt!TtyNext /\ Keep10 /\ UNCHANGED restvars

printdVars == Pr!spoolVars
printVars == Pc!clientVars
calldVars == Cd!vars
ruptimeVars == Ru!vars
preforkVars == Cl!forkVars
jobsVars == Cl!jobsVars
shellVars == Cl!shellVars
ptyVars == Pt!ptyVars
popenVars == Pt!popenVars

\* The fairness of each part, as its module's comment justifies it: a premise of
\* what must happen in that part.
Fair_opend == WF_opendVars(part = "opend" /\ Server)
Fair_daemon == WF_daemonVars(part = "daemon" /\ DaemonMains)
Fair_tell ==
    /\ WF_tellVars(part = "tell" /\ Run("parent"))
    /\ WF_tellVars(part = "tell" /\ Run("child"))
Fair_sem ==
    /\ SF_semVars(part = "sem" /\ SemCall("a"))
    /\ SF_semVars(part = "sem" /\ SemCall("b"))
Fair_messages ==
    /\ WF_pthVars(part = "messages" /\ PthMain)
    /\ WF_pthVars(part = "messages" /\ Send_msg)
Fair_printd ==
    /\ WF_printdVars(part = "printd" /\ (Pr!Start \/ \E j \in 1..2 : Pr!build_qonstart(j)))
    /\ WF_printdVars(part = "printd" /\ Pr!client_thread("a"))
    /\ WF_printdVars(part = "printd" /\ Pr!printer_thread)
    /\ SF_printdVars(part = "printd" /\ Pr!SendOk)
Fair_print ==
    /\ WF_printVars(part = "print" /\ Pc!Command)
    /\ WF_printVars(part = "print" /\ Pc!Spooler)
Fair_calld ==
    /\ WF_calldVars(part = "calld" /\ Cd!loop)
    /\ WF_calldVars(part = "calld" /\ (\E k \in 1..3 : Cd!sig_chld(k)))
Fair_ruptime ==
    /\ WF_ruptimeVars(part = "ruptime" /\ Ru!Server)
    /\ WF_ruptimeVars(part = "ruptime" /\ Ru!ClientSteps)
Fair_prefork ==
    /\ SF_preforkVars(part = "prefork" /\ Cl!Creator)
    /\ SF_preforkVars(part = "prefork" /\ Cl!ForkMain)
    /\ WF_preforkVars(part = "prefork" /\ Cl!ForkChild(1))
    /\ WF_preforkVars(part = "prefork" /\ Cl!ForkChild(2))
    /\ WF_preforkVars(part = "prefork" /\ Cl!ForkChild(3))
Fair_jobs ==
    /\ WF_jobsVars(part = "jobs" /\ Cl!JobsMain)
    /\ WF_jobsVars(part = "jobs" /\ Cl!worker_main)
Fair_shell ==
    /\ WF_shellVars(part = "shell" /\ Cl!ShellMain)
    /\ WF_shellVars(part = "shell" /\ Cl!Commands)
Fair_pty ==
    /\ WF_ptyVars(part = "pty" /\ Pt!Parent)
    /\ WF_ptyVars(part = "pty" /\ Pt!ChildExit)
Fair_popen == WF_popenVars(part = "popen" /\ (Pt!Reaped \/ \E k \in DOMAIN v3 : Pt!Ended(k)))

Spec == Init /\ [][Next]_allvars

-----------------------------------------------------------------------------
\* The print spooler: an acknowledged document is in the spool until it is printed, only whole
\* documents come out, a job is queued once, no number is given twice while the daemon runs, and the
\* number file is past every job; the list of workers is exact with one at a time; the print
\* command gives up only when every address with a socket was tried and calls a job accepted only
\* on the whole answer; a job counts as printed only when the printer said so, an answer in one
\* piece is understood, and only one cut in two can keep the thread in a loop.
PrintingSafe ==
    /\ part = "printd" => Pr!AckedKept /\ Pr!NoTornPrint /\ Pr!QueuedOnce /\ Pr!NumbersFresh /\ Pr!TakenUpFresh
    /\ part = "workers" => Pr!SerialListed
    /\ part = "print" => Pc!ContactTried /\ Pc!IdTrue
    /\ part = "status" => Pc!SuccessTrue /\ Pc!OnePieceRight /\ Pc!SpinsOnlySplit

\* Calls: a device is dialed for one client at a time and locked while in use, the server knows each
\* child that ends and tries again for the client that asked; a client is taken through every entry
\* of its host and its line is set as it asked; the string expected is seen at its first occurrence
\* and nothing is sent before; the terminal is raw while the client passes bytes on, and a file
\* taken is the remote one.
CallsSafe ==
    /\ [](part = "calld" => Cd!DeviceOnce /\ Cd!UsedLocked /\ Cd!ChildKnown /\ Cd!RetryOwn)
    /\ [](part = "callfiles" => Ca!EveryEntry /\ Ca!LineAsAsked)
    /\ [](part = "dial" => Ca!StopsAtFirst)
    /\ [][part = "dial" => (Len(v8') > Len(v8) /\ ~v7 => Ca!DialEnds(v6, Ca!expstr))]_allvars
    /\ [](part = "client" => Ca!ModeRight)
    /\ [][part = "client" => (v1 = "file" /\ v1' = "loop" /\ v8 # <<>> /\ ~v11 => v10' = Ca!Whole)]_allvars

\* Servers: also with poll () a request has one answer; a descriptor or error arrives as it was sent;
\* a daemon cannot acquire a terminal and SIGHUP ends it only where reread.c lets it; a client of
\* ruptime shows all of the answer; a preforked child that waits is in the table, once; a worker
\* that was signalled finds a job, and every character is printed once.
ServersRight ==
    /\ part = "openp" => Oq!OneAnswer
    /\ part = "fdpass" => PassedRight /\ DumpOnlyFull
    /\ part = "daemon" => Detached /\ HupHarmless
    /\ part = "ruptime" => Ru!WholeUptime
    /\ part = "prefork" => Cl!NoneForgotten
    /\ part = "jobs" => Cl!HasOneJob /\ Cl!PrintedOnce

\* Programs behind pipes and terminals: in the class shell a pipe is open for writing in its own
\* command only, at the prompt no pipe is left and the terminal is back, and a command runs in the
\* group of its line; pty leaves the terminal out of raw mode and passes all output on; a command of
\* popen () has its own end of its own pipe; a terminal mode is whole, and the one found is restored.
TerminalsRight ==
    /\ part = "shell" => Cl!EofComes /\ Cl!PromptClean /\ Cl!InGroup
    /\ part = "pty" => Pt!Restored /\ Pt!OutputWhole
    /\ part = "popen" => Pt!Connected
    /\ part = "tty" => Pt!ModeWhole /\ Pt!FoundMode

\* What must happen in the end: a request to the open server is answered; SIGTERM ends a daemon; a
\* wait for the other's turn, for the lock of a semaphore, and of the threads for messages ends; an
\* acknowledged document is printed, unless its data cannot be opened; the print command ends; the
\* end of a child of calld is taken in and a failed call told; the clients of ruptime end, and
\* connections of the preforked server are accepted unless a fork fails; the job queue ends; the
\* prompt comes back, unless a pipe or fork failed or SIGTTIN stopped a command; pty and pclose ()
\* end.
WaitsEnd ==
    /\ part = "opend" /\ Fair_opend =>
         (\A p \in {"a", "b"} : part = "opend" /\ Waits(p) ~> part = "opend" /\ (~Waits(p) \/ srv # "up"))
    /\ part = "daemon" /\ Fair_daemon =>
         (\A d \in {1, 2} : (part = "daemon" /\ "SIGTERM" \in daemonPending[d] ~> part = "daemon" /\ ended[d] # "no"))
    /\ part = "tell" /\ Fair_tell =>
         (\A p \in {"parent", "child"} : part = "tell" /\ tellPc[p] = "asleep"
            ~> part = "tell" /\ (tellPc[p] # "asleep" \/ Missed))
    /\ part = "sem" /\ Fair_sem =>
         (\A p \in {"a", "b"} : part = "sem" /\ semPc[p] \in {"c_sleep", "x_sleep"}
            ~> part = "sem" /\ semPc[p] \notin {"c_sleep", "x_sleep"})
    /\ part = "messages" /\ Fair_messages =>
         (part = "messages" ~> part = "messages" /\ main[1] = "end")
    /\ part = "printd" /\ Fair_printd =>
         (part = "printd" /\ "a" \in v6 ~>
            part = "printd" /\ (Pr!Whole("a") \in v16 \/ ~Pr!Alone("a") \/ v4["a"] \in v18))
    /\ part = "print" /\ Fair_print =>
         (part = "print" ~> part = "print" /\ (v2 = "end" \/ v13))
    /\ part = "calld" /\ Fair_calld =>
         (\A k \in 1..3 : part = "calld" /\ k \in Cd!Ended
            ~> part = "calld" /\ (k \notin Cd!Ended \/ v10 \/ v9 \in {"dead", "quit"}))
    /\ part = "calld" /\ Fair_calld =>
         (\A i \in 1..2 : part = "calld" /\ Cd!Failed(i) ~> part = "calld" /\ (~Cd!Failed(i) \/ Cd!Excused))
    /\ part = "ruptime" /\ Fair_ruptime =>
         (part = "ruptime" ~> part = "ruptime" /\ Ru!ClientsEnd)
    /\ part = "prefork" /\ Fair_prefork =>
         (part = "prefork" /\ 1 \in v6 ~> part = "prefork" /\ (1 \in v7 \/ v4 = "exit"))
    /\ part = "jobs" /\ Fair_jobs =>
         (part = "jobs" ~> part = "jobs" /\ Cl!Over)
    /\ part = "shell" /\ Fair_shell =>
         (part = "shell" /\ v3 # "prompt" ~> part = "shell" /\ Cl!AllEnded)
    /\ part = "pty" /\ Fair_pty =>
         (part = "pty" /\ v4 = "gone" /\ v5 = "closed" ~> part = "pty" /\ Pt!Over)
    /\ part = "popen" /\ Fair_popen =>
         (part = "popen" /\ v5 # 0 /\ v6 = {} ~> part = "popen" /\ v5 = 0)
=============================================================================
