------------------------------- MODULE Printd -------------------------------
(*****************************************************************************)
(* The print spooler of apue.2e/ipp: the daemon with its spool and the       *)
(* printer, and the list of its worker threads.                              *)
(*****************************************************************************)
EXTENDS Integers, Sequences, FiniteSets

(***************************************************************************)
(* The print spooler (apue.2e/ipp): printd.c's client threads, its one     *)
(* printer thread and its restart, over the spool directory and the job    *)
(* number file that outlive the daemon.  A client of print.c submits one   *)
(* document of NBlocks buffers.                                            *)
(***************************************************************************)
CONSTANTS Clients,
          NBlocks,     \* bound: buffers of a document
          MaxStops     \* bound: times the daemon stops, killed or by exit ()

VARIABLES up,          \* the daemon runs
          scan,        \* directory entries build_qonstart () has yet to read
          wpc,         \* where each client's thread is
          job,         \* its job number, 0 before get_newjobno ()
          got,         \* buffers its thread has stored
          acked,       \* clients told "request ID"
          data, reqs,  \* the spool directory
          jobno,       \* the job number file, 0 when empty
          nextjob, queue, reread,
          ppc, cur,    \* the printer thread and the job it has in hand
          held,        \* the data file it has open, as it was opened
          printed,     \* what came out of the printer: client and length
          givenup,    \* jobs given up since the daemon was started
          stops

worker == <<wpc, job, got, acked>>
spool  == <<data, reqs>>
thread == <<ppc, cur, held, printed, givenup>>
spoolVars == <<up, scan, worker, spool, jobno, nextjob, queue, reread, thread, stops>>

NoFile == [doc |-> "none", len |-> 0]
Numbers == 1..Cardinality(Clients)

SpoolInit ==
    /\ up = FALSE /\ scan = {} /\ stops = 0
    /\ wpc = [c \in Clients |-> "new"] /\ job = [c \in Clients |-> 0]
    /\ got = [c \in Clients |-> 0] /\ acked = {}
    /\ data = [j \in Numbers |-> NoFile] /\ reqs = [j \in Numbers |-> "none"]
    /\ jobno = 0 /\ nextjob = 0 /\ queue = <<>> /\ reread = FALSE
    /\ ppc = "pick" /\ cur = 0 /\ held = NoFile /\ printed = {}
    /\ givenup = {}

(* ------------------------------ start and stop ------------------------- *)
init_request == nextjob' = IF jobno = 0 THEN 1 ELSE jobno

Start ==
    /\ ~up /\ up' = TRUE /\ init_request
    /\ scan' = {j \in Numbers : reqs[j] # "none"}
    /\ UNCHANGED <<worker, spool, jobno, queue, reread, thread, stops>>

\* readdir () gives the entries in any order; the printer thread already runs.
build_qonstart(j) ==
    /\ up /\ j \in scan /\ scan' = scan \ {j}
    /\ IF reqs[j] = "whole"
         THEN queue' = Append(queue, j) /\ ppc' = (IF ppc = "wait" THEN "pick" ELSE ppc)
              /\ UNCHANGED spool
         ELSE reqs' = [reqs EXCEPT ![j] = "none"] /\ data' = [data EXCEPT ![j] = NoFile]
              /\ UNCHANGED <<queue, ppc>>
    /\ UNCHANGED <<up, worker, jobno, nextjob, reread, cur, held, printed, givenup, stops>>

\* SIGTERM, a crash, or an exit () of a thread: only the files stay.
Down ==
    /\ stops < MaxStops /\ stops' = stops + 1
    /\ up' = FALSE /\ scan' = {} /\ queue' = <<>> /\ reread' = FALSE
    /\ wpc' = [c \in Clients |-> IF wpc[c] = "new" THEN "new" ELSE "gone"]
    /\ ppc' = "pick" /\ cur' = 0 /\ held' = NoFile /\ givenup' = {}
    /\ UNCHANGED <<job, got, acked, spool, jobno, nextjob, printed>>

Stop == up /\ Down

\* SIGHUP: only scheduled here, done by the printer thread.  Nobody else looks at
\* reread: a signal that comes earlier is as good as one that comes just before.
signal_thread ==
    /\ up /\ ~reread /\ ppc = "config" /\ reread' = TRUE
    /\ UNCHANGED <<up, scan, worker, spool, jobno, nextjob, queue, thread, stops>>

(* ------------------------------ a client's thread ---------------------- *)
Thread(c, from, to) ==
    /\ up /\ wpc[c] = from /\ wpc' = [wpc EXCEPT ![c] = to]
    /\ UNCHANGED <<up, scan, jobno, reread, cur, held, printed, givenup, stops>>

\* accept () and treadn () of the header, short when the client dies or stalls.
Accept(c) ==
    scan = {} /\ (\E to \in {"number", "gone"} : Thread(c, "new", to))
    /\ UNCHANGED <<job, got, acked, spool, nextjob, queue, ppc>>

get_newjobno(c) ==
    /\ Thread(c, "number", "data")
    /\ job' = [job EXCEPT ![c] = nextjob] /\ nextjob' = nextjob + 1
    /\ UNCHANGED <<got, acked, spool, queue, ppc>>

\* creat () truncates a file of that name; when it fails the thread ends.
CreateData(c) ==
    /\ \/ Thread(c, "data", "blocks") /\ data' = [data EXCEPT ![job[c]] = [doc |-> c, len |-> 0]]
       \/ Thread(c, "data", "gone") /\ UNCHANGED data
    /\ UNCHANGED <<job, got, acked, reqs, nextjob, queue, ppc>>

\* tread () gives the next buffer; write () of it may fail, and the data file
\* is then removed by its name.
ReadBlock(c) ==
    /\ got[c] < NBlocks
    /\ \/ /\ Thread(c, "blocks", "blocks")
          /\ got' = [got EXCEPT ![c] = @ + 1]
          /\ data' = IF data[job[c]].doc = c THEN [data EXCEPT ![job[c]].len = @ + 1] ELSE data
          /\ UNCHANGED reqs
       \/ Thread(c, "blocks", "undo") /\ UNCHANGED <<got, spool>>
    /\ UNCHANGED <<job, acked, nextjob, queue, ppc>>

\* The client never shuts its side down: the loop ends by the time-out, which
\* a slow client meets too, or by the end of file a dead client leaves.
EndBlocks(c) ==
    Thread(c, "blocks", "req") /\ UNCHANGED <<job, got, acked, spool, nextjob, queue, ppc>>

CreateReq(c) ==
    /\ \/ Thread(c, "req", "write") /\ reqs' = [reqs EXCEPT ![job[c]] = "part"]
       \/ Thread(c, "req", "undo") /\ UNCHANGED reqs
    /\ UNCHANGED <<job, got, acked, data, nextjob, queue, ppc>>

WriteReq(c) ==
    /\ \/ Thread(c, "write", "reply") /\ reqs' = [reqs EXCEPT ![job[c]] = "whole"]
       \/ Thread(c, "write", "undoreq") /\ UNCHANGED reqs
    /\ UNCHANGED <<job, got, acked, data, nextjob, queue, ppc>>

\* The error paths: writen () of the refusal, then unlink () by name, the
\* request before the data.
UndoReq(c) ==
    /\ Thread(c, "undoreq", "undo") /\ reqs' = [reqs EXCEPT ![job[c]] = "none"]
    /\ UNCHANGED <<job, got, acked, data, nextjob, queue, ppc>>
Undo(c) ==
    /\ Thread(c, "undo", "gone") /\ data' = [data EXCEPT ![job[c]] = NoFile]
    /\ UNCHANGED <<job, got, acked, reqs, nextjob, queue, ppc>>

Reply(c) ==
    /\ Thread(c, "reply", "add") /\ acked' = acked \cup {c}
    /\ UNCHANGED <<job, got, spool, nextjob, queue, ppc>>

add_job(c) ==
    /\ Thread(c, "add", "signal") /\ queue' = Append(queue, job[c])
    /\ UNCHANGED <<job, got, acked, spool, nextjob, ppc>>

\* pthread_cond_signal () after the lock is free again; then client_cleanup ().
Signal(c) ==
    /\ Thread(c, "signal", "gone") /\ ppc' = IF ppc = "wait" THEN "pick" ELSE ppc
    /\ UNCHANGED <<job, got, acked, spool, nextjob, queue>>

client_thread(c) ==
    \/ Accept(c) \/ get_newjobno(c) \/ CreateData(c) \/ ReadBlock(c)
    \/ EndBlocks(c) \/ CreateReq(c) \/ WriteReq(c) \/ UndoReq(c) \/ Undo(c)
    \/ Reply(c) \/ add_job(c) \/ Signal(c)

(* ------------------------------ the printer thread --------------------- *)
Printer(from, to) ==
    up /\ ppc = from /\ ppc' = to /\ UNCHANGED <<scan, worker, nextjob>>

Wait ==
    /\ queue = <<>> /\ Printer("pick", "wait")
    /\ UNCHANGED <<up, spool, jobno, queue, reread, cur, held, printed, givenup, stops>>
\* Mutant of remove_job: the job stays in the queue.
remove_job_Peek ==
    /\ queue # <<>> /\ Printer("pick", "number") /\ cur' = Head(queue)
    /\ UNCHANGED <<up, spool, jobno, queue, reread, held, printed, givenup, stops>>
remove_job ==
    /\ queue # <<>> /\ Printer("pick", "number")
    /\ cur' = Head(queue) /\ queue' = Tail(queue)
    /\ UNCHANGED <<up, spool, jobno, reread, held, printed, givenup, stops>>

\* nextjob is read here without joblock.
update_jobno ==
    /\ Printer("number", "config") /\ jobno' = nextjob
    /\ UNCHANGED <<up, spool, queue, reread, cur, held, printed, givenup, stops>>

\* init_printer () exits the daemon when the new file names no printer.
Config ==
    \/ /\ Printer("config", "open") /\ reread' = FALSE
       /\ UNCHANGED <<up, spool, jobno, queue, cur, held, printed, givenup, stops>>
    \/ up /\ ppc = "config" /\ reread /\ Down

\* "job canceled": when its data file cannot be opened or fstat () fails, because
\* it is not there or for any other reason, the job is dropped; its files stay,
\* and it is found again when the daemon is started again.
Open ==
    /\ \/ /\ Printer("open", "send") /\ data[cur] # NoFile /\ held' = data[cur]
          /\ UNCHANGED <<cur, givenup>>
       \/ /\ Printer("open", "pick") /\ cur' = 0 /\ givenup' = givenup \cup {cur}
          /\ UNCHANGED held
    /\ UNCHANGED <<up, spool, jobno, queue, reread, printed, stops>>

\* The file that is open may lose its name, or be truncated by its name.
Out == {printed \cup {d} : d \in {held, data[cur]} \ {NoFile}}

\* The headers and the file go out and printer_status () finds success; or the
\* job is printed and the answer lost, or the printer not reached.
SendOk ==
    /\ Printer("send", "unlink") /\ printed' \in Out /\ held' = NoFile
    /\ UNCHANGED <<up, spool, jobno, queue, reread, cur, givenup, stops>>
SendFail ==
    /\ Printer("send", "defer") /\ printed' \in {printed} \cup Out /\ held' = NoFile
    /\ UNCHANGED <<up, spool, jobno, queue, reread, cur, givenup, stops>>

UnlinkData ==
    /\ Printer("unlink", "unlinkreq") /\ data' = [data EXCEPT ![cur] = NoFile]
    /\ UNCHANGED <<up, reqs, jobno, queue, reread, cur, held, printed, givenup, stops>>
UnlinkReq ==
    /\ Printer("unlinkreq", "pick") /\ reqs' = [reqs EXCEPT ![cur] = "none"] /\ cur' = 0
    /\ UNCHANGED <<up, data, jobno, queue, reread, held, printed, givenup, stops>>

\* defer: and sleep (60).
replace_job ==
    /\ Printer("defer", "pick") /\ queue' = <<cur>> \o queue /\ cur' = 0
    /\ UNCHANGED <<up, spool, jobno, reread, held, printed, givenup, stops>>

printer_thread ==
    \/ Wait \/ remove_job \/ update_jobno \/ Config \/ Open
    \/ SendOk \/ SendFail \/ UnlinkData \/ UnlinkReq \/ replace_job

Done ==
    /\ \A c \in Clients : wpc[c] = "gone"
    /\ ppc = "wait" /\ UNCHANGED spoolVars

SpoolNext ==
    \/ Start \/ Stop \/ signal_thread \/ printer_thread \/ Done
    \/ \E j \in Numbers : build_qonstart(j)
    \/ \E c \in Clients : client_thread(c)

\* The threads and the start are scheduled; the printer, tried again and again
\* with sleep (60) between, is reached at last.
SpoolSpec ==
    /\ SpoolInit /\ [][SpoolNext]_spoolVars
    /\ WF_spoolVars(Start) /\ WF_spoolVars(\E j \in Numbers : build_qonstart(j))
    /\ \A c \in Clients : WF_spoolVars(client_thread(c))
    /\ WF_spoolVars(printer_thread) /\ SF_spoolVars(SendOk)

(* ------------------------------ properties ----------------------------- *)
SpoolTypeOK ==
    /\ up \in BOOLEAN /\ scan \subseteq Numbers /\ acked \subseteq Clients
    /\ \A j \in Numbers : reqs[j] \in {"none", "part", "whole"}
    /\ nextjob \in 0..(Cardinality(Clients) + 1) /\ cur \in 0..Cardinality(Clients)

Alone(c) == \A d \in Clients \ {c} : job[d] # job[c]
Whole(c) == [doc |-> c, len |-> got[c]]

\* A client that was told "request ID" finds its document and its request in
\* the spool until the document is printed, however often the daemon stops.
AckedKept ==
    \A c \in acked : Alone(c) =>
        Whole(c) \in printed \/ (data[job[c]] = Whole(c) /\ reqs[job[c]] = "whole")

\* Only a document with all the buffers its thread had stored when it answered
\* comes out of the printer, not one that is being stored.
NoTornPrint == \A p \in printed : Alone(p.doc) => p.doc \in acked \cup {c \in Clients : wpc[c] = "gone"}
                                                  /\ p.len = got[p.doc]

\* The queue holds a job once: a restart does not queue again what is queued.
QueuedOnce == (\A c \in Clients : job[c] # 0 => Alone(c)) =>
    /\ \A a, b \in 1..Len(queue) : queue[a] = queue[b] => a = b
    /\ \A a \in 1..Len(queue) : queue[a] # cur

\* While the daemon runs on, no two clients are given the same job number.
NumbersFresh ==
    \A c, d \in Clients : c # d /\ job[c] = job[d] /\ job[c] # 0 => stops > 0
\* A number below the one in the job number file is not given again, and until
\* the daemon first stops the file is past every job that was taken up; a job
\* found again at a restart may still be numbered twice.
TakenUpFresh ==
    /\ up => nextjob >= jobno
    /\ up /\ stops = 0 /\ ppc \notin {"pick", "wait", "number"} => jobno > cur

\* A document that was acknowledged is printed, unless another client was given
\* its number, or its data could not be opened and the daemon runs on.
AckedPrinted ==
    \A c \in Clients : (c \in acked) ~> (Whole(c) \in printed \/ ~Alone(c) \/ job[c] \in givenup)

-----------------------------------------------------------------------------
(***************************************************************************)
(* printd.c's list of client threads: add_worker (), client_cleanup () and *)
(* kill_workers (), with the list kept by its pointers as they are.  What  *)
(* a walk makes of a freed node is not followed: it stops there, and wild  *)
(* says that the daemon has used freed memory.                             *)
(***************************************************************************)
CONSTANTS Threads, NULL

VARIABLES workers, next, prev,  \* the list
          tstate,               \* each thread: "new", "on", "done" or "exit"
          freed,                \* threads whose node is freed
          closed,               \* threads whose socket is closed
          cancelled,            \* what kill_workers () has cancelled
          wild,                 \* a freed node was used
          overlap               \* two client threads once ran at a time

workVars == <<workers, next, prev, tstate, freed, closed, cancelled, wild, overlap>>

WorkInit ==
    /\ workers = NULL /\ next = [t \in Threads |-> NULL] /\ prev = [t \in Threads |-> NULL]
    /\ tstate = [t \in Threads |-> "new"] /\ freed = {} /\ closed = {} /\ cancelled = {}
    /\ wild = FALSE /\ overlap = FALSE

On == {t \in Threads : tstate[t] = "on"}

\* The nodes a walk from workers meets, up to a freed one.
Walk[n \in 0..Cardinality(Threads)] ==
    LET at == IF n = 0 THEN workers
              ELSE LET w == Walk[n - 1] IN IF w.at = NULL THEN NULL ELSE next[w.at]
        seen == IF n = 0 THEN {} ELSE Walk[n - 1].seen
    IN  IF at = NULL \/ at \in freed THEN [at |-> NULL, seen |-> seen \cup ({at} \ {NULL})]
        ELSE [at |-> at, seen |-> seen \cup {at}]
Met == Walk[Cardinality(Threads)].seen
Listed == Met \ freed
MeetsFreed == Met \cap freed # {}

\* workers itself is set only when the list was empty.
add_worker(t) ==
    /\ tstate[t] = "new" /\ tstate' = [tstate EXCEPT ![t] = "on"]
    /\ next' = [next EXCEPT ![t] = workers]
    /\ IF workers = NULL
         THEN workers' = t /\ prev' = [prev EXCEPT ![t] = NULL] /\ UNCHANGED wild
         ELSE /\ prev' = [prev EXCEPT ![t] = NULL, ![workers] = t]
              /\ wild' = (wild \/ workers \in freed) /\ UNCHANGED workers
    /\ overlap' = (overlap \/ On # {})
    /\ UNCHANGED <<freed, closed, cancelled>>

\* A thread that is not found leaves its socket open.
Unlink(t) ==
    /\ prev' = IF next[t] # NULL THEN [prev EXCEPT ![next[t]] = prev[t]] ELSE prev
    /\ next' = IF prev[t] # NULL THEN [next EXCEPT ![prev[t]] = next[t]] ELSE next
    /\ workers' = IF prev[t] # NULL THEN workers ELSE next[t]
    /\ freed' = freed \cup {t} /\ closed' = closed \cup {t}
client_cleanup(t) ==
    /\ tstate[t] = "on" /\ tstate' = [tstate EXCEPT ![t] = "done"]
    /\ IF t \in Listed THEN Unlink(t) ELSE UNCHANGED <<workers, next, prev, freed, closed>>
    /\ wild' = (wild \/ MeetsFreed)
    /\ UNCHANGED <<cancelled, overlap>>

\* SIGTERM; the daemon exits after it.
kill_workers ==
    /\ cancelled' = Listed /\ wild' = (wild \/ MeetsFreed)
Term ==
    /\ kill_workers /\ tstate' = [t \in Threads |-> "exit"]
    /\ UNCHANGED <<workers, next, prev, freed, closed, overlap>>

WorkDone == (\A t \in Threads : tstate[t] \in {"done", "exit"}) /\ UNCHANGED workVars

WorkNext ==
    \/ \E t \in Threads : add_worker(t) \/ client_cleanup(t)
    \/ (\E t \in Threads : tstate[t] \in {"new", "on"}) /\ Term
    \/ WorkDone

WorkSpec == WorkInit /\ [][WorkNext]_workVars

(* ------------------------------ properties ----------------------------- *)
\* Threads that come one at a time are listed while they run, have their
\* sockets closed when they end, and leave no freed node behind.
SerialListed ==
    ~overlap => /\ On \subseteq Listed /\ ~MeetsFreed /\ ~wild
                /\ \A t \in Threads : tstate[t] = "done" => t \in closed
=============================================================================
