-------------------------------- MODULE Opend --------------------------------
(*****************************************************************************)
(* The open server of apue.2e: the loops of the server with its clients, and *)
(* the passing of descriptors between them.                                  *)
(*****************************************************************************)
EXTENDS Integers, FiniteSets, Sequences

(***************************************************************************)
(* The open server (apue.2e/opend): clients connect once and ask any       *)
(* number of times; the server goes round by select () or by poll ().  In  *)
(* the poll () form the results of a new entry of pollfd[] are read before *)
(* poll () has written them.                                               *)
(***************************************************************************)
CONSTANTS Procs, NOBODY, NSLOTS,
          POLL,        \* loop.poll.c, or loop.select.c
          MAXASK       \* bound: requests of a client

VARIABLES ost,         \* each client: new, queued, idle, asked, dropped
          asked,       \* requests each has made
          replies,     \* and answers it has had
          left,        \* clients that have closed
          fds,         \* client[]: whose descriptor, or NOBODY
          maxi,
          revents,     \* what the last select () or poll () said of each entry
          next,        \* the entry the round is at, 0 outside a round
          srv          \* "up", "dead", or the client whose read () it waits for

opendVars == <<ost, asked, replies, left, fds, maxi, revents, next, srv>>

Entries == 1..NSLOTS

OpendInit ==
    /\ ost = [p \in Procs |-> "new"] /\ asked = [p \in Procs |-> 0] /\ replies = [p \in Procs |-> 0]
    /\ left = {} /\ fds = [i \in Entries |-> NOBODY] /\ maxi = 0
    /\ revents \in [Entries -> IF POLL THEN {{}, {"in"}, {"hup"}} ELSE {{}}]
    /\ next = 0 /\ srv = "up"

(* ------------------------------ clients -------------------------------- *)
\* csopen (): cli_conn () once, then a request and its answer at a time.
cli_conn(p) ==
    /\ ost[p] = "new" /\ ost' = [ost EXCEPT ![p] = "queued"]
    /\ UNCHANGED <<asked, replies, left, fds, maxi, revents, next, srv>>
csopen(p) ==
    /\ ost[p] = "idle" /\ p \notin left /\ asked[p] < MAXASK
    /\ asked' = [asked EXCEPT ![p] = @ + 1] /\ ost' = [ost EXCEPT ![p] = "asked"]
    /\ UNCHANGED <<replies, left, fds, maxi, revents, next, srv>>
Leave(p) ==
    /\ ost[p] \in {"idle", "asked"} /\ p \notin left /\ left' = left \cup {p}
    /\ UNCHANGED <<ost, asked, replies, fds, maxi, revents, next, srv>>

(* ------------------------------ the server ----------------------------- *)
\* Mutant of Bits: every entry is taken for ready.
Bits_All(i) == IF fds[i] = NOBODY THEN {} ELSE {"in"}
Bits(i) == LET p == fds[i] IN
           IF p = NOBODY THEN {}
           ELSE (IF ost[p] = "asked" \/ p \in left THEN {"in"} ELSE {})
                \cup (IF POLL /\ p \in left THEN {"hup"} ELSE {})
Queued == {p \in Procs : ost[p] = "queued"}
Free == {i \in Entries : fds[i] = NOBODY}

\* Mutant of Wait: the last entry is left out.
Wait_Maxfd ==
    /\ srv = "up" /\ next = 0
    /\ Queued # {} \/ \E i \in 1..(maxi - 1) : Bits(i) # {}
    /\ revents' = [i \in Entries |-> IF i < maxi THEN Bits(i) ELSE {}]
    /\ next' = IF Queued # {} THEN NSLOTS + 1 ELSE 1
    /\ UNCHANGED <<ost, asked, replies, left, fds, maxi, srv>>

\* select () or poll () over the entries up to maxi: it returns when there is
\* a connection or a descriptor that is ready.
Wait ==
    /\ srv = "up" /\ next = 0
    /\ Queued # {} \/ \E i \in 1..maxi : Bits(i) # {}
    /\ revents' = [i \in Entries |-> IF i <= maxi THEN Bits(i) ELSE revents[i]]
    /\ next' = IF Queued # {} THEN NSLOTS + 1 ELSE 1
    /\ UNCHANGED <<ost, asked, replies, left, fds, maxi, srv>>

\* serv_accept () and client_add ().  A name older than 30 seconds, or gone,
\* is an error, and the server exits on it.  select () goes back to waiting,
\* poll () on to the clients.
serv_accept(p) ==
    /\ srv = "up" /\ next = NSLOTS + 1 /\ p \in Queued /\ Free # {}
    /\ \/ srv' = "dead" /\ UNCHANGED <<ost, fds, maxi, next>>
       \/ LET i == CHOOSE j \in Free : \A l \in Free : j <= l IN
          /\ fds' = [fds EXCEPT ![i] = p] /\ ost' = [ost EXCEPT ![p] = "idle"]
          /\ maxi' = IF i > maxi THEN i ELSE maxi
          /\ next' = IF POLL THEN 1 ELSE 0
          /\ UNCHANGED srv
    /\ UNCHANGED <<asked, replies, left, revents>>

\* client_del () and close ().
Drop(i) ==
    /\ fds' = [fds EXCEPT ![i] = NOBODY] /\ ost' = [ost EXCEPT ![fds[i]] = "dropped"]
    /\ UNCHANGED <<asked, replies, srv>>

\* Mutant of Answer: the request stays after its answer.
Answer_Again(p) ==
    /\ replies' = [replies EXCEPT ![p] = @ + 1] /\ replies[p] < 3 /\ srv' = "up"
    /\ UNCHANGED <<ost, asked, fds>>

\* request (): the descriptor or the error goes back; to a client that has
\* closed, with the SIGPIPE nothing ignores.
Answer(p) ==
    /\ IF p \in left THEN srv' = "dead" /\ UNCHANGED <<ost, replies>>
       ELSE /\ replies' = [replies EXCEPT ![p] = @ + 1] /\ ost' = [ost EXCEPT ![p] = "idle"]
            /\ srv' = "up"
    /\ UNCHANGED <<asked, fds>>

\* One entry of the round.  read () waits when nothing was sent and nothing
\* closed.
Step(i) ==
    /\ srv = "up" /\ next = i /\ i <= maxi /\ next' = (IF i = maxi THEN 0 ELSE i + 1)
    /\ LET p == fds[i] IN
       CASE p = NOBODY \/ revents[i] = {} -> UNCHANGED <<ost, asked, replies, fds, srv>>
         [] p # NOBODY /\ "hup" \in revents[i] -> Drop(i)
         [] p # NOBODY /\ revents[i] = {"in"} /\ ost[p] = "asked" -> Answer(p)
         [] p # NOBODY /\ revents[i] = {"in"} /\ ost[p] # "asked" /\ p \in left -> Drop(i)
         [] OTHER -> srv' = p /\ UNCHANGED <<ost, asked, replies, fds>>
    /\ UNCHANGED <<left, maxi, revents>>

\* The read () that waited has its data, or the end of file.
Unblock ==
    /\ srv \in Procs
    /\ \/ ost[srv] = "asked" /\ Answer(srv)
       \/ /\ ost[srv] # "asked" /\ srv \in left /\ srv' = "up"
          /\ fds' = [i \in Entries |-> IF fds[i] = srv THEN NOBODY ELSE fds[i]]
          /\ ost' = [ost EXCEPT ![srv] = "dropped"] /\ UNCHANGED <<asked, replies>>
    /\ UNCHANGED <<left, maxi, revents, next>>

Server == Wait \/ Unblock \/ (\E p \in Procs : serv_accept(p)) \/ \E i \in Entries : Step(i)
OpendNext == Server \/ \E p \in Procs : cli_conn(p) \/ csopen(p) \/ Leave(p)

OpendSpec == OpendInit /\ [][OpendNext]_opendVars /\ WF_opendVars(Server)

(* ------------------------------ properties ----------------------------- *)
\* A client has no more answers than it asked for, and is behind by one only
\* while it waits.
OneAnswer ==
    \A p \in Procs : ost[p] # "dropped" =>
        replies[p] = asked[p] - IF ost[p] = "asked" THEN 1 ELSE 0

\* The select () form closes a connection only when the client has closed it,
\* and never waits in read ().
NeverCutOff ==
    ~POLL => /\ \A p \in Procs : ost[p] = "dropped" => p \in left
             /\ srv \notin Procs

Waits(p) == ost[p] = "asked" /\ p \notin left
\* A request is answered, unless the server dies of another client.
Answered == \A p \in Procs : Waits(p) ~> ~Waits(p) \/ srv # "up"

-----------------------------------------------------------------------------
(***************************************************************************)
(* Passing a descriptor or an error (apue.2e/lib: send_fd (), send_err (), *)
(* recv_fd ()): text, then a null byte and a status byte over a stream     *)
(* that keeps no boundaries.                                               *)
(***************************************************************************)
CONSTANTS Codes,     \* descriptors (0 or more) and errors (below 0) to send
          Texts,     \* lengths of the message before an error
          BUF        \* recv_fd ()'s buffer

VARIABLES fd,        \* what is sent
          text,      \* length of the message
          wire,      \* bytes in the stream: text 1, 2, ..., then 0 and the status
          spc,       \* the sender
          passPrinted,   \* what recv_fd () has passed to userfunc ()
          got,       \* recv_fd ()'s result
          rpc        \* "reading", "returned" or "dumped"

passVars == <<fd, text, wire, spc, passPrinted, got, rpc>>

PassInit ==
    /\ fd \in Codes /\ text \in (IF fd < 0 THEN Texts ELSE {0})
    /\ wire = <<>> /\ spc = "text" /\ passPrinted = <<>> /\ got = 0 /\ rpc = "reading"

Byte(n) == [b |-> n, passed |-> FALSE, file |-> 0]
Message == [n \in 1..text |-> Byte(n)]

\* The status: 0 for a descriptor, the error in one byte, never 0.
status == IF fd >= 0 THEN 0 ELSE IF (-fd) % 256 = 0 THEN 1 ELSE (-fd) % 256

\* send_err () writes the text.
WriteText ==
    /\ spc = "text" /\ wire' = wire \o Message /\ spc' = "final"
    /\ UNCHANGED <<fd, text, passPrinted, got, rpc>>

\* send_fd (): both bytes, and the descriptor with them, in one message.
send_fd ==
    /\ spc = "final" /\ spc' = "sent"
    /\ wire' = wire \o <<Byte(0), [b |-> status, passed |-> fd >= 0, file |-> IF fd >= 0 THEN fd ELSE 0]>>
    /\ UNCHANGED <<fd, text, passPrinted, got, rpc>>

\* One recvmsg (): what is there, up to the buffer.  A null that is not next to
\* last is a format error.
Nulls(s) == {n \in 1..Len(s) : s[n].b = 0}
FirstNull(s) == CHOOSE n \in Nulls(s) : \A m \in Nulls(s) : n <= m
recv_fd ==
    /\ rpc = "reading" /\ wire # <<>>
    /\ LET nr == IF Len(wire) < BUF THEN Len(wire) ELSE BUF
           buf == SubSeq(wire, 1, nr)
       IN  /\ wire' = SubSeq(wire, nr + 1, Len(wire))
           /\ IF Nulls(buf) = {}
              THEN passPrinted' = passPrinted \o buf /\ UNCHANGED <<got, rpc>>
              ELSE IF FirstNull(buf) # nr - 1
              THEN rpc' = "dumped" /\ UNCHANGED <<passPrinted, got>>
              ELSE /\ passPrinted' = passPrinted \o SubSeq(buf, 1, nr - 2) /\ rpc' = "returned"
                   /\ got' = IF buf[nr].b = 0 THEN buf[nr].file ELSE -buf[nr].b
    /\ UNCHANGED <<fd, text, spc>>

Stay == rpc # "reading" /\ UNCHANGED passVars
PassNext == WriteText \/ send_fd \/ recv_fd \/ Stay
PassSpec == PassInit /\ [][PassNext]_passVars

(* ------------------------------ properties ----------------------------- *)
\* What recv_fd () returns is the descriptor that was sent, or an error when
\* one was sent; and the whole text was passed on before.
PassedRight ==
    rpc = "returned" =>
        /\ IF fd >= 0 THEN got = fd ELSE got < 0
        /\ passPrinted = Message

\* recv_fd () takes a good message for a bad one only when the text before it
\* ends one byte short of a full buffer.
DumpOnlyFull == rpc = "dumped" => text % BUF = BUF - 1
=============================================================================
