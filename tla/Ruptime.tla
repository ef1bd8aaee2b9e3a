------------------------------- MODULE Ruptime ------------------------------
(* The uptime service of apue.2e/sockets: the servers ruptimed.c (popen, one *)
(* client after another), ruptimed-fd.c (a child with the socket as stdout)  *)
(* and ruptimed-dg.c (datagrams), initserver (), and the clients ruptime.c   *)
(* and ruptime-dg.c.  uptime writes LINES lines; daemonize () is in Daemon.  *)
EXTENDS Integers, Sequences, FiniteSets

CONSTANTS Clients, LINES, QLEN,
          NADDR              \* addresses of the host
VARIABLES kind, srv, aip, queue, cl, line,
          child,             \* ruptimed-fd: the child of the client being served
          sock,              \* bytes under way to a client, in lines
          open,              \* open[c]: who holds the client's socket on the server
          at, got, alarm, lost, early, shown
vars == <<kind, srv, aip, queue, cl, line, child, sock, open, at, got, alarm, lost, early, shown>>

Nobody == "nobody"
Init ==
    /\ kind \in {"popen", "fork", "dgram"} /\ srv = "init" /\ aip = 1 /\ queue = <<>>
    /\ cl = Nobody /\ line = 0 /\ child = "none" /\ sock = [c \in Clients |-> 0]
    /\ open = [c \in Clients |-> {}] /\ at = [c \in Clients |-> "start"] /\ got = [c \in Clients |-> 0]
    /\ alarm = {} /\ lost = FALSE /\ early = {} /\ shown = [c \in Clients |-> "nothing"]

net == <<cl, line, child, sock, open>>
clients == <<at, got, alarm, lost, early, shown>>

(* --- starting                                                              *)
\* A socket bound to the address, and listening if it is a stream; or closed.
initserver(up) ==
    \/ srv' = up /\ UNCHANGED aip
    \/ aip' = aip + 1 /\ srv' = IF aip = NADDR THEN "gone" ELSE "init"
ruptimed == kind = "popen" /\ srv = "init" /\ initserver("accept") /\ UNCHANGED <<kind, queue, net, clients>>
ruptimed_fd == kind = "fork" /\ srv = "init" /\ initserver("accept") /\ UNCHANGED <<kind, queue, net, clients>>
ruptimed_dg == kind = "dgram" /\ srv = "init" /\ initserver("accept") /\ UNCHANGED <<kind, queue, net, clients>>

(* --- serve () of ruptimed.c                                                *)
Accept ==
    /\ kind # "dgram" /\ srv = "accept" /\ queue # <<>>
    /\ cl' = Head(queue) /\ queue' = Tail(queue) /\ line' = 0
    /\ open' = [open EXCEPT ![Head(queue)] = {"server"}]
    /\ srv' = IF kind = "popen" THEN "send" ELSE "fork"
    /\ UNCHANGED <<kind, aip, child, sock, clients>>
\* A line of uptime; popen may fail, and one line says so instead.
SendLine ==
    /\ kind = "popen" /\ srv = "send" /\ line < LINES
    /\ sock' = [sock EXCEPT ![cl] = @ + 1]
    /\ line' \in {line + 1} \cup (IF line = 0 THEN {LINES} ELSE {})
    /\ UNCHANGED <<kind, srv, aip, queue, cl, child, open, clients>>
CloseClient ==
    /\ kind = "popen" /\ srv = "send" /\ line = LINES
    /\ open' = [open EXCEPT ![cl] = @ \ {"server"}] /\ cl' = Nobody /\ srv' = "accept"
    /\ UNCHANGED <<kind, aip, queue, line, child, sock, clients>>

(* --- serve () of ruptimed-fd.c                                             *)
Fork ==
    /\ kind = "fork" /\ srv = "fork"
    /\ \/ child' = "exec" /\ srv' = "close" /\ open' = [open EXCEPT ![cl] = @ \cup {"child"}]
       \/ srv' = "gone" /\ open' = [open EXCEPT ![cl] = @ \ {"server"}] /\ UNCHANGED child
    /\ UNCHANGED <<kind, aip, queue, cl, line, sock, clients>>
\* exec: uptime; when it fails the child goes on with the loop of the server,
\* its stdout still the socket, and the parent waits for it from then on.
Exec ==
    /\ child = "exec"
    /\ \/ child' = "uptime" /\ UNCHANGED open
       \/ child' = "server" /\ open' = [open EXCEPT ![cl] = (@ \ {"child"}) \cup {"copy"}]
    /\ UNCHANGED <<kind, srv, aip, queue, cl, line, sock, clients>>
TakeOver ==
    /\ child = "server" /\ srv = "waitpid" /\ child' = "none" /\ cl' = Nobody /\ srv' = "accept"
    /\ UNCHANGED <<kind, aip, queue, line, sock, open, clients>>
Uptime ==
    /\ child = "uptime"
    /\ IF line < LINES THEN sock' = [sock EXCEPT ![cl] = @ + 1] /\ line' = line + 1 /\ UNCHANGED <<child, open>>
       ELSE child' = "zombie" /\ open' = [open EXCEPT ![cl] = @ \ {"child"}] /\ UNCHANGED <<sock, line>>
    /\ UNCHANGED <<kind, srv, aip, queue, cl, clients>>
Close ==
    /\ kind = "fork" /\ srv = "close" /\ open' = [open EXCEPT ![cl] = @ \ {"server"}] /\ srv' = "waitpid"
    /\ UNCHANGED <<kind, aip, queue, cl, line, child, sock, clients>>
Waitpid ==
    /\ kind = "fork" /\ srv = "waitpid" /\ child = "zombie"
    /\ child' = "none" /\ cl' = Nobody /\ srv' = "accept"
    /\ UNCHANGED <<kind, aip, queue, line, sock, open, clients>>

(* --- serve () of ruptimed-dg.c: one datagram, its first line back          *)
Recvfrom ==
    /\ kind = "dgram" /\ srv = "accept" /\ queue # <<>>
    /\ queue' = Tail(queue)
    /\ \/ sock' = [sock EXCEPT ![Head(queue)] = 1] /\ UNCHANGED lost
       \/ lost' = TRUE /\ UNCHANGED sock
    /\ UNCHANGED <<kind, srv, aip, cl, line, child, open, at, got, alarm, early, shown>>

Server == ruptimed \/ ruptimed_fd \/ ruptimed_dg \/ Accept \/ SendLine \/ CloseClient
          \/ Fork \/ Exec \/ TakeOver \/ Uptime \/ Close \/ Waitpid \/ Recvfrom

(* --- the clients                                                           *)
To(c, step) == at' = [at EXCEPT ![c] = step]
\* ruptime.c: connected once there is room in the queue; connect_retry () gives
\* up only on a server that does not listen.
Connect(c) ==
    /\ kind # "dgram" /\ at[c] = "start"
    /\ \/ srv \notin {"init", "gone"} /\ Len(queue) < QLEN /\ queue' = Append(queue, c) /\ To(c, "recv") /\ UNCHANGED shown
       \/ srv \in {"init", "gone"} /\ To(c, "end") /\ shown' = [shown EXCEPT ![c] = "can't connect"] /\ UNCHANGED queue
    /\ UNCHANGED <<kind, srv, aip, net, got, alarm, lost, early>>
\* print_uptime of ruptime.c: what comes, until the other side is closed.
Hungup(c) == \/ open[c] = {} /\ \A k \in DOMAIN queue : queue[k] # c
             \/ srv = "gone" /\ open[c] = {}
print_uptime(c) ==
    /\ kind # "dgram" /\ at[c] = "recv"
    /\ \/ sock[c] > 0 /\ sock' = [sock EXCEPT ![c] = 0] /\ got' = [got EXCEPT ![c] = @ + sock[c]] /\ UNCHANGED <<at, shown>>
       \/ sock[c] = 0 /\ Hungup(c) /\ To(c, "end") /\ shown' = [shown EXCEPT ![c] = "uptime"] /\ UNCHANGED <<sock, got>>
    /\ UNCHANGED <<kind, srv, aip, queue, cl, line, child, open, alarm, lost, early>>
\* print_uptime of ruptime-dg.c: sendto, then the alarm, then recvfrom.
Sendto(c) ==
    /\ kind = "dgram" /\ at[c] = "start" /\ To(c, "alarm")
    /\ \/ srv = "accept" /\ queue' = Append(queue, c) /\ UNCHANGED lost
       \/ lost' = TRUE /\ UNCHANGED queue
    /\ UNCHANGED <<kind, srv, aip, net, got, alarm, early, shown>>
Alarm(c) ==
    /\ at[c] = "alarm" /\ To(c, "call") /\ alarm' = alarm \cup {c}
    /\ UNCHANGED <<kind, srv, aip, queue, net, got, lost, early, shown>>
Call(c) ==
    /\ at[c] = "call" /\ To(c, "recvfrom")
    /\ UNCHANGED <<kind, srv, aip, queue, net, got, alarm, lost, early, shown>>
Answer(c) ==
    /\ at[c] = "recvfrom" /\ sock[c] > 0 /\ To(c, "end") /\ alarm' = alarm \ {c}
    /\ got' = [got EXCEPT ![c] = 1] /\ sock' = [sock EXCEPT ![c] = 0] /\ shown' = [shown EXCEPT ![c] = "uptime"]
    /\ UNCHANGED <<kind, srv, aip, queue, cl, line, child, open, lost, early>>
\* The alarm: it interrupts recvfrom (), or comes before it and is gone.
sigalrm(c) ==
    /\ c \in alarm /\ alarm' = alarm \ {c}
    /\ IF at[c] = "recvfrom" THEN To(c, "end") /\ shown' = [shown EXCEPT ![c] = "recv error"] /\ UNCHANGED early
       ELSE early' = early \cup {c} /\ UNCHANGED <<at, shown>>
    /\ UNCHANGED <<kind, srv, aip, queue, net, got, lost>>
Client(c) == Connect(c) \/ print_uptime(c) \/ Sendto(c) \/ Alarm(c) \/ Call(c) \/ Answer(c) \/ sigalrm(c)

ClientSteps == \E c \in Clients : Client(c)
Next == Server \/ ClientSteps

-----------------------------------------------------------------------------
\* A client that says it showed the uptime has all of it: every line that was
\* sent, or the one line of an error, and nothing of another client's (serve,
\* print_uptime).  A server that could not fork leaves an empty answer.
WholeUptime ==
    \A c \in Clients : shown[c] = "uptime" =>
        \/ got[c] \in (IF kind = "popen" THEN {1, LINES} ELSE IF kind = "fork" THEN {LINES} ELSE {1})
        \/ got[c] = 0 /\ srv = "gone"
\* Every client ends, though a datagram may be lost: except one whose child
\* could not exec and stayed with the socket, and one whose alarm came before
\* recvfrom () was called.
ClientsEnd == \A c \in Clients : at[c] = "end" \/ "copy" \in open[c] \/ c \in early
=============================================================================
