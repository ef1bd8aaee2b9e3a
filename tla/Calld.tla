--------------------------------- MODULE Calld --------------------------------
(***************************************************************************)
(* The dialing server (apue.2e/calld): one process that accepts clients,   *)
(* forks a child per call, and learns of its end by SIGCHLD; devices are   *)
(* locked under the child's process id.  Lines[c] is what the Systems and  *)
(* Devices files give for the system client c asks for: the device of each *)
(* matching entry in turn, NoDev where dev_find () finds none.             *)
(***************************************************************************)
EXTENDS Integers, Sequences, FiniteSets

CONSTANTS Procs, Lines, Devs, NoDev, NOBODY,
          NSLOTS,      \* bound: entries of client[]
          MAXKIDS      \* bound: children forked in all

VARIABLES cst,         \* what each client has been told
          gone,        \* clients that have closed their end
          slot,        \* client[]: fd, pid, childdone, sysftell and the options
          lock,        \* device -> pid, 0 when free
          kid,         \* children by pid
          nkids,
          pend,        \* SIGCHLD is pending
          flag,        \* chld_flag
          mpc,         \* where loop () is
          merged,      \* a SIGCHLD came while one was pending
          at,          \* the entry child_done () is at
          early        \* a client left before its child's end was dealt with

vars == <<cst, gone, slot, lock, kid, nkids, pend, flag, mpc, merged, early, at>>

Slots == 1..NSLOTS
Kids  == 1..MAXKIDS
NoKid == [st |-> "none", dev |-> NoDev, for |-> NOBODY]

\* client_alloc () sets the descriptors only; the rest is taken to be zero, as
\* in memory fresh from the system.
Init ==
    /\ cst = [c \in Procs |-> "new"] /\ gone = {}
    /\ slot = [i \in Slots |-> [fd |-> NOBODY, pid |-> 0, done |-> 0, pos |-> 0, opt |-> NOBODY]]
    /\ lock = [d \in Devs |-> 0] /\ kid = [k \in Kids |-> NoKid] /\ nkids = 0
    /\ pend = FALSE /\ flag = FALSE /\ mpc = "top" /\ merged = FALSE /\ early = FALSE /\ at = 1

(* ------------------------------ clients -------------------------------- *)
\* call (): cli_conn () and writev () of the request.
Connect(c) ==
    /\ cst[c] = "new" /\ cst' = [cst EXCEPT ![c] = "queued"]
    /\ UNCHANGED <<gone, slot, lock, kid, nkids, pend, flag, mpc, merged, early, at>>

HangUp(c) ==
    /\ cst[c] # "new" /\ c \notin gone /\ gone' = gone \cup {c}
    /\ UNCHANGED <<cst, slot, lock, kid, nkids, pend, flag, mpc, merged, early, at>>

(* ------------------------------ request () ----------------------------- *)
\* The entry the next child dials: the first one left whose device is free, if
\* no entry without a device comes before it; 0 if there is none.
Entry(opt, pos, lk) ==
    LET L == Lines[opt]
        free == {p \in (pos + 1)..Len(L) :
                    /\ L[p] # NoDev /\ lk[L[p]] = 0
                    /\ \A q \in (pos + 1)..(p - 1) : L[q] # NoDev /\ lk[L[q]] # 0}
    IN  IF free = {} THEN 0 ELSE CHOOSE p \in free : TRUE

\* A child is forked, and waits for the parent to have set the lock before it
\* dials; or send_err () and cli_done ().  Writing to a client that is gone is a
\* SIGPIPE, which nothing ignores.
request(i, opt, pos, lk, to) ==
    LET c == slot[i].fd
        p == Entry(opt, pos, lk)
    IN  IF p # 0
        THEN /\ nkids < MAXKIDS /\ nkids' = nkids + 1
             /\ kid' = [kid EXCEPT ![nkids + 1] = [st |-> "dial", dev |-> Lines[opt][p], for |-> c]]
             /\ slot' = [slot EXCEPT ![i] =
                           [fd |-> c, pid |-> nkids + 1, done |-> 0, pos |-> p, opt |-> opt]]
             /\ lock' = [lk EXCEPT ![Lines[opt][p]] = nkids + 1]
             /\ cst' = [cst EXCEPT ![c] = "asked"] /\ mpc' = to
        ELSE /\ cst' = [cst EXCEPT ![c] = "refused"]
             /\ slot' = [slot EXCEPT ![i].fd = NOBODY, ![i].done = 0, ![i].opt = opt]
             /\ lock' = lk /\ UNCHANGED <<kid, nkids>>
             /\ mpc' = IF c \in gone THEN "dead" ELSE to

(* ------------------------------ loop () -------------------------------- *)
Check ==
    /\ mpc = "top" /\ mpc' = (IF flag THEN "done" ELSE "gap") /\ flag' = FALSE
    /\ UNCHANGED <<cst, gone, slot, lock, kid, nkids, pend, merged, early, at>>

\* Between the test of the flag and select () a SIGCHLD interrupts nothing.
Select ==
    /\ mpc = "gap" /\ mpc' = "select"
    /\ UNCHANGED <<cst, gone, slot, lock, kid, nkids, pend, flag, merged, early, at>>

Queued == {c \in Procs : cst[c] = "queued"}
Free == {i \in Slots : slot[i].fd = NOBODY}

\* serv_accept () and client_add (), the first available entry.
client_add(c) ==
    /\ mpc = "select" /\ c \in Queued /\ Free # {}
    /\ LET i == CHOOSE j \in Free : \A l \in Free : j <= l IN
       slot' = [slot EXCEPT ![i].fd = c]
    /\ cst' = [cst EXCEPT ![c] = "open"] /\ mpc' = "top"
    /\ UNCHANGED <<gone, lock, kid, nkids, pend, flag, merged, early, at>>

\* Data has arrived: the options are saved and the call is tried.  One entry of
\* client[] a time round.
Serve(i) ==
    /\ mpc = "select" /\ Queued = {} /\ slot[i].fd # NOBODY /\ cst[slot[i].fd] = "open"
    /\ request(i, slot[i].fd, 0, lock, "top")
    /\ UNCHANGED <<gone, pend, flag, merged, early, at>>

\* Mutant of lock_rel: every lock is released.
lock_rel_All(pid) == [d \in Devs |-> 0]
lock_rel(pid) == [d \in Devs |-> IF lock[d] = pid THEN 0 ELSE lock[d]]

\* End of file: the lock goes, whatever the child is doing.
Close(i) ==
    /\ mpc = "select" /\ Queued = {} /\ slot[i].fd \in gone /\ cst[slot[i].fd] # "open"
    /\ lock' = lock_rel(slot[i].pid)
    /\ early' = (early \/ slot[i].done # 0 \/ (slot[i].pid # 0 /\ kid[slot[i].pid].st # "reaped"))
    /\ slot' = [slot EXCEPT ![i].fd = NOBODY] /\ mpc' = "top"
    /\ UNCHANGED <<cst, gone, kid, nkids, pend, flag, merged, at>>

\* child_done () goes through client[]: a call that failed gives up its device
\* and goes on with the next entry; one that succeeded keeps the lock until the
\* client closes.
child_done(i) ==
    /\ mpc \in {"done", "redo"} /\ at = i /\ at' = i + 1
    /\ \/ /\ slot[i].fd = NOBODY \/ slot[i].done = 0
          /\ UNCHANGED <<slot, cst, lock, kid, nkids, mpc>>
       \/ /\ slot[i].fd # NOBODY /\ slot[i].done = 1 /\ slot' = [slot EXCEPT ![i].done = 0]
          /\ UNCHANGED <<cst, lock, kid, nkids, mpc>>
       \/ /\ slot[i].fd # NOBODY /\ slot[i].done = 2
          /\ request(i, slot[i].opt, slot[i].pos, lock_rel(slot[i].pid), mpc)
    /\ UNCHANGED <<gone, pend, flag, merged, early>>

\* A SIGCHLD caught meanwhile sends it round again; after select () was
\* interrupted, loop () begins anew.
DoneAll ==
    /\ mpc \in {"done", "redo"} /\ at > NSLOTS /\ at' = 1
    /\ mpc' = (IF flag THEN mpc ELSE IF mpc = "done" THEN "gap" ELSE "top") /\ flag' = FALSE
    /\ UNCHANGED <<cst, gone, slot, lock, kid, nkids, pend, merged, early>>

\* select () returns EINTR: child_done () and round again.
Eintr ==
    /\ mpc = "eintr" /\ mpc' = "redo" /\ flag' = FALSE
    /\ UNCHANGED <<cst, gone, slot, lock, kid, nkids, pend, merged, early, at>>

\* A pending signal is handled before the server's next step.
loop ==
    /\ ~pend
    /\ \/ Check \/ Select \/ DoneAll \/ Eintr
       \/ \E c \in Procs : client_add(c)
       \/ \E i \in Slots : Serve(i) \/ Close(i) \/ child_done(i)

(* ------------------------------ children ------------------------------- *)
\* child_dial (): the descriptor is sent, or the reason why not; a client that
\* is gone makes that a SIGPIPE.
Outcomes(c) == IF c \in gone THEN {"killed", "fail"} ELSE {"ok", "fail"}
child_dial(k) ==
    /\ kid[k].st = "dial"
    /\ \E o \in Outcomes(kid[k].for) :
       /\ kid' = [kid EXCEPT ![k].st = o]
       /\ cst' = IF o = "ok" THEN [cst EXCEPT ![kid[k].for] = "won"] ELSE cst
    /\ pend' = TRUE /\ merged' = (merged \/ pend)
    /\ UNCHANGED <<gone, slot, lock, nkids, flag, mpc, early, at>>

\* One wait () for a SIGCHLD, of any child that has ended; a child that was
\* killed is only logged, and one that no entry knows ends the server.
Ended == {k \in Kids : kid[k].st \in {"ok", "fail", "killed"}}
Of(k) == {i \in Slots : slot[i].pid = k}
sig_chld(k) ==
    /\ pend /\ mpc \notin {"dead", "quit"} /\ k \in Ended /\ pend' = FALSE /\ flag' = TRUE
    /\ kid' = [kid EXCEPT ![k].st = "reaped"]
    /\ IF kid[k].st = "killed" \/ Of(k) = {} THEN UNCHANGED slot
       ELSE LET i == CHOOSE j \in Of(k) : \A l \in Of(k) : j <= l IN
            slot' = [slot EXCEPT ![i].done = IF kid[k].st = "ok" THEN 1 ELSE 2]
    /\ mpc' = CASE kid[k].st # "killed" /\ Of(k) = {} -> "quit"
                [] mpc = "select" -> "eintr" [] OTHER -> mpc
    /\ UNCHANGED <<cst, gone, lock, nkids, merged, early, at>>

Idle == (\A c \in Procs : cst[c] # "new") /\ UNCHANGED vars

Next ==
    \/ loop \/ Idle
    \/ \E c \in Procs : Connect(c) \/ HangUp(c)
    \/ \E k \in Kids : child_dial(k) \/ sig_chld(k)

\* The server and the signals go on; a child may dial as long as it likes.
Spec == Init /\ [][Next]_vars /\ WF_vars(loop) /\ WF_vars(\E k \in Kids : sig_chld(k))

(* ------------------------------ properties ----------------------------- *)
TypeOK ==
    /\ \A i \in Slots : slot[i].fd \in Procs \cup {NOBODY} /\ slot[i].pid \in 0..nkids
    /\ \A d \in Devs : lock[d] \in 0..nkids

Using(d) == {k \in Kids : kid[k].dev = d /\ (kid[k].st = "dial" \/ (kid[k].st # "none"
                              /\ cst[kid[k].for] = "won" /\ kid[k].for \notin gone
                              /\ \A l \in Kids : l > k => kid[l].for # kid[k].for))}

\* A device is never dialed for two clients, nor dialed while a client has it
\* open, unless a client left while its child was dialing: the end of file
\* then frees the device under the child.
DeviceOnce == ~early => \A d \in Devs : Cardinality(Using(d)) <= 1

\* A device that is in use is locked.
UsedLocked == ~early => \A d \in Devs : Using(d) # {} => lock[d] \in Using(d)

\* The server always knows the child whose end it is told of, and so does not
\* log_quit (), unless a client left early.
ChildKnown == mpc = "quit" => early

\* A call is tried again for the client that asked for it, with that client's
\* options: an entry of client[] taken up by another client carries nothing
\* over, unless the one before it left early.
RetryOwn ==
    \A i \in Slots : slot[i].fd # NOBODY /\ slot[i].done # 0 /\ ~early =>
        slot[i].opt = slot[i].fd /\ kid[slot[i].pid].for = slot[i].fd

\* The end of a dialing child is taken in, unless two came as one signal.
EndNoticed ==
    \A k \in Kids : (k \in Ended) ~> (k \notin Ended \/ merged \/ mpc \in {"dead", "quit"})

Failed(i) == slot[i].done = 2 /\ slot[i].fd # NOBODY
Excused == (mpc = "select" /\ flag) \/ mpc \in {"dead", "quit"} \/ nkids = MAXKIDS
\* A client whose call failed is called again or refused; if the signal came
\* between the test of the flag and select (), only after another event.
FailureToldSoon == \A i \in Slots : Failed(i) ~> ~Failed(i) \/ Excused
=============================================================================
