---------------------------- MODULE ServerProofs ----------------------------
(*****************************************************************************)
(* Proofs about the open server and the daemons.                             *)
(*****************************************************************************)
EXTENDS Opend, Daemon, TLAPS, WellFoundedInduction, SequenceTheorems

(* Opend, for every set of clients and every size of client[]: no answer     *)
(* goes astray, in either form of the loop, and the select () form never     *)
(* waits in read () nor closes on a client that has not closed.              *)
\* What is read before it is used names a client or nothing.
Names == /\ NSLOTS \in Nat /\ POLL \in BOOLEAN
         /\ NOBODY \notin Procs /\ "up" \notin Procs /\ "dead" \notin Procs

States ==
    /\ ost \in [Procs -> {"new", "queued", "idle", "asked", "dropped"}]
    /\ asked \in [Procs -> Nat] /\ replies \in [Procs -> Nat] /\ left \subseteq Procs
    /\ fds \in [Entries -> Procs \cup {NOBODY}] /\ maxi \in 0..NSLOTS
    /\ revents \in [Entries -> SUBSET {"in", "hup"}]
    /\ next \in 0..(NSLOTS + 1) /\ srv \in Procs \cup {"up", "dead"}
\* The entries are those of connected clients, each in one entry.
Serving ==
    /\ \A i \in Entries : fds[i] # NOBODY => ost[fds[i]] \in {"idle", "asked"}
    /\ \A i, j \in Entries : fds[i] # NOBODY /\ fds[i] = fds[j] => i = j
    /\ srv \in Procs => ost[srv] \in {"idle", "asked"}
OpendIInv == States /\ Serving /\ OneAnswer

\* A set of entries that is not empty has a first one.
LEMMA First == ASSUME Names, NEW S \in SUBSET Entries, S # {}
               PROVE \E j \in S : \A l \in S : j <= l
  <1> DEFINE R == {ss \in Nat \X Nat : ss[1] < ss[2]}
  <1>1. IsWellFoundedOn(R, Nat) BY NatLessThanWellFounded, Zenon DEF OpToRel
  <1>2. S \subseteq Nat BY DEF Entries, Names
  <1>3. PICK j \in S : \A l \in S : ~(<<l, j>> \in R)
    <2> HIDE DEF R
    <2> QED BY <1>1, <1>2, WFMin, Zenon
  <1>4. \A l \in S : ~(l < j) BY <1>2, <1>3, Zenon
  <1> QED BY <1>2, <1>4

\* The server has no client.
LEMMA OpendInitIInv == ASSUME Names PROVE OpendInit => OpendIInv
  <1> SUFFICES ASSUME OpendInit PROVE OpendIInv BY Zenon
  <1>1. revents \in [Entries -> SUBSET {"in", "hup"}] BY DEF OpendInit, Names
  <1>2. States BY <1>1 DEF OpendInit, States, Names, Entries
  <1>3. Serving BY Zenon DEF OpendInit, Serving, Names
  <1>4. OneAnswer BY DEF OpendInit, OneAnswer
  <1> QED BY <1>2, <1>3, <1>4, Zenon DEF OpendIInv

\* What one entry of the round may do.
LEMMA OpendStepCases ==
    ASSUME Names, OpendIInv, NEW i \in Entries, Step(i)
    PROVE  /\ srv = "up" /\ next = i /\ i <= maxi /\ UNCHANGED <<left, maxi, revents>>
           /\ next' = IF i = maxi THEN 0 ELSE i + 1
           /\ \/ UNCHANGED <<ost, asked, replies, fds, srv>>
              \/ fds[i] \in Procs /\ Drop(i) /\ ("hup" \in revents[i] \/ fds[i] \in left)
              \/ fds[i] \in Procs /\ ost[fds[i]] = "asked" /\ Answer(fds[i])
              \/ /\ fds[i] \in Procs /\ revents[i] # {} /\ srv' = fds[i]
                 /\ "hup" \notin revents[i]
                 /\ revents[i] = {"in"} => ost[fds[i]] # "asked" /\ fds[i] \notin left
                 /\ UNCHANGED <<ost, asked, replies, fds>>
  <1>1. fds[i] \in Procs \cup {NOBODY} /\ revents[i] \in SUBSET {"in", "hup"}
    BY Zenon DEF OpendIInv, States
  <1>2. CASE fds[i] = NOBODY \/ revents[i] = {}
    BY <1>2, Zenon DEF Step, Names
  <1>3. CASE fds[i] # NOBODY /\ revents[i] # {} /\ "hup" \in revents[i]
    BY <1>1, <1>3, Zenon DEF Step
  <1>4. CASE fds[i] # NOBODY /\ revents[i] # {} /\ "hup" \notin revents[i]
    BY <1>1, <1>4, Zenon DEF Step
  <1> QED BY <1>2, <1>3, <1>4, Zenon

\* Every step of the server and of its clients keeps the invariant.
LEMMA OpendNextIInv == ASSUME Names PROVE OpendIInv /\ [OpendNext]_opendVars => OpendIInv'
  <1> SUFFICES ASSUME OpendIInv, [OpendNext]_opendVars PROVE OpendIInv' BY Zenon
  <1> USE DEF Names
  <1>1. CASE UNCHANGED opendVars
    BY <1>1, Zenon DEF opendVars, OpendIInv, States, Serving, OneAnswer
  <1>2. ASSUME NEW p \in Procs, cli_conn(p) PROVE OpendIInv'
    BY <1>2 DEF cli_conn, OpendIInv, States, Serving, OneAnswer
  <1>3. ASSUME NEW p \in Procs, csopen(p) PROVE OpendIInv'
    BY <1>3 DEF csopen, OpendIInv, States, Serving, OneAnswer
  <1>4. ASSUME NEW p \in Procs, Leave(p) PROVE OpendIInv'
    BY <1>4, Zenon DEF Leave, OpendIInv, States, Serving, OneAnswer
  <1>5. CASE Wait
    <2>1. \A i \in Entries : Bits(i) \in SUBSET {"in", "hup"} BY Zenon DEF Bits
    <2>2. revents' \in [Entries -> SUBSET {"in", "hup"}] BY <1>5, <2>1, Zenon DEF Wait, OpendIInv, States
    <2>3. next' \in 0..(NSLOTS + 1) BY <1>5 DEF Wait
    <2> QED BY <1>5, <2>2, <2>3, Zenon DEF Wait, OpendIInv, States, Serving, OneAnswer
  <1>6. ASSUME NEW p \in Procs, serv_accept(p) PROVE OpendIInv'
    <2>1. ost[p] = "queued" BY <1>6, Zenon DEF serv_accept, Queued
    <2>2. CASE srv' = "dead" /\ UNCHANGED <<ost, fds, maxi, next>>
      BY <1>6, <2>2, Zenon DEF serv_accept, OpendIInv, States, Serving, OneAnswer
    <2>3. ASSUME NEW i \in Free,
                 fds' = [fds EXCEPT ![i] = p], ost' = [ost EXCEPT ![p] = "idle"],
                 maxi' = IF i > maxi THEN i ELSE maxi,
                 next' = IF POLL THEN 1 ELSE 0, UNCHANGED srv
          PROVE  OpendIInv'
      <3>1. i \in Entries /\ fds[i] = NOBODY BY Zenon DEF Free
      <3>2. States' BY <1>6, <2>3, <3>1 DEF serv_accept, OpendIInv, States, Entries
      <3>3. Serving' BY <2>1, <2>3, <3>1 DEF OpendIInv, States, Serving
      <3>4. OneAnswer' BY <1>6, <2>1, <2>3, Zenon DEF serv_accept, OpendIInv, States, OneAnswer
      <3> QED BY <3>2, <3>3, <3>4, Zenon DEF OpendIInv
    <2>4. PICK m \in Free : \A l \in Free : m <= l
      BY <1>6, First, Zenon DEF serv_accept, Free
    <2>5. (CHOOSE j \in Free : \A l \in Free : j <= l) \in Free BY <2>4, Zenon
    <2> QED BY <1>6, <2>2, <2>3, <2>5, Zenon DEF serv_accept
  <1>7. ASSUME NEW i \in Entries, Step(i) PROVE OpendIInv'
    <2>1. /\ srv = "up" /\ next = i /\ UNCHANGED <<left, maxi, revents>>
          /\ next' \in 0..(NSLOTS + 1)
      BY <1>7, OpendStepCases DEF OpendIInv, States, Entries
    <2>2. CASE UNCHANGED <<ost, asked, replies, fds, srv>>
      BY <2>1, <2>2, Zenon DEF OpendIInv, States, Serving, OneAnswer
    <2>3. CASE fds[i] \in Procs /\ Drop(i)
      <3>1. States' BY <2>1, <2>3, Zenon DEF Drop, OpendIInv, States
      <3>2. Serving' BY <2>1, <2>3 DEF Drop, OpendIInv, States, Serving
      <3>3. OneAnswer' BY <2>1, <2>3, Zenon DEF Drop, OpendIInv, States, OneAnswer
      <3> QED BY <3>1, <3>2, <3>3, Zenon DEF OpendIInv
    <2>4. CASE fds[i] \in Procs /\ ost[fds[i]] = "asked" /\ Answer(fds[i])
      <3>1. States' BY <2>1, <2>4 DEF Answer, OpendIInv, States
      <3>2. Serving' BY <2>1, <2>4, ZenonT(30) DEF Answer, OpendIInv, States, Serving
      <3>3. OneAnswer' BY <2>1, <2>4 DEF Answer, OpendIInv, States, OneAnswer
      <3> QED BY <3>1, <3>2, <3>3, Zenon DEF OpendIInv
    <2>5. CASE fds[i] \in Procs /\ srv' = fds[i] /\ UNCHANGED <<ost, asked, replies, fds>>
      BY <2>1, <2>5, Zenon DEF OpendIInv, States, Serving, OneAnswer
    <2> QED BY <1>7, <2>2, <2>3, <2>4, <2>5, OpendStepCases, Zenon
  <1>8. CASE Unblock
    <2>1. srv \in Procs /\ UNCHANGED <<left, maxi, revents, next>> BY <1>8, Zenon DEF Unblock
    <2>2. CASE ost[srv] = "asked" /\ Answer(srv)
      BY <2>1, <2>2 DEF Answer, OpendIInv, States, Serving, OneAnswer
    <2>3. CASE /\ ost[srv] # "asked" /\ srv \in left /\ srv' = "up"
               /\ fds' = [i \in Entries |-> IF fds[i] = srv THEN NOBODY ELSE fds[i]]
               /\ ost' = [ost EXCEPT ![srv] = "dropped"] /\ UNCHANGED <<asked, replies>>
      <3>1. States' BY <2>1, <2>3, Zenon DEF OpendIInv, States
      <3>2. Serving' BY <2>1, <2>3, Zenon DEF OpendIInv, States, Serving
      <3>3. OneAnswer' BY <2>1, <2>3, Zenon DEF OpendIInv, States, OneAnswer
      <3> QED BY <3>1, <3>2, <3>3, Zenon DEF OpendIInv
    <2> QED BY <1>8, <2>2, <2>3, Zenon DEF Unblock
  <1> QED BY <1>1, <1>2, <1>3, <1>4, <1>5, <1>6, <1>7, <1>8 DEF OpendNext, Server

\* In both forms a client has as many answers as it asked for, less the one it
\* waits for, whatever the entries of other clients do meanwhile.
THEOREM OpendOneAnswer == ASSUME Names PROVE OpendSpec => []OneAnswer
  <1>1. OpendInit => OpendIInv BY OpendInitIInv, Zenon
  <1>2. OpendIInv /\ [OpendNext]_opendVars => OpendIInv' BY OpendNextIInv, Zenon
  <1>3. OpendIInv => OneAnswer BY Zenon DEF OpendIInv
  <1> QED BY <1>1, <1>2, <1>3, PTL DEF OpendSpec

-----------------------------------------------------------------------------
\* The select () form: what select () said of the entries that the round has not
\* come to yet is still true when it comes to them.
Fresh ==
    /\ \A i \in Entries : revents[i] \in {{}, {"in"}}
    /\ next \in Entries => next <= maxi
    /\ \A i \in Entries : next \in Entries /\ next <= i /\ i <= maxi /\ revents[i] # {} /\ fds[i] # NOBODY
           => ost[fds[i]] = "asked" \/ fds[i] \in left
Closed == /\ \A p \in Procs : ost[p] = "dropped" => p \in left
          /\ srv \notin Procs
SInv == OpendIInv /\ Fresh /\ Closed

\* The same at the start, for the server with select ().
LEMMA InitSInv == ASSUME Names, ~POLL PROVE OpendInit => SInv
  <1> SUFFICES ASSUME OpendInit PROVE SInv BY Zenon
  <1>1. OpendIInv BY OpendInitIInv, Zenon
  <1>2. Fresh BY DEF OpendInit, Fresh, Entries, Names
  <1>3. Closed BY Zenon DEF OpendInit, Closed, Names
  <1> QED BY <1>1, <1>2, <1>3, Zenon DEF SInv

\* The server with select () keeps what it knows of descriptors that are ready.
LEMMA NextSInv == ASSUME Names, ~POLL PROVE SInv /\ [OpendNext]_opendVars => SInv'
  <1> SUFFICES ASSUME SInv, [OpendNext]_opendVars PROVE Fresh' /\ Closed'
    BY OpendNextIInv, Zenon DEF SInv
  <1> USE DEF Names
  <1>1. CASE UNCHANGED opendVars
    BY <1>1, Zenon DEF opendVars, SInv, Fresh, Closed
  <1>2. ASSUME NEW p \in Procs, cli_conn(p) \/ csopen(p) \/ Leave(p) PROVE Fresh' /\ Closed'
    BY <1>2 DEF cli_conn, csopen, Leave, SInv, OpendIInv, States, Serving, Fresh, Closed
  <1>3. CASE Wait
    <2>1. \A i \in Entries : Bits(i) \in {{}, {"in"}} BY Zenon DEF Bits
    <2>2. \A i \in Entries : Bits(i) # {} /\ fds[i] # NOBODY => ost[fds[i]] = "asked" \/ fds[i] \in left
      BY Zenon DEF Bits
    <2>3. \A i \in Entries : revents'[i] = IF i <= maxi THEN Bits(i) ELSE revents[i]
      BY <1>3, Zenon DEF Wait
    <2>4. next' \in Entries => next' <= maxi
      BY <1>3 DEF Wait, Entries, SInv, OpendIInv, States
    <2>5. UNCHANGED <<ost, left, fds, maxi, srv>> BY <1>3, Zenon DEF Wait
    <2>6. Fresh' BY <2>1, <2>2, <2>3, <2>4, <2>5, Zenon DEF SInv, Fresh
    <2> QED BY <2>5, <2>6, Zenon DEF SInv, Closed
  <1>4. ASSUME NEW p \in Procs, serv_accept(p) PROVE Fresh' /\ Closed'
    <2>1. next' \notin Entries BY <1>4 DEF serv_accept, Entries
    <2>2. UNCHANGED <<left, revents>> /\ srv' \notin Procs
      BY <1>4, Zenon DEF serv_accept, SInv, Closed
    <2>3. ost' = ost \/ ost' = [ost EXCEPT ![p] = "idle"] BY <1>4, Zenon DEF serv_accept
    <2> QED BY <2>1, <2>2, <2>3, Zenon DEF SInv, OpendIInv, States, Fresh, Closed
  <1>5. ASSUME NEW i \in Entries, Step(i) PROVE Fresh' /\ Closed'
    <2>1. /\ srv = "up" /\ next = i /\ i <= maxi /\ UNCHANGED <<left, maxi, revents>>
          /\ next' = IF i = maxi THEN 0 ELSE i + 1
      BY <1>5, OpendStepCases, Zenon DEF SInv
    <2>2. next' \in Entries => next' = i + 1 /\ next' <= maxi
      BY <2>1 DEF SInv, OpendIInv, States, Entries
    <2>3. revents[i] \in {{}, {"in"}} BY Zenon DEF SInv, Fresh
    <2>4. \A j \in Entries : next' \in Entries /\ next' <= j => j # i /\ next <= j
      BY <2>1, <2>2 DEF Entries
    <2>5. CASE UNCHANGED <<ost, asked, replies, fds, srv>>
      BY <2>1, <2>2, <2>4, <2>5, Zenon DEF SInv, Fresh, Closed
    <2>6. CASE fds[i] \in Procs /\ Drop(i) /\ fds[i] \in left
      <3>1. \A j \in Entries : j # i => fds'[j] = fds[j] /\ (fds[j] # NOBODY => ost'[fds[j]] = ost[fds[j]])
        BY <2>6, Zenon DEF Drop, SInv, OpendIInv, States, Serving
      <3>2. Fresh' BY <2>1, <2>2, <2>4, <3>1, Zenon DEF SInv, Fresh
      <3>3. Closed' BY <2>1, <2>6, Zenon DEF Drop, SInv, OpendIInv, States, Closed
      <3> QED BY <3>2, <3>3, Zenon
    <2>7. CASE fds[i] \in Procs /\ ost[fds[i]] = "asked" /\ Answer(fds[i])
      <3>1. \A j \in Entries : j # i => fds'[j] = fds[j] /\ (fds[j] # NOBODY => ost'[fds[j]] = ost[fds[j]])
        BY <2>7 DEF Answer, SInv, OpendIInv, States, Serving
      <3>2. Fresh' BY <2>1, <2>2, <2>4, <3>1, Zenon DEF SInv, Fresh
      <3>3. Closed' BY <2>1, <2>7, Zenon DEF Answer, SInv, OpendIInv, States, Closed
      <3> QED BY <3>2, <3>3, Zenon
    <2>8. CASE /\ fds[i] \in Procs /\ revents[i] # {}
               /\ revents[i] = {"in"} => ost[fds[i]] # "asked" /\ fds[i] \notin left
      BY <2>1, <2>3, <2>8 DEF SInv, Fresh, Entries
    <2> QED BY <1>5, <2>3, <2>5, <2>6, <2>7, <2>8, OpendStepCases, Zenon DEF SInv
  <1>6. CASE Unblock
    BY <1>6, Zenon DEF Unblock, SInv, Closed
  <1> QED BY <1>1, <1>2, <1>3, <1>4, <1>5, <1>6, Zenon DEF OpendNext, Server

\* The select () form never waits in read () for a client that sent nothing, and
\* closes a connection only after the client has.
THEOREM OpendNeverCutOff == ASSUME Names PROVE OpendSpec => []NeverCutOff
  <1>1. OpendInit => (~POLL => SInv) BY InitSInv, Zenon
  <1>2. (~POLL => SInv) /\ [OpendNext]_opendVars => (~POLL => SInv)' BY NextSInv, Zenon
  <1>3. (~POLL => SInv) => NeverCutOff BY Zenon DEF SInv, Closed, NeverCutOff
  <1> QED BY <1>1, <1>2, <1>3, PTL DEF OpendSpec

-----------------------------------------------------------------------------
(* Daemon, for every set of copies and any number of signals: however many   *)
(* copies are started, at most one gets past already_running ().             *)
Programs == {"reread", "reread2", "class"}
Last(p) == IF p = "class" THEN 5 ELSE IF p = "reread" THEN 13 ELSE 12
\* The step at which the file is locked.
Locks(p) == IF p = "class" THEN 2 ELSE 7

Words == {"fork1", "setsid", "ignore", "fork2", "close", "null", "open", "truncate", "write",
          "default", "block", "thread", "sigterm", "sighup", "run"}
Detaching == <<"fork1", "setsid", "ignore", "fork2", "close", "null", "open", "truncate", "write">>
Hearing(p) == IF p = "reread" THEN <<"default", "block", "thread", "run">> ELSE <<"sigterm", "sighup", "run">>

\* The steps of a daemon: nine to detach, then those of its program.
LEMMA StepsAre ==
    ASSUME NEW p \in {"reread", "reread2"}, NEW k \in 1..Last(p)
    PROVE  DaemonSteps(p)[k] = IF k <= 9 THEN Detaching[k] ELSE Hearing(p)[k - 9]
  <1>1. /\ Len(Detaching) = 9
        /\ Detaching \in Seq(Words)
    <2>1. Len(Detaching) = 9 BY Zenon DEF Detaching
    <2>2. Detaching \in Seq(Words) BY DEF Detaching, Words
    <2> QED BY <2>1, <2>2, Zenon
  <1>2. /\ Len(Hearing(p)) = Last(p) - 9
        /\ Hearing(p) \in Seq(Words)
    <2>1. CASE p = "reread"
      <3>1. Hearing(p) = <<"default", "block", "thread", "run">> BY <2>1, Zenon DEF Hearing
      <3>2. Last(p) = 13 BY <2>1, Zenon DEF Last
      <3>3. Hearing(p) \in Seq(Words) BY <3>1 DEF Words
      <3> QED BY <3>1, <3>2, <3>3
    <2>2. CASE p = "reread2"
      <3>1. Hearing(p) = <<"sigterm", "sighup", "run">> BY <2>2, Zenon DEF Hearing
      <3>2. Last(p) = 12 BY <2>2, Zenon DEF Last
      <3>3. Hearing(p) \in Seq(Words) BY <3>1 DEF Words
      <3> QED BY <3>1, <3>2, <3>3
    <2> QED BY <2>1, <2>2, Zenon
  <1>3. DaemonSteps(p) = Detaching \o Hearing(p) BY Zenon DEF DaemonSteps, Detaching, Hearing
  <1>4. Last(p) \in {12, 13} BY Zenon DEF Last
  <1>5. k \in 1..13 /\ k <= Last(p) BY <1>4
  <1> DEFINE s == Detaching
             t == Hearing(p)
  <1> HIDE DEF s, t
  <1>6. s \in Seq(Words) /\ t \in Seq(Words) /\ Len(s) = 9 /\ Len(t) = Last(p) - 9 BY <1>1, <1>2, Zenon DEF s, t
  <1>7. \A i \in 1..Len(s) + Len(t) : (s \o t)[i] = IF i <= Len(s) THEN s[i] ELSE t[i - Len(s)]
    BY <1>6, ConcatProperties, Zenon
  <1>8. k \in 1..Len(s) + Len(t) BY <1>4, <1>5, <1>6
  <1>9. (s \o t)[k] = IF k <= 9 THEN s[k] ELSE t[k - 9] BY <1>6, <1>7, <1>8, Zenon
  <1> QED BY <1>3, <1>9, Zenon DEF s, t

\* Where the steps that matter stand in each program.
LEMMA DaemonPlaces ==
    ASSUME NEW p \in Programs, NEW k \in 1..Last(p)
    PROVE  /\ DaemonSteps(p)[k] = "open" <=> k = Locks(p)
           /\ DaemonSteps(p)[k] = "truncate" <=> k = Locks(p) + 1
           /\ DaemonSteps(p)[k] = "write" <=> k = Locks(p) + 2
           /\ DaemonSteps(p)[k] \in {"fork1", "fork2", "close"} => k < Locks(p)
           /\ DaemonSteps(p)[k] = "run" <=> k = Last(p)
  <1>1. CASE p = "class"
    <2>1. k \in {1, 2, 3, 4, 5} BY <1>1 DEF Last
    <2> QED BY <1>1, <2>1 DEF DaemonSteps, Locks, Last
  <1>2. CASE p = "reread"
    <2>1. k \in {1, 2, 3, 4, 5, 6, 7, 8, 9, 10, 11, 12, 13} BY <1>2 DEF Last
    <2> QED BY <1>2, <2>1, StepsAre DEF Locks, Last, Detaching, Hearing
  <1>3. CASE p = "reread2"
    <2>1. k \in {1, 2, 3, 4, 5, 6, 7, 8, 9, 10, 11, 12} BY <1>3 DEF Last
    <2> QED BY <1>3, <2>1, StepsAre DEF Locks, Last, Detaching, Hearing
  <1> QED BY <1>1, <1>2, <1>3, Zenon DEF Programs

(* --- the inductive invariant                                               *)
Ends == {"can't fork", "already running", "SIGHUP", "SIGTERM"}
\* A copy past the lock holds it, and past the write the file names it.
DaemonIInv ==
    /\ prog \in Programs
    /\ daemonPc \in [Copies -> 1..Last(prog)] /\ gen \in [Copies -> Nat \ {0}]
    /\ ended \in [Copies -> Ends \cup {"no"}]
    /\ \A d \in Copies : ended[d] = "no" /\ daemonPc[d] > Locks(prog) => lock = Pid(d)
    /\ \A d \in Copies : ended[d] = "no" /\ daemonPc[d] > Locks(prog) + 2 => pidfile = Pid(d)

\* The lock comes at least three steps before the end.
LEMMA Lasts == ASSUME NEW p \in Programs PROVE Last(p) \in Nat /\ Locks(p) \in Nat /\ Locks(p) + 3 <= Last(p)
  BY DEF Programs, Last, Locks

\* No copy has begun.
LEMMA DaemonInitIInv == DaemonInit => DaemonIInv
  BY Lasts DEF DaemonInit, DaemonIInv, Programs, Last, Locks, Ends

\* What a step of one copy may do to the state the invariant is about.
StepOf(d) ==
    /\ prog' = prog /\ ended[d] = "no"
    /\ \/ \* the copy ends, and its lock goes with it
          /\ UNCHANGED <<daemonPc, gen, pidfile>> /\ \E w \in Ends : End(d, w)
       \/ \* nothing of this changes
          UNCHANGED <<daemonPc, gen, ended, lock, pidfile>>
       \/ \* before the lock: a fork, or a descriptor closed
          /\ daemonPc[d] < Locks(prog) /\ Go(d) /\ UNCHANGED <<ended, pidfile>>
          /\ gen' = gen \/ gen' = [gen EXCEPT ![d] = @ + 1]
          /\ lock' = IF lock = Pid(d) THEN DaemonNobody ELSE lock
       \/ \* the lock is free and is taken
          /\ daemonPc[d] = Locks(prog) /\ lock = DaemonNobody /\ lock' = Pid(d) /\ Go(d) /\ UNCHANGED <<gen, ended, pidfile>>
       \/ \* the file is emptied, then written
          /\ daemonPc[d] = Locks(prog) + 1 /\ Go(d) /\ UNCHANGED <<gen, ended, lock>>
       \/ /\ daemonPc[d] = Locks(prog) + 2 /\ pidfile' = Pid(d) /\ Go(d) /\ UNCHANGED <<gen, ended, lock>>
       \/ \* any other step
          /\ daemonPc[d] # Locks(prog) /\ daemonPc[d] # Locks(prog) + 2 /\ daemonPc[d] < Last(prog)
          /\ Go(d) /\ UNCHANGED <<gen, ended, lock, pidfile>>

\* A step of the system is a step of one copy, as StepOf describes it.
LEMMA DaemonStepCases ==
    ASSUME DaemonIInv, DaemonNext PROVE \E d \in Copies : StepOf(d)
  <1>1. CASE \E d \in Copies, s \in {"SIGHUP", "SIGTERM"} : Signal(d, s)
    <2>1. PICK d \in Copies, s \in {"SIGHUP", "SIGTERM"} : Signal(d, s) BY <1>1, Zenon
    <2>2. s \in Ends BY Zenon DEF Ends
    <2>3. End(d, s) \/ UNCHANGED <<ended, lock>> BY <2>1, Zenon DEF Signal
    <2>4. ended[d] = "no" /\ UNCHANGED <<prog, daemonPc, gen, pidfile>> BY <2>1, Zenon DEF Signal
    <2> HIDE DEF End
    <2> QED BY <2>2, <2>3, <2>4, Zenon DEF StepOf
  <1>2. ASSUME NEW d \in Copies, DaemonMain(d) PROVE StepOf(d)
    <2> DEFINE k == daemonPc[d]
    <2>1. k \in 1..Last(prog) /\ prog \in Programs BY Zenon DEF DaemonIInv
    <2>2. Last(prog) \in Nat /\ Locks(prog) \in Nat /\ Locks(prog) + 3 <= Last(prog) BY <2>1, Lasts, Zenon
    <2>3. /\ DaemonSteps(prog)[k] = "open" <=> k = Locks(prog)
          /\ DaemonSteps(prog)[k] = "truncate" <=> k = Locks(prog) + 1
          /\ DaemonSteps(prog)[k] = "write" <=> k = Locks(prog) + 2
          /\ DaemonSteps(prog)[k] \in {"fork1", "fork2", "close"} => k < Locks(prog)
          /\ DaemonSteps(prog)[k] = "run" <=> k = Last(prog)
      BY <2>1, DaemonPlaces, Zenon
    <2>4. CASE Fork(d)
      <3>1. ended[d] = "no" /\ k < Locks(prog) BY <2>3, <2>4, Zenon DEF Fork, At
      <3>2. CASE End(d, "can't fork") /\ UNCHANGED <<daemonPc, gen, leader>>
        BY <2>4, <3>1, <3>2, Zenon DEF Fork, StepOf, Ends
      <3>3. CASE /\ gen' = [gen EXCEPT ![d] = @ + 1] /\ Go(d)
                 /\ lock' = (IF lock = Pid(d) THEN DaemonNobody ELSE lock) /\ UNCHANGED ended
        BY <2>4, <3>1, <3>3, Zenon DEF Fork, StepOf, Ends
      <3> QED BY <2>4, <3>2, <3>3, Zenon DEF Fork
    <2>5. CASE CloseAll(d)
      <3>1. ended[d] = "no" /\ k < Locks(prog) BY <2>3, <2>5, Zenon DEF CloseAll, At
      <3> QED BY <2>5, <3>1, Zenon DEF CloseAll, StepOf
    <2>6. CASE Open(d)
      <3>1. ended[d] = "no" /\ k = Locks(prog) BY <2>3, <2>6, Zenon DEF Open, At
      <3> QED BY <2>6, <3>1, Zenon DEF Open, lockfile, StepOf, Ends
    <2>7. CASE Truncate(d)
      <3>1. ended[d] = "no" /\ k = Locks(prog) + 1 BY <2>3, <2>7, Zenon DEF Truncate, At
      <3> QED BY <2>7, <3>1, Zenon DEF Truncate, StepOf
    <2>8. CASE WritePid(d)
      <3>1. ended[d] = "no" /\ k = Locks(prog) + 2 BY <2>3, <2>8, Zenon DEF WritePid, At
      <3> QED BY <2>8, <3>1, Zenon DEF WritePid, StepOf
    <2>9. CASE thr_fn(d)
      <3>1. PICK s \in daemonPending[d] : IF s = "SIGTERM" THEN End(d, s) ELSE UNCHANGED <<ended, lock>>
        BY <2>9, Zenon DEF thr_fn
      <3>2. End(d, "SIGTERM") \/ UNCHANGED <<ended, lock>> BY <3>1, Zenon
      <3>3. ended[d] = "no" /\ UNCHANGED <<prog, daemonPc, gen, pidfile>> BY <2>9, Zenon DEF thr_fn, At
      <3> QED BY <3>2, <3>3, Zenon DEF StepOf, Ends
    <2>10. CASE setsid(d) \/ Ignore(d) \/ Null(d) \/ Default(d) \/ Block(d) \/ Thread(d) \/ Handlers(d)
      <3>1. /\ ended[d] = "no" /\ Go(d) /\ UNCHANGED <<prog, gen, lock, pidfile, ended>>
            /\ DaemonSteps(prog)[k] \in {"setsid", "ignore", "null", "default", "block", "thread", "sigterm", "sighup"}
        BY <2>10, Zenon DEF setsid, Ignore, Null, Default, Block, Thread, Handlers, At
      <3>2. k # Locks(prog) /\ k # Locks(prog) + 2 /\ k < Last(prog) BY <2>1, <2>2, <2>3, <3>1
      <3> QED BY <3>1, <3>2, Zenon DEF StepOf
    <2> QED BY <1>2, <2>4, <2>5, <2>6, <2>7, <2>8, <2>9, <2>10 DEF DaemonMain, daemonize, already_running
  <1> QED BY <1>1, <1>2, Zenon DEF DaemonNext, DaemonMains

\* Every step keeps the invariant.
LEMMA DaemonNextIInv == DaemonIInv /\ [DaemonNext]_daemonVars => DaemonIInv'
  <1> SUFFICES ASSUME DaemonIInv, [DaemonNext]_daemonVars PROVE DaemonIInv' BY Zenon
  <1>1. CASE UNCHANGED daemonVars BY <1>1, ZenonT(30) DEF daemonVars, DaemonIInv, Pid
  <1>2. CASE DaemonNext
    <2>1. PICK d \in Copies : StepOf(d) BY <1>2, DaemonStepCases, Zenon
    <2>2. Last(prog) \in Nat /\ Locks(prog) \in Nat /\ Locks(prog) + 3 <= Last(prog) BY Lasts, Zenon DEF DaemonIInv
    <2>3. prog' = prog /\ ended[d] = "no" BY <2>1, Zenon DEF StepOf
    <2>4. CASE UNCHANGED <<daemonPc, gen, pidfile>> /\ \E w \in Ends : End(d, w)
      <3>1. PICK w \in Ends : End(d, w) BY <2>4, Zenon
      <3>2. ended' = [ended EXCEPT ![d] = w] BY <3>1, Zenon DEF End
      <3>3. w # "no" BY Zenon DEF Ends
      <3>4. ended' \in [Copies -> Ends \cup {"no"}] BY <3>2, Zenon DEF DaemonIInv
      <3>5. ASSUME NEW e \in Copies, ended'[e] = "no" PROVE e # d /\ ended[e] = "no"
        BY <3>2, <3>3, <3>5, Zenon DEF DaemonIInv
      <3>6. ASSUME NEW e \in Copies, e # d, lock = Pid(e) PROVE lock' = Pid(e)
        BY <3>1, <3>6, Zenon DEF End, Pid
      <3>7. \A e \in Copies : Pid(e)' = Pid(e) BY <2>4, Zenon DEF Pid
      <3> QED BY <2>2, <2>3, <2>4, <3>4, <3>5, <3>6, <3>7 DEF DaemonIInv
    <2>5. CASE UNCHANGED <<daemonPc, gen, ended, lock, pidfile>> BY <2>3, <2>5, Zenon DEF DaemonIInv, Pid
    <2>6. CASE /\ daemonPc[d] < Locks(prog) /\ Go(d) /\ UNCHANGED <<ended, pidfile>>
               /\ gen' = gen \/ gen' = [gen EXCEPT ![d] = @ + 1]
               /\ lock' = IF lock = Pid(d) THEN DaemonNobody ELSE lock
      BY <2>2, <2>3, <2>6 DEF DaemonIInv, Go, Pid, DaemonNobody
    <2>7. CASE /\ daemonPc[d] = Locks(prog) /\ lock = DaemonNobody /\ lock' = Pid(d) /\ Go(d)
               /\ UNCHANGED <<gen, ended, pidfile>>
      BY <2>2, <2>3, <2>7 DEF DaemonIInv, Go, Pid, DaemonNobody
    <2>8. CASE daemonPc[d] = Locks(prog) + 1 /\ Go(d) /\ UNCHANGED <<gen, ended, lock>>
      BY <2>2, <2>3, <2>8 DEF DaemonIInv, Go, Pid
    <2>9. CASE daemonPc[d] = Locks(prog) + 2 /\ pidfile' = Pid(d) /\ Go(d) /\ UNCHANGED <<gen, ended, lock>>
      BY <2>2, <2>3, <2>9 DEF DaemonIInv, Go, Pid
    <2>10. CASE /\ daemonPc[d] # Locks(prog) /\ daemonPc[d] # Locks(prog) + 2 /\ daemonPc[d] < Last(prog)
                /\ Go(d) /\ UNCHANGED <<gen, ended, lock, pidfile>>
      BY <2>2, <2>3, <2>10 DEF DaemonIInv, Go, Pid
    <2> QED BY <2>1, <2>4, <2>5, <2>6, <2>7, <2>8, <2>9, <2>10 DEF StepOf
  <1> QED BY <1>1, <1>2, Zenon

\* The invariant says that one copy at most is past the lock.
LEMMA IInvOne == DaemonIInv => OneDaemon
  <1> SUFFICES ASSUME DaemonIInv PROVE OneDaemon BY Zenon
  <1>1. prog \in Programs /\ Last(prog) \in Nat /\ Locks(prog) \in Nat BY Lasts, Zenon DEF DaemonIInv
  <1>2. ASSUME NEW d \in Copies, Past(d, "open") PROVE ended[d] = "no" /\ daemonPc[d] > Locks(prog)
    <2>1. PICK k \in 1..(daemonPc[d] - 1) : DaemonSteps(prog)[k] = "open" BY <1>2, Zenon DEF Past
    <2>2. daemonPc[d] \in 1..Last(prog) BY Zenon DEF DaemonIInv
    <2>3. k \in 1..Last(prog) BY <1>1, <2>1, <2>2
    <2>4. k = Locks(prog) BY <1>1, <2>1, <2>3, DaemonPlaces, Zenon
    <2> QED BY <1>1, <1>2, <2>1, <2>2, <2>4 DEF Past
  <1>3. ASSUME NEW d \in Copies, Past(d, "write") PROVE ended[d] = "no" /\ daemonPc[d] > Locks(prog) + 2
    <2>1. PICK k \in 1..(daemonPc[d] - 1) : DaemonSteps(prog)[k] = "write" BY <1>3, Zenon DEF Past
    <2>2. daemonPc[d] \in 1..Last(prog) BY Zenon DEF DaemonIInv
    <2>3. k \in 1..Last(prog) BY <1>1, <2>1, <2>2
    <2>4. k = Locks(prog) + 2 BY <1>1, <2>1, <2>3, DaemonPlaces, Zenon
    <2> QED BY <1>1, <1>3, <2>1, <2>2, <2>4 DEF Past
  <1>4. ASSUME NEW d \in Copies, NEW e \in Copies, Past(d, "open"), Past(e, "open") PROVE d = e
    <2>1. lock = Pid(d) /\ lock = Pid(e) BY <1>2, <1>4, Zenon DEF DaemonIInv
    <2> QED BY <2>1 DEF Pid
  <1>5. ASSUME NEW d \in Copies, Past(d, "write") PROVE lock = Pid(d) /\ pidfile = Pid(d)
    <2>1. daemonPc[d] \in 1..Last(prog) BY Zenon DEF DaemonIInv
    <2> QED BY <1>1, <1>3, <1>5, <2>1 DEF DaemonIInv
  <1> QED BY <1>4, <1>5, Zenon DEF OneDaemon

\* However many copies are started, killed and signalled, at most one is past
\* already_running (), it holds the lock, and the file names it from the moment
\* it has written its number.
THEOREM DaemonOneCopy == DaemonSpec => []OneDaemon
  <1>1. DaemonSpec => []DaemonIInv
    BY DaemonInitIInv, DaemonNextIInv, PTL DEF DaemonSpec
  <1> QED BY <1>1, IInvOne, PTL
=============================================================================
