----------------------------- MODULE SyncProofs -----------------------------
(***************************************************************************)
(* Proofs about what CPUs, processes and threads use to take turns.        *)
(*                                                                         *)
(* TELL_WAIT, for any even number of turns, and the message ring of the    *)
(* threads (pth_semaphore.c), for any number.  The spinlock of the         *)
(* kernel, for any set of CPUs: mutual exclusion, that its debug checks    *)
(* accuse no CPU that pairs its calls, and that it implements the atomic   *)
(* lock of Mutex.  The system call gate, for any tasks and programs: the   *)
(* calls of a task are made in order.                                      *)
(***************************************************************************)
EXTENDS Spinlock, Trap, Sync, TLAPS

(* TELL_WAIT, for every even number of turns: the right to add to the       *)
(* counter is a token in one place, a process between its wait and its tell, *)
(* a signal pending, or a flag set, so parent and child alternate.           *)
TellPlaces == {"update", "tell", "test", "suspend", "asleep", "told", "unmask", "next", "end"}
Running(p) == {"unmask", "update", "tell"} \cup (IF p = "parent" THEN {"next", "end"} ELSE {})
Has(p) == tellPending[p] \/ sigflag[p] = 1 \/ tellPc[p] \in Running(p)

\* Twice the number of times each has added to the counter.
Adds(p) ==
    IF p = "parent" THEN turn[p] + (IF tellPc[p] \in {"update", "end"} THEN 0 ELSE 2)
    ELSE turn[p] - 1 + (IF tellPc[p] \in {"tell", "next"} THEN 2 ELSE 0)

TellTyped ==
    /\ tellPc \in [TellProcs -> TellPlaces] /\ sigflag \in [TellProcs -> {0, 1}] /\ tellPending \in [TellProcs -> BOOLEAN]
    /\ turn \in [TellProcs -> Nat] /\ turn["parent"] % 2 = 0 /\ turn["child"] % 2 = 1
    /\ counter \in Nat /\ wrong = FALSE
Bounds ==
    /\ IF tellPc["parent"] = "end" THEN turn["parent"] = NLOOPS ELSE turn["parent"] < NLOOPS
    /\ IF tellPc["child"] = "end" THEN turn["child"] = NLOOPS + 1 ELSE turn["child"] < NLOOPS
\* The token is in one place.
OneToken ==
    /\ ~(Has("parent") /\ Has("child"))
    /\ \A p \in TellProcs : /\ tellPending[p] => sigflag[p] = 0 /\ tellPc[p] \notin Running(p)
                            /\ sigflag[p] = 1 => tellPc[p] \notin Running(p)
                            /\ tellPc[p] = "told" => sigflag[p] = 1
\* Where it is tells who has added last.
TellCounted ==
    /\ 2 * counter = Adds("parent") + Adds("child")
    /\ \/ Adds("parent") = Adds("child") /\ (tellPc["child"] = "tell" \/ (Has("parent") /\ tellPc["parent"] # "tell"))
       \/ Adds("parent") = Adds("child") + 2 /\ (tellPc["parent"] = "tell" \/ (Has("child") /\ tellPc["child"] # "tell"))
TellIInv == TellTyped /\ Bounds /\ OneToken /\ TellCounted

Turns == NLOOPS \in Nat /\ NLOOPS >= 2 /\ NLOOPS % 2 = 0

\* The parent has the token at the start.
LEMMA TellInitIInv == ASSUME Turns, TellInit PROVE TellIInv
  BY DEF Turns, TellInit, TellIInv, TellTyped, Bounds, OneToken, TellCounted, Has, Adds, Running, TellProcs, TellPlaces

\* Between two even numbers there is room for a turn.
LEMMA Room == ASSUME NEW m \in Nat, NEW n \in Nat, m < n, m % 2 = n % 2 PROVE m + 2 <= n /\ (m + 2) % 2 = m % 2
  OBVIOUS

\* Neither adds more than its turns.
LEMMA AddsBound == ASSUME Turns, TellIInv PROVE counter <= NLOOPS
  <1>1. /\ turn["parent"] \in Nat /\ turn["child"] \in Nat /\ counter \in Nat /\ NLOOPS \in Nat
        /\ turn["parent"] % 2 = 0 /\ turn["child"] % 2 = 1 /\ NLOOPS % 2 = 0 /\ (NLOOPS + 1) % 2 = 1
    BY DEF Turns, TellIInv, TellTyped, TellProcs
  <1>2. Adds("parent") \in Nat /\ Adds("parent") <= NLOOPS
    <2>1. CASE tellPc["parent"] = "end" BY <1>1, <2>1 DEF TellIInv, Bounds, Adds
    <2>2. CASE tellPc["parent"] # "end"
      <3>1. turn["parent"] < NLOOPS BY <2>2, Zenon DEF TellIInv, Bounds
      <3>2. turn["parent"] + 2 <= NLOOPS BY <1>1, <3>1, Room, Zenon
      <3> QED BY <1>1, <3>2 DEF Adds
    <2> QED BY <2>1, <2>2, Zenon
  <1>3. Adds("child") \in Int /\ Adds("child") <= NLOOPS
    <2>1. CASE tellPc["child"] = "end" BY <1>1, <2>1 DEF TellIInv, Bounds, Adds
    <2>2. CASE tellPc["child"] # "end"
      <3>1. turn["child"] < NLOOPS BY <2>2, Zenon DEF TellIInv, Bounds
      <3> QED BY <1>1, <3>1 DEF Adds
    <2> QED BY <2>1, <2>2, Zenon
  <1>4. 2 * counter = Adds("parent") + Adds("child") BY Zenon DEF TellIInv, TellCounted
  <1> QED BY <1>1, <1>2, <1>3, <1>4

\* The invariant gives what TurnsTaken says.
LEMMA IInvTurns == ASSUME Turns, TellIInv PROVE TurnsTaken
  BY AddsBound, Zenon DEF TellIInv, TellTyped, TurnsTaken

\* Every step of parent and child, and every signal, moves the token or leaves it.
LEMMA TellNextIInv == Turns /\ TellIInv /\ [TellNext]_tellVars => TellIInv'
  <1> SUFFICES ASSUME Turns, TellIInv, [TellNext]_tellVars PROVE TellIInv' BY Zenon
  <1>1. CASE UNCHANGED tellVars
    BY <1>1, Zenon DEF tellVars, TellIInv, TellTyped, Bounds, OneToken, TellCounted, Has, Adds
  <1>2. ASSUME NEW p \in TellProcs, Run(p) PROVE TellIInv'
    <2>1. CASE sig_usr(p)
      BY <2>1 DEF sig_usr, TellIInv, TellTyped, Bounds, OneToken, TellCounted, Has, Adds, Running, TellProcs, TellPlaces
    <2>2. CASE WAIT(p)
      <3>1. CASE p = "parent"
        BY <2>2, <3>1
        DEF WAIT, TellWait, TellGoto, TellIInv, TellTyped, Bounds, OneToken, TellCounted, Has, Adds,
            Running, TellProcs, TellPlaces
      <3>2. CASE p = "child"
        BY <2>2, <3>2
        DEF WAIT, TellWait, TellGoto, TellIInv, TellTyped, Bounds, OneToken, TellCounted, Has, Adds,
            Running, TellProcs, TellPlaces
      <3> QED BY <3>1, <3>2, Zenon DEF TellProcs
    <2>3. CASE Turn(p)
      BY <2>3 DEF Turn, TellGoto, TellIInv, TellTyped, Bounds, OneToken, TellCounted, Has, Adds, Running, TellProcs, TellPlaces
    <2>4. CASE TELL(p)
      <3>1. tellPc[Other(p)] # "end"    \* nobody tells a process that has ended
        <4>1. CASE p = "parent"
          <5>1. Adds("parent") = turn["parent"] + 2 /\ Adds("parent") = Adds("child") + 2
            BY <2>4, <4>1, Zenon DEF TELL, TellIInv, OneToken, TellCounted, Has, Adds, Running, TellProcs
          <5>2. turn["parent"] < NLOOPS BY <2>4, <4>1, Zenon DEF TELL, TellIInv, Bounds
          <5>3. tellPc["child"] = "end" => Adds("child") = NLOOPS BY DEF TellIInv, Bounds, Adds, Turns
          <5> QED BY <4>1, <5>1, <5>2, <5>3 DEF Other, TellIInv, TellTyped, TellProcs, Turns
        <4>2. CASE p = "child"
          BY <2>4, <4>2, Zenon DEF TELL, Other, TellIInv, OneToken, Has, Running
        <4> QED BY <4>1, <4>2, Zenon DEF TellProcs
      <3>2. tellPending' = [tellPending EXCEPT ![Other(p)] = TRUE] BY <2>4, <3>1, Zenon DEF TELL
      <3>3. CASE p = "parent"
        BY <2>4, <3>2, <3>3
           DEF TELL, Other, TellGoto, TellIInv, TellTyped, Bounds, OneToken, TellCounted, Has, Adds, Running, TellProcs, TellPlaces
      <3>4. CASE p = "child"
        BY <2>4, <3>2, <3>4
           DEF TELL, Other, TellGoto, TellIInv, TellTyped, Bounds, OneToken, TellCounted, Has, Adds, Running, TellProcs, TellPlaces
      <3> QED BY <3>3, <3>4, Zenon DEF TellProcs
    <2>5. CASE Again(p)
      <3>1. turn[p] \in Nat /\ turn[p] < NLOOPS /\ NLOOPS \in Nat BY <2>5, Zenon DEF Again, TellIInv, TellTyped, Bounds, TellProcs, Turns
      <3>2. CASE p = "parent"
        <4>1. turn[p] + 2 <= NLOOPS /\ (turn[p] + 2) % 2 = 0 BY <3>1, <3>2, Room, Zenon DEF TellIInv, TellTyped, Turns
        <4>2. /\ turn' = [turn EXCEPT !["parent"] = @ + 2] /\ tellPc["parent"] = "next"
              /\ tellPc' = [tellPc EXCEPT !["parent"] = IF turn["parent"] + 2 >= NLOOPS THEN "end" ELSE "update"]
              /\ UNCHANGED <<sigflag, tellBlocked, tellPending, counter, wrong>>
          BY <2>5, <3>2, Zenon DEF Again, TellGoto
        <4>3. TellTyped' BY <3>1, <3>2, <4>1, <4>2 DEF TellIInv, TellTyped, TellProcs, TellPlaces
        <4>4. Bounds' BY <3>1, <3>2, <4>1, <4>2 DEF TellIInv, TellTyped, Bounds, TellProcs
        <4>5. OneToken' BY <4>2, Zenon DEF TellIInv, TellTyped, OneToken, Has, Running, TellProcs
        <4>6. Adds("child")' = Adds("child") /\ Adds("parent")' = Adds("parent")
          BY <3>1, <3>2, <4>2 DEF TellIInv, TellTyped, Adds, TellProcs
        <4>7. TellCounted' BY <4>2, <4>6, Zenon DEF TellIInv, TellTyped, TellCounted, Has, Running, TellProcs
        <4> QED BY <4>3, <4>4, <4>5, <4>7, Zenon DEF TellIInv
      <3>3. CASE p = "child"
        <4>1. (turn[p] + 2) % 2 = 1 /\ turn[p] + 2 # NLOOPS BY <3>1, <3>3 DEF TellIInv, TellTyped, Turns
        <4>2. /\ turn' = [turn EXCEPT !["child"] = @ + 2] /\ tellPc["child"] = "next"
              /\ tellPc' = [tellPc EXCEPT !["child"] = IF turn["child"] + 2 >= NLOOPS + 1 THEN "end" ELSE "test"]
              /\ UNCHANGED <<sigflag, tellBlocked, tellPending, counter, wrong>>
          BY <2>5, <3>3, Zenon DEF Again, TellGoto
        <4>3. TellTyped' BY <3>1, <3>3, <4>1, <4>2 DEF TellIInv, TellTyped, TellProcs, TellPlaces
        <4>4. Bounds' BY <3>1, <3>3, <4>1, <4>2 DEF TellIInv, TellTyped, Bounds, TellProcs
        <4>5. OneToken' BY <4>2, Zenon DEF TellIInv, TellTyped, OneToken, Has, Running, TellProcs
        <4>6. Adds("child")' = Adds("child") /\ Adds("parent")' = Adds("parent")
          BY <3>1, <3>3, <4>2 DEF TellIInv, TellTyped, Adds, TellProcs
        <4>7. TellCounted' BY <4>2, <4>6, Zenon DEF TellIInv, TellTyped, TellCounted, Has, Running, TellProcs
        <4> QED BY <4>3, <4>4, <4>5, <4>7, Zenon DEF TellIInv
      <3> QED BY <3>2, <3>3, Zenon DEF TellProcs
    <2> QED BY <1>2, <2>1, <2>2, <2>3, <2>4, <2>5, Zenon DEF Run
  <1> QED BY <1>1, <1>2, Zenon DEF TellNext

\* For every even number of turns and every interleaving of the signals with the
\* tests of the flags, whoever adds to the counter finds the value it expects,
\* and the two never add more than their turns.
THEOREM TellWaitTurns == ASSUME Turns PROVE TellSpec => []TurnsTaken
  <1>1. TellInit => TellIInv BY TellInitIInv, Zenon
  <1>2. TellIInv /\ [TellNext]_tellVars => TellIInv' BY TellNextIInv, Zenon
  <1>3. TellIInv => TurnsTaken BY IInvTurns, Zenon
  <1> QED BY <1>1, <1>2, <1>3, PTL DEF TellSpec

-----------------------------------------------------------------------------
(* The messages, for any number of threads: a thread that has come through   *)
(* its semaphore finds the message of the thread before it.                  *)
Sent == {"post", "wait", "print", "ended"}
Posted == {"wait", "print", "ended"}
PthSteps == {"none", "write"} \cup Sent

\* What % gives on the numbers of the ring.
LEMMA Modulo ==
    ASSUME NEW n \in Nat \ {0}, NEW x \in 0..(n - 1)
    PROVE  x % n = x /\ n % n = 0 /\ (x + n) % n = x
  BY Z3

\* The next thread and the one before are each other's inverses.
LEMMA Ring ==
    ASSUME thread_count \in Nat \ {0}, NEW r \in Live
    PROVE  /\ dest(r) = (IF r + 1 = thread_count THEN 0 ELSE r + 1)
           /\ source(r) = (IF r = 0 THEN thread_count - 1 ELSE r - 1)
  <1>1. ASSUME r + 1 = thread_count PROVE dest(r) = 0
    <2>1. thread_count % thread_count = 0 BY Z3
    <2> QED BY <1>1, <2>1, Zenon DEF dest
  <1>2. ASSUME r + 1 # thread_count PROVE dest(r) = r + 1
    <2>1. r + 1 \in 0..(thread_count - 1) BY <1>2 DEF Live
    <2>2. (r + 1) % thread_count = r + 1 BY <2>1, Modulo, Zenon
    <2> QED BY <2>2, Zenon DEF dest
  <1>3. source(r) = IF r = 0 THEN thread_count - 1 ELSE r - 1
    <2>1. CASE r = 0
      <3>1. thread_count - 1 \in 0..(thread_count - 1) /\ r + thread_count - 1 = thread_count - 1 BY <2>1
      <3>2. (thread_count - 1) % thread_count = thread_count - 1 BY <3>1, Modulo, Zenon
      <3> QED BY <2>1, <3>1, <3>2, Zenon DEF source
    <2>2. CASE r # 0
      <3>1. r - 1 \in 0..(thread_count - 1) /\ r + thread_count - 1 = (r - 1) + thread_count BY <2>2 DEF Live
      <3>2. ((r - 1) + thread_count) % thread_count = r - 1 BY <3>1, Modulo, Zenon
      <3> QED BY <2>2, <3>1, <3>2, Zenon DEF source
    <2> QED BY <2>1, <2>2, Zenon
  <1> QED BY <1>1, <1>2, <1>3, Zenon DEF Live

\* A thread is the next of the one before it, and of no other.
LEMMA Neighbours ==
    ASSUME thread_count \in Nat \ {0}
    PROVE  /\ \A r \in Live : dest(r) \in Live /\ source(r) \in Live
           /\ \A r, s \in Live : dest(r) = s <=> r = source(s)
  <1>1. ASSUME NEW r \in Live PROVE dest(r) \in Live /\ source(r) \in Live
    BY Ring DEF Live
  <1>2. ASSUME NEW r \in Live, NEW s \in Live PROVE dest(r) = s <=> r = source(s)
    <2>1. dest(r) = (IF r + 1 = thread_count THEN 0 ELSE r + 1) BY Ring, Zenon
    <2>2. source(s) = (IF s = 0 THEN thread_count - 1 ELSE s - 1) BY Ring, Zenon
    <2> QED BY <2>1, <2>2 DEF Live
  <1> QED BY <1>1, <1>2, Zenon

(* --- the inductive invariant                                               *)
PthTyped ==
    /\ MAXT \in Nat /\ thread_count \in Nat \ {0} /\ thread_count <= MAXT
    /\ at \in [T -> PthSteps] /\ semaphores \in [T -> Nat]
    /\ messages \in [T -> Live \cup {PthNobody}] /\ pthPrinted \in [T -> Live \cup {PthNobody}]
    /\ main \in {"create", "join", "free", "end"} \X Live
\* main: threads not yet created have done nothing, those joined have ended, and
\* nothing is freed before all have.
PthMains ==
    /\ main[1] = "create" => \A r \in Live : r >= main[2] => at[r] = "none"
    /\ main[1] = "join" => \A r \in Live : r < main[2] => at[r] = "ended"
    /\ main[1] \in {"free", "end"} => \A r \in Live : at[r] = "ended"
    /\ main[1] \in {"create", "join"} => freed = {}
\* The message of the thread before is there once that one has written it; a
\* semaphore that is up, or that was taken, was posted by that thread.
Passed ==
    \A r \in Live :
        /\ at[source(r)] \in Sent => messages[r] = source(r)
        /\ semaphores[r] > 0 \/ at[r] \in {"print", "ended"} => at[source(r)] \in Posted
        /\ at[r] = "ended" => pthPrinted[r] = source(r)
PthIInv == PthTyped /\ PthMains /\ Passed

\* No thread has begun.
LEMMA PthInitIInv == ASSUME MAXT \in Nat, PthInit PROVE PthIInv
  <1>1. thread_count \in Nat \ {0} /\ thread_count <= MAXT BY DEF PthInit
  <1>2. \A r \in Live : r \in T /\ source(r) \in T BY <1>1, Neighbours DEF Live, T
  <1>3. PthTyped BY <1>1 DEF PthInit, PthTyped, PthSteps, Live, T
  <1>4. PthMains BY <1>2, Zenon DEF PthInit, PthMains
  <1>5. Passed BY <1>2 DEF PthInit, Passed, Sent, Posted
  <1> QED BY <1>3, <1>4, <1>5, Zenon DEF PthIInv

\* Every step of a thread keeps the invariant.
LEMMA PthNextIInv == PthIInv /\ [PthNext]_pthVars => PthIInv'
  <1> SUFFICES ASSUME PthIInv, [PthNext]_pthVars PROVE PthIInv' BY Zenon
  <1>1. /\ thread_count \in Nat \ {0} /\ Live \subseteq T
        /\ at \in [T -> PthSteps] /\ semaphores \in [T -> Nat]
        /\ messages \in [T -> Live \cup {PthNobody}] /\ pthPrinted \in [T -> Live \cup {PthNobody}]
    BY DEF PthIInv, PthTyped, Live, T
  <1>2. /\ \A r \in Live : dest(r) \in Live /\ source(r) \in Live
        /\ \A r, s \in Live : dest(r) = s <=> r = source(s)
    BY <1>1, Neighbours, Zenon
  <1>3. CASE UNCHANGED pthVars
    BY <1>3, Zenon DEF pthVars, PthIInv, PthTyped, PthMains, Passed, Live, source
  <1>4. ASSUME thread_count' = thread_count PROVE Live' = Live /\ \A r : source(r)' = source(r)
    BY <1>4, Zenon DEF Live, source
  <1>5. CASE PthMain
    <2>1. thread_count' = thread_count /\ messages' = messages /\ pthPrinted' = pthPrinted /\ semaphores' = semaphores
      BY <1>5, Zenon DEF PthMain, PthIInv, PthTyped
    <2>2. main[2] \in Live /\ main[1] \in {"create", "join", "free"} BY <1>5, Zenon DEF PthMain, PthIInv, PthTyped
    <2>3. main' = IF main[2] + 1 < thread_count THEN <<main[1], main[2] + 1>>
                  ELSE <<IF main[1] = "create" THEN "join" ELSE IF main[1] = "join" THEN "free" ELSE "end", 0>>
      BY <1>5, Zenon DEF PthMain
    <2>4. main' \in {"create", "join", "free", "end"} \X Live BY <1>1, <2>2, <2>3 DEF Live
    <2>5. CASE main[1] = "create"
      <3>1. at' = [at EXCEPT ![main[2]] = "write"] /\ freed' = freed BY <1>5, <2>5, Zenon DEF PthMain
      <3>2. at[main[2]] = "none" /\ freed = {} BY <2>2, <2>5 DEF PthIInv, PthMains, Live
      <3>3. \A r \in Live : at'[r] = IF r = main[2] THEN "write" ELSE at[r] BY <1>1, <3>1, Zenon
      <3>4. PthTyped' BY <1>1, <1>4, <2>1, <2>4, <3>1, Zenon DEF PthIInv, PthTyped, PthSteps, T
      <3>5. PthMains' BY <1>1, <1>4, <2>1, <2>2, <2>3, <2>5, <3>1, <3>2, <3>3 DEF PthIInv, PthMains, Live
      <3>6. Passed' BY <1>1, <1>2, <1>4, <2>1, <2>2, <3>2, <3>3 DEF PthIInv, Passed, Sent, Posted
      <3> QED BY <3>4, <3>5, <3>6, Zenon DEF PthIInv
    <2>6. CASE main[1] = "join"
      <3>1. at[main[2]] = "ended" /\ at' = at /\ freed' = freed BY <1>5, <2>6, Zenon DEF PthMain
      <3>2. PthTyped' BY <1>1, <1>4, <2>1, <2>4, <3>1, Zenon DEF PthIInv, PthTyped, T
      <3>3. PthMains' BY <1>1, <1>4, <2>1, <2>2, <2>3, <2>6, <3>1 DEF PthIInv, PthMains, Live
      <3>4. Passed' BY <1>4, <2>1, <3>1, Zenon DEF PthIInv, Passed
      <3> QED BY <3>2, <3>3, <3>4, Zenon DEF PthIInv
    <2>7. CASE main[1] = "free"
      <3>1. at' = at BY <1>5, <2>7, Zenon DEF PthMain
      <3>2. PthTyped' BY <1>1, <1>4, <2>1, <2>4, <3>1, Zenon DEF PthIInv, PthTyped, T
      <3>3. PthMains' BY <1>1, <1>4, <2>1, <2>2, <2>3, <2>7, <3>1, Zenon DEF PthIInv, PthMains
      <3>4. Passed' BY <1>4, <2>1, <3>1, Zenon DEF PthIInv, Passed
      <3> QED BY <3>2, <3>3, <3>4, Zenon DEF PthIInv
    <2> QED BY <2>2, <2>5, <2>6, <2>7, Zenon
  <1>6. ASSUME NEW r \in Live, Write(r) \/ Post(r) \/ PthWait(r) \/ Show(r) PROVE PthIInv'
    <2>1. /\ thread_count' = thread_count /\ main' = main /\ freed' = freed
          /\ at[r] \notin {"none", "ended"} /\ at[r] \in PthSteps
      BY <1>1, <1>6, Zenon DEF Write, Post, PthWait, Show
    <2>2. PICK step \in Sent : at' = [at EXCEPT ![r] = step] BY <1>6, Zenon DEF Write, Post, PthWait, Show, To, Sent
    <2>3. \A q \in Live : at'[q] = IF q = r THEN step ELSE at[q] BY <1>1, <2>2, Zenon
    <2>4. PthMains' BY <1>1, <1>4, <2>1, <2>3, Zenon DEF PthIInv, PthMains, PthTyped, Live
    <2>5. at' \in [T -> PthSteps] BY <1>1, <2>2, Zenon DEF PthSteps
    <2>6. CASE Write(r)
      <3>1. /\ messages' = [messages EXCEPT ![dest(r)] = r] /\ UNCHANGED <<semaphores, pthPrinted>>
            /\ at[r] = "write" /\ at' = [at EXCEPT ![r] = "post"]
        BY <2>6, Zenon DEF Write, To
      <3>2. PthTyped' BY <1>1, <1>2, <1>4, <2>1, <2>5, <3>1, Zenon DEF PthIInv, PthTyped, T
      <3>3. \A q \in Live : /\ messages'[q] = IF q = dest(r) THEN r ELSE messages[q]
                            /\ at'[q] = IF q = r THEN "post" ELSE at[q]
        BY <1>1, <1>2, <3>1, Zenon
      <3>4. Passed' BY <1>2, <1>4, <2>1, <3>1, <3>3, SMTT(30) DEF PthIInv, Passed, Sent, Posted
      <3> QED BY <2>4, <3>2, <3>4, Zenon DEF PthIInv
    <2>7. CASE Post(r)
      <3>1. /\ semaphores' = [semaphores EXCEPT ![dest(r)] = @ + 1] /\ UNCHANGED <<messages, pthPrinted>>
            /\ at[r] = "post" /\ at' = [at EXCEPT ![r] = "wait"]
        BY <2>7, Zenon DEF Post, To
      <3>2. semaphores' \in [T -> Nat]
        <4>1. dest(r) \in T BY <1>1, <1>2, Zenon
        <4> HIDE DEF T
        <4> QED BY <1>1, <3>1, <4>1
      <3>3. PthTyped' BY <1>1, <1>4, <2>1, <2>5, <3>1, <3>2, SMTT(30) DEF PthIInv, PthTyped, T
      <3>4. \A q \in Live : /\ semaphores'[q] = IF q = dest(r) THEN semaphores[q] + 1 ELSE semaphores[q]
                            /\ at'[q] = IF q = r THEN "wait" ELSE at[q]
        BY <1>1, <1>2, <3>1, Zenon
      <3>5. Passed' BY <1>2, <1>4, <2>1, <3>1, <3>4 DEF PthIInv, Passed, Sent, Posted
      <3> QED BY <2>4, <3>3, <3>5, Zenon DEF PthIInv
    <2>8. CASE PthWait(r)
      <3>1. /\ semaphores[r] > 0 /\ semaphores' = [semaphores EXCEPT ![r] = @ - 1]
            /\ UNCHANGED <<messages, pthPrinted>> /\ at[r] = "wait" /\ at' = [at EXCEPT ![r] = "print"]
        BY <2>8, Zenon DEF PthWait, To
      <3>2. semaphores' \in [T -> Nat] BY <1>1, <3>1
      <3>3. PthTyped' BY <1>1, <1>4, <2>1, <2>5, <3>1, <3>2, Zenon DEF PthIInv, PthTyped, T
      <3>4. \A q \in Live : /\ semaphores'[q] = IF q = r THEN semaphores[q] - 1 ELSE semaphores[q]
                            /\ at'[q] = IF q = r THEN "print" ELSE at[q]
        BY <1>1, <3>1, Zenon
      <3>5. Passed' BY <1>1, <1>2, <1>4, <2>1, <3>1, <3>4 DEF PthIInv, Passed, Sent, Posted
      <3> QED BY <2>4, <3>3, <3>5, Zenon DEF PthIInv
    <2>9. CASE Show(r)
      <3>1. /\ pthPrinted' = [pthPrinted EXCEPT ![r] = messages[r]] /\ UNCHANGED <<messages, semaphores>>
            /\ at[r] = "print" /\ at' = [at EXCEPT ![r] = "ended"]
        BY <2>9, Zenon DEF Show, To
      <3>2. messages[r] = source(r) BY <3>1, Zenon DEF PthIInv, Passed, Sent, Posted
      <3>3. PthTyped' BY <1>1, <1>2, <1>4, <2>1, <2>5, <3>1, <3>2, Zenon DEF PthIInv, PthTyped, T
      <3>4. \A q \in Live : /\ pthPrinted'[q] = IF q = r THEN source(r) ELSE pthPrinted[q]
                            /\ at'[q] = IF q = r THEN "ended" ELSE at[q]
        BY <1>1, <3>1, <3>2, Zenon
      <3>5. Passed' BY <1>2, <1>4, <2>1, <3>1, <3>4 DEF PthIInv, Passed, Sent, Posted
      <3> QED BY <2>4, <3>3, <3>5, Zenon DEF PthIInv
    <2> QED BY <1>6, <2>6, <2>7, <2>8, <2>9, Zenon
  <1> QED BY <1>3, <1>5, <1>6, Zenon DEF PthNext, Send_msg

\* The invariant gives what GetsMessage says.
LEMMA IInvGets == PthIInv => GetsMessage
  <1> SUFFICES ASSUME PthIInv, NEW r \in Live
               PROVE  /\ at[r] = "ended" => pthPrinted[r] = source(r)
                      /\ at[r] = "print" => messages[r] # PthNobody /\ messages[r] \notin freed
    BY Zenon DEF GetsMessage
  <1>1. source(r) \in Live BY Neighbours, Zenon DEF PthIInv, PthTyped
  <1>2. source(r) # PthNobody BY <1>1 DEF Live, PthNobody, PthIInv, PthTyped
  <1>3. at[r] = "print" => messages[r] = source(r) BY Zenon DEF PthIInv, Passed, Sent, Posted
  <1>4. at[r] = "print" => freed = {} BY Zenon DEF PthIInv, PthMains, PthTyped
  <1> QED BY <1>2, <1>3, <1>4, Zenon DEF PthIInv, Passed

\* However many threads there are and however they interleave, what a thread
\* prints is what the thread before it wrote for it, and no message is read
\* before it is there or after it is freed.
THEOREM PthGetsMessage == ASSUME MAXT \in Nat PROVE PthSpec => []GetsMessage
  <1>1. PthInit => PthIInv BY PthInitIInv, Zenon
  <1>2. PthSpec => []PthIInv BY <1>1, PthNextIInv, PTL DEF PthSpec
  <1> QED BY <1>2, IInvGets, PTL


(***************************************************************************)
(* The inductive invariant.  MutualExclusion alone is not inductive: the   *)
(* exchange must know that a free word means no holder, and the checks of  *)
(* spin_unlock must know where the recorded owner can be.                  *)
(***************************************************************************)
OwnerPlace(c) ==
    \/ pc[c] \in {"in", "unlock", "unlock2", "clear"}
    \/ c \in careless

IInv ==
    /\ TypeOK
    /\ MutualExclusion
    /\ \A c \in CPU : Holds(c) => locked
    /\ \A c \in CPU : pc[c] \in {"in", "clear"} => cpu = c
    /\ \A c \in CPU : pc[c] \in {"record", "release"} => cpu # c
    /\ \A c \in CPU : cpu = c => OwnerPlace(c)
    /\ \A c \in CPU \ careless : pc[c] \in {"unlock", "unlock2"} => cpu = c
    /\ NoFalsePanic

USE SpinlockAssumption

\* The lock is free.
LEMMA InitIInv == Init => IInv
BY Zenon DEF Init, IInv, TypeOK, PC, MutualExclusion, Holds, OwnerPlace, NoFalsePanic

\* Every step of a CPU, careless or not, keeps the invariant.
LEMMA StepIInv == IInv /\ [Next]_vars => IInv'
<1> SUFFICES ASSUME IInv, [Next]_vars PROVE IInv'
  BY Zenon
<1> USE DEF IInv, TypeOK, PC, MutualExclusion, Holds, OwnerPlace, NoFalsePanic, Goto
<1>1. CASE UNCHANGED vars
  BY <1>1, Zenon DEF vars
<1>2. ASSUME NEW c \in CPU, Call(c), UNCHANGED careless PROVE IInv'
  BY <1>2 DEF Call
<1>3. ASSUME NEW c \in CPU, LockCheck(c), UNCHANGED careless PROVE IInv'
  BY <1>3 DEF LockCheck
<1>4. ASSUME NEW c \in CPU, LockCheckOwner(c), UNCHANGED careless PROVE IInv'
  BY <1>4 DEF LockCheckOwner
<1>5. ASSUME NEW c \in CPU, Xchg(c), UNCHANGED careless PROVE IInv'
  BY <1>5 DEF Xchg
<1>6. ASSUME NEW c \in CPU, Record(c), UNCHANGED careless PROVE IInv'
  BY <1>6 DEF Record
<1>7. ASSUME NEW c \in CPU, Unlock(c), UNCHANGED careless PROVE IInv'
  BY <1>7 DEF Unlock
<1>8. ASSUME NEW c \in CPU, UnlockCheck(c), UNCHANGED careless PROVE IInv'
  BY <1>8 DEF UnlockCheck
<1>9. ASSUME NEW c \in CPU, UnlockCheckOwner(c), UNCHANGED careless PROVE IInv'
  BY <1>9 DEF UnlockCheckOwner
<1>10. ASSUME NEW c \in CPU, Clear(c), UNCHANGED careless PROVE IInv'
  BY <1>10 DEF Clear
<1>11. ASSUME NEW c \in CPU, XchgRelease(c), UNCHANGED careless PROVE IInv'
  BY <1>11, ZenonT(30) DEF XchgRelease
<1>12. ASSUME NEW c \in CPU, Forget(c), UNCHANGED careless PROVE IInv'
  BY <1>12 DEF Forget
<1>13. ASSUME NEW c \in CPU, StrayUnlock(c), UNCHANGED careless PROVE IInv'
  BY <1>13 DEF StrayUnlock
<1> QED
  BY <1>1, <1>2, <1>3, <1>4, <1>5, <1>6, <1>7, <1>8, <1>9, <1>10, <1>11, <1>12,
     <1>13, Zenon, Zenon DEF Next, Acquire, Release, Spin

\* So the invariant holds at all times.
LEMMA AlwaysIInv == Spec => []IInv
BY InitIInv, StepIInv, PTL DEF Spec

\* At most one CPU holds a spinlock, whatever careless CPUs do with it.
THEOREM SpinlockMutualExclusion == Spec => []MutualExclusion
<1>1. IInv => MutualExclusion
  BY Zenon DEF IInv
<1> QED
  BY <1>1, AlwaysIInv, PTL

\* spin_lock and spin_unlock never panic on a CPU that pairs its calls.
THEOREM SpinlockNoFalsePanic == Spec => []NoFalsePanic
<1>1. IInv => NoFalsePanic
  BY Zenon DEF IInv
<1> QED
  BY <1>1, AlwaysIInv, PTL

-----------------------------------------------------------------------------
(* The refinement: which CPU the mapping calls the holder. *)
LEMMA HolderIs ==
    ASSUME careless = {}, MutualExclusion, NEW c \in CPU, Holds(c)
    PROVE  holderBar = c
BY Zenon DEF MutualExclusion, holderBar

\* With no CPU at a place of the holder the mapping says that the lock is free.
LEMMA NoHolder ==
    ASSUME \A c \in CPU : ~Holds(c)
    PROVE  holderBar = NoCpu
BY Zenon DEF holderBar

\* A step that moves no CPU to or from such a place keeps the holder.
LEMMA HolderSame ==
    ASSUME \A c \in CPU : Holds(c)' <=> Holds(c), UNCHANGED careless
    PROVE  holderBar' = holderBar
BY Zenon DEF holderBar

\* A step of c changes the phase of c as its place says.
LEMMA PhaseStep ==
    ASSUME TypeOK, NEW c \in CPU, NEW from, NEW to, Goto(c, from, to), careless = {}, careless' = {}
    PROVE  phaseBar' = [phaseBar EXCEPT ![c] = PhaseOf(to)] /\ phaseBar[c] = PhaseOf(from)
BY Zenon DEF TypeOK, Goto, phaseBar

\* A step inside of a phase changes no phase.
LEMMA PhaseSame ==
    ASSUME TypeOK, NEW c \in CPU, NEW from, NEW to, Goto(c, from, to), UNCHANGED careless,
           PhaseOf(from) = PhaseOf(to)
    PROVE  phaseBar' = phaseBar
BY Zenon DEF TypeOK, Goto, phaseBar

\* Each place belongs to one phase.
LEMMA Phases ==
    /\ PhaseOf("out") = "out"
    /\ \A p \in {"lock", "lock2", "spin", "record"} : PhaseOf(p) = "waiting"
    /\ PhaseOf("in") = "inside"
    /\ \A p \in {"unlock", "unlock2", "clear", "release"} : PhaseOf(p) = "leaving"
BY Zenon DEF PhaseOf

\* A free spinlock is a free lock of Mutex.
LEMMA InitRefines == Init => M!MInit
<1> SUFFICES ASSUME Init PROVE M!MInit
  BY Zenon
<1>1. \A c \in CPU : ~Holds(c)
  BY Zenon DEF Init, Holds
<1>2. phaseBar = [c \in CPU |-> "out"]
  BY Phases, Zenon DEF Init, phaseBar
<1> QED
  BY <1>1, <1>2, NoHolder, Zenon DEF M!MInit

\* Every step is one of Mutex, or changes nothing there.
LEMMA StepRefines ==
    ASSUME careless = {}, IInv, IInv', [Next]_vars
    PROVE  [M!MNext]_(M!mvars)
<1> USE Phases
<1> careless' = {}
  BY Zenon DEF Next, vars
<1>0. TypeOK /\ MutualExclusion /\ MutualExclusion'
  BY Zenon DEF IInv
<1> DEFINE Same == holderBar' = holderBar
<1>1. CASE UNCHANGED vars
  <2>1. phaseBar' = phaseBar
    BY <1>1, Zenon DEF vars, phaseBar
  <2>2. Same
    BY <1>1, HolderSame, Zenon DEF vars, Holds
  <2> QED
    BY <2>1, <2>2, Zenon DEF M!mvars
<1>2. ASSUME NEW c \in CPU, Call(c) PROVE M!MNext
  <2>1. phaseBar' = [phaseBar EXCEPT ![c] = "waiting"] /\ phaseBar[c] = "out"
    BY <1>0, <1>2, PhaseStep DEF Call
  <2>2. Same
    BY <1>0, <1>2, HolderSame, Zenon DEF Call, Goto, Holds, TypeOK
  <2> QED
    BY <2>1, <2>2, Zenon DEF M!MNext, M!Request
<1>3. ASSUME NEW c \in CPU, LockCheck(c) \/ LockCheckOwner(c) PROVE UNCHANGED M!mvars
  <2>0. pc'[c] # "panic"
    BY <1>3, Zenon DEF IInv, NoFalsePanic
  <2>1. phaseBar' = phaseBar
    <3>1. \E from, to \in {"lock", "lock2", "spin"} : Goto(c, from, to)
      BY <1>0, <1>3, <2>0, Zenon DEF LockCheck, LockCheckOwner, Goto, TypeOK
    <3> QED
      BY <1>0, <3>1, PhaseSame
  <2>2. Same
    BY <1>0, <1>3, HolderSame, Zenon DEF LockCheck, LockCheckOwner, Goto, Holds, TypeOK
  <2> QED
    BY <2>1, <2>2, Zenon DEF M!mvars
<1>4. ASSUME NEW c \in CPU, Xchg(c) PROVE M!MNext
  <2>1. phaseBar' = phaseBar
    BY <1>0, <1>4, PhaseSame, Zenon DEF Xchg
  <2>2. phaseBar[c] = "waiting"
    BY <1>0, <1>4, PhaseStep, Zenon DEF Xchg
  <2>3. holderBar = NoCpu
    BY <1>4, NoHolder, Zenon DEF IInv, Xchg
  <2>4. Holds(c)'
    BY <1>0, <1>4, Zenon DEF Xchg, Goto, Holds, TypeOK
  <2>5. holderBar' = c
    BY <1>0, <2>4, Zenon DEF MutualExclusion, holderBar
  <2> QED
    BY <2>1, <2>2, <2>3, <2>5, Zenon DEF M!MNext, M!Acquire
<1>5. ASSUME NEW c \in CPU, Record(c) PROVE M!MNext
  <2>1. phaseBar' = [phaseBar EXCEPT ![c] = "inside"] /\ phaseBar[c] = "waiting"
    BY <1>0, <1>5, PhaseStep DEF Record
  <2>2. Holds(c) /\ Holds(c)'
    BY <1>0, <1>5, Zenon DEF Record, Goto, Holds, TypeOK
  <2>3. holderBar = c /\ holderBar' = c
    BY <1>0, <2>2, Zenon DEF MutualExclusion, holderBar
  <2> QED
    BY <2>1, <2>3, Zenon DEF M!MNext, M!Enter
<1>6. ASSUME NEW c \in CPU, Unlock(c) PROVE M!MNext
  <2>1. phaseBar' = [phaseBar EXCEPT ![c] = "leaving"] /\ phaseBar[c] = "inside"
    BY <1>0, <1>6, PhaseStep DEF Unlock
  <2>2. Holds(c) /\ Holds(c)'
    BY <1>6, Zenon DEF Unlock, Goto, Holds, IInv
  <2>3. holderBar = c /\ holderBar' = c
    BY <1>0, <2>2, Zenon DEF MutualExclusion, holderBar
  <2> QED
    BY <2>1, <2>3, Zenon DEF M!MNext, M!Leave
<1>7. ASSUME NEW c \in CPU, UnlockCheck(c) \/ UnlockCheckOwner(c) \/ Clear(c)
      PROVE  UNCHANGED M!mvars
  <2>0. pc'[c] # "panic"
    BY <1>7, Zenon DEF IInv, NoFalsePanic
  <2>1. phaseBar' = phaseBar
    <3>1. \E from, to \in {"unlock", "unlock2", "clear", "release"} : Goto(c, from, to)
      BY <1>0, <1>7, <2>0, Zenon DEF UnlockCheck, UnlockCheckOwner, Clear, Goto, TypeOK
    <3> QED
      BY <1>0, <3>1, PhaseSame, Zenon
  <2>2. Holds(c) /\ Holds(c)'
    BY <1>7, <2>0, Zenon DEF UnlockCheck, UnlockCheckOwner, Clear, Goto, Holds, IInv, TypeOK
  <2>3. holderBar = c /\ holderBar' = c
    BY <1>0, <2>2, Zenon DEF MutualExclusion, holderBar
  <2> QED
    BY <2>1, <2>3, Zenon DEF M!mvars
<1>8. ASSUME NEW c \in CPU, XchgRelease(c) PROVE M!MNext
  <2>1. phaseBar' = [phaseBar EXCEPT ![c] = "out"] /\ phaseBar[c] = "leaving"
    BY <1>0, <1>8, PhaseStep DEF XchgRelease
  <2>2. Holds(c)
    BY <1>8, Zenon DEF XchgRelease, Goto, Holds
  <2>3. holderBar = c
    BY <1>0, <2>2, HolderIs, Zenon
  <2>4. \A d \in CPU : ~Holds(d)'
    BY <1>8, Zenon DEF XchgRelease, IInv
  <2>5. holderBar' = NoCpu
    BY <2>4, Zenon DEF holderBar
  <2> QED
    BY <2>1, <2>3, <2>5, Zenon DEF M!MNext, M!Release
<1> QED
  BY <1>1, <1>2, <1>3, <1>4, <1>5, <1>6, <1>7, <1>8
    , Zenon DEF Next, Acquire, Release, Forget, StrayUnlock, Spin

\* When every CPU pairs its calls, the spinlock implements the atomic lock: the
\* exchange that succeeds is the moment of acquisition.
THEOREM SpinlockImplementsMutex == Spec => ImplementsMutex
<1>1. IInv /\ IInv' /\ [Next]_vars => [M!MNext]_(M!mvars)
  <2> SUFFICES ASSUME IInv, IInv', [Next]_vars PROVE [M!MNext]_(M!mvars)
    BY Zenon
  <2>1. CASE careless # {}
    <3>1. careless' = careless
      BY Zenon DEF Next, vars
    <3>2. UNCHANGED M!mvars
      BY <2>1, <3>1, Zenon DEF M!mvars, holderBar, phaseBar
    <3> QED
      BY <3>2, Zenon
  <2> QED
    BY <2>1, StepRefines, Zenon
<1> QED
  BY <1>1, InitRefines, AlwaysIInv, PTL DEF Spec, ImplementsMutex, M!MSpec

-----------------------------------------------------------------------------
(***************************************************************************)
(* Trap, for every set of tasks and every program: whatever the timer does *)
(* between the system call gate and cli, each system call of each task is  *)
(* performed once and in program order.                                    *)
(***************************************************************************)
\* A program ends with an instruction after its last system call.
Program == CODE_LENGTH \in Nat /\ SysCalls \subseteq 0 .. (CODE_LENGTH - 1)

Frames ==
    /\ mode \in {"user", "gate", "kernel"} /\ cur \in Task
    /\ eip \in 0 .. CODE_LENGTH /\ tf \in [Task -> 0 .. CODE_LENGTH]
    /\ calls \in [Task -> Seq(SysCalls)]
    /\ DOMAIN left = Task
\* The calls of t are those in front of the instruction n.
Done(t, n) == \A s \in SysCalls : s < n <=> \E i \in DOMAIN calls[t] : calls[t][i] = s
InOrder(t) == \A i, j \in DOMAIN calls[t] : i < j => calls[t][i] < calls[t][j]

\* CallsInOrder alone is not inductive: a task in user mode or at the gate has
\* performed no call since the point it would be restarted at, so that both are
\* right; and at the gate the frame is that of the call that was met.
TrapIInv ==
    /\ Frames
    /\ \A t \in Task : InOrder(t) /\ Done(t, tf[t])
    /\ mode \in {"user", "gate"} => Done(cur, eip)
    /\ mode = "gate" => eip \in SysCalls /\ frame = eip + 1

\* No task has made a call.
LEMMA InitTrapIInv == ASSUME Program PROVE TrapInit => TrapIInv
  <1> SUFFICES ASSUME TrapInit PROVE TrapIInv BY Zenon
  <1>1. \A t \in Task : calls[t] = <<>> /\ tf[t] = 0 BY Zenon DEF TrapInit
  <1>2. Frames BY DEF TrapInit, Frames, Program
  <1>3. \A t \in Task : InOrder(t) BY <1>1 DEF InOrder
  <1>4. \A t \in Task : Done(t, 0) BY <1>1 DEF Done, Program
  <1> QED BY <1>1, <1>2, <1>3, <1>4, Zenon DEF TrapIInv, TrapInit

\* Every step of the gate, a timer interrupt inside of it included, keeps the invariant.
LEMMA StepTrapIInv == ASSUME Program PROVE TrapIInv /\ [TrapNext]_trapVars => TrapIInv'
  <1> SUFFICES ASSUME TrapIInv, [TrapNext]_trapVars PROVE TrapIInv' BY Zenon
  <1> USE DEF Program
  <1>1. CASE UNCHANGED trapVars
    BY <1>1 DEF trapVars, TrapIInv, Frames, InOrder, Done
  <1>2. CASE Execute
    <2>1. Frames' BY <1>2 DEF TrapIInv, Frames, Execute
    <2>2. Done(cur, eip)' BY <1>2 DEF TrapIInv, Frames, Execute, Done
    <2> QED BY <1>2, <2>1, <2>2, SMTT(30) DEF TrapIInv, Execute, InOrder, Done
  <1>3. CASE SysCallGate
    <2>1. Frames' BY <1>3, Zenon DEF TrapIInv, Frames, SysCallGate
    <2> QED BY <1>3, <2>1 DEF TrapIInv, SysCallGate, InOrder, Done
  <1>4. CASE Dispatch
    <2> DEFINE c == calls[cur]
    <2>1. frame - 1 = eip /\ eip \in SysCalls /\ frame \in 0 .. CODE_LENGTH /\ cur \in Task
      BY <1>4 DEF TrapIInv, Frames, Dispatch
    <2>2. /\ tf' = [tf EXCEPT ![cur] = eip + 1]
          /\ calls' = [calls EXCEPT ![cur] = Append(c, eip)]
          /\ mode' = "kernel" /\ UNCHANGED <<cur, eip, left>>
      BY <1>4, <2>1, Zenon DEF TrapIInv, Dispatch
    <2>3. c \in Seq(SysCalls) /\ Append(c, eip) \in Seq(SysCalls)
      BY <2>1 DEF TrapIInv, Frames
    <2>4. Frames' BY <2>1, <2>2, <2>3 DEF TrapIInv, Frames
    <2>5. \A t \in Task \ {cur} : calls'[t] = calls[t] /\ tf'[t] = tf[t]
      BY <2>1, <2>2, Zenon DEF TrapIInv, Frames
    <2>6. calls'[cur] = Append(c, eip) /\ tf'[cur] = eip + 1
      BY <2>1, <2>2, Zenon DEF TrapIInv, Frames
    <2>7. \A i \in DOMAIN c : c[i] < eip
      <3> SUFFICES ASSUME NEW i \in DOMAIN c PROVE c[i] < eip BY Zenon
      <3>1. c[i] \in SysCalls BY <2>3
      <3>2. Done(cur, eip) BY <1>4, Zenon DEF TrapIInv, Dispatch
      <3> QED BY <3>1, <3>2, Zenon DEF Done
    <2>8. /\ DOMAIN Append(c, eip) = 1 .. (Len(c) + 1) /\ DOMAIN c = 1 .. Len(c) /\ Len(c) \in Nat
          /\ \A i \in 1 .. Len(c) : Append(c, eip)[i] = c[i]
          /\ Append(c, eip)[Len(c) + 1] = eip
      BY <2>1, <2>3
    <2>9. InOrder(cur)'
      BY <2>1, <2>2, <2>3, <2>6, <2>7, <2>8 DEF TrapIInv, InOrder
    <2>10. Done(cur, eip + 1)'
      <3>1. \A s \in SysCalls : s < eip <=> \E i \in 1 .. Len(c) : c[i] = s
        BY <1>4, <2>8, Zenon DEF TrapIInv, Done, Dispatch
      <3>2. \A s \in SysCalls : s < eip + 1 <=> s < eip \/ s = eip
        BY <2>1
      <3>3. \A s \in SysCalls : (\E i \in 1 .. (Len(c) + 1) : Append(c, eip)[i] = s)
                                 <=> (\E i \in 1 .. Len(c) : c[i] = s) \/ s = eip
        BY <2>1, <2>8, SMTT(30)
      <3>4. cur' = cur /\ eip' = eip /\ DOMAIN calls'[cur] = 1 .. (Len(c) + 1)
        BY <2>2, <2>6, <2>8, Zenon
      <3>5. \A s \in SysCalls : s < eip + 1 <=> \E i \in DOMAIN calls'[cur] : calls'[cur][i] = s
        <4> TAKE s \in SysCalls
        <4>1. s < eip + 1 <=> (\E i \in 1 .. (Len(c) + 1) : Append(c, eip)[i] = s)
          <5> HIDE DEF c
          <5> QED BY <3>1, <3>2, <3>3, Zenon
        <4> QED BY <2>6, <3>4, <4>1, Zenon
      <3> QED BY <3>4, <3>5, Zenon DEF Done
    <2> QED BY <2>2, <2>4, <2>5, <2>6, <2>9, <2>10 DEF TrapIInv, InOrder, Done
  <1>5. CASE SysCallEnds \/ TimerInGate
    <2>1. /\ UNCHANGED <<tf, calls, left>> /\ mode' = "user"
          /\ cur' \in Task /\ eip' = tf[cur']
      BY <1>5, Zenon DEF TrapIInv, Frames, SysCallEnds, TimerInGate, Resume, Switch
    <2>2. Frames' BY <2>1, Zenon DEF TrapIInv, Frames
    <2>3. Done(cur, eip)' BY <2>1, SMTT(20) DEF TrapIInv, Done
    <2> QED BY <2>1, <2>2, <2>3 DEF TrapIInv, InOrder, Done
  <1>6. CASE TimerFromUser
    <2>1. /\ tf' = [tf EXCEPT ![cur] = eip] /\ UNCHANGED calls /\ mode' = "user"
          /\ left' = [left EXCEPT ![cur] = eip]
          /\ cur' \in Task /\ eip' = tf'[cur']
      BY <1>6, Zenon DEF TrapIInv, Frames, TimerFromUser, Resume, Switch
    <2>2. Frames' BY <2>1 DEF TrapIInv, Frames
    <2>3. \A t \in Task : Done(t, tf'[t])
      BY <1>6, <2>1 DEF TrapIInv, Frames, Done, TimerFromUser
    <2>4. \A t \in Task : Done(t, tf[t])'
      BY <2>1, <2>3, Zenon DEF Done
    <2> QED BY <2>1, <2>2, <2>4, ZenonT(30) DEF TrapIInv, InOrder, Done
  <1> QED BY <1>1, <1>2, <1>3, <1>4, <1>5, <1>6, Zenon DEF TrapNext

\* The invariant gives what CallsInOrder says.
LEMMA IInvOrder == ASSUME Program, TrapIInv PROVE CallsInOrder
  <1> DEFINE upto(t) == IF t = cur /\ mode = "user" THEN eip ELSE tf[t]
  <1>1. ASSUME NEW t \in Task
        PROVE {n \in SysCalls : n < upto(t)} = {calls[t][i] : i \in DOMAIN calls[t]}
    <2>1. Done(t, upto(t)) BY Zenon DEF TrapIInv
    <2>2. \A i \in DOMAIN calls[t] : calls[t][i] \in SysCalls BY DEF TrapIInv, Frames
    <2> HIDE DEF upto
    <2> QED BY <2>1, <2>2, Zenon DEF Done
  <1> QED BY <1>1, Zenon DEF TrapIInv, InOrder, CallsInOrder

\* No system call is performed twice, out of order or passed over, for every
\* number of tasks and every program, although TimerInGate drops frames.
THEOREM TrapCallsInOrder == ASSUME Program PROVE TrapSpec => []CallsInOrder
  <1>1. TrapInit => TrapIInv BY InitTrapIInv, Zenon
  <1>2. TrapIInv /\ [TrapNext]_trapVars => TrapIInv' BY StepTrapIInv, Zenon
  <1>3. TrapIInv => CallsInOrder BY IInvOrder, Zenon
  <1> QED BY <1>1, <1>2, <1>3, PTL DEF TrapSpec
=============================================================================
