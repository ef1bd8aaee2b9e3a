----------------------------- MODULE ForkProofs -----------------------------
(***************************************************************************)
(* The steps of sys_fork, task_create and the enqueue keep the invariants  *)
(* of Tasks.                                                               *)
(***************************************************************************)
EXTENDS RunqueueProofs

USE TasksAssumption

\* sys_fork keeps each task with one owner.
LEMMA ForkOwnInv ==
    ASSUME IInv, OwnInv, \E c \in CPUs : Fork(c)
    PROVE  OwnInv'
<1> USE ConstFacts DEF IInv, taskVars, rqVars, localVars, Goto, Return, Interruptible
<1>0. NoKill
  BY Zenon DEF OwnInv
<1>a. \A d, e \in CPUs : \A t \in TaskIds : Owns(d, t) /\ Owns(e, t) => d = e
  BY Zenon DEF OwnInv
<1>b. \A d, e \in CPUs : Pending(d) => ~Owns(e, ts[d])
  BY Zenon DEF OwnInv
<1>c. \A d, e \in CPUs : Pending(d) /\ Pending(e) /\ ts[d] = ts[e] => d = e
  BY Zenon DEF OwnInv
<1>d. \A d \in CPUs : \A t \in TaskIds : Owns(d, t) => state[t] # "FREE"
  BY Zenon DEF OwnInv
<1>e. \A d \in CPUs : Pending(d) => (state[ts[d]] = "FREE" <=> pc[d] = "create")
  BY Zenon DEF OwnInv
<1>f. \A d \in CPUs : Pending(d) => ts[d] \in TaskIds
  BY Zenon DEF Locals, Pending
<1>1. ASSUME NEW c \in CPUs, ForkCall(c) PROVE OwnInv'
  <2>1. NoKill'
    BY <1>0, <1>1, Zenon DEF ForkCall, TypeOK, NoKill
  <2>2. \A d \in CPUs : \A t \in TaskIds : Owns(d, t)' => Owns(d, t)
    BY <1>1, Zenon DEF ForkCall, TypeOK, Locals, Owns
  <2>3. \A d \in CPUs : Pending(d)' =>
            Pending(d) /\ ts'[d] = ts[d] /\ (pc'[d] = "create" <=> pc[d] = "create")
    BY <1>1, Zenon DEF ForkCall, TypeOK, Pending
  <2>4. \A t \in TaskIds : state'[t] = "FREE" <=> state[t] = "FREE"
    BY <1>1, Zenon DEF ForkCall, TypeOK
  <2> QED
    BY <2>1, <2>2, <2>3, <2>4, OwnKept, Zenon
<1>2. ASSUME NEW c \in CPUs, ForkLock(c) PROVE OwnInv'
  <2>1. NoKill'
    BY <1>0, <1>2, Zenon DEF ForkLock, TypeOK, NoKill
  <2>2. PICK new \in TaskIds : state[new] = "FREE" /\ ts' = [ts EXCEPT ![c] = new]
    BY <1>2, Zenon DEF ForkLock, FreeSlot
  <2>3. ts'[c] = new /\ pc'[c] = "create" /\ state' = state
    BY <1>2, <2>2, Zenon DEF ForkLock, TypeOK
  <2>4. \A d \in CPUs \ {c} : pc'[d] = pc[d] /\ ts'[d] = ts[d]
    BY <1>2, <2>2, Zenon DEF ForkLock, TypeOK
  <2>5. \A d \in CPUs : pc[d] # "create"
    BY <1>2, Zenon DEF ForkLock, LockHeld
  <2>6. \A d \in CPUs : \A t \in TaskIds : Owns(d, t)' => Owns(d, t)
    BY <1>2 DEF ForkLock, TypeOK, Owns
  <2>7. \A d \in CPUs : Pending(d)' => d = c \/ Pending(d)
    BY <2>4, Zenon DEF Pending
  <2>8. \A d \in CPUs : Pending(d) => state[ts[d]] # "FREE"
    BY <2>5, <1>e
  <2>9. \A d, e \in CPUs : \A t \in TaskIds : Owns(d, t)' /\ Owns(e, t)' => d = e
    BY <2>6, <1>a, Zenon
  <2>10. \A d, e \in CPUs : Pending(d)' => ~Owns(e, ts[d])'
    <3> SUFFICES ASSUME NEW d \in CPUs, NEW e \in CPUs, Pending(d)', Owns(e, ts[d])'
                 PROVE  FALSE
      BY Zenon
    <3>1. PICK t \in TaskIds : t = ts'[d]
      BY <2>3, <2>4, <2>7, <1>f, Zenon
    <3>2. Owns(e, t)
      BY <3>1, <2>6, OwnPrimed, Zenon
    <3>3. CASE d = c
      BY <3>1, <3>2, <3>3, <2>2, <2>3, <1>d, Zenon
    <3>4. CASE d # c
      BY <3>1, <3>2, <3>4, <2>4, <2>7, <1>b, Zenon
    <3> QED
      BY <3>3, <3>4, Zenon
  <2>11. \A d, e \in CPUs : (Pending(d) /\ Pending(e) /\ ts[d] = ts[e])' => d = e
    BY <2>2, <2>3, <2>4, <2>7, <2>8, <1>c
  <2>12. \A d \in CPUs : \A t \in TaskIds : Owns(d, t)' => state'[t] # "FREE"
    BY <2>3, <2>6, <1>d, Zenon
  <2>13. \A d \in CPUs : Pending(d)' => (state'[ts'[d]] = "FREE" <=> pc'[d] = "create")
    BY <2>2, <2>3, <2>4, <2>5, <2>7, <2>8, Zenon
  <2> QED
    BY <2>1, <2>9, <2>10, <2>11, <2>12, <2>13, Zenon DEF OwnInv
<1>3. ASSUME NEW c \in CPUs, ForkFull(c) PROVE OwnInv'
  <2>1. NoKill'
    BY <1>0, <1>3, Zenon DEF ForkFull, TypeOK, NoKill
  <2>2. \A d \in CPUs : \A t \in TaskIds : Owns(d, t)' => Owns(d, t)
    BY <1>3, Zenon DEF ForkFull, TypeOK, Locals, Owns
  <2>3. \A d \in CPUs : Pending(d)' =>
            Pending(d) /\ ts'[d] = ts[d] /\ (pc'[d] = "create" <=> pc[d] = "create")
    BY <1>3, Zenon DEF ForkFull, TypeOK, Pending
  <2>4. \A t \in TaskIds : state'[t] = "FREE" <=> state[t] = "FREE"
    BY <1>3, Zenon DEF ForkFull, TypeOK
  <2> QED
    BY <2>1, <2>2, <2>3, <2>4, OwnKept, Zenon
<1>4. ASSUME NEW c \in CPUs, LockPanic(c) PROVE OwnInv'
  <2>1. NoKill'
    BY <1>0, <1>4 DEF LockPanic, TypeOK, NoKill
  <2>2. \A d \in CPUs : \A t \in TaskIds : Owns(d, t)' => Owns(d, t)
    BY <1>4, Zenon DEF LockPanic, TypeOK, Locals, Owns
  <2>3. \A d \in CPUs : Pending(d)' =>
            Pending(d) /\ ts'[d] = ts[d] /\ (pc'[d] = "create" <=> pc[d] = "create")
    BY <1>4, Zenon DEF LockPanic, TypeOK, Pending
  <2>4. \A t \in TaskIds : state'[t] = "FREE" <=> state[t] = "FREE"
    BY <1>4, Zenon DEF LockPanic, TypeOK
  <2> QED
    BY <2>1, <2>2, <2>3, <2>4, OwnKept, Zenon
<1>5. ASSUME NEW c \in CPUs, CreateFails(c) PROVE OwnInv'
  <2>1. NoKill'
    BY <1>0, <1>5 DEF CreateFails, TypeOK, NoKill
  <2>2. \A d \in CPUs : \A t \in TaskIds : Owns(d, t)' => Owns(d, t)
    <3>1. rq' = rq /\ cur' = cur
      BY <1>5, Zenon DEF CreateFails
    <3>2. \A d \in CPUs \ {c} : pc'[d] = pc[d] /\ ts'[d] = ts[d]
      BY <1>5 DEF CreateFails, TypeOK
    <3>3. pc'[c] # "dispatch"
      BY <1>5 DEF CreateFails, TypeOK
    <3> QED
      BY <3>1, <3>2, <3>3, Zenon DEF Owns
  <2>3. \A d \in CPUs : Pending(d)' =>
            Pending(d) /\ ts'[d] = ts[d] /\ (pc'[d] = "create" <=> pc[d] = "create")
    BY <1>5 DEF CreateFails, TypeOK, Pending
  <2>4. \A t \in TaskIds : state'[t] = "FREE" <=> state[t] = "FREE"
    BY <1>5, Zenon DEF CreateFails, TypeOK
  <2> QED
    BY <2>1, <2>2, <2>3, <2>4, OwnKept, Zenon
<1>6. ASSUME NEW c \in CPUs, Create(c) PROVE OwnInv'
  <2>1. NoKill'
    BY <1>0, <1>6, Zenon DEF Create, TypeOK, NoKill
  <2>2. Pending(c) /\ pc[c] = "create" /\ ts[c] \in TaskIds
    BY <1>6, Zenon DEF Create, Locals, Pending
  <2>3. \A d \in CPUs : \A t \in TaskIds : Owns(d, t)' => Owns(d, t)
    BY <1>6, Zenon DEF Create, TypeOK, Owns
  <2>4. \A d \in CPUs : Pending(d)' =>
            Pending(d) /\ ts'[d] = ts[d] /\ (d # c => pc'[d] = pc[d])
    BY <1>6, Zenon DEF Create, TypeOK, Pending
  <2>5. \A t \in TaskIds : state'[t] = IF t = ts[c] THEN "RUNNABLE" ELSE state[t]
    BY <1>6, <2>2, Zenon DEF Create, TypeOK
  <2>6. pc'[c] = "copy"
    BY <1>6, Zenon DEF Create, TypeOK
  <2>7. \A d, e \in CPUs : \A t \in TaskIds : Owns(d, t)' /\ Owns(e, t)' => d = e
    BY <2>3, <1>a, Zenon
  <2>9. \A d, e \in CPUs : Pending(d)' => ~Owns(e, ts[d])'
    <3> SUFFICES ASSUME NEW d \in CPUs, NEW e \in CPUs, Pending(d)', Owns(e, ts[d])'
                 PROVE  FALSE
      BY Zenon
    <3>1. PICK t \in TaskIds : t = ts'[d] /\ t = ts[d]
      BY <2>4, <1>f, Zenon
    <3>2. Owns(e, t)
      BY <3>1, <2>3, OwnPrimed, Zenon
    <3> QED
      BY <3>1, <3>2, <2>4, <1>b, Zenon
  <2>10. \A d, e \in CPUs : (Pending(d) /\ Pending(e) /\ ts[d] = ts[e])' => d = e
    BY <2>4, <1>c, Zenon
  <2>11. \A d \in CPUs : \A t \in TaskIds : Owns(d, t)' => state'[t] # "FREE"
    BY <2>3, <2>5, <1>d, Zenon
  <2>12. \A d \in CPUs : Pending(d)' => (state'[ts'[d]] = "FREE" <=> pc'[d] = "create")
    <3> SUFFICES ASSUME NEW d \in CPUs, Pending(d)'
                 PROVE  state'[ts'[d]] = "FREE" <=> pc'[d] = "create"
      BY Zenon
    <3>1. CASE d = c
      BY <3>1, <2>2, <2>4, <2>5, <2>6, Zenon
    <3>2. CASE d # c
      <4>1. ts[d] # ts[c] /\ ts[d] \in TaskIds
        BY <3>2, <2>2, <2>4, <1>c, <1>f, Zenon
      <4>2. state'[ts[d]] = state[ts[d]]
        BY <4>1, <2>5, Zenon
      <4>3. Pending(d) /\ ts'[d] = ts[d] /\ pc'[d] = pc[d]
        BY <3>2, <2>4, Zenon
      <4> QED
        BY <4>2, <4>3, <1>e, Zenon
    <3> QED
      BY <3>1, <3>2, Zenon
  <2> QED
    BY <2>1, <2>7, <2>9, <2>10, <2>11, <2>12, Zenon DEF OwnInv
<1>7. ASSUME NEW c \in CPUs, Copy(c) PROVE OwnInv'
  <2>1. NoKill'
    BY <1>0, <1>7, Zenon DEF Copy, TypeOK, NoKill
  <2>2. \A d \in CPUs : \A t \in TaskIds : Owns(d, t)' => Owns(d, t)
    BY <1>7, Zenon DEF Copy, TypeOK, Locals, Owns
  <2>3. \A d \in CPUs : Pending(d)' =>
            Pending(d) /\ ts'[d] = ts[d] /\ (pc'[d] = "create" <=> pc[d] = "create")
    BY <1>7, Zenon DEF Copy, TypeOK, Pending
  <2>4. \A t \in TaskIds : state'[t] = "FREE" <=> state[t] = "FREE"
    BY <1>7, Zenon DEF Copy, TypeOK
  <2> QED
    BY <2>1, <2>2, <2>3, <2>4, OwnKept, Zenon
<1>8. ASSUME NEW c \in CPUs, EnqueueLoad(c) PROVE OwnInv'
  <2>1. NoKill'
    BY <1>0, <1>8, Zenon DEF EnqueueLoad, TypeOK, NoKill
  <2>2. \A d \in CPUs : \A t \in TaskIds : Owns(d, t)' => Owns(d, t)
    BY <1>8, Zenon DEF EnqueueLoad, TypeOK, Locals, Owns
  <2>3. \A d \in CPUs : Pending(d)' =>
            Pending(d) /\ ts'[d] = ts[d] /\ (pc'[d] = "create" <=> pc[d] = "create")
    BY <1>8, Zenon DEF EnqueueLoad, TypeOK, Pending
  <2>4. \A t \in TaskIds : state'[t] = "FREE" <=> state[t] = "FREE"
    BY <1>8, Zenon DEF EnqueueLoad, TypeOK
  <2> QED
    BY <2>1, <2>2, <2>3, <2>4, OwnKept, Zenon
<1>9. ASSUME NEW c \in CPUs, EnqueueStore(c) PROVE OwnInv'
  <2>1. NoKill'
    BY <1>0, <1>9, Zenon DEF EnqueueStore, TypeOK, NoKill
  <2>2. Pending(c) /\ pc[c] = "store" /\ ts[c] \in TaskIds /\ tgt[c] \in CPUs
    BY <1>9, Zenon DEF EnqueueStore, Locals, Pending
  <2>3. \A d \in CPUs : \A t \in TaskIds :
            Owns(d, t)' => Owns(d, t) \/ (d = tgt[c] /\ t = ts[c])
    BY <1>9, <2>2, Zenon DEF EnqueueStore, TypeOK, Owns
  <2>4. \A d \in CPUs : Pending(d)' =>
            d # c /\ Pending(d) /\ ts'[d] = ts[d] /\ pc'[d] = pc[d]
    BY <1>9, Zenon DEF EnqueueStore, TypeOK, Pending
  <2>5. state' = state
    BY <1>9, Zenon DEF EnqueueStore
  <2>6. \A d \in CPUs : ~Owns(d, ts[c])
    BY <2>2, <1>b, Zenon
  <2>7. \A d, e \in CPUs : \A t \in TaskIds : Owns(d, t)' /\ Owns(e, t)' => d = e
    <3> SUFFICES ASSUME NEW d \in CPUs, NEW e \in CPUs, NEW t \in TaskIds,
                        Owns(d, t)', Owns(e, t)'
                 PROVE  d = e
      BY Zenon
    <3>1. CASE t = ts[c]
      BY <3>1, <2>3, <2>6, Zenon
    <3>2. CASE t # ts[c]
      BY <3>2, <2>3, <1>a, Zenon
    <3> QED
      BY <3>1, <3>2, Zenon
  <2>9. \A d \in CPUs : Pending(d)' => ts[d] # ts[c]
    BY <2>2, <2>4, <1>c, Zenon
  <2>10. \A d, e \in CPUs : Pending(d)' => ~Owns(e, ts[d])'
    <3> SUFFICES ASSUME NEW d \in CPUs, NEW e \in CPUs, Pending(d)', Owns(e, ts[d])'
                 PROVE  FALSE
      BY Zenon
    <3>1. PICK t \in TaskIds : t = ts'[d] /\ t = ts[d]
      BY <2>4, <1>f, Zenon
    <3>2. Owns(e, t)
      BY <3>1, <2>3, <2>9, OwnPrimed, Zenon
    <3> QED
      BY <3>1, <3>2, <2>4, <1>b, Zenon
  <2>11. \A d, e \in CPUs : (Pending(d) /\ Pending(e) /\ ts[d] = ts[e])' => d = e
    BY <2>4, <1>c, Zenon
  <2>12. state[ts[c]] # "FREE"
    BY <2>2, <1>e, Zenon
  <2>13. \A d \in CPUs : \A t \in TaskIds : Owns(d, t)' => state'[t] # "FREE"
    BY <2>3, <2>5, <2>12, <1>d, Zenon
  <2>14. \A d \in CPUs : Pending(d)' => (state'[ts'[d]] = "FREE" <=> pc'[d] = "create")
    BY <2>4, <2>5, <1>e, Zenon
  <2> QED
    BY <2>1, <2>7, <2>10, <2>11, <2>13, <2>14, Zenon DEF OwnInv
<1>10. ASSUME NEW c \in CPUs, EnqueueOverflow(c) PROVE OwnInv'
  <2>1. NoKill'
    BY <1>0, <1>10, Zenon DEF EnqueueOverflow, TypeOK, NoKill
  <2>2. \A d \in CPUs : \A t \in TaskIds : Owns(d, t)' => Owns(d, t)
    BY <1>10, Zenon DEF EnqueueOverflow, TypeOK, Locals, Owns
  <2>3. \A d \in CPUs : Pending(d)' =>
            Pending(d) /\ ts'[d] = ts[d] /\ (pc'[d] = "create" <=> pc[d] = "create")
    BY <1>10, Zenon DEF EnqueueOverflow, TypeOK, Pending
  <2>4. \A t \in TaskIds : state'[t] = "FREE" <=> state[t] = "FREE"
    BY <1>10, Zenon DEF EnqueueOverflow, TypeOK
  <2> QED
    BY <2>1, <2>2, <2>3, <2>4, OwnKept, Zenon
<1>11. ASSUME NEW c \in CPUs, EnqueueCount(c) PROVE OwnInv'
  <2>1. NoKill'
    BY <1>0, <1>11, Zenon DEF EnqueueCount, TypeOK, NoKill
  <2>2. \A d \in CPUs : \A t \in TaskIds : Owns(d, t)' => Owns(d, t)
    BY <1>11, Zenon DEF EnqueueCount, TypeOK, Locals, Owns
  <2>3. \A d \in CPUs : Pending(d)' =>
            Pending(d) /\ ts'[d] = ts[d] /\ (pc'[d] = "create" <=> pc[d] = "create")
    BY <1>11, Zenon DEF EnqueueCount, TypeOK, Pending
  <2>4. \A t \in TaskIds : state'[t] = "FREE" <=> state[t] = "FREE"
    BY <1>11, Zenon DEF EnqueueCount, TypeOK
  <2> QED
    BY <2>1, <2>2, <2>3, <2>4, OwnKept, Zenon
<1>12. ASSUME NEW c \in CPUs, EnqueueAdvance(c) PROVE OwnInv'
  <2>1. NoKill'
    BY <1>0, <1>12, Zenon DEF EnqueueAdvance, TypeOK, NoKill
  <2>2. \A d \in CPUs : \A t \in TaskIds : Owns(d, t)' => Owns(d, t)
    BY <1>12, Zenon DEF EnqueueAdvance, TypeOK, Locals, Owns
  <2>3. \A d \in CPUs : Pending(d)' =>
            Pending(d) /\ ts'[d] = ts[d] /\ (pc'[d] = "create" <=> pc[d] = "create")
    BY <1>12, Zenon DEF EnqueueAdvance, TypeOK, Pending
  <2>4. \A t \in TaskIds : state'[t] = "FREE" <=> state[t] = "FREE"
    BY <1>12, Zenon DEF EnqueueAdvance, TypeOK
  <2> QED
    BY <2>1, <2>2, <2>3, <2>4, OwnKept, Zenon
<1> QED
  BY <1>1, <1>2, <1>3, <1>4, <1>5, <1>6, <1>7, <1>8, <1>9, <1>10, <1>11, <1>12
    , Zenon DEF Fork

HIDE TasksAssumption

\* sys_fork keeps the lists sound: the child is put on one list, once.
LEMMA ForkListInv ==
    ASSUME OnlyShellForks, IInv, OwnInv, ListInv, \E c \in CPUs : Fork(c)
    PROVE  ListInv'
<1> USE Numbers DEF taskVars, rqVars, localVars, Goto, Return, Interruptible, Slots, ForkPC, NewPC
<1>a. TypeOK /\ Locals /\ ~wild
  BY Zenon DEF IInv, ListInv
<1>b. Places
  BY Zenon DEF ListInv
<1>c. Listing
  BY Zenon DEF ListInv
<1>d. NewTask
  BY Zenon DEF ListInv
<1>e. Table
  BY Zenon DEF ListInv
<1>1. ASSUME NEW c \in CPUs, ForkCall(c) PROVE ListInv'
  <2>1. cur[c] = 0 /\ 0 \in Slots(0) /\ rq[0][0] = 0
    BY <1>1, <1>a, <1>c DEF ForkCall, OnlyShellForks, TypeOK, Listing
  <2>2. c = 0
    BY <2>1, ListFacts
  <2>3. ~wild'
    BY <1>1, <1>a, Zenon DEF ForkCall
  <2>4. Places'
    BY <1>1, <1>a, <1>b, <2>2 DEF ForkCall, TypeOK, Places, In
  <2>5. Listing'
    BY <1>1, <1>a, <1>c DEF ForkCall, TypeOK, Listing
  <2>6. NewTask'
    BY <1>1, <1>a, <1>b, <1>d DEF ForkCall, TypeOK, Locals, NewTask, Places
  <2>7. Table'
    BY <1>1, <1>a, <1>b, <1>e DEF ForkCall, TypeOK, Table, In, Places
  <2> QED
    BY <2>3, <2>4, <2>5, <2>6, <2>7, Zenon DEF ListInv
<1>2. ASSUME NEW c \in CPUs, ForkLock(c) PROVE ListInv'
  <2>1. c = 0
    BY <1>2, <1>b, Zenon DEF ForkLock, Places
  <2>2. PICK t \in TaskIds : FreeSlot(t) /\ ts' = [ts EXCEPT ![c] = t]
    BY <1>2, Zenon DEF ForkLock
  <2>3. \A d \in CPUs : \A i \in Slots(d) : rq[d][i] < t
    <3> TAKE d \in CPUs
    <3> TAKE i \in Slots(d)
    <3>1. rq[d][i] \in TaskIds /\ state[rq[d][i]] # "FREE"
      BY ListFacts, Zenon
    <3>2. state[t] = "FREE" /\ (t < rq[d][i] => state[rq[d][i]] = "FREE")
      BY <2>2, <3>1, <1>e, Zenon DEF FreeSlot, Table
    <3> QED
      BY <3>1, <3>2
  <2>4. ~wild'
    BY <1>2, <1>a, Zenon DEF ForkLock
  <2>5. Places'
    BY <1>2, <1>a, <1>b DEF ForkLock, TypeOK, Places, In
  <2>6. Listing'
    BY <1>2, <1>a, <1>c DEF ForkLock, TypeOK, Listing
  <2>7. NewTask'
    BY <1>2, <1>a, <1>e, <2>1, <2>2, <2>3, Zenon DEF ForkLock, TypeOK, NewTask, Table, FreeSlot
  <2>8. Table'
    BY <1>2, <1>a, <1>b, <1>e DEF ForkLock, TypeOK, Table, In, Places
  <2> QED
    BY <2>4, <2>5, <2>6, <2>7, <2>8, Zenon DEF ListInv
<1>3. ASSUME NEW c \in CPUs, ForkFull(c) PROVE ListInv'
  <2>1. ~wild'
    BY <1>3, <1>a, Zenon DEF ForkFull
  <2>2. Places'
    BY <1>3, <1>a, <1>b DEF ForkFull, TypeOK, Places, In
  <2>3. Listing'
    BY <1>3, <1>a, <1>c DEF ForkFull, TypeOK, Listing
  <2>4. NewTask'
    BY <1>3, <1>a, <1>b, <1>d DEF ForkFull, TypeOK, Locals, NewTask, Places
  <2>5. Table'
    BY <1>3, <1>a, <1>b, <1>e DEF ForkFull, TypeOK, Table, In, Places
  <2> QED
    BY <2>1, <2>2, <2>3, <2>4, <2>5, Zenon DEF ListInv
<1>4. ASSUME NEW c \in CPUs, LockPanic(c) PROVE ListInv'
  <2>1. ~wild'
    BY <1>4, <1>a, Zenon DEF LockPanic
  <2>2. Places'
    BY <1>4, <1>a, <1>b DEF LockPanic, TypeOK, Places, In
  <2>3. Listing'
    BY <1>4, <1>a, <1>c DEF LockPanic, TypeOK, Listing
  <2>4. NewTask'
    BY <1>4, <1>a, <1>b, <1>d DEF LockPanic, TypeOK, Locals, NewTask, Places
  <2>5. Table'
    BY <1>4, <1>a, <1>b, <1>e, SMTT(20) DEF LockPanic, TypeOK, Table, In, Places
  <2> QED
    BY <2>1, <2>2, <2>3, <2>4, <2>5, Zenon DEF ListInv
<1>5. ASSUME NEW c \in CPUs, CreateFails(c) PROVE ListInv'
  BY <1>5, Zenon DEF CreateFails, OnlyShellForks
<1>6. ASSUME NEW c \in CPUs, Create(c) PROVE ListInv'
  <2>1. c = 0 /\ pc[0] = "create" /\ ts[0] \in TaskIds
    BY <1>6, <1>a, <1>b, Zenon DEF Create, Places, Locals
  <2>2. state[ts[0]] = "FREE" /\ ts[0] \notin CPUs
    BY <2>1, <1>b, ListFacts, Zenon DEF Places
  <2>3. \A d \in CPUs : cur[d] \in TaskIds /\ cur[d] # ts[0]
    BY <2>1, <1>a, ListFacts, Zenon DEF TypeOK
  <2>4. \A d \in CPUs : \A i \in Slots(d) : rq[d][i] \in TaskIds /\ rq[d][i] # ts[0]
    BY <2>1, <1>d, ListFacts, Zenon DEF NewTask
  <2>5. \A u \in TaskIds : state'[u] = IF u = ts[0] THEN "RUNNABLE" ELSE state[u]
    BY <1>6, <1>a, <2>1, Zenon DEF Create, TypeOK
  <2>6. /\ pc' = [pc EXCEPT ![0] = "copy"]
        /\ UNCHANGED <<built, rq, cnt, cur, ts, tgt, idx, wild>>
    BY <1>6, <2>1, Zenon DEF Create
  <2>7. Places'
    BY <1>a, <1>b, <2>1, <2>2, <2>3, <2>5, <2>6 DEF TypeOK, Places, In
  <2>8. Listing'
    <3>1. \A d \in CPUs : \A i \in Slots(d) : state'[rq[d][i]] = state[rq[d][i]]
      BY <2>4, <2>5, Zenon
    <3> QED
      BY <1>c, <2>6, <3>1 DEF Listing
  <2>9. NewTask'
    BY <1>a, <1>d, <2>1, <2>5, <2>6 DEF TypeOK, NewTask
  <2>10. Table'
    <3>1. ASSUME NEW t \in TaskIds, NEW u \in TaskIds, state'[t] = "FREE", t < u
          PROVE  state'[u] = "FREE"
      <4>1. t # ts[0] /\ state[t] = "FREE"
        BY <2>5, <3>1, Zenon
      <4>2. ts[0] < t
        BY <2>1, <4>1, <1>d DEF NewTask
      <4>3. state[u] = "FREE" /\ u # ts[0]
        BY <2>1, <3>1, <4>1, <4>2, <1>e DEF Table
      <4> QED
        BY <2>5, <4>3, Zenon
    <3>2. \A t \in TaskIds : state[t] = "FREE" \/ (\E d \in CPUs : In(d, t)')
      BY <1>e, <2>1, <2>6, Zenon DEF Table, In
    <3>3. pc'[0] \in NewPC /\ ts'[0] = ts[0]
      BY <2>6, <1>a, Zenon DEF TypeOK
    <3> QED
      BY <2>5, <3>1, <3>2, <3>3, Zenon DEF Table
  <2> QED
    BY <1>a, <2>6, <2>7, <2>8, <2>9, <2>10, Zenon DEF ListInv
<1>7. ASSUME NEW c \in CPUs, Copy(c) PROVE ListInv'
  <2>0. c = 0
    BY <1>7, <1>b, Zenon DEF Copy, Places
  <2>1. c = 0 /\ pc' = [pc EXCEPT ![0] = "load"] /\ pc[0] = "copy" /\ ts[0] \in built'
    BY <1>7, <2>0, Zenon DEF Copy
  <2>2. ~wild'
    BY <1>7, <1>a, Zenon DEF Copy
  <2>3. Places'
    BY <1>7, <1>a, <1>b DEF Copy, TypeOK, Places, In
  <2>4. Listing'
    BY <1>7, <1>a, <1>c DEF Copy, TypeOK, Listing
  <2>5. NewTask'
    BY <1>7, <1>a, <1>d, <2>1, Zenon DEF Copy, TypeOK, NewTask
  <2>6. Table'
    BY <1>7, <1>a, <1>b, <1>e DEF Copy, TypeOK, Table, In, Places
  <2> QED
    BY <2>2, <2>3, <2>4, <2>5, <2>6, Zenon DEF ListInv
<1>8. ASSUME NEW c \in CPUs, EnqueueLoad(c) PROVE ListInv'
  <2>1. c = 0 /\ pc[0] = "load" /\ nextCPU \in CPUs /\ ts[0] \in TaskIds
    BY <1>8, <1>a, <1>b, Zenon DEF EnqueueLoad, Places, TypeOK, Locals
  <2>2. cnt[nextCPU] <= ts[0]
    <3>1. cnt[nextCPU] - 1 \in Slots(nextCPU) /\ cnt[nextCPU] \in Nat
      BY <2>1, <1>a, <1>c DEF TypeOK, Listing
    <3>2. rq[nextCPU][cnt[nextCPU] - 1] \in TaskIds
      BY <2>1, <3>1, ListFacts, Zenon
    <3>3. cnt[nextCPU] - 1 <= rq[nextCPU][cnt[nextCPU] - 1]
      BY <2>1, <3>1, <1>c, Zenon DEF Listing
    <3>4. rq[nextCPU][cnt[nextCPU] - 1] < ts[0]
      BY <2>1, <3>1, <1>d, Zenon DEF NewTask
    <3> QED
      BY <2>1, <3>1, <3>2, <3>3, <3>4
  <2>3. ~wild'
    BY <1>8, <1>a, Zenon DEF EnqueueLoad
  <2>4. Places'
    BY <1>8, <1>a, <1>b DEF EnqueueLoad, TypeOK, Places, In
  <2>5. Listing'
    BY <1>8, <1>a, <1>c DEF EnqueueLoad, TypeOK, Listing
  <2>6. NewTask'
    BY <1>8, <1>a, <1>d, <2>1, <2>2, Zenon DEF EnqueueLoad, TypeOK, NewTask
  <2>7. Table'
    BY <1>8, <1>a, <1>b, <1>e DEF EnqueueLoad, TypeOK, Table, In, Places
  <2> QED
    BY <2>3, <2>4, <2>5, <2>6, <2>7, Zenon DEF ListInv
<1>9. ASSUME NEW c \in CPUs, EnqueueStore(c) PROVE ListInv'
  <2>1. /\ c = 0 /\ pc[0] = "store" /\ tgt[0] \in CPUs /\ ts[0] \in TaskIds
        /\ idx[0] \in TaskIds /\ idx[0] = cnt[tgt[0]]
    BY <1>9, <1>a, <1>b, <1>d, Zenon DEF EnqueueStore, Places, Locals, NewTask
  <2>2. /\ rq' = [rq EXCEPT ![tgt[0]] = [@ EXCEPT ![idx[0]] = ts[0]]]
        /\ pc' = [pc EXCEPT ![0] = "count"]
        /\ UNCHANGED <<state, built, cnt, cur, ts, tgt, idx, wild>>
    BY <1>9, <2>1, Zenon DEF EnqueueStore
  <2>3. ASSUME NEW d \in CPUs, NEW i \in Slots(d)
        PROVE  rq'[d][i] = rq[d][i]
    <3>1. i \in TaskIds /\ cnt[d] \in Nat /\ i < cnt[d]
      <4>1. cnt[d] \in 0 .. NR_TASKS
        BY <1>a, Zenon DEF TypeOK
      <4> QED
        BY <4>1, TasksAssumption, ListFacts
    <3>2. CASE d = tgt[0]
      BY <2>1, <2>2, <3>1, <3>2, <1>a DEF TypeOK
    <3>3. CASE d # tgt[0]
      BY <2>1, <2>2, <3>1, <3>3, <1>a, Zenon DEF TypeOK
    <3> QED
      BY <3>2, <3>3, Zenon
  <2>4. rq'[tgt[0]][idx[0]] = ts[0]
    BY <2>1, <2>2, <1>a, Zenon DEF TypeOK
  <2>5. \A d \in CPUs : pc'[d] = IF d = 0 THEN "count" ELSE pc[d]
    BY <2>2, <1>a, Zenon DEF TypeOK
  <2>6. \A d \in CPUs : \A t \in TaskIds : In(d, t)' <=> In(d, t)
    BY <2>2, <2>3 DEF In
  <2>7. Places'
    <3> SUFFICES ASSUME NEW d \in CPUs
                 PROVE  /\ pc'[d] \in {"user", "panic", "sched", "dispatch"} \cup ForkPC
                        /\ pc'[d] \in ForkPC => d = 0
                        /\ pc'[d] \in {"user", "sched", "fork"} => ts[d] = NULL
                        /\ pc'[d] \in {"sched", "dispatch"} <=> state[cur[d]] # "RUNNING"
                        /\ state[d] \in {"RUNNABLE", "RUNNING"}
                        /\ In(d, cur[d])'
                        /\ pc'[d] = "dispatch" => In(d, ts[d])'
      BY <2>2, Zenon DEF Places
    <3>1. In(d, cur[d])' /\ (pc'[d] = "dispatch" => In(d, ts[d])')
      BY <2>2, <2>3, <2>5, <1>b DEF Places, In
    <3> QED
      BY <2>1, <2>5, <3>1, <1>b, Zenon DEF Places
  <2>8. Listing'
    <3>1. \A d \in CPUs : 0 \in Slots(d)
      BY <1>a, <1>c DEF TypeOK, Listing
    <3> QED
      BY <2>2, <2>3, <3>1, <1>c DEF Listing
  <2>9. NewTask'
    BY <2>1, <2>2, <2>3, <2>4, <2>5, <1>d DEF NewTask
  <2>10. Table'
    <3>1. \A t \in TaskIds : (\E d \in CPUs : In(d, t)) => \E d \in CPUs : In(d, t)'
      BY <2>6, Zenon
    <3> QED
      BY <2>1, <2>2, <2>5, <3>1, <1>e, Zenon DEF Table
  <2> QED
    BY <1>a, <2>2, <2>7, <2>8, <2>9, <2>10, Zenon DEF ListInv
<1>10. ASSUME NEW c \in CPUs, EnqueueOverflow(c) PROVE ListInv'
  <2>1. c = 0 /\ pc[0] = "store" /\ ts[0] \in TaskIds /\ idx[0] \in Nat /\ idx[0] \notin TaskIds
    BY <1>10, <1>a, <1>b DEF EnqueueOverflow, Places, Locals, TypeOK
  <2>2. idx[0] <= ts[0]
    BY <2>1, <1>d, Zenon DEF NewTask
  <2> QED
    BY <2>1, <2>2, UpTo, Zenon
<1>11. ASSUME NEW c \in CPUs, EnqueueCount(c) PROVE ListInv'
  <2> DEFINE n == tgt[0]
             k == cnt[n]
             t == ts[0]
  <2>a. c = 0 /\ pc[0] = "count"
    BY <1>11, <1>b, Zenon DEF EnqueueCount, Places
  <2>b. n \in CPUs /\ t \in TaskIds
    BY <2>a, <1>a, Zenon DEF Locals
  <2>c. k \in 0 .. NR_TASKS
    BY <2>b, <1>a, Zenon DEF TypeOK
  <2>d. idx[0] = k /\ k <= t /\ rq[n][k] = t /\ t \in built /\ state[t] = "RUNNABLE"
    BY <2>a, <1>d, Zenon DEF NewTask
  <2>1. /\ c = 0 /\ pc[0] = "count" /\ n \in CPUs /\ t \in TaskIds /\ k \in Nat
        /\ idx[0] = k /\ k <= t /\ rq[n][k] = t /\ t \in built /\ state[t] = "RUNNABLE"
    BY <2>a, <2>b, <2>c, <2>d
  <2>2. k # NR_TASKS /\ k \in TaskIds
    <3> HIDE DEF k, t
    <3> QED
      BY <2>1, UpTo, Zenon
  <2>3. /\ cnt' = [cnt EXCEPT ![n] = k + 1] /\ pc' = [pc EXCEPT ![0] = "advance"] /\ ~wild'
        /\ UNCHANGED <<state, built, rq, cur, ts, tgt, idx>>
    <3>1. PICK m \in {idx[0], k} :
             wild' = (m = NR_TASKS) /\ cnt' = [cnt EXCEPT ![n] = IF m = NR_TASKS THEN m ELSE m + 1]
      BY <1>11, <2>1, Zenon DEF EnqueueCount
    <3>2. m = k
      BY <2>1, Zenon
    <3>3. ~wild' /\ cnt' = [cnt EXCEPT ![n] = k + 1]
      BY <2>2, <3>1, <3>2, Zenon
    <3>4. pc' = [pc EXCEPT ![0] = "advance"] /\ UNCHANGED <<state, built, rq, cur, ts, tgt, idx>>
      BY <1>11, <2>a, Zenon DEF EnqueueCount
    <3> QED
      BY <3>3, <3>4, Zenon
  <2> HIDE DEF t
  <2>e. \A d \in CPUs : cnt[d] \in Nat /\ cnt'[d] = IF d = n THEN k + 1 ELSE cnt[d]
    BY <2>1, <2>3, <1>a, TasksAssumption DEF TypeOK
  <2>f. \A d \in CPUs : \A i \in Slots(d) : i \in TaskIds
    BY ListFacts, Zenon
  <2>4. \A d \in CPUs : \A i \in TaskIds :
           i \in Slots(d)' <=> i \in Slots(d) \/ (d = n /\ i = k)
    <3> TAKE d \in CPUs
    <3> TAKE i \in TaskIds
    <3>1. i \in Nat /\ cnt[d] \in Nat /\ k \in Nat /\ (d = n => cnt[d] = k)
      BY <2>1, <2>e
    <3>2. cnt'[d] = IF d = n THEN k + 1 ELSE cnt[d]
      BY <2>e, Zenon
    <3> QED
      BY <3>1, <3>2
  <2>5. \A d \in CPUs : \A i \in Slots(d)' : i \in TaskIds
    <3> SUFFICES ASSUME NEW d \in CPUs, NEW i \in Slots(d)' PROVE i \in TaskIds
      BY Zenon
    <3>1. i \in Slots(d) \/ i = k
      BY <2>1, <2>e
    <3> QED
      BY <2>2, <2>f, <3>1, Zenon
  <2>6. \A d \in CPUs : \A i \in Slots(d) : i \in TaskIds /\ i \in Slots(d)' /\ rq[d][i] < t
    <3>1. \A d \in CPUs : \A i \in Slots(d) : rq[d][i] < t
      BY <2>1, <1>d, Zenon DEF NewTask, t
    <3> QED
      BY <2>4, <2>f, <3>1, Zenon
  <2>7. \A d \in CPUs : pc'[d] = IF d = 0 THEN "advance" ELSE pc[d]
    BY <2>3, <1>a, Zenon DEF TypeOK
  <2>8. Places'
    <3>1. \A d \in CPUs : \A u : In(d, u) => \E i \in Slots(d)' : rq'[d][i] = u
      BY <2>3, <2>6, Zenon DEF In
    <3> QED
      BY <2>1, <2>3, <2>7, <3>1, <1>b DEF Places, In
  <2>9. Listing'
    <3>1. \A d \in CPUs : cnt'[d] >= 1
      BY <2>1, <2>3, <1>a, <1>c DEF TypeOK, Listing
    <3>2. \A d \in CPUs : \A i \in Slots(d)' :
             /\ rq[d][i] \in built /\ i <= rq[d][i]
             /\ rq[d][i] # cur[d] => state[rq[d][i]] # "RUNNING"
      <4> SUFFICES ASSUME NEW d \in CPUs, NEW i \in Slots(d)'
                   PROVE  /\ rq[d][i] \in built /\ i <= rq[d][i]
                          /\ rq[d][i] # cur[d] => state[rq[d][i]] # "RUNNING"
        BY Zenon
      <4>1. i \in Slots(d) \/ (d = n /\ i = k)
        BY <2>4, <2>5, Zenon
      <4>2. CASE i \in Slots(d)
        BY <4>2, <1>c, Zenon DEF Listing
      <4>3. CASE d = n /\ i = k
        BY <4>3, <2>1, Zenon
      <4> QED
        BY <4>1, <4>2, <4>3, Zenon
    <3>3. ASSUME NEW d \in CPUs, NEW i \in Slots(d)', NEW j \in Slots(d)', i < j
          PROVE  rq[d][i] < rq[d][j]
      <4>1. i \in TaskIds /\ j \in TaskIds /\ (i \in Slots(d) \/ (d = n /\ i = k))
        BY <2>4, <2>5, Zenon
      <4>2. CASE j \in Slots(d)
        BY <3>3, <4>1, <4>2, <1>a, <1>c DEF TypeOK, Listing
      <4>3. CASE d = n /\ j = k
        <5>1. i \in Slots(d)
          BY <3>3, <4>1, <4>3, <2>1
        <5>2. rq[d][i] < t /\ rq[d][j] = t
          BY <4>3, <5>1, <2>1, <2>6, Zenon
        <5> QED
          BY <5>2, ZenonT(30)
      <4> QED
        BY <2>4, <4>1, <4>2, <4>3, Zenon
    <3> QED
      BY <2>3, <3>1, <3>2, <3>3, <1>c DEF Listing
  <2>10. NewTask'
    BY <2>7, Zenon DEF NewTask
  <2>11. Table'
    <3>1. \A d \in CPUs : \A u \in TaskIds : In(d, u) => In(d, u)'
      BY <2>3, <2>6, Zenon DEF In
    <3>2. \A d \in CPUs : \A u \in TaskIds : d = n /\ u = t => In(d, u)'
      <4> SUFFICES ASSUME NEW d \in CPUs, NEW u \in TaskIds, d = n, u = t PROVE In(d, u)'
        BY Zenon
      <4>1. PICK i \in TaskIds : i = k
        BY <2>2, Zenon
      <4>2. i \in Slots(d)'
        BY <2>4, <4>1, Zenon
      <4>3. rq'[d][i] = u
        BY <2>1, <2>3, <4>1, Zenon
      <4> QED
        BY <4>2, <4>3, Zenon DEF In
    <3>3. \A u, v \in TaskIds : state'[u] = "FREE" /\ u < v => state'[v] = "FREE"
      BY <2>3, <1>e, Zenon DEF Table
    <3>4. \A u \in TaskIds : state[u] = "FREE" \/ (\E d \in CPUs : In(d, u)) \/ u = t
      BY <1>e, Zenon DEF Table, t
    <3>5. \A u \in TaskIds : state'[u] = "FREE" \/ (\E d \in CPUs : In(d, u)')
      <4> TAKE u \in TaskIds
      <4>1. CASE state[u] = "FREE"
        BY <4>1, <2>3, Zenon
      <4>2. CASE \E d \in CPUs : In(d, u)
        BY <4>2, <3>1, Zenon
      <4>3. CASE u = t
        BY <4>3, <3>2, <2>b, Zenon
      <4> QED
        BY <3>4, <4>1, <4>2, <4>3, Zenon
    <3> QED
      BY <3>3, <3>5, Zenon DEF Table
  <2> QED
    BY <2>3, <2>8, <2>9, <2>10, <2>11, Zenon DEF ListInv
<1>12. ASSUME NEW c \in CPUs, EnqueueAdvance(c) PROVE ListInv'
  <2>1. ~wild'
    BY <1>12, <1>a, Zenon DEF EnqueueAdvance
  <2>2. Places'
    BY <1>12, <1>a, <1>b DEF EnqueueAdvance, TypeOK, Places, In
  <2>3. Listing'
    BY <1>12, <1>a, <1>c DEF EnqueueAdvance, TypeOK, Listing
  <2>4. NewTask'
    BY <1>12, <1>a, <1>b, <1>d DEF EnqueueAdvance, TypeOK, Locals, NewTask, Places
  <2>5. Table'
    BY <1>12, <1>a, <1>b, <1>e DEF EnqueueAdvance, TypeOK, Table, In, Places
  <2> QED
    BY <2>1, <2>2, <2>3, <2>4, <2>5, Zenon DEF ListInv
<1> QED
  BY <1>1, <1>2, <1>3, <1>4, <1>5, <1>6, <1>7, <1>8, <1>9, <1>10, <1>11, <1>12
    , Zenon DEF Fork
=============================================================================
