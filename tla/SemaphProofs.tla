---------------------------- MODULE SemaphProofs ----------------------------
(***************************************************************************)
(* The semaphores of semaph.c, for any finite set of processes that is     *)
(* smaller than BIGCOUNT and any initial value. sem_create (), sem_open    *)
(* (), sem_wait (), sem_signal (), sem_close () and sem_rm () use three    *)
(* System V semaphores: the value, a counter of processes that starts at   *)
(* BIGCOUNT, and a lock. The kernel undoes what a process took with        *)
(* SEM_UNDO when it ends, at any place. SemInv says what the two counts    *)
(* are at every place of every process, crashes included; it is what an    *)
(* induction needs to know that the process which finds the counter at     *)
(* BIGCOUNT is the last.                                                   *)
(***************************************************************************)
EXTENDS Sync, TLAPS, FiniteSetTheorems

\* What the provers need to know of the constants: fewer processes than BIGCOUNT.
Semaphores ==
    /\ IsFiniteSet(SemProcs) /\ BIGCOUNT \in Nat /\ INITVAL \in Nat
    /\ Cardinality(SemProcs) < BIGCOUNT

\* The places a process can be at, those where it has the lock of the set,
\* and the processes that a count of the set knows: those that are in, and
\* those that hold it.
SemPlaces == {"out", "again", "c_got", "c_sleep", "c_locked", "c_set0", "c_init", "o_got", "o_sleep",
              "in", "w_sleep", "x_sleep", "x_locked", "x_rm", "x_un", "quit"}
SemLocked == {"c_locked", "c_set0", "c_init", "x_locked", "x_rm", "x_un"}
Counted == {p \in SemProcs : Valid(p) /\ semPc[p] \in SemCounted}
Holders == {p \in SemProcs : Valid(p) /\ holds[p]}

\* The ranges of the variables: the adjustments of a process are integers,
\* its identifier is one that semget () has given.
SemTyped ==
    /\ id \in Nat /\ ids \in Nat /\ id <= ids /\ sem \in [0..2 -> Nat]
    /\ adj \in [SemProcs -> [0..2 -> Int]] /\ semPc \in [SemProcs -> SemPlaces]
    /\ my \in [SemProcs -> Nat] /\ (\A p \in SemProcs : my[p] <= ids)
    /\ DOMAIN semHow = SemProcs /\ holds \in [SemProcs -> BOOLEAN]

\* The kernel owes a process what it has taken of the set that the key names.
Owed(p) ==
    /\ adj[p][0] = IF p \in Holders THEN 1 ELSE 0
    /\ adj[p][1] = IF p \in Counted THEN 1 ELSE 0
    /\ adj[p][2] = IF semPc[p] \in SemLocked THEN -1 ELSE 0
Adjusted == \A p \in SemProcs : Owed(p)

\* The lock is held by one process, and the set stays while it is.
OneLocker ==
    /\ \A p \in SemProcs : semPc[p] \in SemLocked => Valid(p) /\ sem[2] = 1
    /\ \A p, q \in SemProcs : semPc[p] \in SemLocked /\ semPc[q] \in SemLocked => p = q

HoldsInside == \A p \in SemProcs : holds[p] => semPc[p] = "in"

\* A set is not initialised and nobody is in, or the two counts are right.
Accounts ==
    \/ sem[1] = 0 /\ Counted = {}
    \/ sem[1] = BIGCOUNT - Cardinality(Counted) /\ sem[0] = INITVAL - Cardinality(Holders)

\* How far the holder of the lock has come.
Stage(p) ==
    /\ semPc[p] = "c_set0" => sem[1] = 0 /\ sem[0] = INITVAL
    /\ semPc[p] \in {"c_init", "x_locked", "x_rm", "x_un"} => sem[1] # 0
    /\ semPc[p] = "x_rm" => \A q \in Counted : semHow[q] # "create"
    /\ semPc[p] \in {"o_got", "o_sleep"} => semHow[p] # "create"
Stages == \A p \in SemProcs : Stage(p)

SemInv == SemTyped /\ Adjusted /\ OneLocker /\ HoldsInside /\ Accounts /\ Stages /\ CreatorSafe

\* One process more, or one less, changes the size of a finite set of
\* processes by one, and there are fewer of them than BIGCOUNT.
LEMMA SemCount ==
    ASSUME Semaphores, NEW S \in SUBSET SemProcs, NEW R \in SUBSET SemProcs, NEW p \in SemProcs,
           S \ {p} = R \ {p}
    PROVE  /\ Cardinality(S) \in Nat /\ Cardinality(R) \in Nat
           /\ Cardinality(S) < BIGCOUNT /\ Cardinality(R) < BIGCOUNT
           /\ (S = {}) <=> (Cardinality(S) = 0)
           /\ (p \in S <=> p \in R) => Cardinality(R) = Cardinality(S)
           /\ p \in R /\ p \notin S => Cardinality(R) = Cardinality(S) + 1
           /\ p \in S /\ p \notin R => Cardinality(R) = Cardinality(S) - 1
<1>0. IsFiniteSet(SemProcs) /\ BIGCOUNT \in Nat /\ Cardinality(SemProcs) < BIGCOUNT
  BY Zenon DEF Semaphores
<1>1. IsFiniteSet(S) /\ IsFiniteSet(R)
  BY <1>0, FS_Subset, Zenon
<1>2. /\ Cardinality(S) \in Nat /\ Cardinality(R) \in Nat /\ Cardinality(SemProcs) \in Nat
      /\ Cardinality(S) <= Cardinality(SemProcs) /\ Cardinality(R) <= Cardinality(SemProcs)
  BY <1>0, <1>1, FS_CardinalityType, FS_Subset, Zenon
<1>3. (p \in S <=> p \in R) => Cardinality(R) = Cardinality(S)
  <2>1. (p \in S <=> p \in R) => S = R
    OBVIOUS
  <2> QED
    BY <2>1, Zenon
<1>4. p \in R /\ p \notin S => Cardinality(R) = Cardinality(S) + 1
  <2>1. p \in R /\ p \notin S => R = S \cup {p}
    BY Zenon
  <2> QED
    BY <1>1, <2>1, FS_AddElement, Zenon
<1>5. p \in S /\ p \notin R => Cardinality(R) = Cardinality(S) - 1
  <2>1. p \in S /\ p \notin R => S = R \cup {p}
    BY Zenon
  <2>2. p \in S /\ p \notin R => Cardinality(S) = Cardinality(R) + 1
    BY <1>1, <2>1, FS_AddElement, Zenon
  <2> QED
    BY <1>2, <2>2
<1>6. (S = {}) <=> (Cardinality(S) = 0)
  BY <1>1, FS_EmptySet, Zenon
<1> QED
  BY <1>0, <1>2, <1>3, <1>4, <1>5, <1>6

\* What all processes but p see of a step of p.
Others(p) ==
    \A q \in SemProcs \ {p} :
        /\ semPc'[q] = semPc[q] /\ holds'[q] = holds[q] /\ my'[q] = my[q]
        /\ semHow'[q] = semHow[q] /\ adj'[q] = adj[q]

\* A step of p that keeps what the others have, and moves the values of the
\* set by as much as it changes the adjustments of p, keeps the two counts
\* right.
LEMMA SemMove ==
    ASSUME Semaphores, SemInv, NEW p \in SemProcs, SemTyped', id' = id, Others(p), Owed(p)',
           \A k \in 0..2 : sem'[k] + adj'[p][k] = sem[k] + adj[p][k],
           semPc'[p] \in SemLocked => Valid(p)' /\ (semPc[p] \in SemLocked \/ sem[2] = 0),
           holds'[p] => semPc'[p] = "in",
           Stage(p)',
           semPc'[p] \in SemCounted /\ semHow'[p] = "create" =>
              Valid(p)' /\ ((p \in Counted /\ semHow[p] = "create") \/ semPc[p] \in SemLocked)
    PROVE  SemInv'
<1>0. /\ SemTyped /\ Adjusted /\ OneLocker /\ HoldsInside /\ Accounts /\ Stages /\ CreatorSafe
      /\ BIGCOUNT \in Nat /\ INITVAL \in Nat
  BY Zenon DEF SemInv, Semaphores
<1>1. \A q \in SemProcs \ {p} : (q \in Counted' <=> q \in Counted) /\ (q \in Holders' <=> q \in Holders)
  BY Zenon DEF Others, Counted, Holders, Valid
<1>2. /\ Counted \in SUBSET SemProcs /\ Counted' \in SUBSET SemProcs /\ Counted \ {p} = Counted' \ {p}
      /\ Holders \in SUBSET SemProcs /\ Holders' \in SUBSET SemProcs /\ Holders \ {p} = Holders' \ {p}
  BY <1>1, Zenon DEF Counted, Holders
<1>3. Owed(p)
  BY <1>0, Zenon DEF Adjusted
<1>4. /\ sem[0] \in Nat /\ sem[1] \in Nat /\ sem[2] \in Nat
      /\ sem'[0] \in Nat /\ sem'[1] \in Nat /\ sem'[2] \in Nat
  BY <1>0 DEF SemTyped
<1>5. /\ sem'[0] + adj'[p][0] = sem[0] + adj[p][0]
      /\ sem'[1] + adj'[p][1] = sem[1] + adj[p][1]
      /\ sem'[2] + adj'[p][2] = sem[2] + adj[p][2]
  OBVIOUS
<1>6. Adjusted'
  <2>1. ASSUME NEW q \in SemProcs \ {p} PROVE Owed(q)'
    BY <1>0, <1>1, <2>1 DEF Adjusted, Owed, Others
  <2> QED
    BY <2>1, Zenon DEF Adjusted
<1>7. OneLocker'
  <2>1. ASSUME NEW q \in SemProcs, semPc'[q] \in SemLocked PROVE Valid(q)' /\ sem'[2] = 1
    <3>1. CASE q = p
      BY <1>0, <1>3, <1>4, <1>5, <2>1, <3>1, SMTT(20) DEF OneLocker, Owed
    <3>2. CASE q # p
      <4>1. semPc[q] \in SemLocked /\ Valid(q) /\ sem[2] = 1 /\ semPc[p] \notin SemLocked
        BY <1>0, <2>1, <3>2, Zenon DEF OneLocker, Others
      <4>2. semPc'[p] \notin SemLocked
        BY <4>1
      <4> QED
        BY <1>3, <1>4, <1>5, <3>2, <4>1, <4>2, SMTT(20) DEF Owed, Valid, Others
    <3> QED
      BY <3>1, <3>2, SMTT(20)
  <2>2. ASSUME NEW q \in SemProcs, NEW r \in SemProcs, semPc'[q] \in SemLocked, semPc'[r] \in SemLocked
        PROVE  q = r
    BY <1>0, <2>2 DEF OneLocker, Others
  <2> QED
    BY <2>1, <2>2, Zenon DEF OneLocker
<1>8. HoldsInside'
  BY <1>0, Zenon DEF HoldsInside, Others
<1>9. (Counted = {} => Holders = {}) /\ (Counted' = {} => Holders' = {})
  BY <1>0, <1>8, Zenon DEF HoldsInside, Counted, Holders, SemCounted
<1>10. ASSUME sem[1] = 0, Counted = {} PROVE Accounts' /\ Stages'
  <2>1. adj[p][1] = 0 /\ adj[p][0] = 0
    BY <1>3, <1>9, <1>10, Zenon DEF Owed
  <2>2. p \notin Counted' /\ sem'[1] = 0
    BY <1>4, <1>5, <1>10, <2>1 DEF Owed
  <2>3. Counted' = {}
    BY <1>2, <1>10, <2>2
  <2>4. sem'[0] = sem[0]
    BY <1>4, <1>5, <1>9, <2>1, <2>3, SMTT(20) DEF Owed
  <2>5. Stages'
    BY <1>0, <1>10, <2>2, <2>3, <2>4, SMTT(20) DEF Stages, Stage, Others
  <2> QED
    BY <2>2, <2>3, <2>5, Zenon DEF Accounts
<1>11. ASSUME ~(sem[1] = 0 /\ Counted = {}) PROVE Accounts' /\ Stages'
  <2>1. sem[1] = BIGCOUNT - Cardinality(Counted) /\ sem[0] = INITVAL - Cardinality(Holders)
    BY <1>0, <1>11, Zenon DEF Accounts
  <2>2. /\ Cardinality(Counted) \in Nat /\ Cardinality(Counted') \in Nat
        /\ Cardinality(Counted) < BIGCOUNT /\ Cardinality(Counted') < BIGCOUNT
        /\ Cardinality(Counted') = Cardinality(Counted) + adj'[p][1] - adj[p][1]
    BY <1>2, <1>3, SemCount DEF Owed
  <2>3. /\ Cardinality(Holders) \in Nat /\ Cardinality(Holders') \in Nat
        /\ Cardinality(Holders') = Cardinality(Holders) + adj'[p][0] - adj[p][0]
    BY <1>2, <1>3, SemCount DEF Owed
  <2>4. adj[p][0] \in Int /\ adj[p][1] \in Int /\ adj'[p][0] \in Int /\ adj'[p][1] \in Int
    BY <1>3, SMTT(20) DEF Owed
  <2>5. sem'[1] = BIGCOUNT - Cardinality(Counted') /\ sem'[0] = INITVAL - Cardinality(Holders')
    BY <1>0, <1>4, <1>5, <2>1, <2>2, <2>3, <2>4, SMTT(20)
  <2>6. sem[1] # 0 /\ sem'[1] # 0
    BY <1>0, <2>1, <2>2, <2>5, SMTT(20)
  <2>7. ASSUME NEW q \in SemProcs \ {p}, semPc'[q] = "x_rm", NEW r \in Counted' PROVE semHow'[r] # "create"
    <3>1. semPc[q] = "x_rm" /\ semPc[q] \in SemLocked
      BY <2>7, Zenon DEF Others, SemLocked
    <3>2. semPc[p] \notin SemLocked
      BY <1>0, <3>1, Zenon DEF OneLocker
    <3>3. \A t \in Counted : semHow[t] # "create"
      BY <1>0, <3>1, Zenon DEF Stages, Stage
    <3>4. CASE r = p
      BY <2>7, <3>2, <3>3, <3>4, SMTT(20) DEF Counted
    <3>5. CASE r # p
      BY <1>2, <2>7, <3>3, <3>5, SMTT(20) DEF Others, Counted
    <3> QED
      BY <3>4, <3>5, Zenon
  <2>8. Stages'
    BY <1>0, <2>6, <2>7, SMTT(20) DEF Stages, Stage, Others
  <2> QED
    BY <2>5, <2>8, Zenon DEF Accounts
<1>12. CreatorSafe'
  BY <1>0, Zenon DEF CreatorSafe, Others, Valid
<1> QED
  BY <1>6, <1>7, <1>8, <1>10, <1>11, <1>12, Zenon DEF SemInv

\* A semop () moves what it takes from the set to the adjustments of the caller.
LEMMA SemopFacts ==
    ASSUME SemInv, NEW p \in SemProcs, NEW d \in [0..2 -> Int], Semop(p, d),
           \A k \in 0..2 : sem[k] + d[k] >= 0
    PROVE  /\ sem' \in [0..2 -> Nat] /\ adj' \in [SemProcs -> [0..2 -> Int]]
           /\ \A q \in SemProcs \ {p} : adj'[q] = adj[q]
           /\ \A k \in 0..2 : sem'[k] = sem[k] + d[k] /\ adj'[p][k] = adj[p][k] - d[k]
<1>1. sem \in [0..2 -> Nat] /\ adj \in [SemProcs -> [0..2 -> Int]]
  BY Zenon DEF SemInv, SemTyped
<1>2. \A k \in 0..2 : sem[k] + d[k] \in Nat /\ adj[p][k] - d[k] \in Int
  BY <1>1
<1> QED
  BY <1>1, <1>2, Zenon DEF Semop

\* What the kernel gives back at an exit: all that the process has, and no more.
LEMMA ExitFacts ==
    ASSUME SemInv, NEW p \in SemProcs, sem' = Undone(p), adj' = [adj EXCEPT ![p] = Zero]
    PROVE  /\ sem' \in [0..2 -> Nat] /\ adj' \in [SemProcs -> [0..2 -> Int]]
           /\ \A q \in SemProcs \ {p} : adj'[q] = adj[q]
           /\ \A k \in 0..2 : sem'[k] = sem[k] + adj[p][k] /\ adj'[p][k] = 0
<1>1. sem \in [0..2 -> Nat] /\ adj \in [SemProcs -> [0..2 -> Int]]
  BY Zenon DEF SemInv, SemTyped
<1>2. Owed(p) /\ (semPc[p] \in SemLocked => Valid(p) /\ sem[2] = 1)
  BY Zenon DEF SemInv, Adjusted, OneLocker
<1>3. /\ sem[0] + adj[p][0] >= 0 /\ sem[1] + adj[p][1] >= 0 /\ sem[2] + adj[p][2] >= 0
      /\ ~Valid(p) => adj[p][0] = 0 /\ adj[p][1] = 0 /\ adj[p][2] = 0
  BY <1>1, <1>2 DEF Owed, Holders, Counted
<1>4. \A k \in 0..2 : k = 0 \/ k = 1 \/ k = 2
  OBVIOUS
<1>5. \A k \in 0..2 : sem[k] + adj[p][k] \in Nat /\ (~Valid(p) => adj[p][k] = 0)
  BY <1>1, <1>3, <1>4
<1>6. adj' \in [SemProcs -> [0..2 -> Int]] /\ (\A q \in SemProcs \ {p} : adj'[q] = adj[q]) /\ adj'[p] = Zero
  BY <1>1 DEF Zero
<1>7. \A k \in 0..2 : adj'[p][k] = 0
  BY <1>6, Zenon DEF Zero
<1>8. sem' \in [0..2 -> Nat] /\ \A k \in 0..2 : sem'[k] = sem[k] + adj[p][k]
  <2>1. CASE Valid(p)
    BY <1>1, <1>5, <2>1 DEF Undone
  <2>2. CASE ~Valid(p)
    BY <1>1, <1>5, <2>2 DEF Undone
  <2> QED
    BY <2>1, <2>2, Zenon
<1> QED
  BY <1>6, <1>7, <1>8, Zenon

\* A semop () of sem_create (), sem_open () or sem_close () that is done.
LEMMA DoneInv ==
    ASSUME Semaphores, SemInv, NEW p \in SemProcs, Valid(p), NEW d \in [0..2 -> Int], NEW done \in SemPlaces,
           \A k \in 0..2 : sem[k] + d[k] >= 0, Semop(p, d), SemGoto(p, done), UNCHANGED <<Kept, holds>>,
           ~holds[p], d[0] = 0,
           d[1] = (IF semPc[p] \in SemCounted THEN 1 ELSE 0) - (IF done \in SemCounted THEN 1 ELSE 0),
           d[2] = (IF done \in SemLocked THEN 1 ELSE 0) - (IF semPc[p] \in SemLocked THEN 1 ELSE 0),
           done \in SemLocked => sem[2] = 0,
           done \notin {"c_set0", "x_rm", "o_got", "o_sleep"},
           done \in {"c_init", "x_locked", "x_un"} => sem'[1] # 0,
           done \in SemCounted /\ semHow[p] = "create" => semPc[p] \in SemCounted \cup SemLocked
    PROVE  SemInv'
<1>0. SemTyped /\ Owed(p)
  BY Zenon DEF SemInv, Adjusted
<1>1. /\ sem' \in [0..2 -> Nat] /\ adj' \in [SemProcs -> [0..2 -> Int]]
      /\ \A q \in SemProcs \ {p} : adj'[q] = adj[q]
      /\ \A k \in 0..2 : sem'[k] = sem[k] + d[k] /\ adj'[p][k] = adj[p][k] - d[k]
  BY SemopFacts, Zenon
<1>2. semPc' \in [SemProcs -> SemPlaces] /\ semPc'[p] = done /\ \A q \in SemProcs \ {p} : semPc'[q] = semPc[q]
  BY <1>0, Zenon DEF SemTyped, SemGoto
<1>3. id' = id /\ ids' = ids /\ my' = my /\ semHow' = semHow /\ holds' = holds
  BY Zenon DEF Kept
<1>4. SemTyped' /\ Others(p)
  BY <1>0, <1>1, <1>2, <1>3, Zenon DEF SemTyped, Others
<1>5. Valid(p)' /\ p \notin Holders /\ p \notin Holders'
  BY <1>3, Zenon DEF Valid, Holders
<1>6. (p \in Counted <=> semPc[p] \in SemCounted) /\ (p \in Counted' <=> done \in SemCounted)
  BY <1>2, <1>5 DEF Counted
<1>7. Owed(p)'
  <2>1. adj'[p][0] = adj[p][0] - d[0] /\ adj'[p][1] = adj[p][1] - d[1] /\ adj'[p][2] = adj[p][2] - d[2]
    BY <1>1
  <2> QED
    BY <1>0, <1>2, <1>5, <1>6, <2>1, SMTT(20) DEF Owed
<1>8. \A k \in 0..2 : sem'[k] + adj'[p][k] = sem[k] + adj[p][k]
  BY <1>0, <1>1 DEF SemTyped
<1>9. Stage(p)'
  BY <1>2, Zenon DEF Stage
<1>10. semPc'[p] \in SemLocked => Valid(p)' /\ (semPc[p] \in SemLocked \/ sem[2] = 0)
  BY <1>2, <1>5, Zenon
<1>11. holds'[p] => semPc'[p] = "in"
  BY <1>3, Zenon
<1>12. semPc'[p] \in SemCounted /\ semHow'[p] = "create" =>
          Valid(p)' /\ ((p \in Counted /\ semHow[p] = "create") \/ semPc[p] \in SemLocked)
  BY <1>2, <1>3, <1>5, <1>6, ZenonT(30)
<1> QED
  BY <1>3, <1>4, <1>7, <1>8, <1>9, <1>10, <1>11, <1>12, SemMove, Zenon

\* A step that changes only where p is: p goes to sleep, or looks at the set.
LEMMA GoesInv ==
    ASSUME Semaphores, SemInv, NEW p \in SemProcs, NEW l \in SemPlaces, SemGoto(p, l),
           id' = id, ids' = ids, sem' = sem, adj' = adj, holds' = holds, ~holds[p],
           my' = my \/ (my' = [my EXCEPT ![p] = id] /\ l \notin SemCounted),
           semHow' = semHow \/ (\E h : semHow' = [semHow EXCEPT ![p] = h] /\ l \notin SemCounted),
           l \in SemCounted <=> semPc[p] \in SemCounted, l \in SemLocked <=> semPc[p] \in SemLocked,
           Stage(p)'
    PROVE  SemInv'
<1>0. SemTyped /\ Owed(p) /\ CreatorSafe /\ OneLocker
  BY Zenon DEF SemInv, Adjusted
<1>1. semPc' \in [SemProcs -> SemPlaces] /\ semPc'[p] = l /\ \A q \in SemProcs \ {p} : semPc'[q] = semPc[q]
  BY <1>0, Zenon DEF SemTyped, SemGoto
<1>2. /\ DOMAIN semHow' = SemProcs /\ (l \in SemCounted => semHow'[p] = semHow[p])
      /\ \A q \in SemProcs \ {p} : semHow'[q] = semHow[q]
  BY <1>0, Zenon DEF SemTyped
<1>3. /\ my' \in [SemProcs -> Nat] /\ (\A q \in SemProcs : my'[q] <= ids) /\ (my'[p] = my[p] \/ (my'[p] = id /\ l \notin SemCounted))
      /\ \A q \in SemProcs \ {p} : my'[q] = my[q]
  BY <1>0, SMTT(20) DEF SemTyped
<1>4. SemTyped' /\ Others(p)
  BY <1>0, <1>1, <1>2, <1>3, Zenon DEF SemTyped, Others
<1>5. p \notin Holders /\ p \notin Holders' /\ (p \in Counted' <=> p \in Counted)
  BY <1>1, <1>3, Zenon DEF Valid, Holders, Counted
<1>6. Owed(p)'
  BY <1>0, <1>1, <1>5, Zenon DEF Owed
<1>7. semPc'[p] \in SemLocked => Valid(p)' /\ (semPc[p] \in SemLocked \/ sem[2] = 0)
  BY <1>0, <1>1, <1>3 DEF OneLocker, Valid
<1>8. semPc'[p] \in SemCounted /\ semHow'[p] = "create" =>
          Valid(p)' /\ ((p \in Counted /\ semHow[p] = "create") \/ semPc[p] \in SemLocked)
  BY <1>0, <1>1, <1>2, <1>3, SMTT(20) DEF CreatorSafe, Valid, Counted
<1>9. \A k \in 0..2 : sem'[k] + adj'[p][k] = sem[k] + adj[p][k]
  BY Zenon
<1>10. holds'[p] => semPc'[p] = "in"
  OBVIOUS
<1> QED
  BY <1>4, <1>6, <1>7, <1>8, <1>9, <1>10, SemMove

\* A process that ends, by an error or a crash.
LEMMA ExitInv ==
    ASSUME Semaphores, SemInv, NEW p \in SemProcs, NEW l \in {"out", "quit"}, Exit(p, l),
           UNCHANGED <<id, ids, my, semHow>>
    PROVE  SemInv'
<1>0. SemTyped /\ Owed(p)
  BY Zenon DEF SemInv, Adjusted
<1>1. /\ sem' \in [0..2 -> Nat] /\ adj' \in [SemProcs -> [0..2 -> Int]]
      /\ \A q \in SemProcs \ {p} : adj'[q] = adj[q]
      /\ \A k \in 0..2 : sem'[k] = sem[k] + adj[p][k] /\ adj'[p][k] = 0
  BY ExitFacts, Zenon DEF Exit
<1>2. /\ semPc' \in [SemProcs -> SemPlaces] /\ semPc'[p] = l /\ (\A q \in SemProcs \ {p} : semPc'[q] = semPc[q])
      /\ l \notin SemCounted /\ l \notin SemLocked
  BY <1>0, Zenon DEF SemTyped, SemGoto, Exit, SemPlaces, SemCounted, SemLocked
<1>3. holds' \in [SemProcs -> BOOLEAN] /\ holds'[p] = FALSE /\ \A q \in SemProcs \ {p} : holds'[q] = holds[q]
  BY <1>0, Zenon DEF SemTyped, Exit
<1>4. SemTyped' /\ Others(p)
  BY <1>0, <1>1, <1>2, <1>3, Zenon DEF SemTyped, Others
<1>5. Owed(p)'
  BY <1>1, <1>2, <1>3 DEF Owed, Holders, Counted
<1>6. \A k \in 0..2 : sem'[k] + adj'[p][k] = sem[k] + adj[p][k]
  BY <1>0, <1>1 DEF SemTyped
<1>7. Stage(p)'
  BY <1>2, Zenon DEF Stage
<1> QED
  BY <1>2, <1>3, <1>4, <1>5, <1>6, <1>7, SemMove, SMTT(20)

\* What an operation takes, by its place in the vector of semop ().
LEMMA DFacts ==
    ASSUME NEW a \in Int, NEW b \in Int, NEW c \in Int
    PROVE  D(a, b, c) \in [0..2 -> Int] /\ D(a, b, c)[0] = a /\ D(a, b, c)[1] = b /\ D(a, b, c)[2] = c
BY DEF D

\* When somebody is in, or the set is initialised, its counter is not zero.
LEMMA CounterUp ==
    ASSUME Semaphores, SemInv, sem[1] # 0 \/ Counted # {}
    PROVE  sem[1] = BIGCOUNT - Cardinality(Counted) /\ sem[1] > 0
<1>1. Counted \in SUBSET SemProcs
  BY Zenon DEF Counted
<1>2. IsFiniteSet(Counted) /\ Cardinality(Counted) \in Nat /\ Cardinality(SemProcs) \in Nat
      /\ Cardinality(Counted) <= Cardinality(SemProcs)
  BY <1>1, FS_Subset, FS_CardinalityType, Zenon DEF Semaphores
<1>3. sem[1] = BIGCOUNT - Cardinality(Counted)
  BY Zenon DEF SemInv, Accounts
<1> QED
  BY <1>2, <1>3 DEF Semaphores

\* The first semop () of sem_create (): wait for zero and take the lock, in
\* one step.
LEMMA CreateLockInv ==
    ASSUME Semaphores, SemInv, NEW p \in SemProcs, CreateLock(p) PROVE SemInv'
<1>0. semPc[p] \in {"c_got", "c_sleep"} /\ ~holds[p]
  BY Zenon DEF CreateLock, SemInv, HoldsInside
<1>1. op_lock \in [0..2 -> Int] /\ op_lock[0] = 0 /\ op_lock[1] = 0 /\ op_lock[2] = 1
  BY DFacts DEF op_lock
<1>2. CASE Valid(p) /\ Ready(op_lock, TRUE) /\ Semop(p, op_lock) /\ SemGoto(p, "c_locked") /\ UNCHANGED <<Kept, holds>>
  <2>1. (\A k \in 0..2 : sem[k] + op_lock[k] >= 0) /\ sem[2] = 0
    BY <1>2, Zenon DEF Ready
  <2>2. "c_locked" \in SemPlaces
    BY Zenon DEF SemPlaces
  <2>3. /\ 0 = (IF semPc[p] \in SemCounted THEN 1 ELSE 0) - (IF "c_locked" \in SemCounted THEN 1 ELSE 0)
        /\ 1 = (IF "c_locked" \in SemLocked THEN 1 ELSE 0) - (IF semPc[p] \in SemLocked THEN 1 ELSE 0)
        /\ "c_locked" \notin SemCounted
    BY <1>0 DEF SemCounted, SemLocked
  <2> QED
    BY <1>0, <1>1, <1>2, <2>1, <2>2, <2>3, DoneInv, Zenon
<1>3. ASSUME NEW l \in {"c_sleep", "again"}, SemGoto(p, l), UNCHANGED <<Kept, sem, adj, holds>> PROVE SemInv'
  <2>1. id' = id /\ ids' = ids /\ my' = my /\ semHow' = semHow /\ sem' = sem /\ adj' = adj /\ holds' = holds
    BY <1>3, Zenon DEF Kept
  <2>2. l \in SemPlaces /\ (l \in SemCounted <=> semPc[p] \in SemCounted) /\ (l \in SemLocked <=> semPc[p] \in SemLocked)
    BY <1>0, Zenon DEF SemPlaces, SemCounted, SemLocked
  <2>3. semPc'[p] = l
    BY <1>3, Zenon DEF SemGoto, SemInv, SemTyped
  <2>4. Stage(p)'
    BY <2>3, Zenon DEF Stage
  <2> QED
    BY <1>0, <1>3, <2>1, <2>2, <2>4, GoesInv
<1> QED
  BY <1>2, <1>3, Zenon DEF CreateLock, Attempt

\* The last semop () of sem_create (): count the caller and give up the lock,
\* in one step.
LEMMA EndCreateInv ==
    ASSUME Semaphores, SemInv, NEW p \in SemProcs, EndCreate(p) PROVE SemInv'
<1>0. semPc[p] = "c_init" /\ ~holds[p] /\ sem[1] # 0 /\ sem[2] = 1 /\ sem \in [0..2 -> Nat]
  BY Zenon DEF EndCreate, SemInv, HoldsInside, Stages, Stage, OneLocker, SemLocked, SemTyped
<1>1. op_endcreate \in [0..2 -> Int] /\ op_endcreate[0] = 0 /\ op_endcreate[1] = -1 /\ op_endcreate[2] = -1
  BY DFacts DEF op_endcreate
<1>2. sem[0] + op_endcreate[0] >= 0 /\ sem[1] + op_endcreate[1] >= 0 /\ sem[2] + op_endcreate[2] >= 0
  BY <1>0, <1>1
<1>3. \A k \in 0..2 : sem[k] + op_endcreate[k] >= 0
  <2>1. \A k \in 0..2 : k = 0 \/ k = 1 \/ k = 2
    OBVIOUS
  <2> QED
    BY <1>2, <2>1, Zenon
<1>4. Valid(p) /\ Semop(p, op_endcreate) /\ SemGoto(p, "in") /\ UNCHANGED <<Kept, holds>>
  BY <1>3, Zenon DEF EndCreate, Attempt, Ready
<1>5. "in" \in SemPlaces /\ "in" \notin SemLocked /\ "in" \in SemCounted /\ semPc[p] \in SemLocked /\ semPc[p] \notin SemCounted
  BY <1>0, Zenon DEF SemPlaces, SemCounted, SemLocked
<1>6. /\ op_endcreate[1] = (IF semPc[p] \in SemCounted THEN 1 ELSE 0) - (IF "in" \in SemCounted THEN 1 ELSE 0)
      /\ op_endcreate[2] = (IF "in" \in SemLocked THEN 1 ELSE 0) - (IF semPc[p] \in SemLocked THEN 1 ELSE 0)
      /\ semPc[p] \in SemCounted \cup SemLocked
  BY <1>1, <1>5
<1> QED
  BY <1>0, <1>1, <1>3, <1>4, <1>5, <1>6, DoneInv

\* The semop () of sem_open (), which counts the caller.
LEMMA OpenCountInv ==
    ASSUME Semaphores, SemInv, NEW p \in SemProcs, OpenCount(p) PROVE SemInv'
<1>0. semPc[p] \in {"o_got", "o_sleep"} /\ ~holds[p]
  BY Zenon DEF OpenCount, SemInv, HoldsInside
<1>1. op_open \in [0..2 -> Int] /\ op_open[0] = 0 /\ op_open[1] = -1 /\ op_open[2] = 0
  BY DFacts DEF op_open
<1>2. CASE Valid(p) /\ Ready(op_open, FALSE) /\ Semop(p, op_open) /\ SemGoto(p, "in") /\ UNCHANGED <<Kept, holds>>
  <2>1. \A k \in 0..2 : sem[k] + op_open[k] >= 0
    BY <1>2, Zenon DEF Ready
  <2>2. "in" \in SemPlaces /\ "in" \notin SemLocked
    BY Zenon DEF SemPlaces, SemLocked
  <2>3. /\ -1 = (IF semPc[p] \in SemCounted THEN 1 ELSE 0) - (IF "in" \in SemCounted THEN 1 ELSE 0)
        /\ 0 = (IF "in" \in SemLocked THEN 1 ELSE 0) - (IF semPc[p] \in SemLocked THEN 1 ELSE 0)
    BY <1>0 DEF SemCounted, SemLocked
  <2>4. semHow[p] # "create"
    BY <1>0, Zenon DEF SemInv, Stages, Stage
  <2> QED
    BY <1>0, <1>1, <1>2, <2>1, <2>2, <2>3, <2>4, DoneInv, Zenon
<1>3. CASE SemGoto(p, "o_sleep") /\ UNCHANGED <<Kept, sem, adj, holds>>
  <2>1. id' = id /\ ids' = ids /\ my' = my /\ semHow' = semHow /\ sem' = sem /\ adj' = adj /\ holds' = holds
    BY <1>3, Zenon DEF Kept
  <2>2. /\ "o_sleep" \in SemPlaces /\ ("o_sleep" \in SemCounted <=> semPc[p] \in SemCounted)
        /\ ("o_sleep" \in SemLocked <=> semPc[p] \in SemLocked)
    BY <1>0, Zenon DEF SemPlaces, SemCounted, SemLocked
  <2>3. semPc'[p] = "o_sleep"
    BY <1>3, Zenon DEF SemGoto, SemInv, SemTyped
  <2>4. Stage(p)'
    BY <1>0, <2>1, <2>3, Zenon DEF Stage, Stages, SemInv
  <2> QED
    BY <1>0, <1>3, <2>1, <2>2, <2>4, GoesInv
<1>4. CASE err_sys(p)
  BY <1>4, ExitInv, Zenon DEF err_sys, Kept
<1> QED
  BY <1>2, <1>3, <1>4, Zenon DEF OpenCount, Attempt

\* sem_wait () and sem_signal ().
LEMMA SemOpInv ==
    ASSUME Semaphores, SemInv, NEW p \in SemProcs, NEW v \in {-1, 1}, sem_op(p, v) PROVE SemInv'
<1>0. SemTyped /\ Owed(p) /\ CreatorSafe /\ semPc[p] \in {"in", "w_sleep"} /\ (v = IF holds[p] THEN 1 ELSE -1)
  BY Zenon DEF SemInv, Adjusted, sem_op
<1>1. D(v, 0, 0) \in [0..2 -> Int] /\ D(v, 0, 0)[0] = v /\ D(v, 0, 0)[1] = 0 /\ D(v, 0, 0)[2] = 0
  BY DFacts
<1>2. CASE /\ Valid(p) /\ Ready(D(v, 0, 0), FALSE) /\ Semop(p, D(v, 0, 0)) /\ SemGoto(p, "in")
           /\ holds' = [holds EXCEPT ![p] = v < 0] /\ UNCHANGED Kept
  <2>1. /\ sem' \in [0..2 -> Nat] /\ adj' \in [SemProcs -> [0..2 -> Int]]
        /\ \A q \in SemProcs \ {p} : adj'[q] = adj[q]
        /\ \A k \in 0..2 : sem'[k] = sem[k] + D(v, 0, 0)[k] /\ adj'[p][k] = adj[p][k] - D(v, 0, 0)[k]
    BY <1>1, <1>2, SemopFacts, Zenon DEF Ready
  <2>2. /\ semPc' \in [SemProcs -> SemPlaces] /\ semPc'[p] = "in"
        /\ \A q \in SemProcs \ {p} : semPc'[q] = semPc[q]
    BY <1>0, <1>2, Zenon DEF SemTyped, SemGoto, SemPlaces
  <2>3. /\ holds' \in [SemProcs -> BOOLEAN] /\ holds'[p] = (v < 0)
        /\ \A q \in SemProcs \ {p} : holds'[q] = holds[q]
    BY <1>0, <1>2 DEF SemTyped
  <2>4. id' = id /\ ids' = ids /\ my' = my /\ semHow' = semHow
    BY <1>2, Zenon DEF Kept
  <2>5. SemTyped' /\ Others(p)
    BY <1>0, <2>1, <2>2, <2>3, <2>4, Zenon DEF SemTyped, Others
  <2>6. Valid(p)' /\ p \in Counted /\ p \in Counted' /\ (p \in Holders <=> holds[p]) /\ (p \in Holders' <=> v < 0)
    BY <1>0, <1>2, <2>2, <2>3, <2>4, Zenon DEF Valid, Counted, Holders, SemCounted
  <2>7. "in" \notin SemLocked /\ semPc[p] \notin SemLocked
    BY <1>0, Zenon DEF SemLocked
  <2>8. Owed(p)'
    <3>1. adj'[p][0] = adj[p][0] - v /\ adj'[p][1] = adj[p][1] - 0 /\ adj'[p][2] = adj[p][2] - 0
      BY <1>1, <2>1
    <3> QED
      BY <1>0, <2>2, <2>6, <2>7, <3>1 DEF Owed
  <2>9. \A k \in 0..2 : sem'[k] + adj'[p][k] = sem[k] + adj[p][k]
    BY <1>0, <1>1, <2>1 DEF SemTyped
  <2>10. Stage(p)'
    BY <2>2, Zenon DEF Stage
  <2> QED
    BY <2>2, <2>4, <2>5, <2>6, <2>7, <2>8, <2>9, <2>10, SemMove, SMTT(20)
<1>3. CASE /\ Valid(p) /\ ~Ready(D(v, 0, 0), FALSE) /\ semPc[p] = "in" /\ SemGoto(p, "w_sleep")
           /\ UNCHANGED <<Kept, sem, adj, holds>>
  <2>1. id' = id /\ ids' = ids /\ my' = my /\ semHow' = semHow /\ sem' = sem /\ adj' = adj /\ holds' = holds
    BY <1>3, Zenon DEF Kept
  <2>2. /\ "w_sleep" \in SemPlaces /\ ("w_sleep" \in SemCounted <=> semPc[p] \in SemCounted)
        /\ ("w_sleep" \in SemLocked <=> semPc[p] \in SemLocked)
    BY <1>3, Zenon DEF SemPlaces, SemCounted, SemLocked
  <2>3. semPc'[p] = "w_sleep"
    BY <1>0, <1>3, Zenon DEF SemGoto, SemTyped
  <2>4. Stage(p)'
    BY <2>3, Zenon DEF Stage
  <2>5. ~holds[p]
    <3> SUFFICES ASSUME holds[p] PROVE FALSE
      BY Zenon
    <3>1. v = 1 /\ sem \in [0..2 -> Nat]
      BY <1>0, Zenon DEF SemTyped
    <3>2. \A k \in 0..2 : k = 0 \/ k = 1 \/ k = 2
      OBVIOUS
    <3>3. \A k \in 0..2 : D(v, 0, 0)[k] >= 0 /\ D(v, 0, 0)[k] \in Int
      BY <1>1, <3>1, <3>2
    <3>4. Ready(D(v, 0, 0), FALSE)
      BY <3>1, <3>3 DEF Ready
    <3> QED
      BY <1>3, <3>4, Zenon
  <2> QED
    BY <1>3, <2>1, <2>2, <2>4, <2>5, GoesInv, Zenon
<1>4. CASE err_sys(p)
  BY <1>4, ExitInv, Zenon DEF err_sys, Kept
<1> QED
  BY <1>2, <1>3, <1>4, Zenon DEF sem_op

\* The first semop () of sem_close (): take the lock and uncount the caller,
\* in one step.
LEMMA SemCloseInv ==
    ASSUME Semaphores, SemInv, NEW p \in SemProcs, sem_close(p) PROVE SemInv'
<1>0. semPc[p] \in {"in", "x_sleep"} /\ ~holds[p]
  BY Zenon DEF sem_close, SemInv, HoldsInside
<1>1. op_close \in [0..2 -> Int] /\ op_close[0] = 0 /\ op_close[1] = 1 /\ op_close[2] = 1
  BY DFacts DEF op_close
<1>2. CASE Valid(p) /\ Ready(op_close, TRUE) /\ Semop(p, op_close) /\ SemGoto(p, "x_locked") /\ UNCHANGED <<Kept, holds>>
  <2>1. (\A k \in 0..2 : sem[k] + op_close[k] >= 0) /\ sem[2] = 0
    BY <1>2, Zenon DEF Ready
  <2>2. "x_locked" \in SemPlaces /\ "x_locked" \notin SemCounted
    BY Zenon DEF SemPlaces, SemCounted
  <2>3. /\ 1 = (IF semPc[p] \in SemCounted THEN 1 ELSE 0) - (IF "x_locked" \in SemCounted THEN 1 ELSE 0)
        /\ 1 = (IF "x_locked" \in SemLocked THEN 1 ELSE 0) - (IF semPc[p] \in SemLocked THEN 1 ELSE 0)
    BY <1>0 DEF SemCounted, SemLocked
  <2>4. sem'[1] = sem[1] + 1 /\ sem[1] \in Nat
    BY <1>1, <1>2, <2>1, SemopFacts DEF SemInv, SemTyped
  <2> QED
    BY <1>0, <1>1, <1>2, <2>1, <2>2, <2>3, <2>4, DoneInv
<1>3. CASE SemGoto(p, "x_sleep") /\ UNCHANGED <<Kept, sem, adj, holds>>
  <2>1. id' = id /\ ids' = ids /\ my' = my /\ semHow' = semHow /\ sem' = sem /\ adj' = adj /\ holds' = holds
    BY <1>3, Zenon DEF Kept
  <2>2. /\ "x_sleep" \in SemPlaces /\ ("x_sleep" \in SemCounted <=> semPc[p] \in SemCounted)
        /\ ("x_sleep" \in SemLocked <=> semPc[p] \in SemLocked)
    BY <1>0, Zenon DEF SemPlaces, SemCounted, SemLocked
  <2>3. semPc'[p] = "x_sleep"
    BY <1>3, Zenon DEF SemGoto, SemInv, SemTyped
  <2>4. Stage(p)'
    BY <2>3, ZenonT(30) DEF Stage
  <2> QED
    BY <1>0, <1>3, <2>1, <2>2, <2>4, GoesInv, Zenon
<1>4. CASE err_sys(p)
  BY <1>4, ExitInv, Zenon DEF err_sys, Kept
<1> QED
  BY <1>2, <1>3, <1>4, Zenon DEF sem_close, Attempt

\* The test for the last process, with the lock held.
LEMMA CloseCheckInv ==
    ASSUME Semaphores, SemInv, NEW p \in SemProcs, CloseCheck(p) PROVE SemInv'
<1>0. semPc[p] = "x_locked" /\ ~holds[p] /\ sem[1] # 0
  BY Zenon DEF CloseCheck, SemInv, HoldsInside, Stages, Stage
<1>1. id' = id /\ ids' = ids /\ my' = my /\ semHow' = semHow /\ sem' = sem /\ adj' = adj /\ holds' = holds
  BY Zenon DEF CloseCheck, Kept
<1>2. PICK l \in {"x_rm", "x_un"} : SemGoto(p, l) /\ (l = "x_rm" => sem[1] = BIGCOUNT)
  BY Zenon DEF CloseCheck
<1>3. l \in SemPlaces /\ (l \in SemCounted <=> semPc[p] \in SemCounted) /\ (l \in SemLocked <=> semPc[p] \in SemLocked)
  BY <1>0, Zenon DEF SemPlaces, SemCounted, SemLocked
<1>4. semPc' = [semPc EXCEPT ![p] = l] /\ semPc'[p] = l /\ \A q \in SemProcs \ {p} : semPc'[q] = semPc[q]
  BY <1>2, Zenon DEF SemGoto, SemInv, SemTyped
<1>5. l = "x_rm" => Counted = {}
  <2>1. Counted \in SUBSET SemProcs
    BY Zenon DEF Counted
  <2>2. Cardinality(Counted) \in Nat /\ ((Counted = {}) <=> (Cardinality(Counted) = 0))
    BY <2>1, SemCount, Zenon
  <2>3. sem[1] = BIGCOUNT - Cardinality(Counted) /\ BIGCOUNT \in Nat
    BY <1>0, CounterUp, Zenon DEF Semaphores
  <2> QED
    BY <1>2, <2>2, <2>3
<1>6. Counted' = Counted
  BY <1>0, <1>1, <1>2, <1>4, Zenon DEF Counted, Valid, SemCounted
<1>7. Stage(p)'
  BY <1>0, <1>1, <1>4, <1>5, <1>6 DEF Stage
<1> QED
  BY <1>0, <1>1, <1>2, <1>3, <1>7, GoesInv

\* The last semop () of sem_close (), when others are in.
LEMMA CloseUnlockInv ==
    ASSUME Semaphores, SemInv, NEW p \in SemProcs, CloseUnlock(p) PROVE SemInv'
<1>0. semPc[p] = "x_un" /\ ~holds[p] /\ sem[2] = 1 /\ sem \in [0..2 -> Nat]
  BY Zenon DEF CloseUnlock, SemInv, HoldsInside, OneLocker, SemLocked, SemTyped
<1>1. op_unlock \in [0..2 -> Int] /\ op_unlock[0] = 0 /\ op_unlock[1] = 0 /\ op_unlock[2] = -1
  BY DFacts DEF op_unlock
<1>2. sem[0] + op_unlock[0] >= 0 /\ sem[1] + op_unlock[1] >= 0 /\ sem[2] + op_unlock[2] >= 0
  BY <1>0, <1>1
<1>3. \A k \in 0..2 : sem[k] + op_unlock[k] >= 0
  <2>1. \A k \in 0..2 : k = 0 \/ k = 1 \/ k = 2
    OBVIOUS
  <2> QED
    BY <1>2, <2>1, Zenon
<1>4. Valid(p) /\ Semop(p, op_unlock) /\ SemGoto(p, "out") /\ UNCHANGED <<Kept, holds>>
  BY <1>3, Zenon DEF CloseUnlock, Attempt, Ready
<1>5. "out" \in SemPlaces /\ "out" \notin SemLocked /\ "out" \notin SemCounted /\ semPc[p] \in SemLocked /\ semPc[p] \notin SemCounted
  BY <1>0, Zenon DEF SemPlaces, SemCounted, SemLocked
<1>6. /\ op_unlock[1] = (IF semPc[p] \in SemCounted THEN 1 ELSE 0) - (IF "out" \in SemCounted THEN 1 ELSE 0)
      /\ op_unlock[2] = (IF "out" \in SemLocked THEN 1 ELSE 0) - (IF semPc[p] \in SemLocked THEN 1 ELSE 0)
  BY <1>1, <1>5
<1> QED
  BY <1>0, <1>1, <1>3, <1>4, <1>5, <1>6, DoneInv

\* semget () of a set that is there: sem_open (), and sem_create () after the first.
Gets(p, l, how) ==
    /\ l \in {"c_got", "o_got"} /\ (l = "o_got" => how # "create") /\ semPc[p] \in {"out", "again"} /\ SemGoto(p, l)
    /\ id' = id /\ ids' = ids /\ sem' = sem /\ adj' = adj /\ holds' = holds
    /\ my' = [my EXCEPT ![p] = id] /\ semHow' = [semHow EXCEPT ![p] = how]

\* After such a semget () the invariant holds: the set and the counts are
\* what they were.
LEMMA GetInv ==
    ASSUME Semaphores, SemInv, NEW p \in SemProcs, NEW l, NEW how, Gets(p, l, how) PROVE SemInv'
<1> USE DEF Gets
<1>0. SemTyped /\ ~holds[p]
  BY Zenon DEF SemInv, HoldsInside
<1>1. /\ l \in SemPlaces /\ l \notin SemCounted /\ l \notin SemLocked
      /\ semPc[p] \notin SemCounted /\ semPc[p] \notin SemLocked
  BY Zenon DEF SemPlaces, SemCounted, SemLocked
<1>2. semPc'[p] = l /\ semHow'[p] = how
  BY <1>0, Zenon DEF SemGoto, SemTyped
<1>3. Stage(p)'
  BY <1>2, Zenon DEF Stage
<1>4. \E h : semHow' = [semHow EXCEPT ![p] = h] /\ l \notin SemCounted
  BY <1>1, Zenon
<1> QED
  BY <1>0, <1>1, <1>3, <1>4, GoesInv, Zenon

\* semget () of a new set: nobody has anything of it.
LEMMA NewSetInv ==
    ASSUME Semaphores, SemInv, NEW p \in SemProcs, sem_create(p), id = 0 PROVE SemInv'
<1>0. /\ SemTyped /\ Adjusted /\ OneLocker /\ HoldsInside /\ Stages /\ CreatorSafe
      /\ semPc[p] \in {"out", "again"}
  BY Zenon DEF SemInv, sem_create
<1>1. id' = ids + 1 /\ ids' = ids + 1 /\ sem' = Zero /\ adj' = adj /\ holds' = holds
  BY Zenon DEF sem_create
<1>2. /\ semPc' \in [SemProcs -> SemPlaces] /\ semPc'[p] = "c_got"
      /\ \A q \in SemProcs \ {p} : semPc'[q] = semPc[q]
  BY <1>0, Zenon DEF sem_create, SemGoto, SemTyped, SemPlaces
<1>3. /\ my' \in [SemProcs -> Nat] /\ my'[p] = ids + 1
      /\ \A q \in SemProcs \ {p} : my'[q] = my[q] /\ my'[q] <= ids
  BY <1>0, <1>1 DEF sem_create, SemTyped
<1>4. /\ DOMAIN semHow' = SemProcs /\ semHow'[p] = "create"
      /\ \A q \in SemProcs \ {p} : semHow'[q] = semHow[q]
  BY <1>0, Zenon DEF sem_create, SemTyped
<1>5. (\A q \in SemProcs : ~Valid(q)) /\ \A q \in SemProcs \ {p} : ~Valid(q)'
  BY <1>0, <1>1, <1>3 DEF Valid, SemTyped
<1>6. Counted = {} /\ Holders = {} /\ Counted' = {} /\ Holders' = {}
  BY <1>0, <1>1, <1>2, <1>5, Zenon DEF Counted, Holders, SemCounted, HoldsInside
<1>7. \A q \in SemProcs : semPc[q] \notin SemLocked /\ semPc'[q] \notin SemLocked
  BY <1>0, <1>2, <1>5, Zenon DEF OneLocker, SemLocked
<1>8. sem' \in [0..2 -> Nat] /\ sem'[1] = 0
  BY <1>1 DEF Zero
<1>9. SemTyped'
  BY <1>0, <1>1, <1>2, <1>3, <1>4, <1>8 DEF SemTyped
<1>10. Adjusted'
  BY <1>0, <1>1, <1>6, <1>7, Zenon DEF Adjusted, Owed
<1>11. OneLocker' /\ HoldsInside'
  BY <1>0, <1>1, <1>2, <1>7 DEF OneLocker, HoldsInside
<1>12. Accounts'
  BY <1>6, <1>8, Zenon DEF Accounts
<1>13. Stages'
  <2> SUFFICES ASSUME NEW q \in SemProcs PROVE Stage(q)'
    BY Zenon DEF Stages
  <2>1. semPc'[q] \notin {"c_set0", "c_init", "x_locked", "x_rm", "x_un"}
    BY <1>7, Zenon DEF SemLocked
  <2> QED
    BY <1>0, <1>2, <1>4, <2>1 DEF Stages, Stage
<1>14. CreatorSafe'
  BY <1>0, <1>2, <1>4, <1>5 DEF CreatorSafe, SemCounted
<1> QED
  BY <1>9, <1>10, <1>11, <1>12, <1>13, <1>14 DEF SemInv

\* The SETVALs of sem_create (), while nobody is in.
LEMMA SetvalInv ==
    ASSUME Semaphores, SemInv, NEW p \in SemProcs, semPc[p] \in {"c_locked", "c_set0"}, sem[1] = 0,
           NEW k \in {0, 1}, NEW v \in Nat, NEW l \in {"c_set0", "c_init"}, Setval(k, v), SemGoto(p, l),
           UNCHANGED <<Kept, holds>>,
           l = "c_set0" => k = 0 /\ v = INITVAL,
           l = "c_init" => k = 1 /\ v = BIGCOUNT /\ sem[0] = INITVAL
    PROVE  SemInv'
<1>0. /\ SemTyped /\ Adjusted /\ OneLocker /\ HoldsInside /\ Stages /\ CreatorSafe
      /\ BIGCOUNT \in Nat /\ INITVAL \in Nat /\ BIGCOUNT > 0
  <2>1. IsFiniteSet(SemProcs) /\ BIGCOUNT \in Nat /\ INITVAL \in Nat /\ Cardinality(SemProcs) < BIGCOUNT
    BY Zenon DEF Semaphores
  <2>2. Cardinality(SemProcs) \in Nat
    BY <2>1, FS_CardinalityType, Zenon
  <2> QED
    BY <2>1, <2>2 DEF SemInv
<1>1. id' = id /\ ids' = ids /\ my' = my /\ semHow' = semHow /\ holds' = holds
  BY Zenon DEF Kept
<1>2. /\ semPc' \in [SemProcs -> SemPlaces] /\ semPc'[p] = l
      /\ \A q \in SemProcs \ {p} : semPc'[q] = semPc[q]
  BY <1>0, Zenon DEF SemGoto, SemTyped, SemPlaces
<1>3. Counted = {}
  BY CounterUp
<1>4. /\ semPc[p] \notin SemCounted /\ semPc'[p] \notin SemCounted
      /\ semPc[p] \in SemLocked /\ semPc'[p] \in SemLocked
  BY <1>2, Zenon DEF SemCounted, SemLocked
<1>5. Counted' = {} /\ Holders = {} /\ Holders' = {}
  <2>1. Holders = {}
    BY <1>0, <1>3, Zenon DEF Holders, Counted, HoldsInside, SemCounted
  <2>2. Holders' = {}
    BY <1>1, <2>1, Zenon DEF Holders, Valid
  <2>3. Counted' = {}
    BY <1>1, <1>2, <1>3, <1>4, Zenon DEF Counted, Valid
  <2> QED
    BY <2>1, <2>2, <2>3, Zenon
<1>6. sem' \in [0..2 -> Nat] /\ sem'[2] = sem[2] /\ sem'[k] = v /\ (k # 0 => sem'[0] = sem[0]) /\ (k # 1 => sem'[1] = sem[1])
  BY <1>0 DEF Setval, SemTyped
<1>7. /\ adj' \in [SemProcs -> [0..2 -> Int]]
      /\ \A q \in SemProcs : adj'[q][0] = adj[q][0] /\ adj'[q][1] = adj[q][1] /\ adj'[q][2] = adj[q][2]
  <2>1. adj \in [SemProcs -> [0..2 -> Int]]
    BY <1>0, Zenon DEF SemTyped
  <2>2. \A q \in SemProcs : adj[q][0] = 0 /\ adj[q][1] = 0
    BY <1>0, <1>3, <1>5, Zenon DEF Adjusted, Owed
  <2> QED
    BY <2>1, <2>2 DEF Setval
<1>8. SemTyped'
  BY <1>0, <1>1, <1>2, <1>6, <1>7 DEF SemTyped
<1>9. \A q \in SemProcs : semPc'[q] \in SemLocked <=> semPc[q] \in SemLocked
  BY <1>2, <1>4, Zenon
<1>10. Adjusted'
  <2>1. ASSUME NEW q \in SemProcs PROVE Owed(q)'
    <3>1. Owed(q) /\ q \notin Counted /\ q \notin Counted' /\ q \notin Holders /\ q \notin Holders'
      BY <1>0, <1>3, <1>5, Zenon DEF Adjusted
    <3>2. /\ adj'[q][0] = adj[q][0] /\ adj'[q][1] = adj[q][1] /\ adj'[q][2] = adj[q][2]
          /\ semPc'[q] \in SemLocked <=> semPc[q] \in SemLocked
      BY <1>7, <1>9, Zenon
    <3> QED
      BY <3>1, <3>2, Zenon DEF Owed
  <2> QED
    BY <2>1, Zenon DEF Adjusted
<1>11. OneLocker'
  BY <1>0, <1>1, <1>6, <1>9, Zenon DEF OneLocker, Valid
<1>12. HoldsInside' /\ CreatorSafe'
  BY <1>0, <1>1, <1>2, <1>4, Zenon DEF HoldsInside, CreatorSafe, Valid
<1>13. Cardinality(Counted') = 0 /\ Cardinality(Holders') = 0
  BY <1>5, FS_EmptySet, Zenon
<1>14. Accounts'
  <2>1. CASE l = "c_set0"
    BY <1>5, <1>6, <2>1, Zenon DEF Accounts
  <2>2. CASE l = "c_init"
    BY <1>0, <1>6, <1>13, <2>2 DEF Accounts
  <2> QED
    BY <2>1, <2>2, Zenon
<1>15. Stages'
  <2> SUFFICES ASSUME NEW q \in SemProcs PROVE Stage(q)'
    BY Zenon DEF Stages
  <2>1. CASE q = p
    BY <1>0, <1>2, <1>6, <2>1, SMTT(20) DEF Stage
  <2>2. CASE q # p
    <3>1. semPc[q] \notin SemLocked
      BY <1>0, <1>4, <2>2, Zenon DEF OneLocker
    <3>2. semPc'[q] \notin {"c_set0", "c_init", "x_locked", "x_rm", "x_un"} /\ semPc'[q] = semPc[q]
      BY <1>2, <2>2, <3>1, Zenon DEF SemLocked
    <3> QED
      BY <1>0, <1>1, <3>2, Zenon DEF Stages, Stage
  <2> QED
    BY <2>1, <2>2, ZenonT(30)
<1> QED
  BY <1>8, <1>10, <1>11, <1>12, <1>14, <1>15 DEF SemInv

\* The test of the counter in sem_create (): zero means that nobody has
\* initialised the set.
LEMMA CreateInitInv ==
    ASSUME Semaphores, SemInv, NEW p \in SemProcs, CreateInit(p) PROVE SemInv'
<1>0. ~(semPc[p] = "c_set0") \/ (sem[1] = 0 /\ sem[0] = INITVAL)
  BY Zenon DEF SemInv, Stages, Stage
<1>1. CASE semPc[p] = "c_locked" /\ sem[1] = 0 /\ Setval(0, INITVAL) /\ SemGoto(p, "c_set0")
  <2>1. UNCHANGED <<Kept, holds>> /\ INITVAL \in Nat
    BY Zenon DEF CreateInit, Semaphores
  <2> QED
    BY <1>1, <2>1, SetvalInv, Zenon
<1>2. CASE semPc[p] = "c_set0" /\ Setval(1, BIGCOUNT) /\ SemGoto(p, "c_init")
  <2>1. UNCHANGED <<Kept, holds>> /\ BIGCOUNT \in Nat
    BY ZenonT(30) DEF CreateInit, Semaphores
  <2> QED
    BY <1>0, <1>2, <2>1, SetvalInv, Zenon
<1>3. CASE semPc[p] = "c_locked" /\ sem[1] # 0 /\ SemGoto(p, "c_init") /\ UNCHANGED <<sem, adj>>
  <2>1. id' = id /\ ids' = ids /\ my' = my /\ semHow' = semHow /\ sem' = sem /\ adj' = adj /\ holds' = holds
    BY <1>3, Zenon DEF CreateInit, Kept
  <2>2. /\ "c_init" \in SemPlaces /\ ("c_init" \in SemCounted <=> semPc[p] \in SemCounted)
        /\ ("c_init" \in SemLocked <=> semPc[p] \in SemLocked)
    BY <1>3, Zenon DEF SemPlaces, SemCounted, SemLocked
  <2>3. semPc'[p] = "c_init" /\ ~holds[p]
    BY <1>3, Zenon DEF SemGoto, SemInv, SemTyped, HoldsInside
  <2>4. Stage(p)'
    BY <1>3, <2>1, <2>3, Zenon DEF Stage
  <2> QED
    BY <1>3, <2>1, <2>2, <2>3, <2>4, GoesInv
<1> QED
  BY <1>1, <1>2, <1>3, Zenon DEF CreateInit

\* The removal, by the holder of the lock: nobody who came in by sem_create () is in.
LEMMA SemRmInv ==
    ASSUME Semaphores, SemInv, NEW p \in SemProcs, sem_rm(p) PROVE SemInv'
<1>0. /\ SemTyped /\ OneLocker /\ HoldsInside /\ Stages /\ CreatorSafe /\ semPc[p] = "x_rm"
  BY Zenon DEF SemInv, sem_rm
<1>1. id' = 0 /\ ids' = ids /\ sem' = Zero /\ my' = my /\ semHow' = semHow /\ holds' = holds
  BY Zenon DEF sem_rm
<1>2. /\ DOMAIN semPc' = SemProcs /\ semPc'[p] = "out"
      /\ \A q \in SemProcs \ {p} : semPc'[q] = semPc[q] \/ (semPc[q] \in Asleep /\ semPc'[q] = "quit")
  BY Zenon DEF sem_rm
<1>3. semPc' \in [SemProcs -> SemPlaces]
  <2>1. \A q \in SemProcs : semPc'[q] \in SemPlaces
    BY <1>0, <1>2, Zenon DEF SemTyped, SemPlaces
  <2>2. semPc' = [q \in SemProcs |-> semPc'[q]]
    BY Zenon DEF sem_rm
  <2> QED
    BY <2>1, <2>2, Zenon
<1>4. /\ adj' \in [SemProcs -> [0..2 -> Int]] /\ sem' \in [0..2 -> Nat] /\ sem'[1] = 0
      /\ \A q \in SemProcs : adj'[q][0] = 0 /\ adj'[q][1] = 0 /\ adj'[q][2] = 0
  BY DEF sem_rm, Zero
<1>5. SemTyped'
  BY <1>0, <1>1, <1>3, <1>4 DEF SemTyped
<1>6. \A q \in SemProcs : ~Valid(q)'
  BY <1>1, Zenon DEF Valid
<1>7. Counted' = {} /\ Holders' = {}
  BY <1>6, Zenon DEF Counted, Holders
<1>8. \A q \in SemProcs : semPc'[q] \notin SemLocked
  BY <1>0, <1>2, Zenon DEF OneLocker, SemLocked
<1>9. Adjusted' /\ OneLocker' /\ Accounts'
  BY <1>4, <1>7, <1>8, Zenon DEF Adjusted, Owed, OneLocker, Accounts
<1>10. HoldsInside'
  BY <1>0, <1>1, <1>2, Zenon DEF HoldsInside, Asleep
<1>11. Stages'
  <2> SUFFICES ASSUME NEW q \in SemProcs PROVE Stage(q)'
    BY Zenon DEF Stages
  <2>1. semPc'[q] \notin {"c_set0", "c_init", "x_locked", "x_rm", "x_un"}
    BY <1>8, Zenon DEF SemLocked
  <2> QED
    BY <1>0, <1>1, <1>2, <2>1, Zenon DEF Stages, Stage
<1>12. CreatorSafe'
  <2> SUFFICES ASSUME NEW q \in SemProcs, semPc'[q] \in SemCounted, semHow'[q] = "create" PROVE FALSE
    BY Zenon DEF CreatorSafe
  <2>1. semPc[q] \in SemCounted /\ semHow[q] = "create"
    BY <1>1, <1>2, Zenon DEF SemCounted
  <2>2. q \in Counted
    BY <1>0, <2>1, ZenonT(30) DEF CreatorSafe, Counted
  <2> QED
    BY <1>0, <2>1, <2>2, Zenon DEF Stages, Stage
<1> QED
  BY <1>5, <1>9, <1>10, <1>11, <1>12, ZenonT(30) DEF SemInv

\* A step that changes nothing.
LEMMA SemStutter == ASSUME SemInv, UNCHANGED semVars PROVE SemInv'
BY DEF SemInv, semVars, SemTyped, Adjusted, Owed, OneLocker, HoldsInside, Accounts, Stages, Stage, CreatorSafe,
       Counted, Holders, Valid

\* Every step of a process, a crash included, keeps the invariant.
LEMMA SemStep == ASSUME Semaphores, SemInv, [SemNext]_semVars PROVE SemInv'
<1>1. ASSUME NEW p \in SemProcs, sem_create(p) PROVE SemInv'
  <2>1. CASE id # 0
    <3>1. Gets(p, "c_got", "create")
      BY <1>1, <2>1, Zenon DEF sem_create, Gets
    <3> QED
      BY <3>1, GetInv, Zenon
  <2> QED
    BY <1>1, <2>1, NewSetInv, ZenonT(30)
<1>2. ASSUME NEW p \in SemProcs, sem_open(p) PROVE SemInv'
  <2>1. Gets(p, "o_got", "open")
    BY <1>2, Zenon DEF sem_open, Gets
  <2> QED
    BY <2>1, GetInv, Zenon
<1>3. ASSUME NEW p \in SemProcs, SemCall(p) PROVE SemInv'
  BY SMTT(20), <1>3, CreateLockInv, CreateInitInv, EndCreateInv, OpenCountInv, CloseCheckInv, SemRmInv, CloseUnlockInv,
     SemCloseInv DEF SemCall
<1>4. ASSUME NEW p \in SemProcs, Crash(p) PROVE SemInv'
  BY <1>4, ExitInv, Zenon DEF Crash
<1> QED
  BY <1>1, <1>2, <1>3, <1>4, SemCloseInv, SemOpInv, SemStutter, ZenonT(30) DEF SemNext

\* No set, and nobody in: the invariant holds.
LEMMA SemInitInv == ASSUME Semaphores, SemInit PROVE SemInv
<1>1. \A p \in SemProcs : ~Valid(p) /\ semPc[p] = "out" /\ ~holds[p]
  BY Zenon DEF SemInit, Valid
<1>2. Counted = {} /\ Holders = {}
  BY <1>1, Zenon DEF Counted, Holders
<1>3. SemTyped
  BY DEF SemInit, SemTyped, Zero, SemPlaces
<1>4. Adjusted /\ OneLocker /\ HoldsInside /\ Accounts /\ Stages /\ CreatorSafe
  BY <1>1, <1>2 DEF SemInit, Zero, Adjusted, Owed, OneLocker, HoldsInside, Accounts, Stages, Stage, CreatorSafe,
                    SemLocked, SemCounted
<1> QED
  BY <1>3, <1>4, Zenon DEF SemInv

\* At all times, with any number of processes below BIGCOUNT that create,
\* open, close and crash in any order: the counter of an initialised set is
\* BIGCOUNT less the processes in, its value is the initial value less the
\* semaphores held, also after a crash (SEM_UNDO), and no set that sem_create
\* () gave is removed while its creator is in (sem_create (), sem_open (),
\* sem_close () of semaph.c).
THEOREM SemaphoresRight == ASSUME Semaphores PROVE SemSpec => []SemaphRight
<1>1. SemInit => SemInv
  BY SemInitInv, Zenon
<1>2. SemInv /\ [SemNext]_semVars => SemInv'
  BY SemStep, Zenon
<1>3. SemInv => SemaphRight
  <2> SUFFICES ASSUME SemInv PROVE SemaphRight
    BY Zenon
  <2>1. Counted = {p \in SemProcs : Valid(p) /\ semPc[p] \in SemCounted} /\ Holders = {p \in SemProcs : Valid(p) /\ holds[p]}
    BY Zenon DEF Counted, Holders
  <2> QED
    BY <2>1, Zenon DEF SemInv, Accounts, SemaphRight, CountRight, ValueKept
<1> QED
  BY <1>1, <1>2, <1>3, PTL DEF SemSpec
=============================================================================
