------------------------------ MODULE DbProofs ------------------------------
(***************************************************************************)
(* The record locks of db.c, for any set of processes, any keys and        *)
(* values, any hash function and any calls: writers stay apart on a hash   *)
(* chain, on the free list and at the ends of the two files, and so every  *)
(* pointer leads to a record and every index record has a data record of   *)
(* its own (WritersApart).  DbInv is the inductive invariant.  Its first   *)
(* half, Locking, says which locks a process holds at each place of a      *)
(* call; it keeps itself.  Its second half, Data, says what the fields of  *)
(* a DB structure are worth at each place: an offset that lseek (SEEK_END) *)
(* gave is the end of the file as long as the lock on that end is held,    *)
(* and a data record that was appended is named by nobody else until its   *)
(* index record is written.  A step changes one process only (ProcMoves),  *)
(* and the steps differ in what they write to the files.                   *)
(***************************************************************************)
EXTENDS Db, TLAPS

\* The fields of a DB structure and of an index record, and the table of
\* locks.
DbFields == {"op", "key", "val", "ptroff", "off", "idxoff", "ptrval", "datoff", "datlen", "save", "rc", "pos"}
RecFields == {"ptr", "key", "klen", "dat", "dlen"}
LockTable == [Locks -> [Procs -> {"none", "read", "write"}]]

\* The places of _db_dodelete with the record found, those that reuse a
\* record of the free list, those with a data record that no index record
\* names yet, and those without an open database.
Unlinking == {"dellock", "deldat", "delidx", "delfree", "dellink"}
Reusing == {"reusedat", "reuseidx"}
Fresh == {"appidx", "appidxwrite"}
Absent == {"closed", "dumped", "quit"}

\* A file is a sequence of records of some kind.
IsSeq(s) == \E S : s \in Seq(S)

\* A write lock excludes every other lock on the same bytes.
Alone == \A l \in Locks : \A p, q \in Procs : p # q /\ lock[l][p] = "write" => lock[l][q] = "none"

\* The locks that a process holds, by its place: its chain from
\* _db_find_and_lock to the end of the call, the free list while it changes
\* or walks it, the end of a file from the lseek to the write.
Held(p) ==
    /\ pc[p] \in Working => lock[Chain(p)][p] = IF db[p].op = "fetch" THEN "read" ELSE "write"
    /\ pc[p] \in Relisting => lock["free"][p] = "write"
    /\ pc[p] \in Scanning => lock["free"][p] = "read"
    /\ pc[p] = "appdatwrite" => lock["datend"][p] = "write"
    /\ pc[p] = "appidxwrite" => lock["idxend"][p] = "write"

\* The first half of the invariant: the lock table is right at every place.
Locking ==
    /\ lock \in LockTable /\ Alone
    /\ DOMAIN pc = Procs /\ DOMAIN db = Procs
    /\ \A p \in Procs : Held(p)

\* A pointer is a record number of the index file that PTR_SZ digits can
\* hold, or 0.
Reaches(n) == n \in 0..Len(idx) /\ n <= PTR_MAX

\* All pointers of the files lead to records.
FilesReach ==
    /\ IsSeq(idx) /\ IsSeq(dat)
    /\ DOMAIN hash = Chains /\ Reaches(free) /\ \A h \in Chains : Reaches(hash[h])
    /\ \A i \in 1..Len(idx) : DOMAIN idx[i] = RecFields /\ Reaches(idx[i].ptr) /\ idx[i].dat \in 1..Len(dat)

\* A DB structure that holds no pointer, as _db_alloc makes it.
Blank(r) == r.off = 0 /\ r.ptrval = 0 /\ r.save = 0 /\ r.idxoff = 0

\* What the DB structure of a process says of the files, by its place.
Local(p) ==
    /\ DOMAIN db[p] = DbFields
    /\ pc[p] \in Absent => Blank(db[p])
    /\ pc[p] \in Working \cup {"find"} => db[p].key \in Keys
    /\ Reaches(db[p].off) /\ Reaches(db[p].ptrval) /\ Reaches(db[p].save)
    /\ pc[p] # "appidxwrite" => db[p].idxoff \in 0..Len(idx)
    /\ pc[p] \in Unlinking => Reaches(db[p].idxoff)
    /\ pc[p] = "appdatwrite" => db[p].datoff = Len(dat) + 1
    /\ pc[p] = "appidxwrite" => db[p].idxoff = Len(idx) + 1
    /\ pc[p] \in Fresh => db[p].datoff \in 1..Len(dat)
    /\ pc[p] \in Reusing => db[p].idxoff \in 1..Len(idx) /\ db[p].datoff = idx[db[p].idxoff].dat

\* A data record that was appended is in no index record, and in no other DB
\* structure, until the index record for it is written.
Unshared ==
    /\ \A p \in Procs : pc[p] \in Fresh => \A i \in 1..Len(idx) : idx[i].dat # db[p].datoff
    /\ \A p, q \in Procs : p # q /\ pc[p] \in Fresh /\ pc[q] \in Fresh => db[p].datoff # db[q].datoff

\* Two index records have two data records.
Owned == \A i, j \in 1..Len(idx) : i # j => idx[i].dat # idx[j].dat

\* The second half of the invariant: the files, and what the processes
\* remember of them.
Data == FilesReach /\ Unshared /\ Owned /\ \A p \in Procs : Local(p)

\* The inductive invariant.
DbInv == Locking /\ Data

\* The positions of a file are 1 to its length.
LEMMA SeqFacts ==
    ASSUME NEW s, IsSeq(s)
    PROVE  Len(s) \in Nat /\ DOMAIN s = 1..Len(s)
BY DEF IsSeq

\* t is s with x written over record i.
IsPut(t, s, i, x) == t = [s EXCEPT ![i] = x]

\* A write inside a file changes one record and not the length.
LEMMA SeqPut ==
    ASSUME NEW s, IsSeq(s), NEW i, NEW x, NEW t, IsPut(t, s, i, x)
    PROVE  IsSeq(t) /\ Len(t) = Len(s) /\ \A j \in 1..Len(s) : t[j] = IF j = i THEN x ELSE s[j]
<1>1. PICK S : s \in Seq(S)
  BY Zenon DEF IsSeq
<1>2. DOMAIN t = 1..Len(s) /\ \A j \in 1..Len(s) : t[j] = IF j = i THEN x ELSE s[j]
  BY <1>1 DEF IsPut
<1>3. t \in [1..Len(s) -> S \cup {x}]
  <2>1. \A j \in 1..Len(s) : s[j] \in S
    BY <1>1
  <2>2. [s EXCEPT ![i] = x] = [j \in 1..Len(s) |-> IF j = i THEN x ELSE s[j]]
    BY <1>1
  <2> QED
    BY <2>1, <2>2, Zenon DEF IsPut
<1>4. t \in Seq(S \cup {x}) /\ Len(t) = Len(s)
  BY <1>1, <1>3
<1> QED
  BY <1>2, <1>4, Zenon DEF IsSeq

\* A write at the end of a file adds one record.
LEMMA SeqAppend ==
    ASSUME NEW s, IsSeq(s), NEW x, NEW t, t = Put(s, Len(s) + 1, x)
    PROVE  IsSeq(t) /\ Len(t) = Len(s) + 1 /\ t[Len(s) + 1] = x /\ \A j \in 1..Len(s) : t[j] = s[j]
<1>1. PICK S : s \in Seq(S)
  BY Zenon DEF IsSeq
<1>2. s \in Seq(S \cup {x}) /\ Len(s) \in Nat
  BY <1>1
<1>3. t = Append(s, x)
  BY <1>2 DEF Put
<1>4. t \in Seq(S \cup {x}) /\ Len(t) = Len(s) + 1 /\ t[Len(s) + 1] = x /\ \A j \in 1..Len(s) : t[j] = s[j]
  BY <1>2, <1>3
<1> QED
  BY <1>4, Zenon DEF IsSeq

\* What the invariant says of one process.
LEMMA Here ==
    ASSUME DbInv, NEW p \in Procs
    PROVE  /\ DOMAIN db[p] = DbFields /\ Local(p) /\ Held(p)
           /\ Len(idx) \in Nat /\ Len(dat) \in Nat
           /\ DOMAIN idx = 1..Len(idx) /\ DOMAIN dat = 1..Len(dat)
<1>1. Local(p) /\ Held(p) /\ IsSeq(idx) /\ IsSeq(dat)
  BY Zenon DEF DbInv, Data, Locking, FilesReach
<1> QED
  BY <1>1, SeqFacts, Zenon DEF Local

\* The chain of a call is one of the hash table, and its lock is none of the
\* three others.
LEMMA AtChain ==
    ASSUME DbInv, NEW p \in Procs, pc[p] \in Working \cup {"find"}
    PROVE  /\ Chain(p) \in Chains
           /\ Chain(p) \in Locks \ {"free", "idxend", "datend"}
           /\ {"free", "idxend", "datend"} \subseteq Locks
<1>1. db[p].key \in Keys
  BY Here, Zenon DEF Local
<1> QED
  BY <1>1, DbAssumption, Zenon DEF Chain, Locks

\* A step of p changes only the locks of p, and a write lock excludes others
\* after it.
LockMoves(p) ==
    lock' \in LockTable /\ Alone' /\ \A q \in Procs \ {p} : \A l \in Locks : lock'[l][q] = lock[l][q]

\* A step of p changes only the place and the DB structure of p.
ProcMoves(p) ==
    DOMAIN pc' = Procs /\ DOMAIN db' = Procs /\ \A q \in Procs \ {p} : pc'[q] = pc[q] /\ db'[q] = db[q]

\* What a step of p may do to the data pointers of the files: it adds the
\* index record that p appends, or a data record, and changes no other.
Grows(p) ==
    /\ \A i \in 1..Len(idx) : idx'[i].dat = idx[i].dat
    /\ IF pc[p] = "appidxwrite" THEN Len(idx') = Len(idx) + 1 /\ idx'[Len(idx) + 1].dat = db[p].datoff
                                ELSE Len(idx') = Len(idx)
    /\ IF pc[p] = "appdatwrite" THEN Len(dat') = Len(dat) + 1 ELSE Len(dat') = Len(dat)

\* A data record that p comes to hold unshared is the one it held, or the one
\* it has just appended.
NewOnly(p) ==
    pc'[p] \in Fresh => \/ pc[p] = "appidx" /\ db'[p].datoff = db[p].datoff
                        \/ pc[p] = "appdatwrite" /\ db'[p].datoff = Len(dat) + 1

\* readw_lock, writew_lock and un_lock change one lock of the caller; a lock
\* that is granted excludes what fcntl says it does.
LEMMA LockTaken ==
    ASSUME DbInv, NEW p \in Procs, NEW l \in Locks, readw_lock(p, l) \/ writew_lock(p, l) \/ un_lock(p, l)
    PROVE  /\ LockMoves(p)
           /\ \A m \in Locks \ {l} : lock'[m][p] = lock[m][p]
           /\ readw_lock(p, l) => lock'[l][p] = "read"
           /\ writew_lock(p, l) => lock'[l][p] = "write"
<1>1. lock \in LockTable /\ Alone
  BY Zenon DEF DbInv, Locking
<1>2. PICK m \in {"none", "read", "write"} :
         /\ lock' = [lock EXCEPT ![l][p] = m]
         /\ m = "read" => \A q \in Procs \ {p} : lock[l][q] # "write"
         /\ m = "write" => \A q \in Procs \ {p} : lock[l][q] = "none"
         /\ readw_lock(p, l) => m = "read"
         /\ writew_lock(p, l) => m = "write"
  <2>1. CASE readw_lock(p, l) /\ ~writew_lock(p, l)
    BY <2>1, Zenon DEF readw_lock
  <2>2. CASE writew_lock(p, l) /\ ~readw_lock(p, l)
    BY <2>2, Zenon DEF writew_lock
  <2>3. CASE un_lock(p, l) /\ ~readw_lock(p, l) /\ ~writew_lock(p, l)
    BY <2>3, Zenon DEF un_lock
  <2>4. ~(readw_lock(p, l) /\ writew_lock(p, l))
    BY <1>1 DEF readw_lock, writew_lock, LockTable
  <2> QED
    BY <2>1, <2>2, <2>3, <2>4, Zenon
<1>3. /\ lock' \in LockTable /\ lock'[l][p] = m
      /\ \A q \in Procs, n \in Locks : n # l \/ q # p => lock'[n][q] = lock[n][q]
  BY <1>1, <1>2, Zenon DEF LockTable
<1>4. Alone'
  <2> SUFFICES ASSUME NEW n \in Locks, NEW a \in Procs, NEW b \in Procs, a # b, lock'[n][a] = "write"
               PROVE  lock'[n][b] = "none"
    BY Zenon DEF Alone
  <2> QED
    BY <1>1, <1>2, <1>3 DEF Alone, LockTable
<1> QED
  BY <1>2, <1>3, <1>4, Zenon DEF LockMoves

\* Closing a file gives up all locks of the process on it.
LEMMA LockLeft ==
    ASSUME DbInv, NEW p \in Procs, lock' = lock \/ un_lock_all(p)
    PROVE  LockMoves(p)
<1>1. lock \in LockTable /\ Alone
  BY Zenon DEF DbInv, Locking
<1>2. CASE lock' = lock
  BY <1>1, <1>2, Zenon DEF LockMoves, Alone
<1>3. CASE un_lock_all(p)
  BY <1>1, <1>3 DEF LockMoves, Alone, un_lock_all, LockTable
<1> QED
  BY <1>2, <1>3, Zenon

\* After a step p is where it went and has what it set.
LEMMA At ==
    ASSUME DbInv, NEW p \in Procs, NEW x, NEW r, Goto(p, x) \/ (pc' = pc /\ x = pc[p]), Set(p, r) \/ (db' = db /\ r = db[p])
    PROVE  ProcMoves(p) /\ pc'[p] = x /\ db'[p] = r
BY Zenon DEF DbInv, Locking, ProcMoves, Goto, Set

\* A step keeps Data when p knows what its new place asks for and the files
\* grow as they may.
LEMMA MoveData ==
    ASSUME DbInv, NEW p \in Procs, ProcMoves(p), FilesReach', Local(p)', Grows(p), NewOnly(p)
    PROVE  Data'
<1>0. /\ FilesReach /\ Unshared /\ Owned /\ Alone
      /\ \A q \in Procs : Held(q) /\ Local(q)
      /\ \A q \in Procs \ {p} : pc'[q] = pc[q] /\ db'[q] = db[q]
  BY Zenon DEF DbInv, Data, Locking, ProcMoves
<1>1. /\ Len(idx) \in Nat /\ Len(dat) \in Nat /\ Len(idx') \in Nat /\ Len(dat') \in Nat
      /\ Len(idx) <= Len(idx') /\ Len(dat) <= Len(dat')
      /\ \A i \in 1..Len(idx) : idx'[i].dat = idx[i].dat /\ idx[i].dat \in 1..Len(dat)
  BY <1>0, Here DEF Grows, FilesReach
<1>2. ASSUME NEW q \in Procs \ {p} PROVE Local(q)'
  <2>1. Local(q) /\ Held(q) /\ Held(p) /\ pc'[q] = pc[q] /\ db'[q] = db[q]
    BY <1>0, Zenon
  <2>2. /\ pc[q] = "appidxwrite" => pc[p] # "appidxwrite"
        /\ pc[q] = "appdatwrite" => pc[p] # "appdatwrite"
    BY <1>0, <2>1 DEF Alone, Locks, Held
  <2>3. \A n \in 0..Len(idx) : n \in 0..Len(idx')
    BY <1>1
  <2>4. /\ pc'[q] # "appidxwrite" => db'[q].idxoff \in 0..Len(idx')
        /\ pc'[q] = "appdatwrite" => db'[q].datoff = Len(dat') + 1
        /\ pc'[q] = "appidxwrite" => db'[q].idxoff = Len(idx') + 1
        /\ pc'[q] \in Fresh => db'[q].datoff \in 1..Len(dat')
    BY <1>1, <2>1, <2>2 DEF Local, Grows
  <2>5. pc'[q] \in Reusing => db'[q].idxoff \in 1..Len(idx') /\ db'[q].datoff = idx'[db'[q].idxoff].dat
    BY <1>1, <2>1 DEF Local
  <2>6. /\ Reaches(db[q].off)' /\ Reaches(db[q].ptrval)' /\ Reaches(db[q].save)'
        /\ pc'[q] \in Unlinking => Reaches(db[q].idxoff)'
    <3>1. /\ Reaches(db[q].off) /\ Reaches(db[q].ptrval) /\ Reaches(db[q].save)
          /\ pc[q] \in Unlinking => Reaches(db[q].idxoff)
      BY <2>1, Zenon DEF Local
    <3> QED
      BY <2>1, <2>3, <3>1, Zenon DEF Reaches
  <2> QED
    BY <2>1, <2>4, <2>5, <2>6, Zenon DEF Local
<1>3. ASSUME NEW i \in 1..Len(idx') PROVE i \in 1..Len(idx) \/ (pc[p] = "appidxwrite" /\ i = Len(idx) + 1 /\ idx'[i].dat = db[p].datoff)
  BY <1>1 DEF Grows
<1>4. pc[p] = "appidxwrite" => \A i \in 1..Len(idx) : idx[i].dat # db[p].datoff
  BY <1>0, Zenon DEF Unshared, Fresh
<1>5. Owned'
  <2> SUFFICES ASSUME NEW i \in 1..Len(idx'), NEW j \in 1..Len(idx'), i # j PROVE idx'[i].dat # idx'[j].dat
    BY Zenon DEF Owned
  <2>1. CASE i \in 1..Len(idx) /\ j \in 1..Len(idx)
    BY <1>0, <1>1, <2>1 DEF Owned
  <2>2. CASE i \notin 1..Len(idx) \/ j \notin 1..Len(idx)
    BY <1>1, <1>3, <1>4, <2>2, Zenon
  <2> QED
    BY <2>1, <2>2, Zenon
<1>6. ASSUME NEW q \in Procs, pc'[q] \in Fresh, NEW i \in 1..Len(idx') PROVE idx'[i].dat # db'[q].datoff
  <2>1. CASE q = p /\ pc[p] = "appidx" /\ db'[p].datoff = db[p].datoff
    BY <1>0, <1>1, <1>3, <2>1 DEF Unshared, Fresh
  <2>2. CASE q = p /\ pc[p] = "appdatwrite" /\ db'[p].datoff = Len(dat) + 1
    BY <1>0, <1>1, <1>3, <2>2
  <2>3. CASE q # p
    <3>1. pc[q] \in Fresh /\ db'[q].datoff = db[q].datoff
      BY <1>0, <1>6, <2>3, Zenon
    <3>2. pc[p] = "appidxwrite" => db[p].datoff # db[q].datoff
      BY <1>0, <2>3, <3>1, Zenon DEF Unshared, Fresh
    <3> QED
      BY <1>0, <1>1, <1>3, <3>1, <3>2 DEF Unshared
  <2> QED
    BY <1>6, <2>1, <2>2, <2>3, Zenon DEF NewOnly
<1>7. ASSUME NEW q \in Procs \ {p}, pc'[q] \in Fresh, pc'[p] \in Fresh PROVE db'[p].datoff # db'[q].datoff
  <2>1. pc[q] \in Fresh /\ db'[q].datoff = db[q].datoff /\ db[q].datoff \in 1..Len(dat)
    BY <1>0, <1>7, Zenon DEF Local
  <2>2. pc[p] \in Fresh => db[p].datoff # db[q].datoff
    BY <1>0, <2>1, Zenon DEF Unshared
  <2> QED
    BY <1>1, <1>7, <2>1, <2>2 DEF NewOnly, Fresh
<1>8. Unshared'
  <2> SUFFICES ASSUME NEW a \in Procs, NEW b \in Procs, a # b, pc'[a] \in Fresh, pc'[b] \in Fresh PROVE db'[a].datoff # db'[b].datoff
    BY <1>6, Zenon DEF Unshared
  <2>1. CASE a = p \/ b = p
    BY <1>7, <2>1, Zenon
  <2>2. CASE a # p /\ b # p
    BY <1>0, <2>2 DEF Unshared
  <2> QED
    BY <2>1, <2>2, Zenon
<1> QED
  BY <1>2, <1>5, <1>8, Zenon DEF Data

\* The same for a step that does not write.
LEMMA QuietData ==
    ASSUME DbInv, NEW p \in Procs, ProcMoves(p), UNCHANGED files, pc[p] \notin {"appidxwrite", "appdatwrite"},
           Local(p)', NewOnly(p)
    PROVE  Data'
<1>1. UNCHANGED <<hash, free, idx, dat>>
  BY Zenon DEF files
<1>2. FilesReach' /\ Grows(p)
  BY <1>1, Zenon DEF DbInv, Data, FilesReach, Reaches, Grows
<1> QED
  BY <1>2, MoveData, Zenon

\* A step keeps Locking when p holds what its new place asks for: the others
\* hold what they held.
LEMMA MoveHeld ==
    ASSUME DbInv, NEW p \in Procs, LockMoves(p), ProcMoves(p), Held(p)'
    PROVE  Locking'
<1>1. ASSUME NEW q \in Procs \ {p} PROVE Held(q)'
  <2>1. Held(q) /\ pc'[q] = pc[q] /\ db'[q] = db[q] /\ \A l \in Locks : lock'[l][q] = lock[l][q]
    BY Here, Zenon DEF LockMoves, ProcMoves
  <2>2. pc[q] \in Working => Chain(q) \in Locks /\ Chain(q)' = Chain(q)
    BY <2>1, AtChain, Zenon DEF Chain
  <2>3. "free" \in Locks /\ "idxend" \in Locks /\ "datend" \in Locks
    BY Zenon DEF Locks
  <2> QED
    BY <2>1, <2>2, <2>3, Zenon DEF Held
<1> QED
  BY <1>1, Zenon DEF Locking, LockMoves, ProcMoves

\* A DB structure whose pointers all lead to records.
Near(r) ==
    /\ DOMAIN r = DbFields
    /\ Reaches(r.off) /\ Reaches(r.ptrval) /\ Reaches(r.save) /\ r.idxoff \in 0..Len(idx)

\* A step that writes to no file, of a process that is not about to append.
Quiet(p) == UNCHANGED files /\ pc[p] \notin {"appdatwrite", "appidxwrite"}

\* The places outside of the part of a call that the chain lock covers.
Out == {"ready", "closed", "dumped", "quit", "find"}

\* A step to such a place keeps the invariant.
LEMMA OutInv ==
    ASSUME DbInv, NEW p \in Procs, LockMoves(p), ProcMoves(p), Quiet(p), pc'[p] \in Out \cup Scanning,
           NEW r, Near(r), db'[p] = r, pc'[p] = "find" => r.key \in Keys, pc'[p] \in Absent => Blank(r),
           pc'[p] \in Scanning => lock'["free"][p] = "read"
    PROVE  DbInv'
<1>1. /\ pc'[p] \notin Working \cup Relisting \cup {"appdatwrite", "appidxwrite"}
      /\ pc'[p] \notin Fresh /\ pc'[p] \notin Reusing /\ pc'[p] \notin Unlinking
  BY Zenon DEF Out, Scanning, Working, Relisting, Fresh, Reusing, Unlinking
<1>2. Held(p)'
  BY <1>1, Zenon DEF Held
<1>3. Local(p)'
  <2>1. idx' = idx
    BY Zenon DEF Quiet, files
  <2> QED
    BY <1>1, <2>1, Zenon DEF Local, Near, Reaches
<1> QED
  BY <1>1, <1>2, <1>3, MoveHeld, QuietData, Zenon DEF Quiet, NewOnly, DbInv

\* A step of p inside of a call, to the place x with the DB structure r.
Turns(p, x, r) ==
    /\ Goto(p, x) \/ (pc' = pc /\ x = pc[p])
    /\ Set(p, r) \/ (db' = db /\ r = db[p])
    /\ pc[p] \in Working /\ x \in Working
    /\ r.op = db[p].op /\ r.key = db[p].key /\ DOMAIN r = DbFields

\* What such a step may do to the locks, by the place it goes to.
LockTurns(p, x) ==
    \/ lock' = lock /\ (x \in Relisting => pc[p] \in Relisting) /\ x \notin {"appdatwrite", "appidxwrite"}
    \/ writew_lock(p, "free") /\ x \notin {"appdatwrite", "appidxwrite"}
    \/ (\E l \in {"free", "datend", "idxend"} : un_lock(p, l)) /\ x \notin Relisting \cup {"appdatwrite", "appidxwrite"}
    \/ writew_lock(p, "datend") /\ x = "appdatwrite"
    \/ writew_lock(p, "idxend") /\ x = "appidxwrite"

\* A step inside of a call keeps Locking: it never gives up the chain, and it
\* takes the lock that its new place asks for.
LEMMA TurnHeld ==
    ASSUME DbInv, NEW p \in Procs, NEW x, NEW r, Turns(p, x, r), LockTurns(p, x)
    PROVE  Locking' /\ ProcMoves(p) /\ pc'[p] = x /\ db'[p] = r
<1>0. ProcMoves(p) /\ pc'[p] = x /\ db'[p] = r
  BY At DEF Turns
<1>1. /\ Chain(p) \in Locks \ {"free", "idxend", "datend"} /\ "free" \in Locks /\ "idxend" \in Locks /\ "datend" \in Locks
      /\ Held(p) /\ Chain(p)' = Chain(p) /\ x \notin Scanning
  BY <1>0, AtChain, Here, Zenon DEF Turns, Chain, Working, Scanning
<1>2. /\ LockMoves(p) /\ lock'[Chain(p)][p] = lock[Chain(p)][p]
      /\ x \in Relisting => lock'["free"][p] = "write"
      /\ x = "appdatwrite" => lock'["datend"][p] = "write"
      /\ x = "appidxwrite" => lock'["idxend"][p] = "write"
  <2>1. CASE lock' = lock /\ (x \in Relisting => pc[p] \in Relisting) /\ x \notin {"appdatwrite", "appidxwrite"}
    BY <1>1, <2>1, LockLeft, Zenon DEF Held
  <2>2. CASE writew_lock(p, "free") /\ x \notin {"appdatwrite", "appidxwrite"}
    BY <1>1, <2>2, LockTaken
  <2>3. ASSUME NEW l \in {"free", "datend", "idxend"}, un_lock(p, l), x \notin Relisting \cup {"appdatwrite", "appidxwrite"}
        PROVE  LockMoves(p) /\ lock'[Chain(p)][p] = lock[Chain(p)][p]
    BY <1>1, <2>3, LockTaken
  <2>4. CASE writew_lock(p, "datend") /\ x = "appdatwrite"
    BY <1>1, <2>4, LockTaken DEF Relisting
  <2>5. CASE writew_lock(p, "idxend") /\ x = "appidxwrite"
    BY <1>1, <2>5, LockTaken DEF Relisting
  <2> QED
    BY <2>1, <2>2, <2>3, <2>4, <2>5, Zenon DEF LockTurns
<1>3. Held(p)'
  BY <1>0, <1>1, <1>2, Zenon DEF Held, Turns
<1> QED
  BY <1>0, <1>2, <1>3, MoveHeld, Zenon

\* The places that ask for nothing but pointers that lead to records.
Plain == Working \ (Reusing \cup Fresh \cup {"appdatwrite"})

\* At a plain place a DB structure with such pointers will do.
LEMMA PlainLocal ==
    ASSUME DbInv, NEW p \in Procs, NEW x \in Plain, NEW r, Turns(p, x, r), pc'[p] = x, db'[p] = r, Near(r),
           Len(idx) <= Len(idx'), Len(idx') \in Nat, x \in Unlinking => Reaches(r.idxoff)
    PROVE  Local(p)' /\ NewOnly(p)
<1>1. x \notin Reusing /\ x \notin Fresh /\ x # "appdatwrite" /\ x # "appidxwrite" /\ x \in Working /\ x \notin Absent
  BY Zenon DEF Plain, Fresh, Working, Absent
<1>2. r.key \in Keys /\ Len(idx) \in Nat
  BY Here, Zenon DEF Turns, Local
<1>3. \A n \in 0..Len(idx) : n \in 0..Len(idx')
  BY <1>2
<1>4. /\ Reaches(db[p].off)' /\ Reaches(db[p].ptrval)' /\ Reaches(db[p].save)' /\ db'[p].idxoff \in 0..Len(idx')
      /\ x \in Unlinking => Reaches(db[p].idxoff)'
  BY <1>3, Zenon DEF Near, Reaches
<1> QED
  BY <1>1, <1>2, <1>4, Zenon DEF Local, Near, NewOnly

\* A write to the files that leaves every pointer leading to a record.
Writes(p) == FilesReach' /\ Grows(p)

\* A step inside of a call keeps the invariant.
LEMMA TurnInv ==
    ASSUME DbInv, NEW p \in Procs, NEW x, NEW r, Turns(p, x, r), LockTurns(p, x), Quiet(p) \/ Writes(p), Local(p)', NewOnly(p)
    PROVE  DbInv'
<1>1. Locking' /\ ProcMoves(p)
  BY TurnHeld, Zenon
<1>2. Data'
  BY <1>1, QuietData, MoveData, Zenon DEF Quiet, Writes
<1> QED
  BY <1>1, <1>2, Zenon DEF DbInv

\* A step to a plain place keeps the invariant.
LEMMA PlainInv ==
    ASSUME DbInv, NEW p \in Procs, NEW x \in Plain, NEW r, Turns(p, x, r), Near(r), LockTurns(p, x), Quiet(p) \/ Writes(p),
           x \in Unlinking => Reaches(r.idxoff)
    PROVE  DbInv'
<1>1. pc'[p] = x /\ db'[p] = r
  BY TurnHeld, Zenon
<1>2. Len(idx) <= Len(idx') /\ Len(idx') \in Nat
  BY Here DEF Quiet, files, Writes, Grows
<1>3. Local(p)' /\ NewOnly(p)
  BY <1>1, <1>2, PlainLocal, Zenon
<1> QED
  BY <1>3, TurnInv, Zenon

\* r belongs to the same call as s.
Follows(r, s) == r.op = s.op /\ r.key = s.key /\ DOMAIN r = DbFields

\* The DB structure of a process that is not about to append an index record
\* has pointers that lead to records.
LEMMA NearHere ==
    ASSUME DbInv, NEW p \in Procs, pc[p] # "appidxwrite"
    PROVE  Near(db[p]) /\ Follows(db[p], db[p])
BY Here, Zenon DEF Local, Near, Follows

\* So has a closed one, and one between two calls.
LEMMA NearIdle ==
    ASSUME DbInv, NEW p \in Procs, NEW i
    PROVE  Near(Closed) /\ Near(Idle(p, i)) /\ Blank(Closed) /\ Blank(Idle(p, i))
<1>1. Reaches(0) /\ 0 \in 0..Len(idx)
  BY Here, DbAssumption DEF Reaches
<1> QED
  BY <1>1, Zenon DEF Near, Closed, Idle, DbFields, Blank

\* So has one that _db_readidx has filled from a record of the file.
LEMMA NearRead ==
    ASSUME DbInv, NEW p \in Procs, pc[p] # "appidxwrite", NEW i \in 1..Len(idx)
    PROVE  /\ Near(readidx(p, i)) /\ Follows(readidx(p, i), db[p])
           /\ readidx(p, i).idxoff = i /\ readidx(p, i).datoff = idx[i].dat
           /\ Reaches(idx[i].ptr)
<1>1. Reaches(idx[i].ptr) /\ i \in 0..Len(idx)
  BY Here DEF DbInv, Data, FilesReach
<1>2. Near(db[p])
  BY NearHere, Zenon
<1> QED
  BY <1>1, <1>2, Zenon DEF readidx, Near, Follows, DbFields

\* A process that ends, or closes the database, keeps the invariant.
LEMMA EndsInv ==
    ASSUME DbInv, NEW p \in Procs, pc[p] \notin {"appdatwrite", "appidxwrite"}, NEW x \in Absent, Ends(p, x)
    PROVE  DbInv'
<1>1. Goto(p, x) /\ un_lock_all(p) /\ Set(p, Closed) /\ Quiet(p) /\ x \in Out /\ x \notin Scanning /\ x # "find"
  BY Zenon DEF Ends, Quiet, Absent, Out, Scanning
<1>2. LockMoves(p) /\ ProcMoves(p) /\ pc'[p] = x /\ db'[p] = Closed
  BY <1>1, LockLeft, At
<1> QED
  BY <1>1, <1>2, NearIdle, OutInv, Zenon

\* The end of a call, which gives up a lock.
LEMMA IdleInv ==
    ASSUME DbInv, NEW p \in Procs, pc[p] \notin {"appdatwrite", "appidxwrite"}, NEW l \in Locks, un_lock(p, l), NEW i,
           Set(p, Idle(p, i)), Goto(p, "ready"), UNCHANGED files
    PROVE  DbInv'
<1>1. LockMoves(p) /\ ProcMoves(p) /\ pc'[p] = "ready" /\ db'[p] = Idle(p, i)
  BY LockTaken, At
<1> QED
  BY <1>1, NearIdle, OutInv, Zenon DEF Quiet, Out, Scanning, Absent

\* db_open, db_close, db_rewind, and a process that starts again.
LEMMA OpenInv ==
    ASSUME DbInv, NEW p \in Procs, db_open(p) \/ db_close(p) \/ db_rewind(p) \/ Restart(p)
    PROVE  DbInv'
<1>1. PICK x \in {"ready", "closed"}, r \in {Idle(p, 1), Closed, [db[p] EXCEPT !.pos = 1], db[p]} :
        /\ Goto(p, x) \/ (pc' = pc /\ x = pc[p])
        /\ Set(p, r) \/ (db' = db /\ r = db[p])
        /\ lock' = lock \/ un_lock_all(p)
        /\ Quiet(p) /\ (x = "closed" => r = Closed \/ (r = db[p] /\ pc[p] \in Absent))
  BY Zenon DEF db_open, db_close, db_rewind, Restart, Quiet, Absent
<1>2. Near(r)
  <2>1. pc[p] # "appidxwrite"
    BY <1>1, Zenon DEF Quiet
  <2> QED
    <3>1. Near(db[p]) /\ Near(Closed) /\ Near(Idle(p, 1))
      BY <2>1, NearHere, NearIdle
    <3>2. Near([db[p] EXCEPT !.pos = 1])
      BY <3>1, Zenon DEF Near, DbFields
    <3> QED
      BY <3>1, <3>2, Zenon
<1>3. LockMoves(p)
  BY <1>1, LockLeft, Zenon
<1>4. ProcMoves(p) /\ pc'[p] = x /\ db'[p] = r
  BY <1>1, At, Zenon
<1>5. x \in Out /\ x \notin Scanning /\ x # "find" /\ (x \in Absent => Blank(r))
  BY <1>1, NearIdle, Here, Zenon DEF Out, Scanning, Absent, Local
<1> QED
  BY <1>1, <1>2, <1>3, <1>4, <1>5, OutInv, Zenon

\* The beginning of db_fetch, db_delete or db_store.
LEMMA CallInv ==
    ASSUME DbInv, NEW p \in Procs, NEW op, NEW k \in Keys, NEW v, Call(p, op, k, v)
    PROVE  DbInv'
<1> DEFINE r == [db[p] EXCEPT !.op = op, !.key = k, !.val = v]
<1>1. pc[p] = "ready" /\ Set(p, r) /\ Goto(p, "find") /\ lock' = lock /\ Quiet(p)
  BY Zenon DEF Call, Quiet
<1>2. Near(r) /\ r.key = k
  <2>1. Near(db[p])
    BY <1>1, NearHere, Zenon
  <2> QED
    BY <2>1, Zenon DEF Near, DbFields
<1> HIDE DEF r
<1>3. LockMoves(p) /\ ProcMoves(p) /\ pc'[p] = "find" /\ db'[p] = r
  BY <1>1, At, LockLeft, Zenon
<1> QED
  BY <1>1, <1>2, <1>3, OutInv DEF Out, Scanning, Absent

\* _db_find_and_lock: the lock on the chain, for reading or for writing, and
\* the read of its first pointer.
LEMMA FindInv ==
    ASSUME DbInv, NEW p \in Procs, FindLock(p)
    PROVE  DbInv'
<1> DEFINE r == [db[p] EXCEPT !.ptroff = 0, !.off = hash[Chain(p)], !.pos = 0]
<1>1. /\ pc[p] = "find" /\ Set(p, r) /\ Goto(p, "walk") /\ Quiet(p)
      /\ IF db[p].op = "fetch" THEN readw_lock(p, Chain(p)) ELSE writew_lock(p, Chain(p))
  BY ZenonT(30) DEF FindLock, Quiet
<1>2. Chain(p) \in Locks /\ Reaches(hash[Chain(p)]) /\ db[p].key \in Keys
  BY <1>1, AtChain, Here DEF DbInv, Data, FilesReach, Local
<1>3. Near(r) /\ Follows(r, db[p])
  <2>1. Near(db[p])
    BY <1>1, NearHere, Zenon
  <2> QED
    BY <1>2, <2>1, Zenon DEF Near, Follows, DbFields
<1> HIDE DEF r
<1>4. ProcMoves(p) /\ pc'[p] = "walk" /\ db'[p] = r
  BY <1>1, At, Zenon
<1>5. LockMoves(p) /\ lock'[Chain(p)][p] = IF db[p].op = "fetch" THEN "read" ELSE "write"
  BY <1>1, <1>2, LockTaken
<1>6. Chain(p)' = Chain(p)
  BY <1>3, <1>4, Zenon DEF Chain, Follows
<1>7. Held(p)'
  BY <1>3, <1>4, <1>5, <1>6 DEF Held, Relisting, Scanning, Follows
<1>8. Local(p)'
  <2>1. idx' = idx
    BY <1>1, Zenon DEF Quiet, files
  <2> QED
    BY <1>2, <1>3, <1>4, <2>1 DEF Local, Near, Follows, Reaches, Unlinking, Fresh, Reusing, Absent
<1> QED
  BY <1>1, <1>4, <1>5, <1>7, <1>8, MoveHeld, QuietData DEF Quiet, NewOnly, Fresh, DbInv

\* The step by which a call takes effect keeps the invariant.
LEMMA EffectInv ==
    ASSUME DbInv, NEW p \in Procs, pc[p] \in Working, NEW r, NEW rc, NEW v, Effect(p, r, rc, v), Near(r), Follows(r, db[p]),
           Quiet(p) \/ Writes(p), lock' = lock \/ un_lock(p, "free")
    PROVE  DbInv'
<1> DEFINE s == [r EXCEPT !.rc = rc]
<1>1. Near(s) /\ Follows(s, db[p]) /\ Set(p, s)
  BY Zenon DEF Near, Follows, DbFields, Effect
<1> HIDE DEF s
<1>2. Turns(p, "unlock", s) /\ LockTurns(p, "unlock") /\ "unlock" \in Plain /\ "unlock" \notin Unlinking
  BY <1>1, Zenon DEF Turns, LockTurns, Effect, Follows, Working, Plain, Fresh, Reusing, Unlinking, Relisting
<1> QED
  BY <1>1, <1>2, PlainInv, Zenon

\* A step along a hash chain or along the free list.
LEMMA OnInv ==
    ASSUME DbInv, NEW p \in Procs, WalkOn(p) \/ FreeOn(p)
    PROVE  DbInv'
<1> DEFINE i == db[p].off
           r == [readidx(p, i) EXCEPT !.ptroff = i, !.off = idx[i].ptr]
<1>1. pc[p] \in {"walk", "freewalk"} /\ pc' = pc /\ lock' = lock /\ Set(p, r) /\ Quiet(p) /\ i # 0
  BY Zenon DEF WalkOn, FreeOn, Quiet
<1>2. i \in 1..Len(idx)
  BY <1>1, Here DEF Local, Reaches
<1>3. Near(r) /\ Follows(r, db[p])
  <2>1. Near(readidx(p, i)) /\ Follows(readidx(p, i), db[p]) /\ Reaches(idx[i].ptr)
    BY <1>1, <1>2, NearRead, Zenon
  <2> QED
    BY <2>1, Zenon DEF Near, Follows, DbFields
<1> HIDE DEF r
<1>4. Turns(p, pc[p], r) /\ LockTurns(p, pc[p]) /\ pc[p] \in Plain /\ pc[p] \notin Unlinking
  BY <1>1, <1>3 DEF Turns, LockTurns, Follows, Working, Plain, Fresh, Reusing, Unlinking, Relisting
<1> QED
  BY <1>1, <1>3, <1>4, PlainInv

\* The end of a chain: the key is not there.
LEMMA MissInv ==
    ASSUME DbInv, NEW p \in Procs, WalkMiss(p)
    PROVE  DbInv'
<1>1. pc[p] = "walk" /\ pc[p] \in Working /\ lock' = lock /\ Quiet(p) /\ Near(db[p]) /\ Follows(db[p], db[p])
  BY NearHere, Zenon DEF WalkMiss, Working, Quiet
<1>2. ASSUME NEW rc, Effect(p, db[p], rc, Kept(p)) PROVE DbInv'
  BY <1>1, <1>2, EffectInv
<1>3. CASE Set(p, [db[p] EXCEPT !.save = hash[Chain(p)], !.pos = 0]) /\ Goto(p, "findfree")
  <2> DEFINE r == [db[p] EXCEPT !.save = hash[Chain(p)], !.pos = 0]
  <2>1. Reaches(hash[Chain(p)])
    BY <1>1, AtChain, Zenon DEF DbInv, Data, FilesReach
  <2>2. Near(r) /\ Follows(r, db[p]) /\ Set(p, r)
    BY <1>1, <1>3, <2>1 DEF Near, Follows, DbFields
  <2> HIDE DEF r
  <2>3. Turns(p, "findfree", r) /\ LockTurns(p, "findfree") /\ "findfree" \in Plain /\ "findfree" \notin Unlinking
    BY <1>1, <1>3, <2>2 DEF Turns, LockTurns, Follows, Working, Plain, Fresh, Reusing, Unlinking, Relisting
  <2> QED
    BY <1>1, <2>2, <2>3, PlainInv
<1> QED
  BY <1>2, <1>3 DEF WalkMiss

\* The record of the key is found.
LEMMA HitInv ==
    ASSUME DbInv, NEW p \in Procs, WalkHit(p)
    PROVE  DbInv'
<1> DEFINE r == readidx(p, db[p].off)
<1>1. pc[p] = "walk" /\ pc[p] \in Working /\ lock' = lock /\ Quiet(p) /\ db[p].off # 0
  BY Zenon DEF WalkHit, Working, Quiet
<1>2. db[p].off \in 1..Len(idx) /\ Reaches(db[p].off)
  BY <1>1, Here DEF Local, Reaches
<1>3. Near(r) /\ Follows(r, db[p]) /\ r.idxoff = db[p].off
  BY <1>1, <1>2, NearRead, Zenon
<1>4. \/ Effect(p, r, 1, Kept(p))
      \/ Set(p, r) /\ \E x \in {"fetchdat", "dellock", "overwrite"} : Goto(p, x)
  BY Zenon DEF WalkHit
<1> HIDE DEF r
<1>5. CASE Effect(p, r, 1, Kept(p))
  BY <1>1, <1>3, <1>5, EffectInv
<1>6. ASSUME Set(p, r), NEW x \in {"fetchdat", "dellock", "overwrite"}, Goto(p, x) PROVE DbInv'
  <2>1. Turns(p, x, r) /\ LockTurns(p, x) /\ x \in Plain
    BY <1>1, <1>3, <1>6, Zenon DEF Turns, LockTurns, Follows, Working, Plain, Fresh, Reusing, Relisting
  <2> QED
    BY <1>1, <1>2, <1>3, <2>1, PlainInv
<1> QED
  BY <1>4, <1>5, <1>6

\* _db_readdat, and the un_lock of the chain at the end of a call.
LEMMA FetchInv ==
    ASSUME DbInv, NEW p \in Procs, FetchDat(p) \/ Unlock(p)
    PROVE  DbInv'
<1>1. CASE FetchDat(p)
  <2>1. pc[p] = "fetchdat" /\ pc[p] \in Working /\ Near(db[p]) /\ Follows(db[p], db[p])
    BY <1>1, NearHere, Zenon DEF FetchDat, Working
  <2>2. CASE Ends(p, "dumped")
    BY <2>1, <2>2, EndsInv, Zenon DEF Absent
  <2>3. CASE Effect(p, db[p], dat[db[p].datoff].val, Kept(p)) /\ lock' = lock /\ UNCHANGED files
    BY <2>1, <2>3, EffectInv, Zenon DEF Quiet
  <2> QED
    BY <1>1, <2>2, <2>3 DEF FetchDat
<1>2. CASE Unlock(p)
  <2>1. pc[p] = "unlock" /\ un_lock(p, Chain(p)) /\ Set(p, Idle(p, db[p].pos)) /\ Goto(p, "ready") /\ UNCHANGED files
    BY <1>2, Zenon DEF Unlock
  <2>2. Chain(p) \in Locks
    BY <2>1, AtChain, Zenon DEF Working
  <2> QED
    BY <2>1, <2>2, IdleInv
<1> QED
  BY <1>1, <1>2, Zenon

\* The steps of db_nextrec, under a read lock of the free list.
LEMMA NextInv ==
    ASSUME DbInv, NEW p \in Procs, NextLock(p) \/ NextDump(p) \/ NextEof(p) \/ NextIdx(p) \/ NextDat(p)
    PROVE  DbInv'
<1>0. "free" \in Locks
  BY Zenon DEF Locks
<1>1. CASE NextLock(p)
  <2> DEFINE r == [db[p] EXCEPT !.op = "nextrec"]
  <2>1. pc[p] = "ready" /\ readw_lock(p, "free") /\ Set(p, r) /\ Goto(p, "nextidx") /\ Quiet(p)
    BY <1>1, Zenon DEF NextLock, Quiet
  <2>2. Near(r)
    <3>1. Near(db[p])
      BY <2>1, NearHere, Zenon
    <3> QED
      BY <3>1, Zenon DEF Near, DbFields
  <2> HIDE DEF r
  <2>3. LockMoves(p) /\ lock'["free"][p] = "read" /\ ProcMoves(p) /\ pc'[p] = "nextidx" /\ db'[p] = r
    BY <1>0, <2>1, At, LockTaken
  <2> QED
    BY <2>1, <2>2, <2>3, OutInv DEF Scanning, Absent
<1>2. CASE NextDump(p)
  BY <1>2, EndsInv, Zenon DEF NextDump, Absent
<1>3. CASE NextEof(p)
  BY <1>0, <1>3, IdleInv, Zenon DEF NextEof
<1>4. CASE NextIdx(p)
  <2> DEFINE i == db[p].pos
             r == [readidx(p, i) EXCEPT !.key = idx[i].key]
  <2>1. pc[p] = "nextidx" /\ lock' = lock /\ Set(p, r) /\ Quiet(p) /\ i \in DOMAIN idx
    BY <1>4, Zenon DEF NextIdx, Quiet
  <2>2. PICK x \in Scanning : Goto(p, x)
    BY <1>4, Zenon DEF NextIdx, Scanning
  <2>3. Near(r)
    <3>1. Near(readidx(p, i))
      BY <2>1, NearRead, Here
    <3> QED
      BY <3>1, Zenon DEF Near, DbFields
  <2> HIDE DEF r
  <2>4. LockMoves(p) /\ ProcMoves(p) /\ pc'[p] = x /\ db'[p] = r
    BY <2>1, <2>2, At, LockLeft
  <2>5. lock'["free"][p] = "read"
    BY <2>1, Here, Zenon DEF Held, Scanning
  <2> QED
    BY <2>1, <2>3, <2>4, <2>5, OutInv, Zenon DEF Scanning, Absent
<1>5. CASE NextDat(p)
  <2>1. pc[p] = "nextdat"
    BY <1>5, Zenon DEF NextDat
  <2>2. CASE Ends(p, "dumped")
    BY <2>1, <2>2, EndsInv, Zenon DEF Absent
  <2>3. CASE ~Ends(p, "dumped")
    <3>1. un_lock(p, "free") /\ Set(p, Idle(p, db[p].pos)) /\ Goto(p, "ready") /\ UNCHANGED files
      BY <1>5, <2>3, Zenon DEF NextDat
    <3> QED
      BY <1>0, <2>1, <3>1, IdleInv, Zenon
  <2> QED
    BY <2>2, <2>3, Zenon
<1> QED
  BY <1>1, <1>2, <1>3, <1>4, <1>5

\* The steps of a delete or a store that only take a lock or read.
LEMMA PassInv ==
    ASSUME DbInv, NEW p \in Procs, DelLock(p) \/ FreeMiss(p) \/ Reread(p) \/ FreeLock(p)
    PROVE  DbInv'
<1>1. CASE DelLock(p) \/ FreeMiss(p)
  <2>1. PICK x \in {"deldat", "appdat"} :
          /\ Goto(p, x) /\ db' = db /\ Quiet(p)
          /\ x = "deldat" => pc[p] = "dellock" /\ writew_lock(p, "free")
          /\ x = "appdat" => pc[p] = "freewalk" /\ un_lock(p, "free")
    BY <1>1, Zenon DEF DelLock, FreeMiss, Quiet
  <2>2. Near(db[p]) /\ Follows(db[p], db[p]) /\ (x \in Unlinking => Reaches(db[p].idxoff))
    BY <2>1, NearHere, Here, Zenon DEF Local, Unlinking, Quiet, Absent
  <2>3. Turns(p, x, db[p]) /\ LockTurns(p, x) /\ x \in Plain
    BY <2>1, <2>2, Zenon DEF Turns, LockTurns, Follows, Working, Plain, Fresh, Reusing, Relisting
  <2> QED
    BY <2>1, <2>2, <2>3, PlainInv, Zenon
<1>2. CASE Reread(p)
  <2> DEFINE r == [db[p] EXCEPT !.save = hash[Chain(p)], !.pos = 0]
  <2>1. pc[p] = "reread" /\ lock' = lock /\ Goto(p, "appdat") /\ Set(p, r) /\ Quiet(p)
    BY <1>2, Zenon DEF Reread, Quiet
  <2>2. Reaches(hash[Chain(p)]) /\ Near(db[p])
    BY <2>1, AtChain, NearHere, Zenon DEF DbInv, Data, FilesReach, Working
  <2>3. Near(r) /\ Follows(r, db[p])
    BY <2>2, Zenon DEF Near, Follows, DbFields
  <2> HIDE DEF r
  <2>4. Turns(p, "appdat", r) /\ LockTurns(p, "appdat") /\ "appdat" \in Plain /\ "appdat" \notin Unlinking
    BY <2>1, <2>3, Zenon DEF Turns, LockTurns, Follows, Working, Plain, Fresh, Reusing, Unlinking, Relisting
  <2> QED
    BY <2>1, <2>3, <2>4, PlainInv
<1>3. CASE FreeLock(p)
  <2> DEFINE r == [db[p] EXCEPT !.ptroff = 0, !.off = free, !.pos = 0]
  <2>1. pc[p] = "findfree" /\ writew_lock(p, "free") /\ Goto(p, "freewalk") /\ Set(p, r) /\ Quiet(p)
    BY <1>3, Zenon DEF FreeLock, Quiet
  <2>2. Reaches(free) /\ Near(db[p])
    BY <2>1, NearHere, Zenon DEF DbInv, Data, FilesReach
  <2>3. Near(r) /\ Follows(r, db[p])
    BY <2>2, Zenon DEF Near, Follows, DbFields
  <2> HIDE DEF r
  <2>4. Turns(p, "freewalk", r) /\ LockTurns(p, "freewalk") /\ "freewalk" \in Plain /\ "freewalk" \notin Unlinking
    BY <2>1, <2>3 DEF Turns, LockTurns, Follows, Working, Plain, Fresh, Reusing, Unlinking, Relisting
  <2> QED
    BY <2>1, <2>3, <2>4, PlainInv, Zenon
<1> QED
  BY <1>1, <1>2, <1>3, Zenon

\* lseek (SEEK_END) under the lock of the end of the file: the offset is the
\* end of the file.
LEMMA SeekInv ==
    ASSUME DbInv, NEW p \in Procs, AppDatSeek(p) \/ AppIdxSeek(p)
    PROVE  DbInv'
<1>0. idx' = idx /\ dat' = dat /\ Quiet(p) /\ Near(db[p]) /\ db[p].key \in Keys /\ Len(idx) \in Nat /\ Len(dat) \in Nat
  BY NearHere, Here, Zenon DEF AppDatSeek, AppIdxSeek, files, Quiet, Local, Working
<1>1. CASE AppDatSeek(p)
  <2> DEFINE r == [db[p] EXCEPT !.datoff = Len(dat) + 1]
  <2>1. pc[p] = "appdat" /\ writew_lock(p, "datend") /\ Goto(p, "appdatwrite") /\ Set(p, r)
    BY <1>1, Zenon DEF AppDatSeek
  <2>2. Near(r) /\ Follows(r, db[p]) /\ r.datoff = Len(dat) + 1
    BY <1>0, Zenon DEF Near, Follows, DbFields
  <2> HIDE DEF r
  <2>3. Turns(p, "appdatwrite", r) /\ LockTurns(p, "appdatwrite")
    BY <2>1, <2>2, Zenon DEF Turns, LockTurns, Follows, Working
  <2>4. pc'[p] = "appdatwrite" /\ db'[p] = r
    BY <2>3, TurnHeld, Zenon
  <2>5. Local(p)' /\ NewOnly(p)
    BY <1>0, <2>2, <2>4, Zenon DEF Local, Near, Follows, Reaches, NewOnly, Unlinking, Fresh, Reusing, Absent
  <2> QED
    BY <1>0, <2>3, <2>5, TurnInv, Zenon
<1>2. CASE AppIdxSeek(p)
  <2> DEFINE r == [db[p] EXCEPT !.idxoff = Len(idx) + 1]
  <2>1. pc[p] = "appidx" /\ writew_lock(p, "idxend") /\ Goto(p, "appidxwrite") /\ Set(p, r)
    BY <1>2, Zenon DEF AppIdxSeek
  <2>2. /\ Follows(r, db[p]) /\ r.idxoff = Len(idx) + 1 /\ r.datoff = db[p].datoff /\ r.datoff \in 1..Len(dat)
        /\ Reaches(r.off) /\ Reaches(r.ptrval) /\ Reaches(r.save)
    <3>1. db[p].datoff \in 1..Len(dat)
      BY <2>1, Here, Zenon DEF Local, Fresh
    <3> QED
      BY <1>0, <3>1, Zenon DEF Near, Follows, DbFields
  <2> HIDE DEF r
  <2>3. Turns(p, "appidxwrite", r) /\ LockTurns(p, "appidxwrite")
    BY <2>1, <2>2, Zenon DEF Turns, LockTurns, Follows, Working
  <2>4. pc'[p] = "appidxwrite" /\ db'[p] = r
    BY <2>3, TurnHeld, Zenon
  <2>5. Local(p)' /\ NewOnly(p)
    BY <1>0, <2>1, <2>2, <2>4, Zenon DEF Local, Follows, Reaches, NewOnly, Unlinking, Fresh, Reusing, Absent
  <2> QED
    BY <1>0, <2>3, <2>5, TurnInv
<1> QED
  BY <1>1, <1>2, Zenon

\* A write over an index record that keeps its data record, and a pointer
\* that leads to a record.
LEMMA PutRec ==
    ASSUME DbInv, NEW p \in Procs, pc[p] \notin {"appdatwrite", "appidxwrite"}, UNCHANGED <<hash, free, dat>>,
           NEW j, NEW y, idx' = [idx EXCEPT ![j] = y],
           j \in 1..Len(idx) => DOMAIN y = RecFields /\ Reaches(y.ptr) /\ y.dat = idx[j].dat
    PROVE  Writes(p)
<1>1. FilesReach
  BY Zenon DEF DbInv, Data
<1>2. IsSeq(idx') /\ Len(idx') = Len(idx) /\ \A k \in 1..Len(idx) : idx'[k] = IF k = j THEN y ELSE idx[k]
  <2>1. IsPut(idx', idx, j, y) /\ IsSeq(idx)
    BY <1>1, Zenon DEF IsPut, FilesReach
  <2> QED
    BY <2>1, SeqPut
<1>3. FilesReach'
  BY <1>1, <1>2 DEF FilesReach, Reaches
<1> QED
  BY <1>2, <1>3, Zenon DEF Writes, Grows

\* A write of a chain pointer into an index record.
LEMMA PutPtr ==
    ASSUME DbInv, NEW p \in Procs, pc[p] \notin {"appdatwrite", "appidxwrite"}, UNCHANGED <<hash, free, dat>>,
           NEW j, NEW n, Reaches(n), idx' = [idx EXCEPT ![j].ptr = n]
    PROVE  Writes(p)
<1> DEFINE y == [idx[j] EXCEPT !.ptr = n]
<1>1. idx' = [idx EXCEPT ![j] = y]
  BY Zenon
<1>2. j \in 1..Len(idx) => DOMAIN y = RecFields /\ Reaches(y.ptr) /\ y.dat = idx[j].dat
  BY Zenon DEF DbInv, Data, FilesReach, RecFields
<1> HIDE DEF y
<1> QED
  BY <1>1, <1>2, PutRec, Zenon

\* A write over a data record.
LEMMA PutDat ==
    ASSUME DbInv, NEW p \in Procs, pc[p] \notin {"appdatwrite", "appidxwrite"}, UNCHANGED <<hash, free, idx>>,
           NEW j, NEW y, dat' = [dat EXCEPT ![j] = y]
    PROVE  Writes(p)
<1>1. FilesReach
  BY Zenon DEF DbInv, Data
<1>2. IsSeq(dat') /\ Len(dat') = Len(dat)
  <2>1. IsPut(dat', dat, j, y) /\ IsSeq(dat)
    BY <1>1, Zenon DEF IsPut, FilesReach
  <2> QED
    BY <2>1, SeqPut
<1>3. FilesReach'
  BY <1>1, <1>2, Zenon DEF FilesReach, Reaches
<1> QED
  BY <1>2, <1>3, Zenon DEF Writes, Grows

\* A write of the head of a chain or of the free list.
LEMMA PutHead ==
    ASSUME DbInv, NEW p \in Procs, pc[p] \notin {"appdatwrite", "appidxwrite"}, UNCHANGED <<idx, dat>>, NEW n, Reaches(n),
           \/ free' = n /\ hash' = hash
           \/ free' = free /\ \E h : hash' = [hash EXCEPT ![h] = n]
    PROVE  Writes(p)
<1>1. FilesReach
  BY Zenon DEF DbInv, Data
<1>2. FilesReach'
  BY <1>1, Zenon DEF FilesReach, Reaches
<1> QED
  BY <1>2, Zenon DEF Writes, Grows

\* _db_dodelete: the data record is blanked, and the record becomes the head
\* of the free list.
LEMMA DeleteInv ==
    ASSUME DbInv, NEW p \in Procs, DelDat(p) \/ DelFree(p)
    PROVE  DbInv'
<1>1. PICK x \in {"delidx", "dellink"} : Goto(p, x) /\ db' = db /\ lock' = lock /\ pc[p] \in {"deldat", "delfree"}
  BY Zenon DEF DelDat, DelFree
<1>2. Near(db[p]) /\ Follows(db[p], db[p]) /\ Reaches(db[p].idxoff)
  BY <1>1, NearHere, Here, Zenon DEF Local, Unlinking
<1>3. Turns(p, x, db[p]) /\ LockTurns(p, x) /\ x \in Plain
  BY <1>1, <1>2, Zenon DEF Turns, LockTurns, Follows, Working, Plain, Fresh, Reusing, Relisting
<1>4. Writes(p)
  <2>1. CASE DelDat(p)
    BY <1>1, <2>1, PutDat, Zenon DEF DelDat
  <2>2. CASE DelFree(p)
    BY <1>1, <1>2, <2>2, PutHead DEF DelFree
  <2> QED
    BY <2>1, <2>2, Zenon
<1> QED
  BY <1>2, <1>3, <1>4, PlainInv, Zenon

\* _db_dodelete: the index record is blanked and points to the old head of
\* the free list.
LEMMA DelIdxInv ==
    ASSUME DbInv, NEW p \in Procs, DelIdx(p)
    PROVE  DbInv'
<1> DEFINE i == db[p].idxoff
           y == [idx[i] EXCEPT !.key = None, !.ptr = free]
           n == IF p \in Scanners THEN i + 1 ELSE 0
           r == [db[p] EXCEPT !.save = db[p].ptrval, !.ptrval = free, !.pos = n]
<1>1. /\ pc[p] = "delidx" /\ lock' = lock /\ Goto(p, "delfree") /\ Set(p, r)
      /\ idx' = [idx EXCEPT ![i].key = None, ![i].ptr = free] /\ UNCHANGED <<hash, free, dat>>
  BY Zenon DEF DelIdx
<1>2. Near(db[p]) /\ Reaches(free) /\ Reaches(db[p].idxoff)
  BY <1>1, NearHere, Here, Zenon DEF Local, Unlinking, DbInv, Data, FilesReach
<1> HIDE DEF n
<1>3. Near(r) /\ Follows(r, db[p]) /\ r.idxoff = db[p].idxoff
  BY <1>2, Zenon DEF Near, Follows, DbFields
<1>4. idx' = [idx EXCEPT ![i] = y] /\ (i \in 1..Len(idx) => DOMAIN y = RecFields /\ Reaches(y.ptr) /\ y.dat = idx[i].dat)
  <2>1. idx' = [idx EXCEPT ![i] = y]
    BY <1>1, Zenon
  <2>2. i \in 1..Len(idx) => DOMAIN y = RecFields /\ Reaches(y.ptr) /\ y.dat = idx[i].dat
    BY <1>2, Zenon DEF DbInv, Data, FilesReach, RecFields
  <2> QED
    BY <2>1, <2>2, Zenon
<1> HIDE DEF r, y
<1>5. Writes(p)
  BY <1>1, <1>4, PutRec, Zenon
<1>6. Turns(p, "delfree", r) /\ LockTurns(p, "delfree") /\ "delfree" \in Plain
  BY <1>1, <1>3, Zenon DEF Turns, LockTurns, Follows, Working, Plain, Fresh, Reusing, Relisting
<1> QED
  BY <1>2, <1>3, <1>5, <1>6, PlainInv

\* _db_dodelete: the record is taken out of its chain.
LEMMA DelLinkInv ==
    ASSUME DbInv, NEW p \in Procs, DelLink(p)
    PROVE  DbInv'
<1> DEFINE r == [db[p] EXCEPT !.pos = 0]
<1>1. pc[p] = "dellink" /\ pc[p] \in Working /\ un_lock(p, "free") /\ WritePtr(p, db[p].ptroff, db[p].save) /\ UNCHANGED <<free, dat>>
  BY Zenon DEF DelLink, Working
<1>2. Near(db[p])
  BY <1>1, NearHere, Zenon
<1>3. Near(r) /\ Follows(r, db[p])
  BY <1>2, Zenon DEF Near, Follows, DbFields
<1>4. Effect(p, r, 0, None) \/ (Goto(p, "reread") /\ Set(p, r))
  BY Zenon DEF DelLink
<1> HIDE DEF r
<1>5. Writes(p)
  <2>1. CASE hash' = [hash EXCEPT ![Chain(p)] = db[p].save] /\ idx' = idx
    BY <1>1, <1>2, <2>1, PutHead, Zenon DEF Near
  <2>2. CASE idx' = [idx EXCEPT ![db[p].ptroff].ptr = db[p].save] /\ hash' = hash
    BY <1>1, <1>2, <2>2, PutPtr, Zenon DEF Near
  <2> QED
    BY <1>1, <2>1, <2>2, Zenon DEF WritePtr
<1>6. CASE Effect(p, r, 0, None)
  BY <1>1, <1>3, <1>5, <1>6, EffectInv, Zenon
<1>7. CASE Goto(p, "reread") /\ Set(p, r)
  <2>1. Turns(p, "reread", r) /\ LockTurns(p, "reread") /\ "reread" \in Plain /\ "reread" \notin Unlinking
    BY <1>1, <1>3, <1>7, Zenon DEF Turns, LockTurns, Follows, Working, Plain, Fresh, Reusing, Unlinking, Relisting
  <2> QED
    BY <1>3, <1>5, <2>1, PlainInv, Zenon
<1> QED
  BY <1>4, <1>6, <1>7, Zenon

\* db_store over a record of the same length.
LEMMA OverwriteInv ==
    ASSUME DbInv, NEW p \in Procs, Overwrite(p)
    PROVE  DbInv'
<1>1. pc[p] = "overwrite" /\ pc[p] \in Working /\ Effect(p, db[p], 0, db[p].val) /\ lock' = lock
  BY Zenon DEF Overwrite, Working
<1>2. Writes(p)
  BY <1>1, PutDat, Zenon DEF Overwrite
<1>3. Near(db[p]) /\ Follows(db[p], db[p])
  BY <1>1, NearHere, Zenon
<1> QED
  BY <1>1, <1>2, <1>3, EffectInv, Zenon

\* db_store: the record becomes the head of its chain, if _db_writeptr can
\* hold its offset.
LEMMA LinkInv ==
    ASSUME DbInv, NEW p \in Procs, Link(p)
    PROVE  DbInv'
<1> DEFINE r == [db[p] EXCEPT !.pos = 0]
<1>1. pc[p] = "link" /\ pc[p] \in Working
  BY Zenon DEF Link, Working
<1>2. Near(db[p])
  BY <1>1, NearHere, Zenon
<1>3. Near(r) /\ Follows(r, db[p])
  BY <1>2, Zenon DEF Near, Follows, DbFields
<1>4. CASE Ends(p, "quit")
  BY <1>1, <1>4, EndsInv, Zenon DEF Absent
<1>5. CASE ~Ends(p, "quit")
  <2>1. /\ Effect(p, r, 0, db[p].val) /\ lock' = lock /\ db[p].idxoff <= PTR_MAX
        /\ hash' = [hash EXCEPT ![Chain(p)] = db[p].idxoff] /\ UNCHANGED <<free, idx, dat>>
    BY <1>5, Zenon DEF Link
  <2>2. Reaches(db[p].idxoff)
    BY <1>2, <2>1, Zenon DEF Near, Reaches
  <2>3. Writes(p)
    BY <1>1, <2>1, <2>2, PutHead, Zenon
  <2> HIDE DEF r
  <2> QED
    BY <1>1, <1>3, <2>1, <2>3, EffectInv, Zenon
<1> QED
  BY <1>4, <1>5, Zenon

\* _db_findfree: a record of the right lengths is taken out of the free list.
LEMMA FreeHitInv ==
    ASSUME DbInv, NEW p \in Procs, FreeHit(p)
    PROVE  DbInv'
<1> DEFINE i == db[p].off
           r == [readidx(p, i) EXCEPT !.pos = 0]
<1>1. /\ pc[p] = "freewalk" /\ i # 0 /\ un_lock(p, "free") /\ Set(p, r) /\ Goto(p, "reusedat") /\ UNCHANGED <<hash, dat>>
      /\ \/ free' = idx[i].ptr /\ idx' = idx
         \/ idx' = [idx EXCEPT ![db[p].ptroff].ptr = idx[i].ptr] /\ free' = free
  BY Zenon DEF FreeHit
<1>2. i \in 1..Len(idx) /\ db[p].key \in Keys
  BY <1>1, Here DEF Local, Reaches, Working
<1>3. Near(r) /\ Follows(r, db[p]) /\ r.idxoff = i /\ r.datoff = idx[i].dat /\ Reaches(idx[i].ptr)
  <2>1. /\ Near(readidx(p, i)) /\ Follows(readidx(p, i), db[p]) /\ Reaches(idx[i].ptr)
        /\ readidx(p, i).idxoff = i /\ readidx(p, i).datoff = idx[i].dat
    BY <1>1, <1>2, NearRead, Zenon
  <2> QED
    BY <2>1, Zenon DEF Near, Follows, DbFields
<1>4. Writes(p)
  BY <1>1, <1>3, PutHead, PutPtr, Zenon
<1> HIDE DEF r
<1>5. Turns(p, "reusedat", r) /\ LockTurns(p, "reusedat")
  BY <1>1, <1>3, Zenon DEF Turns, LockTurns, Follows, Working, Relisting
<1>6. pc'[p] = "reusedat" /\ db'[p] = r
  BY <1>5, TurnHeld
<1>7. Local(p)' /\ NewOnly(p)
  <2>1. Len(idx') = Len(idx) /\ idx'[i].dat = idx[i].dat
    BY <1>1, <1>2, <1>4 DEF Writes, Grows
  <2> QED
    BY <1>2, <1>3, <1>6, <2>1 DEF Local, Near, Follows, Reaches, NewOnly, Unlinking, Fresh, Absent
<1> QED
  BY <1>4, <1>5, <1>7, TurnInv, Zenon

\* db_store: the data record of a reused record is written.
LEMMA ReuseDatInv ==
    ASSUME DbInv, NEW p \in Procs, ReuseDat(p)
    PROVE  DbInv'
<1>1. pc[p] = "reusedat" /\ Goto(p, "reuseidx") /\ db' = db /\ lock' = lock /\ idx' = idx
  BY Zenon DEF ReuseDat
<1>2. Writes(p)
  BY <1>1, PutDat, Zenon DEF ReuseDat
<1>3. /\ Near(db[p]) /\ Follows(db[p], db[p]) /\ db[p].key \in Keys
      /\ db[p].idxoff \in 1..Len(idx) /\ db[p].datoff = idx[db[p].idxoff].dat
  BY <1>1, NearHere, Here, Zenon DEF Local, Working, Reusing
<1>4. Turns(p, "reuseidx", db[p]) /\ LockTurns(p, "reuseidx")
  BY <1>1, <1>3, Zenon DEF Turns, LockTurns, Follows, Working, Relisting
<1>5. pc'[p] = "reuseidx"
  BY <1>4, TurnHeld, Zenon
<1>6. Local(p)' /\ NewOnly(p)
  BY <1>1, <1>3, <1>5, Zenon DEF Local, Near, Reaches, NewOnly, Unlinking, Fresh, Absent
<1> QED
  BY <1>2, <1>4, <1>6, TurnInv

\* db_store: the index record of a reused record is written; its data record
\* stays its own.
LEMMA ReuseIdxInv ==
    ASSUME DbInv, NEW p \in Procs, ReuseIdx(p)
    PROVE  DbInv'
<1> DEFINE i == db[p].idxoff
           y == Record(p, db[p].datoff)
           n == IF p \in Scanners THEN i + 1 ELSE 0
           r == [db[p] EXCEPT !.pos = n]
<1>1. /\ pc[p] = "reuseidx" /\ lock' = lock /\ Goto(p, "link") /\ Set(p, r)
      /\ idx' = [idx EXCEPT ![i] = y] /\ UNCHANGED <<hash, free, dat>>
  BY Zenon DEF ReuseIdx
<1>2. Near(db[p]) /\ db[p].datoff = idx[i].dat
  BY <1>1, NearHere, Here, Zenon DEF Local, Reusing
<1>3. DOMAIN y = RecFields /\ Reaches(y.ptr) /\ y.dat = idx[i].dat
  BY <1>2, Zenon DEF Record, RecFields, Near
<1> HIDE DEF n
<1>4. Near(r) /\ Follows(r, db[p])
  BY <1>2, Zenon DEF Near, Follows, DbFields
<1> HIDE DEF r, y
<1>5. Writes(p)
  BY <1>1, <1>3, PutRec, Zenon
<1>6. Turns(p, "link", r) /\ LockTurns(p, "link") /\ "link" \in Plain /\ "link" \notin Unlinking
  BY <1>1, <1>4, Zenon DEF Turns, LockTurns, Follows, Working, Plain, Fresh, Reusing, Unlinking, Relisting
<1> QED
  BY <1>4, <1>5, <1>6, PlainInv, Zenon

\* _db_writedat at the end of the data file: the offset is still the end, and
\* nobody else has it.
LEMMA AppDatWriteInv ==
    ASSUME DbInv, NEW p \in Procs, AppDatWrite(p)
    PROVE  DbInv'
<1>1. /\ pc[p] = "appdatwrite" /\ un_lock(p, "datend") /\ Goto(p, "appidx") /\ db' = db
      /\ UNCHANGED <<hash, free, idx>> /\ dat' = Put(dat, db[p].datoff, Datum(p))
  BY Zenon DEF AppDatWrite
<1>2. Near(db[p]) /\ Follows(db[p], db[p]) /\ db[p].key \in Keys /\ db[p].datoff = Len(dat) + 1 /\ Len(dat) \in Nat
  BY <1>1, NearHere, Here, Zenon DEF Local, Working
<1>3. FilesReach
  BY Zenon DEF DbInv, Data
<1>4. IsSeq(dat') /\ Len(dat') = Len(dat) + 1
  BY <1>1, <1>2, <1>3, SeqAppend DEF FilesReach
<1>5. FilesReach'
  BY <1>1, <1>2, <1>3, <1>4 DEF FilesReach, Reaches
<1>6. Writes(p)
  BY <1>1, <1>4, <1>5, Zenon DEF Writes, Grows
<1>7. Turns(p, "appidx", db[p]) /\ LockTurns(p, "appidx")
  BY <1>1, <1>2, Zenon DEF Turns, LockTurns, Follows, Working, Relisting
<1>8. pc'[p] = "appidx"
  BY <1>7, TurnHeld, Zenon
<1>9. Local(p)' /\ NewOnly(p)
  <2>1. db'[p].datoff \in 1..Len(dat') /\ db'[p].datoff = Len(dat) + 1
    BY <1>1, <1>2, <1>4
  <2> QED
    BY <1>1, <1>2, <1>8, <2>1, Zenon DEF Local, Near, Reaches, NewOnly, Unlinking, Reusing, Absent
<1> QED
  BY <1>6, <1>7, <1>9, TurnInv, Zenon

\* _db_writeidx at the end of the index file: the new record names the data
\* record that only this process has.
LEMMA AppIdxWriteInv ==
    ASSUME DbInv, NEW p \in Procs, AppIdxWrite(p)
    PROVE  DbInv'
<1> DEFINE n == IF p \in Scanners THEN db[p].idxoff + 1 ELSE 0
           y == Record(p, db[p].datoff)
           r == [db[p] EXCEPT !.pos = n]
<1>1. /\ pc[p] = "appidxwrite" /\ un_lock(p, "idxend") /\ Goto(p, "link") /\ Set(p, r)
      /\ UNCHANGED <<hash, free, dat>> /\ idx' = Put(idx, db[p].idxoff, y)
  BY Zenon DEF AppIdxWrite
<1>2. /\ DOMAIN db[p] = DbFields /\ db[p].key \in Keys /\ db[p].idxoff = Len(idx) + 1 /\ Len(idx) \in Nat
      /\ Reaches(db[p].off) /\ Reaches(db[p].ptrval) /\ Reaches(db[p].save) /\ db[p].datoff \in 1..Len(dat)
  BY <1>1, Here, Zenon DEF Local, Working, Fresh
<1>3. DOMAIN y = RecFields /\ Reaches(y.ptr) /\ y.dat = db[p].datoff
  BY <1>2, Zenon DEF Record, RecFields
<1> HIDE DEF n
<1>4. Follows(r, db[p]) /\ r.idxoff = Len(idx) + 1 /\ Reaches(r.off) /\ Reaches(r.ptrval) /\ Reaches(r.save)
  BY <1>2, Zenon DEF Follows, DbFields
<1> HIDE DEF r, y
<1>5. FilesReach
  BY Zenon DEF DbInv, Data
<1>6. IsSeq(idx') /\ Len(idx') = Len(idx) + 1 /\ idx'[Len(idx) + 1] = y /\ \A j \in 1..Len(idx) : idx'[j] = idx[j]
  BY <1>1, <1>2, <1>5, SeqAppend DEF FilesReach
<1>7. \A m \in 0..Len(idx) : m \in 0..Len(idx')
  BY <1>2, <1>6
<1>8. FilesReach'
  <2>1. ASSUME NEW i \in 1..Len(idx') PROVE DOMAIN idx'[i] = RecFields /\ Reaches(idx[i].ptr)' /\ idx'[i].dat \in 1..Len(dat')
    <3>1. i \in 1..Len(idx) \/ i = Len(idx) + 1
      BY <1>2, <1>6
    <3>2. DOMAIN idx'[i] = RecFields /\ Reaches(idx'[i].ptr) /\ idx'[i].dat \in 1..Len(dat)
      BY <1>2, <1>3, <1>5, <1>6, <3>1, Zenon DEF FilesReach
    <3> QED
      BY <1>1, <1>7, <3>2, Zenon DEF Reaches
  <2>2. Reaches(free)' /\ \A h \in Chains : Reaches(hash[h])'
    BY <1>1, <1>5, <1>7, Zenon DEF FilesReach, Reaches
  <2> QED
    BY <1>1, <1>5, <1>6, <2>1, <2>2, Zenon DEF FilesReach
<1>9. Writes(p)
  BY <1>1, <1>3, <1>6, <1>8, Zenon DEF Writes, Grows
<1>10. Turns(p, "link", r) /\ LockTurns(p, "link")
  BY <1>1, <1>4, Zenon DEF Turns, LockTurns, Follows, Working, Relisting
<1>11. pc'[p] = "link" /\ db'[p] = r
  BY <1>10, TurnHeld, ZenonT(30)
<1>12. Local(p)' /\ NewOnly(p)
  <2>0. db'[p].idxoff \in 0..Len(idx')
    BY <1>2, <1>4, <1>6, <1>11
  <2>1. Reaches(db[p].off)' /\ Reaches(db[p].ptrval)' /\ Reaches(db[p].save)'
    BY <1>4, <1>7, <1>11, Zenon DEF Reaches
  <2> QED
    BY <1>2, <1>4, <1>11, <2>0, <2>1 DEF Local, Follows, NewOnly, Unlinking, Fresh, Reusing, Absent
<1> QED
  BY <1>9, <1>10, <1>12, TurnInv, Zenon

\* The files just after O_CREAT and O_TRUNC, with nobody in a call.
Empty ==
    /\ hash = [h \in Chains |-> 0] /\ free = 0 /\ idx = <<>> /\ dat = <<>>
    /\ \A p \in Procs : pc[p] \in Absent \cup {"ready"} /\ DOMAIN db[p] = DbFields /\ Blank(db[p])

\* Then Data holds: there is nothing to point to.
LEMMA EmptyData == Empty => Data
<1> SUFFICES ASSUME Empty PROVE Data
  BY Zenon
<1>1. Len(idx) = 0 /\ Len(dat) = 0 /\ Reaches(0) /\ 0 \in 0..Len(idx)
  BY DbAssumption DEF Empty, Reaches
<1>2. IsSeq(idx) /\ IsSeq(dat)
  BY DEF Empty, IsSeq
<1>3. FilesReach
  BY <1>1, <1>2 DEF Empty, FilesReach
<1>4. \A p \in Procs : pc[p] \notin Working \cup {"find"} /\ pc[p] \notin Unlinking \cup Fresh \cup Reusing \cup {"appdatwrite", "appidxwrite"}
  BY DEF Empty, Absent, Working, Unlinking, Fresh, Reusing
<1>5. \A p \in Procs : Local(p)
  BY <1>1, <1>4 DEF Empty, Local, Blank
<1> QED
  BY <1>1, <1>3, <1>4, <1>5 DEF Data, Unshared, Owned

\* db_open with O_TRUNC: the files are made anew while nobody else has them
\* open.
LEMMA CreateInv ==
    ASSUME DbInv, NEW p \in Procs, db_create(p)
    PROVE  DbInv'
<1>1. /\ \A q \in Procs : pc[q] \in Absent
      /\ hash' = [h \in Chains |-> 0] /\ free' = 0 /\ idx' = <<>> /\ dat' = <<>> /\ lock' = lock
      /\ Goto(p, "ready") /\ Set(p, Idle(p, 1))
  BY Zenon DEF db_create, Absent
<1>2. LockMoves(p) /\ ProcMoves(p) /\ pc'[p] = "ready" /\ db'[p] = Idle(p, 1)
  BY <1>1, LockLeft, At
<1>3. Held(p)'
  BY <1>2, Zenon DEF Held, Working, Relisting, Scanning
<1>4. ASSUME NEW q \in Procs
      PROVE  pc'[q] \in Absent \cup {"ready"} /\ DOMAIN db'[q] = DbFields /\ Blank(db'[q])
  <2>1. CASE q = p
    BY <1>2, <2>1, NearIdle, SMTT(20) DEF Near
  <2>2. CASE q # p
    BY <1>1, <1>2, <2>2, Here, SMTT(20) DEF Local, ProcMoves
  <2> QED
    BY <2>1, <2>2
<1>5. Empty'
  BY <1>1, <1>4 DEF Empty, Blank
<1>6. Data'
  BY <1>5, EmptyData, PTL
<1> QED
  BY <1>2, <1>3, <1>6, MoveHeld DEF DbInv

\* Empty files and nobody in a call: the invariant holds.
LEMMA InitInv == Init => DbInv
<1> SUFFICES ASSUME Init PROVE DbInv
  BY Zenon
<1>1. /\ lock = [l \in Locks |-> [p \in Procs |-> "none"]]
      /\ pc = [p \in Procs |-> "closed"] /\ db = [p \in Procs |-> Closed]
  BY Zenon DEF Init
<1>2. Locking
  BY <1>1, Zenon DEF Locking, LockTable, Alone, Held, Working, Relisting, Scanning
<1>3. DOMAIN Closed = DbFields /\ Blank(Closed)
  BY Zenon DEF Closed, DbFields, Blank
<1>4. Empty
  BY <1>1, <1>3, Zenon DEF Init, Empty, Absent
<1> QED
  BY <1>2, <1>4, EmptyData DEF DbInv

\* Every step of every process keeps the invariant.
LEMMA StepInv ==
    ASSUME DbInv, [Next]_vars
    PROVE  DbInv'
<1>1. CASE UNCHANGED vars
  <2>1. UNCHANGED <<hash, free, idx, dat, lock, pc, db>>
    BY <1>1, Zenon DEF vars, files
  <2> QED
    <3>1. Locking'
      BY <2>1, ZenonT(30) DEF DbInv, Locking, Alone, Held, Chain
    <3>2. FilesReach' /\ Unshared' /\ Owned'
      BY <2>1, ZenonT(30) DEF DbInv, Data, FilesReach, Reaches, Unshared, Owned
    <3>3. \A p \in Procs : Local(p)'
      BY <2>1, ZenonT(30) DEF DbInv, Data, Reaches, Local
    <3> QED
      BY <3>1, <3>2, <3>3, Zenon DEF DbInv, Data
<1>2. ASSUME NEW p \in Procs, Step(p) PROVE DbInv'
  <2>1. ASSUME NEW c \in Calls[p], NEW v \in Vals \cup {None}, Call(p, c[1], c[2], v) PROVE DbInv'
    <3>1. c[2] \in Keys
      BY DbAssumption
    <3> QED
      BY <2>1, <3>1, CallInv
  <2> QED
    BY <1>2, <2>1, OpenInv, CreateInv, FindInv, OnInv, MissInv, HitInv, FetchInv, NextInv, PassInv, SeekInv, DeleteInv,
       DelIdxInv, DelLinkInv, OverwriteInv, LinkInv, FreeHitInv, ReuseDatInv, ReuseIdxInv, AppDatWriteInv, AppIdxWriteInv, ZenonT(30) DEF Step
<1> QED
  BY <1>1, <1>2, Zenon DEF Next

\* The invariant says that writers are apart: two processes that work on one
\* chain both hold its lock, so both read; one that changes the free list
\* holds its write lock; the pointers and the data records are in Data.
LEMMA InvApart == DbInv => WritersApart
<1> SUFFICES ASSUME DbInv PROVE WritersApart
  BY Zenon
<1>1. Alone /\ FilesReach /\ Owned /\ DOMAIN idx = 1..Len(idx) /\ DOMAIN dat = 1..Len(dat)
  BY SeqFacts, Zenon DEF DbInv, Locking, Data, FilesReach
<1>2. ChainApart
  <2> SUFFICES ASSUME NEW p \in Procs, NEW q \in Procs, p # q, pc[p] \in Working, pc[q] \in Working, Chain(p) = Chain(q),
                      db[p].op # "fetch"
               PROVE  FALSE
    BY Zenon DEF ChainApart
  <2>1. Chain(p) \in Locks /\ lock[Chain(p)][p] = "write" /\ lock[Chain(p)][q] # "none"
    BY AtChain, Here, Zenon DEF Held
  <2> QED
    BY <1>1, <2>1, Zenon DEF Alone
<1>3. FreeApart
  <2> SUFFICES ASSUME NEW p \in Procs, NEW q \in Procs, p # q, pc[p] \in Relisting, pc[q] \in Relisting \cup Scanning
               PROVE  FALSE
    BY Zenon DEF FreeApart
  <2>1. "free" \in Locks /\ lock["free"][p] = "write" /\ lock["free"][q] # "none"
    BY Here, Zenon DEF Held, Locks
  <2> QED
    BY <1>1, <2>1 DEF Alone
<1>4. PointersInFile
  <2>1. \A n : Reaches(n) => n = 0 \/ (n \in DOMAIN idx /\ n <= PTR_MAX)
    BY <1>1 DEF Reaches
  <2> QED
    BY <1>1, <2>1, Zenon DEF PointersInFile, FilesReach
<1>5. DataOwned
  BY <1>1, Zenon DEF Owned, DataOwned
<1> QED
  BY <1>2, <1>3, <1>4, <1>5, Zenon DEF WritersApart

\* At all times, for any processes and calls: no two calls work on one hash
\* chain unless both fetch, no two change or walk the free list at once and
\* nobody scans meanwhile, every chain pointer leads to a record that PTR_SZ
\* digits can name, and no two index records share a data record (the record
\* locks of _db_find_and_lock, _db_dodelete, _db_findfree, _db_writedat,
\* _db_writeidx and db_nextrec).
THEOREM DbWritersApart == Spec => []WritersApart
<1>1. DbInv /\ [Next]_vars => DbInv'
  BY StepInv, Zenon
<1> QED
  BY <1>1, InitInv, InvApart, PTL DEF Spec
=============================================================================
