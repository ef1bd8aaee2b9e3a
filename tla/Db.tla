---------------------------------- MODULE Db ----------------------------------
(***************************************************************************)
(* The database library of apue.2e/db (db.c): an index file with a free    *)
(* list and hash chains of index records, a data file, and record locks    *)
(* that let several processes use both.                                    *)
(*                                                                         *)
(* Every lock call and every read or write of a file is a step; one read   *)
(* or write is atomic.  Offsets are abstracted to the numbers of records,  *)
(* 0 is the end of a chain.  A deleted record keeps its lengths and has    *)
(* the key None.  The counters cnt_* are left out.                         *)
(***************************************************************************)
EXTENDS Integers, Sequences, FiniteSets

CONSTANTS
    Procs,
    Scanners,      \* the processes that call db_rewind and db_nextrec
    Keys, Vals, None,
    Chains,
    Hash,          \* _db_hash: the chain of each key
    KeyLen, DatLen,
    Calls,         \* bound: the calls <<op, key>> that each process makes
    PTR_MAX,       \* the largest record number that a chain pointer can hold
    NREC           \* bound: records of each file

ASSUME DbAssumption ==
    /\ Scanners \subseteq Procs
    /\ None \notin Keys \cup Vals
    /\ Hash \in [Keys -> Chains] /\ Chains \cap {"free", "idxend", "datend"} = {}
    /\ Calls \in [Procs -> SUBSET ({"fetch", "delete", "insert", "replace", "store"} \X Keys)]
    /\ KeyLen \in [Keys -> Nat] /\ DatLen \in [Vals -> Nat]
    /\ PTR_MAX \in Nat \ {0} /\ NREC \in Nat /\ PTR_MAX <= NREC

VARIABLES
    hash, free,    \* the chain pointers at the front of the index file
    idx, dat,      \* the records of the two files
    lock,          \* the record locks: per locked range, who holds it how
    pc,
    db,            \* the DB structure and the locals of the call in progress
    dict,          \* what the calls that took effect have stored
    seen, touched  \* of a scan since db_rewind: keys returned, keys changed

files == <<hash, free, idx, dat>>
ghosts == <<seen, touched>>
vars == <<files, lock, pc, db, dict, ghosts>>

\* Chains are locked at their pointer in the hash table, the free list at its
\* own; the two files at their ends while a record is appended.
Locks == Chains \cup {"free", "idxend", "datend"}

Closed ==
    [op |-> None, key |-> None, val |-> None, ptroff |-> 0, off |-> 0, idxoff |-> 0,
     ptrval |-> 0, datoff |-> 0, datlen |-> 0, save |-> 0, rc |-> None, pos |-> 0]

NewScan == [keys |-> {}, again |-> {}, clean |-> TRUE, eof |-> FALSE]

\* Between calls; the offset of the index file matters to a scanner only.
Idle(p, i) == [Closed EXCEPT !.pos = IF p \in Scanners THEN i ELSE 0]

Init ==
    /\ hash = [h \in Chains |-> 0] /\ free = 0
    /\ idx = <<>> /\ dat = <<>>
    /\ lock = [l \in Locks |-> [p \in Procs |-> "none"]]
    /\ pc = [p \in Procs |-> "closed"]
    /\ db = [p \in Procs |-> Closed]
    /\ dict = [k \in Keys |-> None]
    /\ seen = [p \in Scanners |-> NewScan] /\ touched = [p \in Scanners |-> {}]

-----------------------------------------------------------------------------
\* fcntl with F_SETLKW: shared with readers only, exclusive with nobody.
readw_lock(p, l) ==
    /\ \A q \in Procs \ {p} : lock[l][q] # "write"
    /\ lock' = [lock EXCEPT ![l][p] = "read"]

\* Mutant: a write lock that readers do not hold up.
writew_lock_Shared(p, l) ==
    /\ \A q \in Procs \ {p} : lock[l][q] # "write"
    /\ lock' = [lock EXCEPT ![l][p] = "write"]

writew_lock(p, l) ==
    /\ \A q \in Procs \ {p} : lock[l][q] = "none"
    /\ lock' = [lock EXCEPT ![l][p] = "write"]

un_lock(p, l) == lock' = [lock EXCEPT ![l][p] = "none"]

\* The locks of a process that ends, or that closes one of its descriptors.
un_lock_all(p) == lock' = [l \in Locks |-> [lock[l] EXCEPT ![p] = "none"]]

Chain(p) == Hash[db[p].key]

Goto(p, l) == pc' = [pc EXCEPT ![p] = l]
Set(p, r) == db' = [db EXCEPT ![p] = r]

\* The scan of a process that closes the database is over.
Forget(p) ==
    /\ seen' = [q \in Scanners |-> IF q = p THEN NewScan ELSE seen[q]]
    /\ touched' = [q \in Scanners |-> IF q = p THEN {} ELSE touched[q]]

\* err_dump and err_quit: the process ends, and with it its locks.
Ends(p, how) ==
    /\ Goto(p, how)
    /\ un_lock_all(p)
    /\ Set(p, Closed)
    /\ UNCHANGED files

\* The record idx[i] as _db_readidx leaves it in the DB structure.
readidx(p, i) ==
    [db[p] EXCEPT !.idxoff = i, !.ptrval = idx[i].ptr, !.datoff = idx[i].dat,
                  !.datlen = idx[i].dlen, !.pos = IF p \in Scanners THEN i + 1 ELSE 0]

\* The call takes effect: result and dictionary, before the chain is unlocked.
Effect(p, r, rc, v) ==
    /\ Set(p, [r EXCEPT !.rc = rc])
    /\ Goto(p, "unlock")
    /\ dict' = [dict EXCEPT ![r.key] = v]

Kept(p) == dict[db[p].key]

-----------------------------------------------------------------------------
(* Opening, closing, calls *)

Storing == {"insert", "replace", "store"}
Writing == Storing \cup {"delete"}

\* The keys that calls in progress may be changing.
Busy == {db[q].key : q \in {q \in Procs : db[q].op \in Writing}}

\* db_rewind, which db_open ends with: to the first record, with a new scan.
Rewound(p) ==
    IF p \in Scanners
    THEN /\ seen' = [seen EXCEPT ![p] = NewScan]
         /\ touched' = [touched EXCEPT ![p] = Busy]
    ELSE UNCHANGED ghosts

\* Without O_CREAT and O_TRUNC.
db_open(p) ==
    /\ pc[p] = "closed"
    /\ Goto(p, "ready")
    /\ Set(p, Idle(p, 1))
    /\ Rewound(p)
    /\ UNCHANGED <<files, lock, dict>>

\* With both: the files are emptied and the hash table is written.  One step,
\* because no other process has the database open: the truncation is not under
\* the lock, so a process that creates a database in use destroys it.
db_create(p) ==
    /\ \A q \in Procs : pc[q] \in {"closed", "dumped", "quit"}
    /\ pc[p] = "closed"
    /\ hash' = [h \in Chains |-> 0] /\ free' = 0
    /\ idx' = <<>> /\ dat' = <<>>
    /\ dict' = [k \in Keys |-> None]
    /\ Goto(p, "ready")
    /\ Set(p, Idle(p, 1))
    /\ Rewound(p)
    /\ UNCHANGED lock

db_close(p) ==
    /\ pc[p] = "ready"
    /\ Goto(p, "closed")
    /\ Set(p, Closed)
    /\ un_lock_all(p)
    /\ Forget(p)
    /\ UNCHANGED <<files, dict>>

db_rewind(p) ==
    /\ pc[p] = "ready" /\ p \in Scanners
    /\ Set(p, [db[p] EXCEPT !.pos = 1])
    /\ Rewound(p)
    /\ UNCHANGED <<files, lock, pc, dict>>

\* The entry of db_fetch, db_delete and db_store.
Call(p, op, k, v) ==
    /\ pc[p] = "ready" /\ (op \in Storing <=> v # None)
    /\ op \in Storing => Len(idx) + Cardinality({q \in Procs : db[q].op \in Storing}) < NREC  \* bound
    /\ Set(p, [db[p] EXCEPT !.op = op, !.key = k, !.val = v])
    /\ Goto(p, "find")
    /\ touched' = [q \in Scanners |-> IF q = p \/ ~seen[q].clean THEN {}
                                      ELSE IF op \in Writing THEN touched[q] \cup {k} ELSE touched[q]]
    /\ seen' = [q \in Scanners |-> IF q = p THEN [NewScan EXCEPT !.clean = FALSE] ELSE seen[q]]
    /\ UNCHANGED <<files, lock, dict>>

-----------------------------------------------------------------------------
(* _db_find_and_lock *)

FindLock(p) ==
    /\ pc[p] = "find"
    /\ IF db[p].op = "fetch" THEN readw_lock(p, Chain(p)) ELSE writew_lock(p, Chain(p))
    /\ Set(p, [db[p] EXCEPT !.ptroff = 0, !.off = hash[Chain(p)], !.pos = 0])
    /\ Goto(p, "walk")
    /\ UNCHANGED <<files, dict, ghosts>>

\* One turn of its loop that goes on to the next record.
WalkOn(p) ==
    LET i == db[p].off IN
    /\ pc[p] = "walk"
    /\ i # 0 /\ idx[i].key # db[p].key
    /\ Set(p, [readidx(p, i) EXCEPT !.ptroff = i, !.off = idx[i].ptr])
    /\ UNCHANGED <<files, lock, pc, dict, ghosts>>

\* Not found: the callers' error returns, or the way to a new record.
WalkMiss(p) ==
    /\ pc[p] = "walk" /\ db[p].off = 0
    /\ \/ db[p].op = "fetch" /\ Effect(p, db[p], None, Kept(p))
       \/ db[p].op \in {"delete", "replace"} /\ Effect(p, db[p], -1, Kept(p))
       \/ /\ db[p].op \in {"insert", "store"}
          /\ Set(p, [db[p] EXCEPT !.save = hash[Chain(p)], !.pos = 0])
          /\ Goto(p, "findfree")
          /\ UNCHANGED dict
    /\ UNCHANGED <<files, lock, ghosts>>

WalkHit(p) ==
    LET i == db[p].off
        r == readidx(p, i)
    IN
    /\ pc[p] = "walk"
    /\ i # 0 /\ idx[i].key = db[p].key
    /\ \/ db[p].op = "insert" /\ Effect(p, r, 1, Kept(p))
       \/ /\ db[p].op # "insert"
          /\ Set(p, r)
          /\ Goto(p, CASE db[p].op = "fetch" -> "fetchdat"
                       [] db[p].op = "delete" -> "dellock"
                       [] OTHER -> IF DatLen[db[p].val] = r.datlen THEN "overwrite" ELSE "dellock")
          /\ UNCHANGED dict
    /\ UNCHANGED <<files, lock, ghosts>>

\* _db_readdat: the record ends with the newline that its length promises.
Readable(p) == dat[db[p].datoff].len = db[p].datlen

FetchDat(p) ==
    /\ pc[p] = "fetchdat"
    /\ IF Readable(p)
       THEN Effect(p, db[p], dat[db[p].datoff].val, Kept(p)) /\ UNCHANGED <<files, lock>>
       ELSE Ends(p, "dumped") /\ UNCHANGED dict
    /\ UNCHANGED ghosts

\* The un_lock at the end of db_fetch, db_delete and db_store.
Unlock(p) ==
    /\ pc[p] = "unlock"
    /\ un_lock(p, Chain(p))
    /\ Set(p, Idle(p, db[p].pos))
    /\ Goto(p, "ready")
    /\ UNCHANGED <<files, dict, ghosts>>

-----------------------------------------------------------------------------
(* _db_dodelete *)

DelLock(p) ==
    /\ pc[p] = "dellock"
    /\ writew_lock(p, "free")
    /\ Goto(p, "deldat")
    /\ UNCHANGED <<files, db, dict, ghosts>>

DelDat(p) ==
    /\ pc[p] = "deldat"
    /\ dat' = [dat EXCEPT ![db[p].datoff] = [val |-> None, len |-> db[p].datlen]]
    /\ Goto(p, "delidx")
    /\ UNCHANGED <<hash, free, idx, lock, db, dict, ghosts>>

\* The free list pointer is read, the old chain pointer is saved.
DelIdx(p) ==
    LET i == db[p].idxoff IN
    /\ pc[p] = "delidx"
    /\ idx' = [idx EXCEPT ![i].key = None, ![i].ptr = free]
    /\ Set(p, [db[p] EXCEPT !.save = db[p].ptrval, !.ptrval = free, !.pos = IF p \in Scanners THEN i + 1 ELSE 0])
    /\ Goto(p, "delfree")
    /\ UNCHANGED <<hash, free, dat, lock, dict, ghosts>>

DelFree(p) ==
    /\ pc[p] = "delfree"
    /\ free' = db[p].idxoff
    /\ Goto(p, "dellink")
    /\ UNCHANGED <<hash, idx, dat, lock, db, dict, ghosts>>

\* _db_writeptr to the chain pointer that pointed to the record.
WritePtr(p, off, i) ==
    IF off = 0
    THEN hash' = [hash EXCEPT ![Chain(p)] = i] /\ UNCHANGED idx
    ELSE idx' = [idx EXCEPT ![off].ptr = i] /\ UNCHANGED hash

\* Mutant: the pointer of the chain is not moved past the record.
DelLink_Forgotten(p) ==
    /\ pc[p] = "dellink"
    /\ un_lock(p, "free")
    /\ \/ db[p].op = "delete" /\ Effect(p, [db[p] EXCEPT !.pos = 0], 0, None)
       \/ db[p].op # "delete" /\ Goto(p, "reread") /\ Set(p, [db[p] EXCEPT !.pos = 0]) /\ UNCHANGED dict
    /\ UNCHANGED <<files, ghosts>>

DelLink(p) ==
    /\ pc[p] = "dellink"
    /\ WritePtr(p, db[p].ptroff, db[p].save)
    /\ un_lock(p, "free")
    /\ \/ db[p].op = "delete" /\ Effect(p, [db[p] EXCEPT !.pos = 0], 0, None)
       \/ db[p].op # "delete" /\ Goto(p, "reread") /\ Set(p, [db[p] EXCEPT !.pos = 0]) /\ UNCHANGED dict
    /\ UNCHANGED <<free, dat, ghosts>>

-----------------------------------------------------------------------------
(* The rest of db_store *)

\* Found with data of the same length.
Overwrite(p) ==
    /\ pc[p] = "overwrite"
    /\ dat' = [dat EXCEPT ![db[p].datoff] = [val |-> db[p].val, len |-> DatLen[db[p].val]]]
    /\ Effect(p, db[p], 0, db[p].val)
    /\ UNCHANGED <<hash, free, idx, lock, ghosts>>

\* "Reread the chain ptr in the hash table (it may change with the deletion)."
Reread(p) ==
    /\ pc[p] = "reread"
    /\ Set(p, [db[p] EXCEPT !.save = hash[Chain(p)], !.pos = 0])
    /\ Goto(p, "appdat")
    /\ UNCHANGED <<files, lock, dict, ghosts>>

\* _db_findfree: off is the record looked at, ptroff the one before it.
FreeLock(p) ==
    /\ pc[p] = "findfree"
    /\ writew_lock(p, "free")
    /\ Set(p, [db[p] EXCEPT !.ptroff = 0, !.off = free, !.pos = 0])
    /\ Goto(p, "freewalk")
    /\ UNCHANGED <<files, dict, ghosts>>

Fits(p, i) == idx[i].klen = KeyLen[db[p].key] /\ idx[i].dlen = DatLen[db[p].val]

FreeOn(p) ==
    LET i == db[p].off IN
    /\ pc[p] = "freewalk"
    /\ i # 0 /\ ~Fits(p, i)
    /\ Set(p, [readidx(p, i) EXCEPT !.ptroff = i, !.off = idx[i].ptr])
    /\ UNCHANGED <<files, lock, pc, dict, ghosts>>

FreeMiss(p) ==
    /\ pc[p] = "freewalk" /\ db[p].off = 0
    /\ un_lock(p, "free")
    /\ Goto(p, "appdat")
    /\ UNCHANGED <<files, db, dict, ghosts>>

FreeHit(p) ==
    LET i == db[p].off
        o == db[p].ptroff
    IN
    /\ pc[p] = "freewalk"
    /\ i # 0 /\ Fits(p, i)
    /\ IF o = 0 THEN free' = idx[i].ptr /\ UNCHANGED idx
       ELSE idx' = [idx EXCEPT ![o].ptr = idx[i].ptr] /\ UNCHANGED free
    /\ un_lock(p, "free")
    /\ Set(p, [readidx(p, i) EXCEPT !.pos = 0])
    /\ Goto(p, "reusedat")
    /\ UNCHANGED <<hash, dat, dict, ghosts>>

Datum(p) == [val |-> db[p].val, len |-> DatLen[db[p].val]]

Record(p, d) ==
    [ptr |-> db[p].save, key |-> db[p].key, klen |-> KeyLen[db[p].key],
     dat |-> d, dlen |-> DatLen[db[p].val]]

ReuseDat(p) ==
    /\ pc[p] = "reusedat"
    /\ dat' = [dat EXCEPT ![db[p].datoff] = Datum(p)]
    /\ Goto(p, "reuseidx")
    /\ UNCHANGED <<hash, free, idx, lock, db, dict, ghosts>>

ReuseIdx(p) ==
    LET i == db[p].idxoff IN
    /\ pc[p] = "reuseidx"
    /\ idx' = [idx EXCEPT ![i] = Record(p, db[p].datoff)]
    /\ Set(p, [db[p] EXCEPT !.pos = IF p \in Scanners THEN i + 1 ELSE 0])
    /\ Goto(p, "link")
    /\ UNCHANGED <<hash, free, dat, lock, dict, ghosts>>

\* Mutant of AppDatSeek: the end of the data file is found without its lock.
AppDatSeek_Unlocked(p) ==
    /\ pc[p] = "appdat"
    /\ Set(p, [db[p] EXCEPT !.datoff = Len(dat) + 1])
    /\ Goto(p, "appdatwrite")
    /\ UNCHANGED <<files, lock, dict, ghosts>>

\* _db_writedat and _db_writeidx with SEEK_END: lock and lseek, then write and
\* unlock.  Two writers that seek alike would write to the same place.
AppDatSeek(p) ==
    /\ pc[p] = "appdat"
    /\ writew_lock(p, "datend")
    /\ Set(p, [db[p] EXCEPT !.datoff = Len(dat) + 1])
    /\ Goto(p, "appdatwrite")
    /\ UNCHANGED <<files, dict, ghosts>>

Put(s, i, x) == IF i > Len(s) THEN Append(s, x) ELSE [s EXCEPT ![i] = x]

AppDatWrite(p) ==
    /\ pc[p] = "appdatwrite"
    /\ dat' = Put(dat, db[p].datoff, Datum(p))
    /\ un_lock(p, "datend")
    /\ Goto(p, "appidx")
    /\ UNCHANGED <<hash, free, idx, db, dict, ghosts>>

AppIdxSeek(p) ==
    /\ pc[p] = "appidx"
    /\ writew_lock(p, "idxend")
    /\ Set(p, [db[p] EXCEPT !.idxoff = Len(idx) + 1])
    /\ Goto(p, "appidxwrite")
    /\ UNCHANGED <<files, dict, ghosts>>

AppIdxWrite(p) ==
    /\ pc[p] = "appidxwrite"
    /\ idx' = Put(idx, db[p].idxoff, Record(p, db[p].datoff))
    /\ un_lock(p, "idxend")
    /\ Set(p, [db[p] EXCEPT !.pos = IF p \in Scanners THEN db[p].idxoff + 1 ELSE 0])
    /\ Goto(p, "link")
    /\ UNCHANGED <<hash, free, dat, dict, ghosts>>

\* _db_writeptr to the hash table; a record that the pointer cannot reach ends
\* the process with the record in the file and in no chain.
Link(p) ==
    LET i == db[p].idxoff IN
    /\ pc[p] = "link"
    /\ IF i <= PTR_MAX
       THEN /\ hash' = [hash EXCEPT ![Chain(p)] = i]
            /\ Effect(p, [db[p] EXCEPT !.pos = 0], 0, db[p].val)
            /\ UNCHANGED <<free, idx, dat, lock, ghosts>>
       ELSE /\ Ends(p, "quit")
            /\ dict' = [dict EXCEPT ![db[p].key] = None]
            /\ UNCHANGED ghosts

-----------------------------------------------------------------------------
(* db_nextrec *)

NextLock(p) ==
    /\ p \in Scanners /\ pc[p] = "ready"
    /\ readw_lock(p, "free")
    /\ Set(p, [db[p] EXCEPT !.op = "nextrec"])
    /\ Goto(p, "nextidx")
    /\ UNCHANGED <<files, dict, ghosts>>

\* Not at a record (another call moved the offset into the hash table): what is
\* read there is no index record.
NextDump(p) ==
    /\ pc[p] = "nextidx" /\ db[p].pos = 0
    /\ Ends(p, "dumped")
    /\ UNCHANGED <<dict, ghosts>>

NextEof(p) ==
    /\ pc[p] = "nextidx" /\ db[p].pos > Len(idx)
    /\ un_lock(p, "free")
    /\ Set(p, Idle(p, db[p].pos))
    /\ Goto(p, "ready")
    /\ seen' = [seen EXCEPT ![p].eof = seen[p].clean]
    /\ UNCHANGED <<files, dict, touched>>

NextIdx(p) ==
    LET i == db[p].pos IN
    /\ pc[p] = "nextidx" /\ i \in DOMAIN idx
    /\ Set(p, [readidx(p, i) EXCEPT !.key = idx[i].key])
    /\ Goto(p, IF idx[i].key = None THEN "nextidx" ELSE "nextdat")
    /\ UNCHANGED <<files, lock, dict, ghosts>>

NextDat(p) ==
    LET k == db[p].key IN
    /\ pc[p] = "nextdat"
    /\ IF Readable(p)
       THEN /\ un_lock(p, "free")
            /\ Set(p, Idle(p, db[p].pos))
            /\ Goto(p, "ready")
            /\ seen' = IF ~seen[p].clean THEN seen
                       ELSE [seen EXCEPT ![p].eof = FALSE, ![p].keys = @ \cup {k},
                                         ![p].again = IF k \in seen[p].keys THEN @ \cup {k} ELSE @]
            /\ UNCHANGED <<files, dict, touched>>
       ELSE Ends(p, "dumped") /\ UNCHANGED <<dict, ghosts>>

\* A new process takes the place of one that ended.
Restart(p) ==
    /\ pc[p] \in {"dumped", "quit"}
    /\ Goto(p, "closed")
    /\ Forget(p)
    /\ UNCHANGED <<files, lock, db, dict>>

-----------------------------------------------------------------------------
Step(p) ==
    \/ db_open(p) \/ db_create(p) \/ db_close(p) \/ db_rewind(p) \/ Restart(p)
    \/ \E c \in Calls[p], v \in Vals \cup {None} : Call(p, c[1], c[2], v)
    \/ FindLock(p) \/ WalkOn(p) \/ WalkMiss(p) \/ WalkHit(p) \/ FetchDat(p) \/ Unlock(p)
    \/ DelLock(p) \/ DelDat(p) \/ DelIdx(p) \/ DelFree(p) \/ DelLink(p)
    \/ Overwrite(p) \/ Reread(p) \/ FreeLock(p) \/ FreeOn(p) \/ FreeMiss(p) \/ FreeHit(p)
    \/ ReuseDat(p) \/ ReuseIdx(p) \/ Link(p)
    \/ AppDatSeek(p) \/ AppDatWrite(p) \/ AppIdxSeek(p) \/ AppIdxWrite(p)
    \/ NextLock(p) \/ NextDump(p) \/ NextEof(p) \/ NextIdx(p) \/ NextDat(p)

Next == \E p \in Procs : Step(p)

Spec == Init /\ [][Next]_vars

-----------------------------------------------------------------------------
(* Properties *)

Offsets == 0..NREC + 1

TypeOK ==
    /\ DOMAIN hash = Chains /\ Len(idx) <= NREC /\ Len(dat) <= NREC
    /\ \A i \in DOMAIN idx : idx[i].key \in Keys \cup {None}
    /\ \A l \in Locks, p \in Procs : lock[l][p] \in {"none", "read", "write"}
    /\ \A p \in Procs : {db[p].ptroff, db[p].off, db[p].idxoff, db[p].pos} \subseteq Offsets
    /\ dict \in [Keys -> Vals \cup {None}]

\* The records that n steps along the pointers from i reach.
Reached(i, n) ==
    LET f[m \in 0..n] == IF m = 0 THEN <<i>>
                         ELSE LET s == f[m - 1]
                                  j == s[Len(s)]
                              IN IF j = 0 THEN s ELSE Append(s, idx[j].ptr)
    IN f[n]

\* The list from i ends, and its members; a list that does not end is a cycle.
Members(i) == LET s == Reached(i, NREC + 1) IN {s[j] : j \in DOMAIN s} \ {0}
EndsIn0(i) == LET s == Reached(i, NREC + 1) IN s[Len(s)] = 0

\* A chain that nobody has locked for writing holds exactly the pairs that the
\* calls so far have stored, every key once, and reaches no deleted record:
\* what db_store and _db_dodelete leave behind when they unlock it.
FilesMatch ==
    \A h \in Chains :
        (\A p \in Procs : lock[h][p] # "write") =>
            /\ EndsIn0(hash[h])
            /\ \A i \in Members(hash[h]) : /\ idx[i].key # None /\ Hash[idx[i].key] = h
                                          /\ dat[idx[i].dat] = [val |-> dict[idx[i].key], len |-> idx[i].dlen]
            /\ \A k \in Keys : Hash[k] = h =>
                   Cardinality({i \in Members(hash[h]) : idx[i].key = k}) = IF dict[k] = None THEN 0 ELSE 1

\* While nobody holds the lock of the free list for writing, it holds exactly
\* the deleted records, without those that a db_store has taken and not yet
\* rewritten: _db_dodelete and _db_findfree lose no record and list none twice.
FreeExact ==
    (\A p \in Procs : lock["free"][p] # "write") =>
        /\ EndsIn0(free)
        /\ Members(free) = {i \in DOMAIN idx : idx[i].key = None}
                             \ {db[p].idxoff : p \in {q \in Procs : pc[q] \in {"reusedat", "reuseidx"}}}

\* The places of a call that has locked its chain, of one that has the free list
\* to itself, and of a scan that reads it.
Working ==
    {"walk", "fetchdat", "unlock", "dellock", "deldat", "delidx", "delfree", "dellink", "overwrite", "reread", "findfree",
     "freewalk", "reusedat", "reuseidx", "appdat", "appdatwrite", "appidx", "appidxwrite", "link"}
Relisting == {"deldat", "delidx", "delfree", "dellink", "freewalk"}
Scanning == {"nextidx", "nextdat"}

\* While a call works on a chain, others on the same chain fetch, and so does it.
ChainApart ==
    \A p, q \in Procs : p # q /\ pc[p] \in Working /\ pc[q] \in Working /\ Chain(p) = Chain(q) => db[p].op = "fetch"

\* While a call changes or walks the free list, no other does and nobody scans.
FreeApart == \A p, q \in Procs : p # q /\ pc[p] \in Relisting => pc[q] \notin Relisting \cup Scanning

\* Every chain pointer is the number of a record of the index file that PTR_SZ
\* digits can hold, or 0; every index record names a record of the data file.
PointersInFile ==
    /\ \A n \in {free} \cup {hash[h] : h \in Chains} \cup {idx[i].ptr : i \in DOMAIN idx} : n = 0 \/ (n \in DOMAIN idx /\ n <= PTR_MAX)
    /\ \A i \in DOMAIN idx : idx[i].dat \in DOMAIN dat

\* No two index records share a data record: _db_writedat and _db_writeidx with
\* SEEK_END give every writer a place of its own.
DataOwned == \A i, j \in DOMAIN idx : i # j => idx[i].dat # idx[j].dat

\* What the record locks of db.c are for: writers stay apart on a chain, on the
\* free list and at the ends of the files, and so every pointer leads to a record.
WritersApart == ChainApart /\ FreeApart /\ PointersInFile /\ DataOwned

\* db_nextrec returns a pair that is stored, or that a db_store is about to
\* store, although it takes no chain lock; records past PTR_MAX excepted.
NextrecReal ==
    \A p \in Procs : pc[p] = "nextdat" =>
        LET k == db[p].key
            v == dat[db[p].datoff].val
        IN \/ dict[k] = v
           \/ \E q \in Procs : db[q].op \in Storing /\ db[q].key = k /\ db[q].val = v
           \/ db[p].idxoff > PTR_MAX

\* Keys of records that _db_writeptr refused to link.
Orphans == {idx[i].key : i \in {j \in DOMAIN idx : j > PTR_MAX}}

\* A scan from db_rewind to the end of the file has returned every key that
\* nobody changed meanwhile once if it is stored, and not if it is not.
ScanComplete ==
    \A p \in Scanners : seen[p].clean /\ seen[p].eof =>
        \A k \in Keys \ (touched[p] \cup Orphans) :
            (k \in seen[p].keys <=> dict[k] # None) /\ k \notin seen[p].again

\* err_dump is reached by a scan that another call has disturbed and by nothing
\* else: no interleaving makes db_fetch or an undisturbed scan read a bad record.
NoDump == \A p \in Procs : pc[p] = "dumped" => p \in Scanners /\ ~seen[p].clean

\* What the two files hold, and what a scan makes of them, at every point where no
\* lock is held: the index, the free list and the data agree with the calls so far.
FilesSound ==
    /\ TypeOK /\ FilesMatch /\ FreeExact
    /\ NextrecReal /\ ScanComplete /\ NoDump

Kv == INSTANCE KvStore WITH
    ret <- [p \in Procs |-> IF pc[p] = "unlock" THEN [op |-> db[p].op, key |-> db[p].key, rc |-> db[p].rc]
                            ELSE None]

\* The calls of all processes take effect one at a time on one dictionary.
ImplementsKv == Kv!Spec
=============================================================================
