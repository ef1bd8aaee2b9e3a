---------------------------- MODULE FilesProofs ----------------------------
(***************************************************************************)
(* The descriptor table of fs.c, for any set of CPUs, any size of the      *)
(* table and any files: no reference in use is uncounted, and no           *)
(* descriptor that open returned loses its file object, as long as no two  *)
(* CPUs were at once where the code updates one reference count without a  *)
(* lock, and callers pass no descriptor of the table that is not theirs.   *)
(* Both conditions are needed: an update of two is lost, and a second      *)
(* close of a descriptor drops another's reference.                        *)
(*                                                                         *)
(* A step of a call is described by its effect on one entry of the table   *)
(* (Effect), and one lemma shows that any such effect keeps the invariant  *)
(* (EffectKeeps).  Then each step of fs.c is shown to have such an effect. *)
(***************************************************************************)
EXTENDS Files, TLAPS, FiniteSetTheorems

\* What the proofs need of the constants.
LEMMA Sizes == IsFiniteSet(CPUs) /\ FS_FD_MAX \in Nat \ {0}
BY FilesAssumption, Zenon

-----------------------------------------------------------------------------
(* The inductive invariant. *)

\* What the callers must keep to: no entry of the table is passed that open has
\* not returned, or that somebody has closed.
OwnDescriptors == ExtraFds \cap Fd = {}

\* The fields of an open FatFs object, and of a call.
Fields == {"file", "ptr", "len", "modified", "read", "write"}
CallFields == {"op", "at", "fd", "val", "puts", "arg"}

\* A call under way names an entry of the table; only open is in fd_new, and
\* only close puts twice.
CallOk(c) ==
    /\ DOMAIN call[c] = CallFields
    /\ call[c].op = "user" <=> call[c].at = "user"
    /\ call[c].at # "user" => call[c].fd \in Fd
    /\ call[c].at \in {"scan", "new"} => call[c].op = "open"
    /\ call[c].at = "seek" => call[c].op = "seek"
    /\ call[c].op = "bad" => call[c].at \in {"call", "get"}
    /\ call[c].puts \in 0 .. 2
    /\ call[c].puts = 2 => call[c].op = "close"
    /\ call[c].op = "close" /\ call[c].at \in {"call", "get", "file"} => call[c].puts = 2
    /\ call[c].op = "close" => call[c].puts # 0

\* The count that a call has loaded or tested is still the one in the table.
ValOk(c) ==
    /\ call[c].at \in {"get", "dec"} => call[c].val = ref[call[c].fd]
    /\ call[c].at = "new" => ref[call[c].fd] <= 0
    /\ call[c].at = "clear" => ref[call[c].fd] = 0

\* An open that has succeeded and is about to return has its file object.
OpenOk(c) ==
    call[c].op = "open" /\ call[c].at \in {"put", "dec", "test", "clear"} /\ call[c].arg = "FR_OK"
        => fil[call[c].fd] # Closed

\* The table holds counts, and file objects that are open or Closed.
TableTyped ==
    /\ ref \in [Fd -> Int] /\ owned \subseteq Fd /\ DOMAIN fil = Fd
    /\ \A fd \in Fd : fil[fd] = Closed \/ DOMAIN fil[fd] = Fields

\* An entry that is taken is in one open, or in one close, or a caller has it.
OneKeeper ==
    /\ \A c, d \in CPUs : Keeps(c) /\ Keeps(d) /\ call[c].fd = call[d].fd => c = d
    /\ \A c \in CPUs : Keeps(c) => call[c].fd \notin owned

CallsOk == DOMAIN call = CPUs /\ \A c \in CPUs : CallOk(c)
ValsOk == \A c \in CPUs : ValOk(c)
OpensOk == \A c \in CPUs : OpenOk(c)

FdInv ==
    /\ CallsOk /\ TableTyped /\ ~Overlap(call) /\ ValsOk /\ OpensOk
    /\ OneKeeper /\ RefCovers /\ OwnedIsOpen

\* The invariant is kept until two updates have overlapped.
FilesInv == raced \in BOOLEAN /\ (~raced => FdInv)

\* fs_init leaves an empty table and no call.
LEMMA InitFdInv == FileInit => FilesInv
<1> SUFFICES ASSUME FileInit PROVE FdInv /\ raced \in BOOLEAN
  BY Zenon DEF FilesInv
<1>1. DOMAIN call = CPUs /\ \A c \in CPUs : call[c] = User
  BY Zenon DEF FileInit
<1>2. \A c \in CPUs : call[c].op = "user" /\ call[c].at = "user"
  BY <1>1 DEF User
<1>3. CallsOk
  BY <1>1 DEF CallsOk, CallOk, User, CallFields
<1>4. TableTyped
  BY DEF FileInit, TableTyped
<1>5. \A c \in CPUs : ~Holds(c) /\ ~Keeps(c)
  BY <1>2, Zenon DEF Holds, Keeps
<1>6. \A fd : Users(fd) = {} /\ ~Kept(fd)
  BY <1>5, Zenon DEF Users, Kept, FileInit
<1>7. \A fd \in Fd : Accounted(fd) = 0
  BY <1>6, FS_EmptySet DEF Accounted
<1>8. RefCovers
  BY <1>7 DEF FileInit, RefCovers
<1>9. ~Overlap(call)
  BY <1>2, Zenon DEF Overlap, Unlocked
<1>10. ValsOk /\ OpensOk
  BY <1>2, Zenon DEF ValsOk, ValOk, OpensOk, OpenOk
<1>11. OneKeeper /\ OwnedIsOpen /\ raced \in BOOLEAN
  BY <1>5, Zenon DEF OneKeeper, OwnedIsOpen, FileInit
<1> QED
  BY <1>3, <1>4, <1>8, <1>9, <1>10, <1>11, Zenon DEF FdInv

-----------------------------------------------------------------------------
(* The effect of a step. *)

\* Counting the calls on an entry when one of them moves on.
LEMMA Counts ==
    ASSUME NEW S \in SUBSET CPUs, NEW T \in SUBSET CPUs, NEW c \in CPUs, S \ {c} = T \ {c}
    PROVE  /\ Cardinality(S) \in Nat /\ Cardinality(T) \in Nat
           /\ (c \in S <=> c \in T) => Cardinality(T) = Cardinality(S)
           /\ c \in T /\ c \notin S => Cardinality(T) = Cardinality(S) + 1
           /\ c \in S /\ c \notin T => Cardinality(T) = Cardinality(S) - 1
<1>1. IsFiniteSet(S) /\ IsFiniteSet(T)
  BY Sizes, FS_Subset, Zenon
<1>2. Cardinality(S) \in Nat /\ Cardinality(T) \in Nat
  BY <1>1, FS_CardinalityType, Zenon
<1>3. (c \in S <=> c \in T) => Cardinality(T) = Cardinality(S)
  <2>1. (c \in S <=> c \in T) => S = T
    OBVIOUS
  <2> QED
    BY <2>1, Zenon
<1>4. c \in T /\ c \notin S => Cardinality(T) = Cardinality(S) + 1
  <2>1. c \in T /\ c \notin S => T = S \cup {c}
    BY Zenon
  <2> QED
    BY <1>1, <2>1, FS_AddElement, Zenon
<1>5. c \in S /\ c \notin T => Cardinality(T) = Cardinality(S) - 1
  <2>1. c \in S /\ c \notin T => T = S \ {c}
    BY Zenon
  <2> QED
    BY <1>1, <2>1, FS_RemoveElement, Zenon
<1> QED
  BY <1>2, <1>3, <1>4, <1>5, Zenon

\* Only the call of CPU c moves on, to another legal place, and with it only entry
\* f of the table may change.
Moved(c) ==
    /\ DOMAIN call' = CPUs /\ CallOk(c)'
    /\ \A d \in CPUs \ {c} : call'[d] = call[d]
OnlyEntry(c, f) ==
    /\ Moved(c) /\ TableTyped' /\ ValOk(c)' /\ OpenOk(c)'
    /\ Holds(c) \/ Keeps(c) => call[c].fd = f
    /\ Holds(c)' \/ Keeps(c)' => call'[c].fd = f
    /\ \A g \in Fd \ {f} : ref'[g] = ref[g] /\ fil'[g] = fil[g] /\ (g \in owned' <=> g \in owned)

\* The count changes only where a lock would have to be held, and by as much as
\* the references that c takes or gives back.
One(P) == IF P THEN 1 ELSE 0
Counted(c, f) ==
    /\ ref'[f] # ref[f] => call[c].fd = f /\ call[c].at \in Unlocked
    /\ ref'[f] - ref[f] >= (One(Holds(c)') + One(Kept(f)')) - (One(Holds(c)) + One(Kept(f)))

\* The entry changes hands between c and a caller, or c takes one that is free;
\* only who has the entry to itself closes its file object.
Handed(c, f) ==
    /\ Keeps(c)' => f \notin owned' /\ (Keeps(c) \/ f \in owned \/ ~Kept(f))
    /\ f \in owned' /\ f \notin owned => Keeps(c) /\ ~Keeps(c)' /\ fil'[f] # Closed
    /\ fil'[f] = Closed => fil[f] = Closed \/ (f \notin owned' /\ (Keeps(c) \/ ~Kept(f)))

Effect(c, f) == OnlyEntry(c, f) /\ Counted(c, f) /\ Handed(c, f)

\* While a call is between two accesses of a count, nobody else is on that entry.
LEMMA Exclusive ==
    ASSUME ~Overlap(call), NEW c \in CPUs, NEW d \in CPUs, c # d, call[c].at \in Unlocked,
           call[d].at \in Unlocked
    PROVE  call[c].fd # call[d].fd
BY Zenon DEF Overlap

\* The other entries: the same calls hold them, and the same have them.
LEMMA Elsewhere ==
    ASSUME NEW c \in CPUs, NEW f \in Fd, OnlyEntry(c, f), NEW g \in Fd, g # f
    PROVE  Users(g)' = Users(g) /\ (Kept(g)' <=> Kept(g))
<1>1. \A d \in CPUs \ {c} : call'[d] = call[d]
  BY Zenon DEF OnlyEntry, Moved
<1>2. \A d \in CPUs \ {c} : (Holds(d)' <=> Holds(d)) /\ (Keeps(d)' <=> Keeps(d))
  BY <1>1, Zenon DEF Holds, Keeps
<1>3. /\ Holds(c) \/ Keeps(c) => call[c].fd # g
      /\ Holds(c)' \/ Keeps(c)' => call'[c].fd # g
      /\ g \in owned' <=> g \in owned
  BY Zenon DEF OnlyEntry
<1>4. Users(g)' = Users(g)
  BY <1>1, <1>2, <1>3, Zenon DEF Users
<1>5. Kept(g)' <=> Kept(g)
  BY <1>1, <1>2, <1>3, Zenon DEF Kept
<1> QED
  BY <1>4, <1>5, Zenon

\* Every reference stays counted.
LEMMA EffectCovers ==
    ASSUME FdInv, NEW c \in CPUs, NEW f \in Fd, Effect(c, f)
    PROVE  RefCovers'
<1>0. OnlyEntry(c, f) /\ Counted(c, f) /\ TableTyped /\ TableTyped' /\ RefCovers
  BY Zenon DEF Effect, OnlyEntry, FdInv
<1>1. ASSUME NEW g \in Fd, g # f PROVE ref'[g] >= Accounted(g)'
  <2>1. Accounted(g)' = Accounted(g)
    BY <1>0, <1>1, Elsewhere, Zenon DEF Accounted
  <2> QED
    BY <1>0, <1>1, <2>1, Zenon DEF RefCovers, OnlyEntry
<1>2. ref'[f] >= Accounted(f)'
  <2> DEFINE S == Users(f)
             T == Users(f)'
  <2>1. S \in SUBSET CPUs /\ T \in SUBSET CPUs
    BY Zenon DEF Users
  <2>2. \A d \in CPUs \ {c} : call'[d] = call[d] /\ (Holds(d)' <=> Holds(d))
    BY <1>0, Zenon DEF OnlyEntry, Moved, Holds
  <2>3. S \ {c} = T \ {c}
    BY <2>2, Zenon DEF Users
  <2>4. (c \in S <=> Holds(c)) /\ (c \in T <=> Holds(c)')
    BY <1>0, Zenon DEF OnlyEntry, Users
  <2> HIDE DEF S, T
  <2>5. /\ Cardinality(S) \in Nat /\ Cardinality(T) \in Nat
        /\ Cardinality(T) = Cardinality(S) + One(Holds(c)') - One(Holds(c))
    <3>1. /\ Cardinality(S) \in Nat /\ Cardinality(T) \in Nat
          /\ (c \in S <=> c \in T) => Cardinality(T) = Cardinality(S)
          /\ c \in T /\ c \notin S => Cardinality(T) = Cardinality(S) + 1
          /\ c \in S /\ c \notin T => Cardinality(T) = Cardinality(S) - 1
      BY <2>1, <2>3, Counts, Zenon
    <3> QED
      BY <2>4, <3>1 DEF One
  <2>6. /\ Accounted(f) = Cardinality(S) + One(Kept(f))
        /\ Accounted(f)' = Cardinality(T) + One(Kept(f)')
    BY Zenon DEF Accounted, One, S, T
  <2>7. ref[f] \in Int /\ ref'[f] \in Int /\ ref[f] >= Accounted(f)
    BY <1>0, Zenon DEF TableTyped, RefCovers
  <2>8. ref'[f] - ref[f] >= (One(Holds(c)') + One(Kept(f)')) - (One(Holds(c)) + One(Kept(f)))
    BY <1>0, Zenon DEF Counted
  <2>9. /\ One(Holds(c)) \in Int /\ One(Holds(c)') \in Int
        /\ One(Kept(f)) \in Int /\ One(Kept(f)') \in Int
    BY DEF One
  <2> QED
    BY <2>5, <2>6, <2>7, <2>8, <2>9
<1> QED
  BY <1>1, <1>2, Zenon DEF RefCovers

\* What the other calls have loaded or tested stays as it is.
LEMMA EffectVals ==
    ASSUME FdInv, NEW c \in CPUs, NEW f \in Fd, Effect(c, f)
    PROVE  ValsOk'
<1>0. OnlyEntry(c, f) /\ Counted(c, f) /\ ~Overlap(call) /\ ValsOk /\ CallsOk
  BY Zenon DEF Effect, FdInv
<1>1. ASSUME NEW d \in CPUs, d # c PROVE ValOk(d)'
  <2>1. call'[d] = call[d] /\ ValOk(d) /\ CallOk(d)
    BY <1>0, <1>1, Zenon DEF OnlyEntry, Moved, ValsOk, CallsOk
  <2>2. CASE call[d].at \in Unlocked
    <3>1. call[d].fd \in Fd
      BY <2>1, <2>2, Zenon DEF CallOk, Unlocked
    <3>2. ref'[call[d].fd] = ref[call[d].fd]
      <4>1. CASE call[d].fd # f
        BY <1>0, <3>1, <4>1, Zenon DEF OnlyEntry
      <4>2. CASE call[d].fd = f
        BY <1>0, <1>1, <2>2, <4>2, Exclusive, Zenon DEF Counted
      <4> QED
        BY <4>1, <4>2, Zenon
    <3> QED
      BY <2>1, <3>2, Zenon DEF ValOk
  <2>3. CASE call[d].at \notin Unlocked
    BY <2>1, <2>3, Zenon DEF ValOk, Unlocked
  <2> QED
    BY <2>2, <2>3, Zenon
<1>2. ValOk(c)'
  BY <1>0, Zenon DEF OnlyEntry
<1> QED
  BY <1>1, <1>2, Zenon DEF ValsOk

\* An entry has one keeper at a time.
LEMMA EffectKeeper ==
    ASSUME FdInv, NEW c \in CPUs, NEW f \in Fd, Effect(c, f)
    PROVE  OneKeeper'
<1>0. OnlyEntry(c, f) /\ Handed(c, f) /\ OneKeeper /\ CallsOk
  BY Zenon DEF Effect, FdInv
<1>1. \A d \in CPUs \ {c} : call'[d] = call[d] /\ (Keeps(d)' <=> Keeps(d))
  BY <1>0, Zenon DEF OnlyEntry, Moved, Keeps
<1>2. \A d \in CPUs : Keeps(d) => call[d].fd \in Fd /\ call[d].fd \notin owned
  BY <1>0, Zenon DEF CallsOk, CallOk, Keeps, OneKeeper
<1>3. /\ Keeps(c) => call[c].fd = f
      /\ Keeps(c)' => call'[c].fd = f
      /\ \A g \in Fd \ {f} : g \in owned' <=> g \in owned
  BY <1>0, Zenon DEF OnlyEntry
<1>4. ASSUME Keeps(c)', NEW d \in CPUs, d # c, Keeps(d) PROVE call[d].fd # f
  <2>1. Keeps(c) \/ f \in owned \/ ~Kept(f)
    BY <1>0, <1>4, Zenon DEF Handed
  <2>2. CASE Keeps(c)
    BY <1>0, <1>3, <1>4, <2>2, Zenon DEF OneKeeper
  <2>3. CASE f \in owned
    BY <1>2, <1>4, <2>3, Zenon
  <2>4. CASE ~Kept(f)
    BY <1>4, <2>4, Zenon DEF Kept
  <2> QED
    BY <2>1, <2>2, <2>3, <2>4, Zenon
<1>5. ASSUME NEW a \in CPUs, NEW b \in CPUs, Keeps(a)', Keeps(b)', call'[a].fd = call'[b].fd
      PROVE  a = b
  <2>1. CASE a = c /\ b # c
    BY <1>1, <1>3, <1>4, <1>5, <2>1, Zenon
  <2>2. CASE b = c /\ a # c
    BY <1>1, <1>3, <1>4, <1>5, <2>2, Zenon
  <2>3. CASE a # c /\ b # c
    BY <1>0, <1>1, <1>5, <2>3, Zenon DEF OneKeeper
  <2> QED
    BY <2>1, <2>2, <2>3, Zenon
<1>6. ASSUME NEW a \in CPUs, Keeps(a)' PROVE call'[a].fd \notin owned'
  <2>1. CASE a = c
    BY <1>0, <1>3, <1>6, <2>1, Zenon DEF Handed
  <2>2. CASE a # c
    <3>1. Keeps(a) /\ call'[a].fd = call[a].fd /\ call[a].fd \in Fd /\ call[a].fd \notin owned
      BY <1>1, <1>2, <1>6, <2>2, Zenon
    <3>2. CASE call[a].fd # f
      BY <1>3, <3>1, <3>2, Zenon
    <3>3. CASE call[a].fd = f
      BY <1>0, <1>3, <2>2, <3>1, <3>3, Zenon DEF Handed, OneKeeper
    <3> QED
      BY <3>2, <3>3, Zenon
  <2> QED
    BY <2>1, <2>2, Zenon
<1> QED
  BY <1>5, <1>6, Zenon DEF OneKeeper

\* A file object that a caller or another open relies on stays open.
LEMMA EffectObjects ==
    ASSUME FdInv, NEW c \in CPUs, NEW f \in Fd, Effect(c, f)
    PROVE  OpensOk' /\ OwnedIsOpen'
<1>0. /\ OnlyEntry(c, f) /\ Handed(c, f) /\ OneKeeper /\ CallsOk /\ OpensOk /\ OwnedIsOpen
      /\ TableTyped'
  BY Zenon DEF Effect, OnlyEntry, FdInv
<1>1. ASSUME NEW d \in CPUs, d # c PROVE OpenOk(d)'
  <2> SUFFICES ASSUME call'[d].op = "open", call'[d].at \in {"put", "dec", "test", "clear"},
                      call'[d].arg = "FR_OK"
               PROVE  fil'[call'[d].fd] # Closed
    BY Zenon DEF OpenOk
  <2>1. call'[d] = call[d]
    BY <1>0, <1>1, Zenon DEF OnlyEntry, Moved
  <2>2. fil[call[d].fd] # Closed
    BY <1>0, <2>1, Zenon DEF OpensOk, OpenOk
  <2>3. Keeps(d) /\ call[d].fd \in Fd
    BY <1>0, <2>1, Zenon DEF Keeps, CallsOk, CallOk
  <2>4. CASE call[d].fd # f
    BY <1>0, <2>1, <2>2, <2>3, <2>4, Zenon DEF OnlyEntry
  <2>5. CASE call[d].fd = f
    <3>1. Kept(f)
      BY <2>3, <2>5, Zenon DEF Kept
    <3>2. ~Keeps(c)
      BY <1>0, <1>1, <2>3, <2>5, Zenon DEF OneKeeper, OnlyEntry
    <3> QED
      BY <1>0, <2>1, <2>2, <2>5, <3>1, <3>2, Zenon DEF Handed
  <2> QED
    BY <2>4, <2>5, Zenon
<1>2. ASSUME NEW g \in owned' PROVE fil'[g] # Closed
  <2>1. g \in Fd
    BY <1>0, <1>2, Zenon DEF TableTyped
  <2>2. CASE g # f
    BY <1>0, <1>2, <2>1, <2>2, Zenon DEF OnlyEntry, OwnedIsOpen
  <2>3. CASE g = f
    BY <1>0, <1>2, <2>3, Zenon DEF Handed, OwnedIsOpen
  <2> QED
    BY <2>2, <2>3, Zenon
<1> QED
  BY <1>0, <1>1, <1>2, Zenon DEF OpensOk, OwnedIsOpen, OnlyEntry

\* A step with such an effect keeps the invariant, unless it makes updates overlap.
LEMMA EffectKeeps ==
    ASSUME FdInv, ~Overlap(call'), NEW c \in CPUs, NEW f \in Fd, Effect(c, f)
    PROVE  FdInv'
<1>1. RefCovers'
  BY EffectCovers, Zenon
<1>2. ValsOk'
  BY EffectVals, Zenon
<1>3. OneKeeper'
  BY EffectKeeper, Zenon
<1>4. OpensOk' /\ OwnedIsOpen'
  BY EffectObjects, Zenon
<1>5. TableTyped'
  BY Zenon DEF Effect, OnlyEntry
<1>6. CallsOk'
  <2>1. DOMAIN call' = CPUs /\ CallOk(c)' /\ \A d \in CPUs \ {c} : call'[d] = call[d]
    BY Zenon DEF Effect, OnlyEntry, Moved
  <2>2. \A d \in CPUs \ {c} : CallOk(d)'
    BY <2>1 DEF FdInv, CallsOk, CallOk
  <2> QED
    BY <2>1, <2>2, Zenon DEF CallsOk
<1>7. (~Overlap(call))'
  BY Zenon DEF Overlap
<1> QED
  BY <1>1, <1>2, <1>3, <1>4, <1>5, <1>6, <1>7, Zenon DEF FdInv

-----------------------------------------------------------------------------
(* What the moves of a call change. *)

Others(c) == DOMAIN call' = CPUs /\ \A d \in CPUs \ {c} : call'[d] = call[d]

LEMMA Replaced ==
    ASSUME CallsOk, NEW c \in CPUs, NEW next, call' = [call EXCEPT ![c] = next]
    PROVE  Others(c) /\ call'[c] = next
BY Zenon DEF CallsOk, Others

\* A call that returns is on no entry.
LEMMA Returned ==
    ASSUME CallsOk, NEW c \in CPUs, Return(c)
    PROVE  Moved(c) /\ ValOk(c)' /\ OpenOk(c)' /\ ~Holds(c)' /\ ~Keeps(c)'
<1>1. Others(c) /\ call'[c] = User
  BY Replaced, Zenon DEF Return
<1>2. call'[c].op = "user" /\ call'[c].at = "user"
  BY <1>1 DEF User
<1>3. CallOk(c)'
  BY <1>1 DEF CallOk, User, CallFields
<1> QED
  BY <1>1, <1>2, <1>3, Zenon DEF Moved, Others, ValOk, OpenOk, Holds, Keeps

LEMMA WentTo ==
    ASSUME CallsOk, NEW c \in CPUs, NEW at, Goto(c, at)
    PROVE  /\ Others(c) /\ DOMAIN call'[c] = CallFields /\ call'[c].at = at
           /\ call'[c].op = call[c].op /\ call'[c].fd = call[c].fd
           /\ call'[c].puts = call[c].puts /\ call'[c].arg = call[c].arg
BY Zenon DEF CallsOk, CallOk, CallFields, Goto, Others

LEMMA Loaded ==
    ASSUME CallsOk, NEW c \in CPUs, NEW at, Load(c, at)
    PROVE  /\ Others(c) /\ DOMAIN call'[c] = CallFields /\ call'[c].at = at
           /\ call'[c].op = call[c].op /\ call'[c].fd = call[c].fd
           /\ call'[c].puts = call[c].puts /\ call'[c].arg = call[c].arg
           /\ call'[c].val = ref[call[c].fd]
BY Zenon DEF CallsOk, CallOk, CallFields, Load, Others

LEMMA IsDone ==
    ASSUME CallsOk, NEW c \in CPUs, NEW res, Done(c, res)
    PROVE  /\ Others(c) /\ DOMAIN call'[c] = CallFields /\ call'[c].at = "put"
           /\ call'[c].op = call[c].op /\ call'[c].fd = call[c].fd
           /\ call'[c].puts = call[c].puts /\ call'[c].arg = res
BY Zenon DEF CallsOk, CallOk, CallFields, Done, Others

\* An open file object is not Closed: it has other fields.
LEMMA OpenObject == ASSUME NEW o, DOMAIN o = Fields PROVE o # Closed
<1>1. DOMAIN Closed = {"file"}
  BY Zenon DEF Closed
<1> QED
  BY <1>1 DEF Fields

\* f_lseek leaves a file object open, and a closed one closed.
LEMMA SeekKeeps ==
    ASSUME NEW o, NEW ofs, DOMAIN o = Fields
    PROVE  DOMAIN f_lseek(o, ofs) = Fields
BY OpenObject, Zenon DEF f_lseek

\* A step that stores one file object leaves the table as it should be.
LEMMA Stored ==
    ASSUME TableTyped, NEW f \in Fd, NEW o, o = Closed \/ DOMAIN o = Fields,
           fil' = [fil EXCEPT ![f] = o], ref' = ref, owned' = owned
    PROVE  TableTyped' /\ fil'[f] = o /\ \A g \in Fd \ {f} : fil'[g] = fil[g]
BY Zenon DEF TableTyped

\* A step that changes no count and takes no reference; it may give up an entry,
\* and close the file object of one that nobody else has.
LEMMA Quiet ==
    ASSUME FdInv, NEW c \in CPUs, NEW f \in Fd, Moved(c), TableTyped', ValOk(c)', OpenOk(c)',
           ref' = ref, owned' = owned, \A g \in Fd \ {f} : fil'[g] = fil[g],
           Holds(c) \/ Keeps(c) => call[c].fd = f, Holds(c)' \/ Keeps(c)' => call'[c].fd = f,
           Holds(c)' => Holds(c), Keeps(c)' => Keeps(c),
           fil'[f] = Closed => fil[f] = Closed \/ Keeps(c) \/ ~Kept(f)
    PROVE  Effect(c, f)
<1>1. OnlyEntry(c, f)
  BY Zenon DEF OnlyEntry
<1>2. Kept(f)' => Kept(f)
  <2>1. \A d \in CPUs \ {c} : call'[d] = call[d] /\ (Keeps(d)' <=> Keeps(d))
    BY Zenon DEF Moved, Keeps
  <2> QED
    BY <2>1, Zenon DEF Kept
<1>3. Counted(c, f)
  <2>1. One(Holds(c)') <= One(Holds(c)) /\ One(Kept(f)') <= One(Kept(f))
    BY <1>2 DEF One
  <2>2. /\ One(Holds(c)) \in Int /\ One(Holds(c)') \in Int
        /\ One(Kept(f)) \in Int /\ One(Kept(f)') \in Int
    BY DEF One
  <2>3. ref[f] \in Int /\ ref'[f] = ref[f]
    BY Zenon DEF FdInv, TableTyped
  <2> QED
    BY <2>1, <2>2, <2>3 DEF Counted
<1>4. Handed(c, f)
  <2>1. Keeps(c) => f \notin owned
    BY Zenon DEF FdInv, OneKeeper
  <2>2. ~Kept(f) => f \notin owned
    BY Zenon DEF Kept
  <2> QED
    BY <2>1, <2>2, Zenon DEF Handed
<1> QED
  BY <1>1, <1>3, <1>4, Zenon DEF Effect

\* The same, when the step stores no file object either.
LEMMA Still ==
    ASSUME FdInv, NEW c \in CPUs, NEW f \in Fd, Moved(c), ValOk(c)', OpenOk(c)',
           UNCHANGED <<ref, owned, fil>>,
           Holds(c) \/ Keeps(c) => call[c].fd = f, Holds(c)' \/ Keeps(c)' => call'[c].fd = f,
           Holds(c)' => Holds(c), Keeps(c)' => Keeps(c)
    PROVE  Effect(c, f)
<1>1. TableTyped'
  BY Zenon DEF FdInv, TableTyped
<1> QED
  BY <1>1, Quiet, Zenon

-----------------------------------------------------------------------------
(* The steps of a call. *)

\* sys_open starts on the first entry of the table.
LEMMA OpenCallEffect ==
    ASSUME FdInv, NEW c \in CPUs, NEW f, NEW flags, OpenCall(c, f, flags)
    PROVE  \E g \in Fd : Effect(c, g)
<1>1. CallsOk /\ call[c].op = "user" /\ CallOk(c) /\ UNCHANGED <<ref, owned, fil>>
  BY Zenon DEF FdInv, CallsOk, OpenCall
<1>2. /\ Others(c)
      /\ call'[c] = [op |-> "open", at |-> "scan", fd |-> 0, val |-> 0, puts |-> 1,
                     arg |-> [file |-> f, flags |-> flags]]
  BY <1>1, Replaced, Zenon DEF OpenCall
<1>3. 0 \in Fd
  BY Sizes DEF Fd
<1>4. call'[c].op = "open" /\ call'[c].at = "scan" /\ CallOk(c)'
  BY <1>2, <1>3 DEF CallOk, CallFields
<1>5. ~Holds(c) /\ ~Keeps(c) /\ ~Holds(c)' /\ ~Keeps(c)' /\ ValOk(c)' /\ OpenOk(c)'
  BY <1>1, <1>4, Zenon DEF Holds, Keeps, ValOk, OpenOk, CallOk
<1>6. Moved(c)
  BY <1>2, <1>4, Zenon DEF Moved, Others
<1> QED
  BY <1>1, <1>3, <1>5, <1>6, Still

\* fd_new's scan changes nothing; the entry it stops at has no reference.
LEMMA NewScanEffect ==
    ASSUME FdInv, NEW c \in CPUs, NEW f, call[c].fd = f, NewScan(c)
    PROVE  f \in Fd /\ Effect(c, f)
<1>1. CallsOk /\ call[c].at = "scan" /\ CallOk(c) /\ UNCHANGED <<ref, owned, fil>>
  BY Zenon DEF FdInv, CallsOk, NewScan
<1>2. f \in Fd /\ ~Holds(c) /\ ~Keeps(c) /\ call[c].op = "open" /\ call[c].puts \in {0, 1}
  BY <1>1 DEF CallOk, Holds, Keeps
<1>3. CASE ref[f] <= 0 /\ Goto(c, "new")
  <2>1. /\ Others(c) /\ DOMAIN call'[c] = CallFields /\ call'[c].at = "new"
        /\ call'[c].op = "open" /\ call'[c].fd = f /\ call'[c].puts = call[c].puts
    BY <1>1, <1>2, <1>3, WentTo, Zenon
  <2>2. Moved(c)
    BY <1>2, <2>1 DEF Moved, Others, CallOk
  <2>3. ValOk(c)' /\ OpenOk(c)' /\ ~Holds(c)' /\ ~Keeps(c)'
    BY <1>1, <1>3, <2>1, Zenon DEF ValOk, OpenOk, Holds, Keeps
  <2> QED
    BY <1>1, <1>2, <2>2, <2>3, Still, Zenon
<1>4. CASE Return(c)
  BY <1>1, <1>2, <1>4, Returned, Still
<1>5. CASE f + 1 < FS_FD_MAX /\ call' = [call EXCEPT ![c].fd = f + 1]
  <2>1. /\ Others(c) /\ DOMAIN call'[c] = CallFields /\ call'[c].at = "scan"
        /\ call'[c].op = "open" /\ call'[c].fd = f + 1 /\ call'[c].puts = call[c].puts
    BY <1>1, <1>2, <1>5, Zenon DEF CallsOk, CallOk, CallFields, Others
  <2>2. f + 1 \in Fd
    BY <1>2, <1>5, Sizes DEF Fd
  <2>3. Moved(c)
    BY <1>2, <2>1, <2>2 DEF Moved, Others, CallOk
  <2>4. ValOk(c)' /\ OpenOk(c)' /\ ~Holds(c)' /\ ~Keeps(c)'
    BY <2>1, Zenon DEF ValOk, OpenOk, Holds, Keeps
  <2> QED
    BY <1>1, <1>2, <2>3, <2>4, Still, Zenon
<1> QED
  BY <1>3, <1>4, <1>5, Zenon DEF NewScan

\* fd_get and fd_put load the count.
LEMMA LoadEffect ==
    ASSUME FdInv, NEW c \in CPUs, NEW f, call[c].fd = f, GetLoad(c) \/ PutLoad(c)
    PROVE  f \in Fd /\ Effect(c, f)
<1>1. CallsOk /\ CallOk(c) /\ UNCHANGED <<ref, owned, fil>>
  BY Zenon DEF FdInv, CallsOk, GetLoad, PutLoad
<1>2. PICK at \in {"get", "dec"} : /\ Load(c, at)
                                   /\ at = "get" => call[c].at = "call"
                                   /\ at = "dec" => call[c].at = "put"
  BY Zenon DEF GetLoad, PutLoad
<1>3. f \in Fd
  BY <1>1, <1>2, Zenon DEF CallOk
<1>4. /\ Others(c) /\ DOMAIN call'[c] = CallFields /\ call'[c].at = at
      /\ call'[c].op = call[c].op /\ call'[c].fd = f /\ call'[c].puts = call[c].puts
      /\ call'[c].arg = call[c].arg /\ call'[c].val = ref[f]
  BY <1>1, <1>2, Loaded, Zenon
<1>5. Moved(c)
  BY <1>1, <1>2, <1>3, <1>4, Zenon DEF Moved, Others, CallOk
<1>6. ValOk(c)'
  BY <1>1, <1>2, <1>4, Zenon DEF ValOk
<1>7. OpenOk(c)'
  BY <1>1, <1>2, <1>4, Zenon DEF FdInv, OpensOk, OpenOk
<1>8. (Holds(c)' <=> Holds(c)) /\ (Keeps(c)' <=> Keeps(c))
  BY <1>1, <1>2, <1>4, Zenon DEF Holds, Keeps
<1> QED
  BY <1>1, <1>3, <1>4, <1>5, <1>6, <1>7, <1>8, Still

\* fd_new takes an entry that nobody holds and nobody has.
LEMMA NewTakeEffect ==
    ASSUME FdInv, NEW c \in CPUs, NEW f, call[c].fd = f, NewTake(c)
    PROVE  f \in Fd /\ Effect(c, f)
<1>1. /\ CallsOk /\ CallOk(c) /\ TableTyped /\ RefCovers /\ call[c].at = "new"
      /\ UNCHANGED <<owned, fil>>
  BY Zenon DEF FdInv, CallsOk, NewTake
<1>2. f \in Fd /\ ~Holds(c) /\ ~Keeps(c) /\ call[c].op = "open" /\ call[c].puts \in {0, 1}
  BY <1>1 DEF CallOk, Holds, Keeps
<1>3. ref' = [ref EXCEPT ![f] = 1]
  BY Zenon DEF NewTake, Store
<1>4. TableTyped' /\ ref'[f] = 1 /\ \A g \in Fd \ {f} : ref'[g] = ref[g]
  BY <1>1, <1>2, <1>3 DEF TableTyped
<1>5. /\ Others(c) /\ DOMAIN call'[c] = CallFields /\ call'[c].at = "call"
      /\ call'[c].op = "open" /\ call'[c].fd = f /\ call'[c].puts = call[c].puts
  BY <1>1, <1>2, WentTo, Zenon DEF NewTake
<1>6. Moved(c)
  BY <1>2, <1>5 DEF Moved, Others, CallOk
<1>7. ValOk(c)' /\ OpenOk(c)' /\ ~Holds(c)' /\ Keeps(c)'
  BY <1>5, Zenon DEF ValOk, OpenOk, Holds, Keeps
<1>8. ref[f] \in Int /\ ref[f] <= 0 /\ ref[f] >= Accounted(f)
  BY <1>1, <1>2, Zenon DEF FdInv, ValsOk, ValOk, TableTyped, RefCovers
<1>9. ~Kept(f)
  <2>1. IsFiniteSet(Users(f))
    BY Sizes, FS_Subset, Zenon DEF Users
  <2>2. Cardinality(Users(f)) \in Nat
    BY <2>1, FS_CardinalityType, Zenon
  <2> QED
    BY <1>8, <2>2 DEF Accounted
<1>10. OnlyEntry(c, f)
  BY <1>1, <1>2, <1>4, <1>5, <1>6, <1>7 DEF OnlyEntry
<1>11. Counted(c, f)
  BY <1>1, <1>2, <1>4, <1>7, <1>8, <1>9 DEF Counted, One, Unlocked
<1>12. Handed(c, f)
  BY <1>1, <1>9, Zenon DEF Handed, Kept
<1> QED
  BY <1>2, <1>10, <1>11, <1>12, Zenon DEF Effect

\* The entry stays with whom it is with: the calls that have it are the same.
LEMMA SameKeeper ==
    ASSUME NEW c \in CPUs, NEW f, Others(c), owned' = owned, call'[c].fd = call[c].fd,
           Keeps(c)' <=> Keeps(c)
    PROVE  Kept(f)' <=> Kept(f)
<1>1. \A d \in CPUs \ {c} : call'[d] = call[d] /\ (Keeps(d)' <=> Keeps(d))
  BY Zenon DEF Others, Keeps
<1> QED
  BY <1>1, Zenon DEF Kept

\* fd_get stores a count of one more than it is.
LEMMA GetStoreEffect ==
    ASSUME FdInv, NEW c \in CPUs, NEW f, call[c].fd = f, GetStore(c)
    PROVE  f \in Fd /\ Effect(c, f)
<1>1. /\ CallsOk /\ CallOk(c) /\ ValOk(c) /\ TableTyped /\ OneKeeper /\ call[c].at = "get"
      /\ UNCHANGED <<owned, fil>>
  BY Zenon DEF FdInv, CallsOk, ValsOk, GetStore
<1>2. f \in Fd /\ ~Holds(c) /\ ref[f] \in Int /\ call[c].val = ref[f]
  BY <1>1, Zenon DEF CallOk, Holds, ValOk, TableTyped
<1>3. ref' = [ref EXCEPT ![f] = ref[f] + 1]
  BY <1>2, Zenon DEF GetStore, Store
<1>4. TableTyped' /\ ref'[f] = ref[f] + 1 /\ \A g \in Fd \ {f} : ref'[g] = ref[g]
  BY <1>1, <1>2, <1>3 DEF TableTyped
<1>5. Keeps(c) => f \notin owned
  BY <1>1, Zenon DEF OneKeeper
<1>6. CASE call[c].op = "bad"
  <2>1. Moved(c) /\ ValOk(c)' /\ OpenOk(c)' /\ ~Holds(c)' /\ ~Keeps(c)' /\ ~Keeps(c)
    BY <1>1, <1>6, Returned, Zenon DEF GetStore, Keeps
  <2>2. OnlyEntry(c, f)
    BY <1>1, <1>2, <1>4, <2>1, Zenon DEF OnlyEntry
  <2>3. Kept(f)' => Kept(f)
    <3>1. \A d \in CPUs \ {c} : call'[d] = call[d] /\ (Keeps(d)' <=> Keeps(d))
      BY <2>1, Zenon DEF Moved, Keeps
    <3> QED
      BY <1>1, <2>1, <3>1, Zenon DEF Kept
  <2>4. Counted(c, f)
    BY <1>1, <1>2, <1>4, <2>1, <2>3 DEF Counted, One, Unlocked
  <2>5. Handed(c, f)
    BY <1>1, <2>1, Zenon DEF Handed
  <2> QED
    BY <1>2, <2>2, <2>4, <2>5, Zenon DEF Effect
<1>7. CASE call[c].op # "bad"
  <2>1. /\ Others(c) /\ DOMAIN call'[c] = CallFields /\ call'[c].at = "file"
        /\ call'[c].op = call[c].op /\ call'[c].fd = f /\ call'[c].puts = call[c].puts
    BY <1>1, <1>7, WentTo, Zenon DEF GetStore
  <2>2. Moved(c)
    BY <1>1, <1>2, <1>7, <2>1 DEF Moved, Others, CallOk
  <2>3. ValOk(c)' /\ OpenOk(c)' /\ (Keeps(c)' <=> Keeps(c))
    BY <1>1, <2>1, Zenon DEF ValOk, OpenOk, Keeps
  <2>4. OnlyEntry(c, f)
    BY <1>1, <1>2, <1>4, <2>1, <2>2, <2>3 DEF OnlyEntry
  <2>5. Kept(f)' <=> Kept(f)
    BY <1>1, <2>1, <2>3, SameKeeper
  <2>6. Counted(c, f)
    BY <1>1, <1>2, <1>4, <2>5 DEF Counted, One, Unlocked
  <2>7. Handed(c, f)
    BY <1>1, <1>5, <2>3, Zenon DEF Handed
  <2> QED
    BY <1>2, <2>4, <2>6, <2>7, Zenon DEF Effect
<1> QED
  BY <1>6, <1>7, Zenon

\* fd_put stores a count of one less: the call gives up the reference of its
\* fd_get, or the second time, in sys_close, the one of fd_new.
LEMMA PutStoreEffect ==
    ASSUME FdInv, NEW c \in CPUs, NEW f, call[c].fd = f, PutStore(c)
    PROVE  f \in Fd /\ Effect(c, f)
<1>1. /\ CallsOk /\ CallOk(c) /\ ValOk(c) /\ OpenOk(c) /\ TableTyped /\ OneKeeper
      /\ call[c].at = "dec" /\ UNCHANGED <<owned, fil>>
  BY Zenon DEF FdInv, CallsOk, ValsOk, OpensOk, PutStore
<1>2. f \in Fd /\ ref[f] \in Int /\ call[c].val = ref[f]
  BY <1>1, Zenon DEF CallOk, ValOk, TableTyped
<1>3. ref' = [ref EXCEPT ![f] = ref[f] - 1]
  BY <1>2, Zenon DEF PutStore, Store
<1>4. TableTyped' /\ ref'[f] = ref[f] - 1 /\ \A g \in Fd \ {f} : ref'[g] = ref[g]
  BY <1>1, <1>2, <1>3 DEF TableTyped
<1>5. /\ Others(c) /\ DOMAIN call'[c] = CallFields /\ call'[c].at = "test"
      /\ call'[c].op = call[c].op /\ call'[c].fd = f /\ call'[c].puts = call[c].puts
      /\ call'[c].arg = call[c].arg
  BY <1>1, WentTo, Zenon DEF PutStore
<1>6. Moved(c)
  BY <1>1, <1>2, <1>5, Zenon DEF Moved, Others, CallOk
<1>7. ValOk(c)' /\ OpenOk(c)' /\ ~Holds(c)' /\ (Keeps(c)' => Keeps(c))
  BY <1>1, <1>5, ZenonT(30) DEF ValOk, OpenOk, Holds, Keeps
<1>8. OnlyEntry(c, f)
  BY <1>1, <1>2, <1>4, <1>5, <1>6, <1>7 DEF OnlyEntry
<1>9. Keeps(c) => f \notin owned
  BY <1>1, Zenon DEF OneKeeper
<1>10. Counted(c, f)
  <2>1. CASE call[c].op = "close" /\ call[c].puts = 1
    <3>1. Keeps(c) /\ ~Keeps(c)' /\ ~Holds(c)
      BY <1>1, <1>5, <2>1, Zenon DEF Keeps, Holds
    <3>2. Kept(f)
      BY <3>1, Zenon DEF Kept
    <3>3. \A d \in CPUs \ {c} : call'[d] = call[d] /\ (Keeps(d)' <=> Keeps(d))
      BY <1>5, Zenon DEF Others, Keeps
    <3>4. \A d \in CPUs \ {c} : Keeps(d) => call[d].fd # f
      BY <1>1, <3>1, Zenon DEF OneKeeper
    <3>5. ~Kept(f)'
      BY <1>1, <1>9, <3>1, <3>3, <3>4 DEF Kept
    <3> QED
      BY <1>1, <1>2, <1>4, <1>7, <3>1, <3>2, <3>5 DEF Counted, One, Unlocked
  <2>2. CASE ~(call[c].op = "close" /\ call[c].puts = 1)
    <3>1. Holds(c) /\ (Keeps(c)' <=> Keeps(c))
      BY <1>1, <1>5, <2>2, ZenonT(30) DEF Keeps, Holds
    <3>2. Kept(f)' <=> Kept(f)
      BY <1>1, <1>5, <3>1, SameKeeper
    <3> QED
      BY <1>1, <1>2, <1>4, <1>7, <3>1, <3>2 DEF Counted, One, Unlocked
  <2> QED
    BY <2>1, <2>2, Zenon
<1>11. Handed(c, f)
  BY <1>1, <1>7, <1>9, Zenon DEF Handed
<1> QED
  BY <1>2, <1>8, <1>10, <1>11 DEF Effect

\* What follows fd_put: an open that succeeded hands its entry over to the caller,
\* with its file object; else nothing is taken.
LEMMA AfterPutEffect ==
    ASSUME FdInv, NEW c \in CPUs, NEW f, call[c].fd = f, call[c].at \in {"test", "clear"},
           AfterPut(c), ref' = ref, TableTyped', \A g \in Fd \ {f} : fil'[g] = fil[g],
           fil'[f] = fil[f] \/ ~Kept(f)
    PROVE  f \in Fd /\ Effect(c, f)
<1>1. CallsOk /\ CallOk(c) /\ OpenOk(c) /\ TableTyped /\ OneKeeper
  BY Zenon DEF FdInv, CallsOk, OpensOk
<1>2. f \in Fd /\ ~Holds(c) /\ ref[f] \in Int
  BY <1>1, Zenon DEF CallOk, Holds, TableTyped
<1>3. CASE call[c].op = "open" /\ call[c].arg = "FR_OK"
  <2>1. Return(c) /\ owned' = owned \cup {f}
    BY <1>1, <1>3 DEF AfterPut, CallOk
  <2>2. Moved(c) /\ ValOk(c)' /\ OpenOk(c)' /\ ~Holds(c)' /\ ~Keeps(c)'
    BY <1>1, <2>1, Returned, Zenon
  <2>3. Keeps(c) /\ Kept(f) /\ Kept(f)'
    BY <1>3, <2>1, Zenon DEF Keeps, Kept
  <2>4. fil'[f] # Closed
    BY <1>1, <1>3, <2>3, Zenon DEF OpenOk
  <2>5. OnlyEntry(c, f)
    BY <1>2, <2>1, <2>2, <2>3 DEF OnlyEntry
  <2>6. Counted(c, f)
    BY <1>2, <2>2, <2>3 DEF Counted, One
  <2>7. Handed(c, f)
    BY <2>2, <2>3, <2>4, Zenon DEF Handed
  <2> QED
    BY <1>2, <2>5, <2>6, <2>7 DEF Effect
<1>4. CASE ~(call[c].op = "open" /\ call[c].arg = "FR_OK")
  <2>1. owned' = owned
    BY <1>4, Zenon DEF AfterPut
  <2>2. fil'[f] = Closed => fil[f] = Closed \/ Keeps(c) \/ ~Kept(f)
    BY Zenon
  <2>3. CASE call' = [call EXCEPT ![c].at = "put", ![c].puts = @ - 1] /\ call[c].puts > 1
    <3>1. call[c].op = "close" /\ call[c].puts = 2
      BY <1>1, <2>3 DEF CallOk
    <3>2. /\ Others(c) /\ DOMAIN call'[c] = CallFields /\ call'[c].at = "put"
          /\ call'[c].op = "close" /\ call'[c].fd = f /\ call'[c].puts = 1
      BY <1>1, <2>3, <3>1 DEF CallsOk, CallOk, CallFields, Others
    <3>3. Moved(c)
      BY <1>2, <3>2 DEF Moved, Others, CallOk
    <3>4. ValOk(c)' /\ OpenOk(c)' /\ ~Holds(c)' /\ Keeps(c)
      BY <3>1, <3>2 DEF ValOk, OpenOk, Holds, Keeps
    <3> QED
      BY <1>2, <2>1, <2>2, <3>2, <3>3, <3>4, Quiet
  <2>4. CASE Goto(c, "seek") /\ call[c].op = "seek"
    <3>1. /\ Others(c) /\ DOMAIN call'[c] = CallFields /\ call'[c].at = "seek"
          /\ call'[c].op = "seek" /\ call'[c].fd = f /\ call'[c].puts = call[c].puts
      BY <1>1, <2>4, WentTo, ZenonT(30)
    <3>2. Moved(c)
      BY <1>1, <1>2, <2>4, <3>1 DEF Moved, Others, CallOk
    <3>3. ValOk(c)' /\ OpenOk(c)' /\ ~Holds(c)' /\ ~Keeps(c)'
      BY <3>1, ZenonT(30) DEF ValOk, OpenOk, Holds, Keeps
    <3> QED
      BY <1>2, <2>1, <2>2, <3>1, <3>2, <3>3, Quiet
  <2>5. CASE Return(c)
    BY <1>1, <1>2, <2>1, <2>2, <2>5, Returned, Quiet
  <2> QED
    BY <2>3, <2>4, <2>5, Zenon DEF AfterPut
<1> QED
  BY <1>3, <1>4, Zenon

\* fd_put tests the count: a call that goes on to clear the object has found 0.
LEMMA PutTestEffect ==
    ASSUME FdInv, NEW c \in CPUs, NEW f, call[c].fd = f, PutTest(c)
    PROVE  f \in Fd /\ Effect(c, f)
<1>1. /\ CallsOk /\ CallOk(c) /\ OpenOk(c) /\ TableTyped /\ call[c].at = "test"
      /\ UNCHANGED <<ref, fil>>
  BY Zenon DEF FdInv, CallsOk, OpensOk, PutTest
<1>2. f \in Fd /\ ~Holds(c)
  BY <1>1, ZenonT(30) DEF CallOk, Holds
<1>3. CASE NoReference(f)
  <2>1. Goto(c, "clear") /\ UNCHANGED owned /\ ref[f] = 0
    BY <1>3, Zenon DEF PutTest, NoReference
  <2>2. /\ Others(c) /\ DOMAIN call'[c] = CallFields /\ call'[c].at = "clear"
        /\ call'[c].op = call[c].op /\ call'[c].fd = f /\ call'[c].puts = call[c].puts
        /\ call'[c].arg = call[c].arg
    BY <1>1, <2>1, WentTo, Zenon
  <2>3. Moved(c)
    BY <1>1, <1>2, <2>2, Zenon DEF Moved, Others, CallOk
  <2>4. ValOk(c)' /\ OpenOk(c)' /\ ~Holds(c)' /\ (Keeps(c)' <=> Keeps(c))
    BY <1>1, <2>1, <2>2, Zenon DEF ValOk, OpenOk, Holds, Keeps
  <2> QED
    BY <1>1, <1>2, <2>1, <2>2, <2>3, <2>4, Still
<1>4. CASE ~NoReference(f)
  <2>1. AfterPut(c)
    BY <1>4, Zenon DEF PutTest
  <2>2. TableTyped'
    BY <1>1, <1>2, <2>1, Zenon DEF TableTyped, AfterPut
  <2> QED
    BY <1>1, <2>1, <2>2, AfterPutEffect, Zenon
<1> QED
  BY <1>3, <1>4, Zenon

\* fd_put clears the object of an entry that nobody has.
LEMMA PutClearEffect ==
    ASSUME FdInv, NEW c \in CPUs, NEW f, call[c].fd = f, PutClear(c)
    PROVE  f \in Fd /\ Effect(c, f)
<1>1. /\ CallsOk /\ CallOk(c) /\ ValOk(c) /\ TableTyped /\ RefCovers /\ call[c].at = "clear"
      /\ ref' = ref /\ fil' = [fil EXCEPT ![f] = Closed] /\ AfterPut(c)
  BY Zenon DEF FdInv, CallsOk, ValsOk, PutClear
<1>2. f \in Fd /\ ref[f] = 0
  BY <1>1, Zenon DEF CallOk, ValOk
<1>3. ~Kept(f)
  <2>1. IsFiniteSet(Users(f))
    BY Sizes, FS_Subset, Zenon DEF Users
  <2>2. Cardinality(Users(f)) \in Nat
    BY <2>1, FS_CardinalityType, Zenon
  <2> QED
    BY <1>1, <1>2, <2>2, SMTT(20) DEF Accounted, RefCovers
<1>4. owned' \subseteq Fd
  BY <1>1, <1>2, Zenon DEF TableTyped, AfterPut
<1>5. TableTyped' /\ \A g \in Fd \ {f} : fil'[g] = fil[g]
  BY <1>1, <1>2, <1>4, ZenonT(30) DEF TableTyped
<1> QED
  BY <1>1, <1>3, <1>5, AfterPutEffect

-----------------------------------------------------------------------------
(* The file operations. *)

\* Between fd_get and fd_put a call may store the file object of its entry: it
\* stays open, or the call is the open or the close that has the entry.
LEMMA FileEffect ==
    ASSUME FdInv, NEW c \in CPUs, NEW f, call[c].fd = f, call[c].at = "file", NEW res, Done(c, res),
           UNCHANGED <<ref, owned>>, NEW o, o = Closed \/ DOMAIN o = Fields,
           fil' = [fil EXCEPT ![f] = o] \/ (fil' = fil /\ o = fil[f]),
           call[c].op \in {"open", "close"} \/ (o = Closed => fil[f] = Closed),
           call[c].op = "open" /\ res = "FR_OK" => o # Closed
    PROVE  f \in Fd /\ Effect(c, f)
<1>1. CallsOk /\ CallOk(c) /\ TableTyped
  BY Zenon DEF FdInv, CallsOk
<1>2. f \in Fd /\ call[c].op \notin {"user", "bad"}
  BY <1>1, Zenon DEF CallOk
<1>3. /\ Others(c) /\ DOMAIN call'[c] = CallFields /\ call'[c].at = "put"
      /\ call'[c].op = call[c].op /\ call'[c].fd = f /\ call'[c].puts = call[c].puts
      /\ call'[c].arg = res
  BY <1>1, IsDone, Zenon
<1>4. TableTyped' /\ fil'[f] = o /\ \A g \in Fd \ {f} : fil'[g] = fil[g]
  <2>1. CASE fil' = [fil EXCEPT ![f] = o]
    BY <1>1, <1>2, <2>1, Stored, ZenonT(30)
  <2>2. CASE fil' = fil /\ o = fil[f]
    BY <1>1, <2>2, Zenon DEF TableTyped
  <2> QED
    BY <2>1, <2>2, Zenon
<1>5. Moved(c)
  BY <1>1, <1>2, <1>3, Zenon DEF Moved, Others, CallOk
<1>6. ValOk(c)' /\ OpenOk(c)'
  BY <1>3, <1>4, Zenon DEF ValOk, OpenOk
<1>7. (Holds(c)' <=> Holds(c)) /\ (Keeps(c)' <=> Keeps(c))
  BY <1>3, Zenon DEF Holds, Keeps
<1>8. fil'[f] = Closed => fil[f] = Closed \/ Keeps(c) \/ ~Kept(f)
  BY <1>4, Zenon DEF Keeps
<1> QED
  BY <1>2, <1>3, <1>4, <1>5, <1>6, <1>7, <1>8, Quiet, SMTT(20)

\* f_open gives an open object when it says FR_OK, and none else.
LEMMA OpenGives ==
    ASSUME NEW f, NEW flags
    PROVE  LET o == f_open(f, flags)
           IN  (o.res = "FR_OK" /\ DOMAIN o.fil = Fields) \/ (o.res # "FR_OK" /\ o.fil = Closed)
BY Zenon DEF f_open, Fields

LEMMA OpenFileEffect ==
    ASSUME FdInv, NEW c \in CPUs, NEW f, call[c].fd = f, OpenFile(c)
    PROVE  f \in Fd /\ Effect(c, f)
<1> DEFINE flags == call[c].arg.flags
           o == f_open(call[c].arg.file, flags)
           object == IF flags.append /\ o.res = "FR_OK" THEN f_lseek(o.fil, o.fil.len) ELSE o.fil
<1>1. /\ call[c].at = "file" /\ call[c].op = "open" /\ Done(c, o.res)
      /\ UNCHANGED <<ref, owned>> /\ fil' = [fil EXCEPT ![f] = object]
  BY Zenon DEF OpenFile, AtFile
<1>2. (o.res = "FR_OK" /\ DOMAIN o.fil = Fields) \/ (o.res # "FR_OK" /\ o.fil = Closed)
  BY OpenGives, Zenon
<1> HIDE DEF o
<1>3. (o.res = "FR_OK" /\ DOMAIN object = Fields) \/ (o.res # "FR_OK" /\ object = Closed)
  BY <1>2, SeekKeeps, Zenon
<1>4. (object = Closed \/ DOMAIN object = Fields) /\ (o.res = "FR_OK" => object # Closed)
  BY <1>3, OpenObject, Zenon
<1> HIDE DEF object
<1>5. PICK res, ob : /\ Done(c, res) /\ fil' = [fil EXCEPT ![f] = ob]
                     /\ ob = Closed \/ DOMAIN ob = Fields
                     /\ res = "FR_OK" => ob # Closed
  BY <1>1, <1>4, Zenon
<1>6. ob = Closed \/ DOMAIN ob = Fields
  BY <1>5, Zenon
<1>7. fil' = [fil EXCEPT ![f] = ob] \/ (fil' = fil /\ ob = fil[f])
  BY <1>5, Zenon
<1>8. call[c].op \in {"open", "close"} \/ (ob = Closed => fil[f] = Closed)
  BY <1>1, Zenon
<1>9. call[c].op = "open" /\ res = "FR_OK" => ob # Closed
  BY <1>5, Zenon
<1>10. call[c].at = "file" /\ UNCHANGED <<ref, owned>> /\ Done(c, res)
  BY <1>1, <1>5, Zenon
<1> QED
  BY <1>6, <1>7, <1>8, <1>9, <1>10, FileEffect

LEMMA CloseFileEffect ==
    ASSUME FdInv, NEW c \in CPUs, NEW f, call[c].fd = f, CloseFile(c)
    PROVE  f \in Fd /\ Effect(c, f)
<1>1. /\ call[c].at = "file" /\ call[c].op = "close" /\ Done(c, 0)
      /\ UNCHANGED <<ref, owned>> /\ fil' = [fil EXCEPT ![f] = Closed]
  BY Zenon DEF CloseFile, AtFile
<1> QED
  BY <1>1, FileEffect, Zenon

\* fat_read and fat_write change an open object only; sys_lseek none yet.
LEMMA TransferEffect ==
    ASSUME FdInv, NEW c \in CPUs, NEW f, call[c].fd = f,
           ReadFile(c) \/ WriteFile(c) \/ SeekOffset(c)
    PROVE  f \in Fd /\ Effect(c, f)
<1>1. CallsOk /\ CallOk(c) /\ TableTyped /\ call[c].at = "file" /\ UNCHANGED <<ref, owned>>
  BY Zenon DEF FdInv, CallsOk, ReadFile, WriteFile, SeekOffset, AtFile
<1>2. f \in Fd /\ (fil[f] = Closed \/ DOMAIN fil[f] = Fields)
  BY <1>1, Zenon DEF CallOk, TableTyped
<1>3. PICK res : Done(c, res) /\ call[c].op \in {"read", "write", "seek"}
  BY Zenon DEF ReadFile, WriteFile, SeekOffset, AtFile
<1>4. ASSUME fil' = fil PROVE f \in Fd /\ Effect(c, f)
  BY <1>1, <1>2, <1>3, <1>4, FileEffect, Zenon
<1>5. CASE ReadFile(c)
  <2>1. CASE f_read(fil[f], call[c].arg) # 0
    <3> DEFINE o == [fil[f] EXCEPT !.ptr = @ + f_read(fil[f], call[c].arg)]
    <3>1. DOMAIN fil[f] = Fields
      BY <1>2, <2>1, Zenon DEF f_read
    <3>2. DOMAIN o = Fields /\ fil' = [fil EXCEPT ![f] = o]
      BY <1>5, <2>1, <3>1, Zenon DEF ReadFile
    <3> HIDE DEF o
    <3>3. o # Closed
      BY <3>2, OpenObject, Zenon
    <3> QED
      BY <1>1, <1>3, <3>2, <3>3, FileEffect, ZenonT(30)
  <2>2. CASE f_read(fil[f], call[c].arg) = 0
    <3>1. fil' = fil
      BY <1>5, <2>2, Zenon DEF ReadFile
    <3> QED
      BY <1>4, <3>1, Zenon
  <2> QED
    BY <2>1, <2>2, Zenon
<1>6. CASE WriteFile(c)
  <2>1. CASE f_write(fil[f], call[c].arg) # 0
    <3> DEFINE o == Written(fil[f], f_write(fil[f], call[c].arg))
    <3>1. DOMAIN fil[f] = Fields
      BY <1>2, <2>1, Zenon DEF f_write
    <3>2. DOMAIN o = Fields
      BY <3>1, Zenon DEF Written
    <3>3. fil' = [fil EXCEPT ![f] = o]
      BY <1>6, <2>1, Zenon DEF WriteFile
    <3> HIDE DEF o
    <3>4. o # Closed
      BY <3>2, OpenObject, Zenon
    <3> QED
      BY <1>1, <1>3, <3>2, <3>3, <3>4, FileEffect, ZenonT(30)
  <2>2. CASE f_write(fil[f], call[c].arg) = 0
    <3>1. fil' = fil
      BY <1>6, <2>2, Zenon DEF WriteFile
    <3> QED
      BY <1>4, <3>1, Zenon
  <2> QED
    BY <2>1, <2>2, Zenon
<1>7. CASE SeekOffset(c)
  BY <1>4, <1>7, ZenonT(30) DEF SeekOffset
<1> QED
  BY <1>5, <1>6, <1>7, ZenonT(30)

\* The seek after fd_put meets whatever object is there, and leaves it open.
LEMMA SeekFileEffect ==
    ASSUME FdInv, NEW c \in CPUs, NEW f, call[c].fd = f, SeekFile(c)
    PROVE  f \in Fd /\ Effect(c, f)
<1> DEFINE o == f_lseek(fil[f], call[c].arg)
<1>1. /\ CallsOk /\ CallOk(c) /\ TableTyped /\ call[c].at = "seek" /\ Return(c)
      /\ ref' = ref /\ owned' = owned /\ fil' = [fil EXCEPT ![f] = o]
  BY Zenon DEF FdInv, CallsOk, SeekFile
<1>2. f \in Fd /\ ~Holds(c) /\ ~Keeps(c) /\ (fil[f] = Closed \/ DOMAIN fil[f] = Fields)
  BY <1>1, Zenon DEF CallOk, Holds, Keeps, TableTyped
<1>3. fil[f] = Closed => o = Closed
  BY Zenon DEF f_lseek
<1>4. DOMAIN fil[f] = Fields => DOMAIN o = Fields
  BY SeekKeeps, ZenonT(30)
<1> HIDE DEF o
<1>5. TableTyped' /\ fil'[f] = o /\ \A g \in Fd \ {f} : fil'[g] = fil[g]
  BY <1>1, <1>2, <1>3, <1>4, Stored, ZenonT(30)
<1>6. fil'[f] = Closed => fil[f] = Closed
  BY <1>2, <1>4, <1>5, OpenObject, ZenonT(30)
<1>7. Moved(c) /\ ValOk(c)' /\ OpenOk(c)' /\ ~Holds(c)' /\ ~Keeps(c)'
  BY <1>1, Returned, Zenon
<1> QED
  BY <1>1, <1>2, <1>5, <1>6, <1>7, Quiet

-----------------------------------------------------------------------------
(* The entry of a call. *)

\* A step that moves no call and leaves the table alone keeps the invariant.
LEMMA Untouched ==
    ASSUME FdInv, UNCHANGED <<ref, fil, owned, call>>
    PROVE  FdInv'
<1>1. (\A c \in CPUs : (Holds(c)' <=> Holds(c)) /\ (Keeps(c)' <=> Keeps(c)))
  BY Zenon DEF Holds, Keeps
<1>2. \A fd : Users(fd)' = Users(fd) /\ (Kept(fd)' <=> Kept(fd))
  BY <1>1, Zenon DEF Users, Kept
<1>3. \A fd : Accounted(fd)' = Accounted(fd)
  BY <1>2, Zenon DEF Accounted
<1>4. RefCovers' /\ OneKeeper'
  BY <1>1, <1>3, ZenonT(30) DEF FdInv, RefCovers, OneKeeper
<1>5. CallsOk' /\ TableTyped' /\ (~Overlap(call))'
  BY DEF FdInv, CallsOk, CallOk, TableTyped, Overlap
<1>6. ValsOk' /\ OpensOk' /\ OwnedIsOpen'
  BY Zenon DEF FdInv, ValsOk, ValOk, OpensOk, OpenOk, OwnedIsOpen
<1> QED
  BY <1>4, <1>5, <1>6, Zenon DEF FdInv

\* A call with an argument that is not of the table does nothing; else the
\* descriptor is one that open returned and nobody has closed.
LEMMA Entered ==
    ASSUME FdInv, OwnDescriptors, NEW c \in CPUs, NEW op, NEW fd, NEW puts, NEW arg,
           Enter(c, op, fd, puts, arg)
    PROVE  \/ fd \notin Fd /\ call' = call
           \/ /\ fd \in Fd /\ fd \in owned /\ Others(c)
              /\ call'[c] = [op |-> op, at |-> "call", fd |-> fd, val |-> 0,
                             puts |-> puts, arg |-> arg]
<1>1. CallsOk /\ owned \subseteq Fd /\ fd \in owned \cup ExtraFds
  BY Zenon DEF FdInv, TableTyped, Enter, Argument
<1>2. CASE fd_get_null(fd) /\ call' = call
  <2>1. fd \notin Fd
    BY <1>2, Sizes DEF fd_get_null, Fd
  <2> QED
    BY <1>2, <2>1, Zenon
<1>3. CASE fd = FS_FD_MAX /\ call' = call
  <2>1. fd \notin Fd
    BY <1>3, Sizes DEF Fd
  <2> QED
    BY <1>3, <2>1, Zenon
<1>4. CASE /\ fd \in Fd
           /\ call' = [call EXCEPT ![c] = [op |-> op, at |-> "call", fd |-> fd, val |-> 0,
                                           puts |-> puts, arg |-> arg]]
  <2>1. fd \in owned
    BY <1>1, <1>4, Zenon DEF OwnDescriptors
  <2> QED
    BY <1>1, <1>4, <2>1, Replaced, Zenon
<1> QED
  BY <1>2, <1>3, <1>4, Zenon DEF Enter

\* The calls that leave the descriptor with its owner.
LEMMA CallKeeps ==
    ASSUME FdInv, OwnDescriptors, ~Overlap(call'), NEW c \in CPUs,
           NEW op \in {"read", "write", "seek", "bad"}, NEW fd, NEW puts \in {0, 1}, NEW arg,
           Enter(c, op, fd, puts, arg), UNCHANGED owned
    PROVE  FdInv'
<1>1. UNCHANGED <<ref, fil, owned>> /\ call[c].op = "user" /\ CallsOk /\ CallOk(c)
  BY Zenon DEF Enter, FdInv, CallsOk
<1>2. CASE call' = call
  BY <1>1, <1>2, Untouched, Zenon
<1>3. CASE /\ fd \in Fd /\ fd \in owned /\ Others(c)
           /\ call'[c] = [op |-> op, at |-> "call", fd |-> fd, val |-> 0,
                          puts |-> puts, arg |-> arg]
  <2>1. call'[c].op = op /\ call'[c].at = "call" /\ CallOk(c)'
    BY <1>3 DEF CallOk, CallFields
  <2>2. Moved(c)
    BY <1>3, <2>1, Zenon DEF Moved, Others
  <2>3. ~Holds(c) /\ ~Keeps(c) /\ ~Holds(c)' /\ ~Keeps(c)' /\ ValOk(c)' /\ OpenOk(c)'
    BY <1>1, <2>1, ZenonT(30) DEF Holds, Keeps, ValOk, OpenOk, CallOk
  <2>4. Effect(c, fd)
    BY <1>1, <1>3, <2>2, <2>3, Still, SMTT(20)
  <2> QED
    BY <1>3, <2>4, EffectKeeps, ZenonT(30)
<1> QED
  BY <1>2, <1>3, Entered

\* sys_close takes the descriptor from its owner.
LEMMA CloseCallKeeps ==
    ASSUME FdInv, OwnDescriptors, ~Overlap(call'), NEW c \in CPUs, NEW fd, CloseCall(c, fd)
    PROVE  FdInv'
<1>1. /\ UNCHANGED <<ref, fil>> /\ owned' = owned \ {fd} /\ call[c].op = "user"
      /\ CallsOk /\ CallOk(c) /\ TableTyped /\ Enter(c, "close", fd, 2, 0)
  BY Zenon DEF CloseCall, Enter, FdInv, CallsOk
<1>2. CASE fd \notin Fd /\ call' = call
  <2>1. owned' = owned
    BY <1>1, <1>2, Zenon DEF TableTyped
  <2> QED
    BY <1>1, <1>2, <2>1, Untouched, Zenon
<1>3. CASE /\ fd \in Fd /\ fd \in owned /\ Others(c)
           /\ call'[c] = [op |-> "close", at |-> "call", fd |-> fd, val |-> 0,
                          puts |-> 2, arg |-> 0]
  <2>1. call'[c].op = "close" /\ call'[c].at = "call" /\ call'[c].fd = fd /\ CallOk(c)'
    BY <1>3 DEF CallOk, CallFields
  <2>2. Moved(c)
    BY <1>3, <2>1, Zenon DEF Moved, Others
  <2>3. ~Holds(c) /\ ~Keeps(c) /\ ~Holds(c)' /\ Keeps(c)' /\ ValOk(c)' /\ OpenOk(c)'
    BY <1>1, <2>1, Zenon DEF Holds, Keeps, ValOk, OpenOk, CallOk
  <2>4. TableTyped'
    BY <1>1, ZenonT(30) DEF TableTyped
  <2>5. Kept(fd) /\ Kept(fd)' /\ fil[fd] # Closed /\ ref[fd] \in Int
    BY <1>1, <1>3, <2>1, <2>3, SMTT(20) DEF Kept, FdInv, OwnedIsOpen, TableTyped
  <2>6. OnlyEntry(c, fd)
    BY <1>1, <2>1, <2>2, <2>3, <2>4, SMTT(20) DEF OnlyEntry
  <2>7. Counted(c, fd)
    BY <1>1, <2>3, <2>5, SMTT(20) DEF Counted, One
  <2>8. Handed(c, fd)
    BY <1>1, <1>3, <2>5, SMTT(20) DEF Handed
  <2> QED
    BY <1>3, <2>6, <2>7, <2>8, EffectKeeps, SMTT(20) DEF Effect
<1> QED
  BY <1>1, <1>2, <1>3, Entered

-----------------------------------------------------------------------------
\* Every step of a CPU keeps the invariant, unless it makes updates overlap.
LEMMA StepFdInv ==
    ASSUME FdInv, OwnDescriptors, ~Overlap(call'), NEW c \in CPUs, Step(c)
    PROVE  FdInv'
<1>0. PICK f : f = call[c].fd
  BY Zenon
<1>1. ASSUME NEW g, Unlink(c, g) \/ Touch(c, g) PROVE FdInv'
  BY <1>1, Untouched, Zenon DEF Unlink, Touch
<1>2. ASSUME NEW g, NEW m, OpenCall(c, g, m) PROVE FdInv'
  BY <1>2, OpenCallEffect, EffectKeeps
<1>3. ASSUME NEW fd, CloseCall(c, fd) PROVE FdInv'
  BY <1>3, CloseCallKeeps, Zenon
<1>4. ASSUME NEW fd, BadCall(c, fd) PROVE FdInv'
  BY <1>4, CallKeeps, Zenon DEF BadCall
<1>5. ASSUME NEW fd, NEW n, ReadCall(c, fd, n) PROVE FdInv'
  BY <1>5, CallKeeps, Zenon DEF ReadCall
<1>6. ASSUME NEW fd, NEW n, WriteCall(c, fd, n) PROVE FdInv'
  BY <1>6, CallKeeps, Zenon DEF WriteCall
<1>7. ASSUME NEW fd, NEW n, NEW w, SeekCall(c, fd, n, w) PROVE FdInv'
  BY <1>7, CallKeeps, Zenon DEF SeekCall
<1>8. CASE NewScan(c)
  BY <1>0, <1>8, NewScanEffect, EffectKeeps
<1>9. CASE NewTake(c)
  BY <1>0, <1>9, NewTakeEffect, EffectKeeps
<1>10. CASE GetLoad(c) \/ PutLoad(c)
  BY <1>0, <1>10, LoadEffect, EffectKeeps
<1>11. CASE GetStore(c)
  BY <1>0, <1>11, GetStoreEffect, EffectKeeps, Zenon
<1>12. CASE OpenFile(c)
  BY <1>0, <1>12, OpenFileEffect, EffectKeeps, ZenonT(30)
<1>13. CASE CloseFile(c)
  BY <1>0, <1>13, CloseFileEffect, EffectKeeps, ZenonT(30)
<1>14. CASE ReadFile(c) \/ WriteFile(c) \/ SeekOffset(c)
  BY <1>0, <1>14, TransferEffect, EffectKeeps, SMTT(20)
<1>15. CASE PutStore(c)
  BY <1>0, <1>15, PutStoreEffect, EffectKeeps, Zenon
<1>16. CASE PutTest(c)
  BY <1>0, <1>16, PutTestEffect, EffectKeeps, Zenon
<1>17. CASE PutClear(c)
  BY <1>0, <1>17, PutClearEffect, EffectKeeps, Zenon
<1>18. CASE SeekFile(c)
  BY <1>0, <1>18, SeekFileEffect, EffectKeeps, Zenon
<1> QED
  BY <1>1, <1>2, <1>3, <1>4, <1>5, <1>6, <1>7, <1>8, <1>9, <1>10, <1>11, <1>12, <1>13, <1>14,
     <1>15, <1>16, <1>17, <1>18, SMTT(20) DEF Step

\* A step of the system, or none, keeps the invariant.
LEMMA NextFilesInv ==
    ASSUME OwnDescriptors, FilesInv, [FileNext]_fileVars
    PROVE  FilesInv'
<1>1. CASE FileNext
  <2>1. PICK c \in CPUs : Step(c)
    BY <1>1, Zenon DEF FileNext
  <2>2. raced' = (raced \/ Overlap(call'))
    BY <1>1, Zenon DEF FileNext
  <2>3. raced' \in BOOLEAN
    BY <2>2, Zenon
  <2>4. ASSUME ~raced' PROVE FdInv'
    <3>1. ~raced /\ ~Overlap(call')
      BY <2>2, <2>4, Zenon
    <3>2. FdInv
      BY <3>1, Zenon DEF FilesInv
    <3> QED
      BY <2>1, <3>1, <3>2, StepFdInv
  <2> QED
    BY <2>3, <2>4, Zenon DEF FilesInv
<1>2. CASE UNCHANGED fileVars
  <2>1. UNCHANGED <<ref, fil, owned, call>> /\ raced' = raced
    BY <1>2, Zenon DEF fileVars
  <2>2. FdInv => FdInv'
    BY <2>1, Untouched, Zenon
  <2> QED
    BY <2>1, <2>2, Zenon DEF FilesInv
<1> QED
  BY <1>1, <1>2, Zenon

\* Whatever the CPUs call and however the steps of fd_new, fd_get and fd_put
\* interleave: as long as no two CPUs were at once at the unlocked updates of one
\* entry, every reference in use is counted, and every descriptor that open
\* returned has its file object until it is closed.  Callers use the descriptors
\* of the table that open has returned and that nobody has closed.
THEOREM FilesSharedAlways == OwnDescriptors /\ FileSpec => []FilesShared
<1> SUFFICES ASSUME OwnDescriptors PROVE FileSpec => []FilesShared
  BY Zenon
<1>1. FileInit => FilesInv
  BY InitFdInv, Zenon
<1>2. FilesInv /\ [FileNext]_fileVars => FilesInv'
  BY NextFilesInv, Zenon
<1>3. FilesInv => FilesShared
  BY Zenon DEF FilesInv, FdInv, FilesShared
<1> QED
  BY <1>1, <1>2, <1>3, PTL DEF FileSpec
=============================================================================
