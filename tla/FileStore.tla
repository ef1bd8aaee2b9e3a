------------------------------ MODULE FileStore ------------------------------
(***************************************************************************)
(* What a file system promises to its callers: a tree of directories and   *)
(* files, a file being a sequence of units, and handles with a position.   *)
(* Fat.tla, the model of FatFs, is shown to implement it while the power   *)
(* is on.                                                                  *)
(***************************************************************************)
EXTENDS Integers, Sequences

CONSTANTS Paths,     \* the paths callers use, a path being a sequence of names
          Handles,   \* file objects
          MaxSize    \* no file is longer

VARIABLES tree,      \* what is found at each path
          hnd,       \* the state of each file object
          on         \* FALSE once the power has failed

vars == <<tree, hnd, on>>

None == <<"none">>
Dir == <<"dir">>
File(data) == <<"file", data>>
Closed == <<"closed">>
Opened(p, pos, w) == <<"open", p, pos, w>>

IsFile(p) == tree[p][1] = "file"
IsOpen(h) == hnd[h][1] = "open"
PathOf(h) == hnd[h][2]
Pos(h) == hnd[h][3]
Writes(h) == hnd[h][4]
Parent(p) == SubSeq(p, 1, Len(p) - 1)
Below(p, d) == Len(p) >= Len(d) /\ SubSeq(p, 1, Len(d)) = d
HasParent(p) == Parent(p) = <<>> \/ tree[Parent(p)] = Dir

Init == /\ \A p \in Paths : tree[p] # None => HasParent(p)
        /\ hnd = [h \in Handles |-> Closed]
        /\ on = TRUE

\* A call that fails or only looks changes nothing.
Nothing == UNCHANGED vars

\* An existing file is opened as it is, or emptied, or a new one is made.
Open(h, p, w) ==
    /\ ~IsOpen(h)
    /\ \/ IsFile(p) /\ tree' = tree
       \/ (IsFile(p) \/ tree[p] = None) /\ HasParent(p)
          /\ tree' = [tree EXCEPT ![p] = File(<<>>)]
    /\ hnd' = [hnd EXCEPT ![h] = Opened(p, 0, w)]
    /\ UNCHANGED on

\* A write of n units changes them alone: the ones before and behind stay.
Write(h, n) ==
    /\ IsOpen(h) /\ Writes(h)
    /\ LET old == tree[PathOf(h)][2]
           new == tree'[PathOf(h)][2]
           end == Pos(h) + n
       IN /\ tree' = [tree EXCEPT ![PathOf(h)] = File(new)]
          /\ Len(new) = IF end > Len(old) THEN end ELSE Len(old)
          /\ \A i \in 1..Len(old) : i =< Pos(h) \/ i > end => new[i] = old[i]
    /\ hnd' = [hnd EXCEPT ![h][3] = @ + n]
    /\ UNCHANGED on

\* A read advances the position and changes no file.
Read(h, n) == /\ IsOpen(h)
              /\ Pos(h) + n =< Len(tree[PathOf(h)][2])
              /\ hnd' = [hnd EXCEPT ![h][3] = @ + n]
              /\ UNCHANGED <<tree, on>>

\* A seek beyond the end of a file open for writing extends the file by
\* units nobody wrote, but never changes what the file had.
Seek(h, ofs) ==
    /\ IsOpen(h)
    /\ LET old == tree[PathOf(h)][2]
           new == tree'[PathOf(h)][2]
       IN /\ tree' = [tree EXCEPT ![PathOf(h)] = File(new)]
          /\ IF ofs =< Len(old) THEN new = old
             ELSE Writes(h) /\ Len(new) = ofs /\ SubSeq(new, 1, Len(old)) = old
    /\ hnd' = [hnd EXCEPT ![h][3] = ofs]
    /\ UNCHANGED on

Truncate(h) == /\ IsOpen(h) /\ Writes(h)
               /\ tree' = [tree EXCEPT ![PathOf(h)] = File(SubSeq(@[2], 1, Pos(h)))]
               /\ UNCHANGED <<hnd, on>>

Close(h) == IsOpen(h) /\ hnd' = [hnd EXCEPT ![h] = Closed] /\ UNCHANGED <<tree, on>>

\* fat_touch makes an empty file without a handle.
Make(p) == /\ tree[p] = None /\ HasParent(p)
           /\ tree' = [tree EXCEPT ![p] = File(<<>>)]
           /\ UNCHANGED <<hnd, on>>

Mkdir(p) == /\ tree[p] = None /\ HasParent(p)
            /\ tree' = [tree EXCEPT ![p] = Dir]
            /\ UNCHANGED <<hnd, on>>

\* Only a file or an empty directory is removed.
Unlink(p) == /\ tree[p] # None
             /\ \A q \in Paths : q # p /\ Below(q, p) => tree[q] = None
             /\ tree' = [tree EXCEPT ![p] = None]
             /\ UNCHANGED <<hnd, on>>

\* A directory takes along what is below it.
Rename(p, q) ==
    /\ tree[p] # None /\ tree[q] = None /\ HasParent(q)
    /\ tree' = [r \in Paths |->
                  IF Below(r, q)
                  THEN LET old == p \o SubSeq(r, Len(q) + 1, Len(r))
                       IN IF old \in Paths THEN tree[old] ELSE None
                  ELSE IF Below(r, p) THEN None ELSE tree[r]]
    /\ UNCHANGED <<hnd, on>>

\* What a power failure leaves is not this module's concern.
PowerFails == /\ on /\ on' = FALSE
              /\ hnd' = [h \in Handles |-> Closed]

Next == \/ PowerFails
        \/ \E h \in Handles :
             \/ \E p \in Paths, w \in BOOLEAN : Open(h, p, w)
             \/ \E n \in 0..MaxSize : Write(h, n) \/ Read(h, n) \/ Seek(h, n)
             \/ Truncate(h)
             \/ Close(h)
        \/ \E p \in Paths : Make(p) \/ Mkdir(p) \/ Unlink(p) \/ \E q \in Paths : Rename(p, q)

Spec == Init /\ [][Next]_vars
=============================================================================
