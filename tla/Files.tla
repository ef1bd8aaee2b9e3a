-------------------------------- MODULE Files --------------------------------
(***************************************************************************)
(* The file descriptors of nctuOS: the file system calls                   *)
(* (kernel/fs/fs_syscall.c), the descriptor table they share               *)
(* (kernel/fs/fs.c), the FAT file operations (kernel/fs/fs_ops.c) and, as  *)
(* far as lengths and positions go, the FatFs functions they call          *)
(* (kernel/fs/fat/ff.c, built without file locks and not reentrant).       *)
(*                                                                         *)
(* There is one table for the whole system and no lock: the steps of calls *)
(* on different CPUs interleave, and each access to a reference count is a *)
(* step of its own, so that ++ and -- load and store and an update may be  *)
(* lost.  A FatFs function is one step.  A file's content is abstracted to *)
(* its length.                                                             *)
(*                                                                         *)
(* The callers are user programs.  A caller uses the descriptors that open *)
(* has returned and that nobody has closed ("owned"), also one of another  *)
(* CPU; constants let it pass bad arguments, and descriptors that it does  *)
(* not own.                                                                *)
(***************************************************************************)
EXTENDS Integers, FiniteSets

CONSTANTS
    CPUs,
    File,         \* path names
    FS_FD_MAX,    \* bound: entries of fd_table
    LENGTH,       \* bound: the disk holds files of at most this length
    MAXPOS,       \* bound: no write starts that could take fd->pos beyond it
    MAXREF,       \* bound: no bad call is made on an entry with this many references,
                  \* and no close on one that is as many below zero
    Flags,        \* the open flags that callers use
    BadArgs,      \* whether callers pass a NULL buffer or a negative offset
    ExtraFds      \* descriptors that callers use without owning them

ASSUME FilesAssumption ==
    /\ IsFiniteSet(CPUs)
    /\ FS_FD_MAX \in Nat \ {0}
    /\ LENGTH \in Nat /\ MAXPOS \in Nat /\ MAXREF \in Nat
    /\ Flags \subseteq [read: BOOLEAN, write: BOOLEAN, creat: BOOLEAN,
                        trunc: BOOLEAN, append: BOOLEAN]
    /\ BadArgs \in BOOLEAN
    /\ ExtraFds \subseteq -1 .. FS_FD_MAX + 1

VARIABLES
    ref,     \* fd_table[fd].ref_count
    pos,     \* fd_table[fd].pos
    size,    \* fd_table[fd].size
    fil,     \* file_objs[fd]: an open FatFs file object, or Closed
    disk,    \* the length of each file in the directory, or Absent
    call,    \* the file system call that each CPU is in and where it is
    owned,   \* the descriptors that open returned and close has not been given
    wild,    \* an address outside fd_table was used
    raced    \* two CPUs were at once where the code updates one reference count

fileVars == <<ref, pos, size, fil, disk, call, owned, wild, raced>>

Fd == 0 .. FS_FD_MAX - 1
Absent == -1
Closed == [file |-> "none"]
\* val: the count that was loaded; puts: calls of fd_put still to come.
User == [op |-> "user", at |-> "user", fd |-> -1, val |-> 0, puts |-> 0, arg |-> 0]
Smaller(i, j) == IF i < j THEN i ELSE j

\* fs_init
FileInit ==
    /\ ref = [fd \in Fd |-> 0]
    /\ pos = [fd \in Fd |-> 0]
    /\ size = [fd \in Fd |-> 0]
    /\ fil = [fd \in Fd |-> Closed]
    /\ disk \in [File -> {Absent, 1}]
    /\ call = [c \in CPUs |-> User]
    /\ owned = {}
    /\ wild = FALSE /\ raced = FALSE

-----------------------------------------------------------------------------
(* FatFs.  A file object has its own copy of the length: without file locks *)
(* one file may be open twice.                                              *)

\* The file object and the directory after f_open.
f_open(f, flags) ==
    LET object(len) == [file |-> f, ptr |-> 0, len |-> len, modified |-> flags.creat,
                        read |-> flags.read, write |-> flags.write]
    IN  IF flags.creat /\ ~flags.trunc /\ disk[f] # Absent
        THEN [res |-> "FR_EXIST", fil |-> Closed, disk |-> disk]
        ELSE IF flags.creat
        THEN [res |-> "FR_OK", fil |-> object(0), disk |-> [disk EXCEPT ![f] = 0]]
        ELSE IF disk[f] = Absent
        THEN [res |-> "FR_NO_FILE", fil |-> Closed, disk |-> disk]
        ELSE [res |-> "FR_OK", fil |-> object(disk[f]), disk |-> disk]

\* A read-only file clips the offset; a writable one grows, as the disk allows.
f_lseek(o, ofs) ==
    IF o = Closed THEN o
    ELSE LET to == Smaller(ofs, IF o.write THEN LENGTH ELSE o.len)
         IN  [o EXCEPT !.ptr = to,
                       !.len = IF to > @ THEN to ELSE @,
                       !.modified = @ \/ to > o.len]

\* How many bytes f_read and f_write move.
f_read(o, n) ==
    IF o = Closed \/ ~o.read THEN 0 ELSE Smaller(n, o.len - o.ptr)

f_write(o, n) ==
    IF o = Closed \/ ~o.write THEN 0 ELSE Smaller(n, LENGTH - o.ptr)

Written(o, bw) ==
    [o EXCEPT !.ptr = @ + bw,
              !.len = IF o.ptr + bw > @ THEN o.ptr + bw ELSE @,
              !.modified = TRUE]

\* f_close syncs the length to the directory entry if there still is one.
f_close(o) ==
    IF o # Closed /\ o.modified /\ disk[o.file] # Absent
    THEN [disk EXCEPT ![o.file] = o.len] ELSE disk

-----------------------------------------------------------------------------
(* The descriptor table. *)

Return(c) == call' = [call EXCEPT ![c] = User]
Goto(c, at) == call' = [call EXCEPT ![c].at = at, ![c].val = 0]
Load(c, at) == call' = [call EXCEPT ![c].at = at, ![c].val = ref[call[c].fd]]
Store(c, n) == ref' = [ref EXCEPT ![call[c].fd] = n]

\* fd_new, one entry at a time: an entry with no reference is taken.
NewScan(c) ==
    /\ call[c].at = "scan"
    /\ LET fd == call[c].fd
       IN  \/ ref[fd] <= 0 /\ Goto(c, "new")
           \/ ref[fd] > 0 /\ fd + 1 = FS_FD_MAX /\ Return(c)
           \/ ref[fd] > 0 /\ fd + 1 < FS_FD_MAX /\ call' = [call EXCEPT ![c].fd = fd + 1]
    /\ UNCHANGED <<ref, pos, size, fil, disk, owned, wild>>
NewTake(c) ==
    /\ call[c].at = "new" /\ Store(c, 1) /\ Goto(c, "call")
    /\ UNCHANGED <<pos, size, fil, disk, owned, wild>>

\* fd_get: a reference more.  With a bad buffer (sys_read, sys_write) or a
\* negative offset (sys_lseek) the call returns then, without fd_put.
GetLoad(c) ==
    /\ call[c].at = "call" /\ Load(c, "get")
    /\ UNCHANGED <<ref, pos, size, fil, disk, owned, wild>>
GetStore(c) ==
    /\ call[c].at = "get" /\ Store(c, call[c].val + 1)
    /\ IF call[c].op = "bad" THEN Return(c) ELSE Goto(c, "file")
    /\ UNCHANGED <<pos, size, fil, disk, owned, wild>>

\* What follows fd_put: the second one of sys_close; sys_lseek seeks after it
\* has put the descriptor; the others return.  Only an open that succeeded
\* returns the descriptor; one that failed keeps fd_new's reference.
AfterPut(c) ==
    /\ IF call[c].puts > 1 THEN call' = [call EXCEPT ![c].at = "put", ![c].puts = @ - 1]
       ELSE IF call[c].op = "seek" THEN Goto(c, "seek") ELSE Return(c)
    /\ owned' = IF call[c].op = "open" /\ call[c].arg = "FR_OK"
                THEN owned \cup {call[c].fd} ELSE owned

\* Mutant: the object is cleared when one reference is left.
NoReference_Early(fd) == ref[fd] = 1

\* fd_put: a reference less, a test of what is left, and the last one clears the
\* file object.
NoReference(fd) == ref[fd] = 0
PutLoad(c) ==
    /\ call[c].at = "put" /\ Load(c, "dec")
    /\ UNCHANGED <<ref, pos, size, fil, disk, owned, wild>>
PutStore(c) ==
    /\ call[c].at = "dec" /\ Store(c, call[c].val - 1) /\ Goto(c, "test")
    /\ UNCHANGED <<pos, size, fil, disk, owned, wild>>
PutTest(c) ==
    /\ call[c].at = "test"
    /\ IF NoReference(call[c].fd) THEN Goto(c, "clear") /\ UNCHANGED owned ELSE AfterPut(c)
    /\ UNCHANGED <<ref, pos, size, fil, disk, wild>>
PutClear(c) ==
    /\ call[c].at = "clear" /\ fil' = [fil EXCEPT ![call[c].fd] = Closed] /\ AfterPut(c)
    /\ UNCHANGED <<ref, pos, size, disk, wild>>

\* The descriptors that a caller may pass.
Argument == owned \cup ExtraFds

\* The entry of a call on descriptor fd: NULL, off the table, or on to fd_get.
fd_get_null(fd) == fd < 0 \/ fd > FS_FD_MAX
Enter(c, op, fd, puts, arg) ==
    /\ call[c].op = "user"
    /\ fd \in Argument
    /\ \/ fd_get_null(fd) /\ UNCHANGED <<call, wild>>
       \/ fd = FS_FD_MAX /\ wild' = TRUE /\ UNCHANGED call
       \/ /\ fd \in Fd /\ UNCHANGED wild
          /\ call' = [call EXCEPT ![c] = [op |-> op, at |-> "call", fd |-> fd, val |-> 0,
                                          puts |-> puts, arg |-> arg]]
    /\ UNCHANGED <<ref, pos, size, fil, disk>>

-----------------------------------------------------------------------------
(* The calls: sys_open, and the file operations between fd_get and fd_put. *)

OpenCall(c, f, flags) ==
    /\ call[c].op = "user"
    /\ call' = [call EXCEPT ![c] = [op |-> "open", at |-> "scan", fd |-> 0, val |-> 0, puts |-> 1,
                                    arg |-> [file |-> f, flags |-> flags]]]
    /\ UNCHANGED <<ref, pos, size, fil, disk, owned, wild>>

\* A call is at its file operation, and goes on to fd_put with what it needs.
AtFile(c, op) == call[c].op = op /\ call[c].at = "file"
Done(c, res) == call' = [call EXCEPT ![c].at = "put", ![c].arg = res]

\* file_open and fat_open.
OpenFile(c) ==
    /\ AtFile(c, "open")
    /\ LET fd == call[c].fd
           flags == call[c].arg.flags
           o == f_open(call[c].arg.file, flags)
           object == IF flags.append /\ o.res = "FR_OK"
                     THEN f_lseek(o.fil, o.fil.len) ELSE o.fil
       IN  /\ size' = [size EXCEPT ![fd] = IF flags.creat THEN 0 ELSE @]
           /\ pos' = [pos EXCEPT ![fd] = 0]
           /\ fil' = [fil EXCEPT ![fd] = object]
           /\ disk' = o.disk
           /\ Done(c, o.res)
    /\ UNCHANGED <<ref, owned, wild>>

\* The caller gives the descriptor up when it calls close.
CloseCall(c, fd) ==
    /\ fd \in Fd => ref[fd] > -MAXREF
    /\ Enter(c, "close", fd, 2, 0)
    /\ owned' = owned \ {fd}

CloseFile(c) ==
    /\ AtFile(c, "close")
    /\ disk' = f_close(fil[call[c].fd])
    /\ fil' = [fil EXCEPT ![call[c].fd] = Closed]
    /\ Done(c, 0)
    /\ UNCHANGED <<ref, pos, size, owned, wild>>

ReadCall(c, fd, n) == Enter(c, "read", fd, 1, n) /\ UNCHANGED owned

\* fat_read moves FatFs's pointer, not fd->pos.
ReadFile(c) ==
    /\ AtFile(c, "read")
    /\ LET fd == call[c].fd
           br == f_read(fil[fd], call[c].arg)
       IN  fil' = IF br = 0 THEN fil ELSE [fil EXCEPT ![fd].ptr = @ + br]
    /\ Done(c, 0)
    /\ UNCHANGED <<ref, pos, size, disk, owned, wild>>

WriteCall(c, fd, n) ==
    /\ fd \in Fd => pos[fd] + n <= MAXPOS
    /\ Enter(c, "write", fd, 1, n) /\ UNCHANGED owned

WriteFile(c) ==
    /\ AtFile(c, "write")
    /\ LET fd == call[c].fd
           bw == f_write(fil[fd], call[c].arg)
           to == pos[fd] + bw
       IN  /\ fil' = IF bw = 0 THEN fil ELSE [fil EXCEPT ![fd] = Written(@, bw)]
           /\ pos' = [pos EXCEPT ![fd] = to]
           /\ size' = [size EXCEPT ![fd] = IF to > @ THEN to ELSE @]
    /\ Done(c, 0)
    /\ UNCHANGED <<ref, disk, owned, wild>>

BadCall(c, fd) ==
    /\ BadArgs
    /\ fd \in Fd => ref[fd] < MAXREF
    /\ Enter(c, "bad", fd, 0, 0) /\ UNCHANGED owned

SeekCall(c, fd, offset, whence) ==
    Enter(c, "seek", fd, 1, [offset |-> offset, whence |-> whence]) /\ UNCHANGED owned

\* sys_lseek computes the offset, puts the descriptor, and then seeks.
NewOffset(fd, offset, whence) ==
    CASE whence = "SEEK_SET" -> offset
      [] whence = "SEEK_CUR" -> pos[fd] + offset
      [] whence = "SEEK_END" -> size[fd] + offset
SeekOffset(c) ==
    /\ AtFile(c, "seek")
    /\ Done(c, NewOffset(call[c].fd, call[c].arg.offset, call[c].arg.whence))
    /\ UNCHANGED <<ref, pos, size, fil, disk, owned, wild>>

SeekFile(c) ==
    /\ call[c].at = "seek"
    /\ fil' = [fil EXCEPT ![call[c].fd] = f_lseek(@, call[c].arg)]
    /\ Return(c)
    /\ UNCHANGED <<ref, pos, size, disk, owned, wild>>

\* sys_unlink and sys_rm (f_unlink); sys_touch, which opens and never closes.
Unlink(c, f) ==
    /\ call[c].op = "user"
    /\ disk' = [disk EXCEPT ![f] = Absent]
    /\ UNCHANGED <<ref, pos, size, fil, call, owned, wild>>

Touch(c, f) ==
    /\ call[c].op = "user"
    /\ disk' = [disk EXCEPT ![f] = IF @ = Absent THEN 0 ELSE @]
    /\ UNCHANGED <<ref, pos, size, fil, call, owned, wild>>

Whence == {"SEEK_SET", "SEEK_CUR", "SEEK_END"}

Step(c) ==
    \/ \E f \in File : Unlink(c, f) \/ Touch(c, f) \/ \E m \in Flags : OpenCall(c, f, m)
    \/ \E fd \in Argument :
          \/ CloseCall(c, fd) \/ BadCall(c, fd)
          \/ \E n \in 1 .. LENGTH : ReadCall(c, fd, n) \/ WriteCall(c, fd, n)
          \/ \E n \in 0 .. LENGTH, w \in Whence : SeekCall(c, fd, n, w)
    \/ NewScan(c) \/ NewTake(c) \/ GetLoad(c) \/ GetStore(c)
    \/ OpenFile(c) \/ CloseFile(c) \/ ReadFile(c) \/ WriteFile(c) \/ SeekOffset(c)
    \/ PutLoad(c) \/ PutStore(c) \/ PutTest(c) \/ PutClear(c) \/ SeekFile(c)

\* The places where a lock would have to be held: fd_new from its test to its
\* assignment, fd_get's ++, and all of fd_put.
Unlocked == {"new", "get", "dec", "test", "clear"}
Overlap(calls) ==
    \E c, d \in CPUs : c # d /\ calls[c].fd = calls[d].fd /\ {calls[c].at, calls[d].at} \subseteq Unlocked

FileNext ==
    /\ ~wild
    /\ \E c \in CPUs : Step(c)
    /\ raced' = (raced \/ Overlap(call'))

FileSpec == FileInit /\ [][FileNext]_fileVars

-----------------------------------------------------------------------------
\* Call c holds the reference of its fd_get.
Holds(c) ==
    /\ call[c].at \in {"file", "put", "dec"}
    /\ ~(call[c].op = "close" /\ call[c].puts = 1)
Users(fd) == {c \in CPUs : call[c].fd = fd /\ Holds(c)}

\* Call c has the reference of fd_new: an open until it returns, a close until
\* its second fd_put.
Keeps(c) ==
    \/ call[c].op = "open" /\ call[c].at \notin {"scan", "new"}
    \/ call[c].op = "close" /\ ~(call[c].puts = 1 /\ call[c].at \in {"test", "clear"})
Kept(fd) == fd \in owned \/ \E c \in CPUs : call[c].fd = fd /\ Keeps(c)

\* The references that are accounted for: one per call that holds one, one for an
\* open that is under way or has succeeded, until its close.
Accounted(fd) == Cardinality(Users(fd)) + (IF Kept(fd) THEN 1 ELSE 0)

\* A FatFs object keeps its pointer within its length, and its length within the
\* disk, also when a seek meets it after sys_lseek has put the descriptor.
FileTypeOK ==
    /\ ref \in [Fd -> Int]
    /\ pos \in [Fd -> Nat] /\ size \in [Fd -> Nat]
    /\ \A fd \in Fd : fil[fd] # Closed =>
          fil[fd].file \in File /\ fil[fd].ptr \in 0 .. fil[fd].len /\ fil[fd].len <= LENGTH
    /\ disk \in [File -> {Absent} \cup 0 .. LENGTH]
    /\ owned \subseteq Fd
    /\ wild \in BOOLEAN /\ raced \in BOOLEAN

\* Every reference in use is counted, so that fd_new cannot hand out an entry
\* that is open or in a call, and fd_put cannot clear its file object.
RefCovers == \A fd \in Fd : ref[fd] >= Accounted(fd)

\* A descriptor that open returned has a file object until somebody closes it,
\* whatever calls with other descriptors or with bad arguments are made.
OwnedIsOpen == \A fd \in owned : fil[fd] # Closed

\* The two together are what the callers of fs.c rely on, also when one CPU
\* closes a descriptor that another is reading, or still is about to read, and
\* when several open at once.  There is one exception: two CPUs that were at the
\* same time where fd_new, fd_get and fd_put update one and the same entry
\* without a lock.
FilesShared == ~raced => RefCovers /\ OwnedIsOpen
=============================================================================
