-------------------------------- MODULE Walks --------------------------------
(*****************************************************************************)
(* Programs that walk over what others change: connections in /proc, the     *)
(* files of a monitored program, a directory tree, and /dev.                 *)
(*****************************************************************************)
EXTENDS Sequences, FiniteSets, Integers

(* Homework/hw1: one list of connections of the netstat program, read from   *)
(* /proc/net, matched with the descriptors of every process found in /proc,  *)
(* printed and freed, while those processes close descriptors and exit.  The *)
(* four lists (TCP and UDP, versions 4 and 6) are handled alike.             *)
CONSTANTS NPIDS,     \* processes, in the order of /proc
          PROC_FDS,      \* descriptors of a process
          Tables,    \* sets of sockets and files the processes may start with
          Lists,     \* the lists /proc/net may hold: [inode, long] entries
          FILE       \* what a descriptor that is no socket links to
VARIABLES held, opened, conns, netPc, proc, f, link, raced, changed, ip, printed
netVars == <<held, opened, conns, netPc, proc, f, link, raced, changed, ip, printed>>

Pids == 1..NPIDS
NetFds == 1..PROC_FDS
CLOSED == 0
GONE == [x \in NetFds |-> CLOSED]

NetInit ==
    /\ held \in Tables /\ opened = held /\ conns = <<>> /\ netPc = "read"
    /\ proc = 1 /\ f = 1 /\ link = FILE /\ raced = FALSE /\ changed = FALSE
    /\ ip = 0 /\ printed = <<>>

(* ------------------------ the processes (external) --------------------- *)
CloseFd(q, x) ==
    /\ held[q][x] # CLOSED /\ netPc \notin {"crash", "done"}
    /\ held' = [held EXCEPT ![q][x] = CLOSED] /\ changed' = TRUE
    /\ UNCHANGED <<opened, conns, netPc, proc, f, link, raced, ip, printed>>
\* A process without descriptors is as good as gone: opendir () of its fd
\* directory, or fopen () of its command line, may fail.
Alive(q) == held[q] # GONE

(* ------------------------------- the scan ------------------------------ *)
ReadConnections ==
    /\ netPc = "read" /\ netPc' = "proc"
    /\ \E l \in Lists :
          conns' = [n \in DOMAIN l |-> [inode |-> l[n].inode, long |-> l[n].long, pid |-> 0, program |-> 0]]
    /\ UNCHANGED <<held, opened, proc, f, link, raced, changed, ip, printed>>

Opendir ==
    /\ netPc = "proc"
    /\ \/ proc > NPIDS /\ netPc' = "print" /\ proc' = 1 /\ UNCHANGED f
       \/ proc <= NPIDS /\ ~Alive(proc) /\ proc' = proc + 1 /\ UNCHANGED <<netPc, f>>
       \/ proc <= NPIDS /\ Alive(proc) /\ netPc' = "fd" /\ f' = 1 /\ UNCHANGED proc
    /\ UNCHANGED <<held, opened, conns, link, raced, changed, ip, printed>>

NetReaddir ==
    /\ netPc = "fd"
    /\ \/ f > PROC_FDS /\ netPc' = "proc" /\ proc' = proc + 1 /\ UNCHANGED f
       \/ f <= PROC_FDS /\ held[proc][f] = CLOSED /\ f' = f + 1 /\ UNCHANGED <<netPc, proc>>
       \/ f <= PROC_FDS /\ held[proc][f] # CLOSED /\ netPc' = "link" /\ UNCHANGED <<proc, f>>
    /\ UNCHANGED <<held, opened, conns, link, raced, changed, ip, printed>>

\* readlink () of a descriptor closed since readdir (): its result is not
\* tested, and the buffer is what its stack slot held.
Readlink ==
    /\ netPc = "link"
    /\ IF held[proc][f] # CLOSED THEN link' = held[proc][f] /\ UNCHANGED raced
       ELSE link' \in {link, FILE} /\ raced' = TRUE
    /\ netPc' = "match" /\ UNCHANGED <<held, opened, conns, proc, f, changed, ip, printed>>

\* Every entry with the inode gets the process; fclose () of the command line
\* that could not be opened ends the program.
Match ==
    /\ netPc = "match"
    /\ LET own == {n \in DOMAIN conns : link # FILE /\ conns[n].inode = link}
       IN IF own # {} /\ ~Alive(proc) THEN netPc' = "crash" /\ UNCHANGED <<conns, f>>
          ELSE /\ conns' = [n \in DOMAIN conns |->
                               IF n \in own THEN [conns[n] EXCEPT !.pid = proc, !.program = proc] ELSE conns[n]]
               /\ f' = f + 1 /\ netPc' = "fd"
    /\ UNCHANGED <<held, opened, proc, link, raced, changed, ip, printed>>

\* inet_ntop () into 30 bytes fails for a long address, and the buffer keeps
\* the address of the entry before.
ListConnections ==
    /\ netPc = "print"
    /\ IF proc > Len(conns) THEN netPc' = "done" /\ UNCHANGED <<ip, printed, proc>>
       ELSE /\ ip' = IF conns[proc].long THEN ip ELSE proc
            /\ printed' = Append(printed, [entry |-> conns[proc], ip |-> ip'])
            /\ proc' = proc + 1 /\ UNCHANGED netPc
    /\ UNCHANGED <<held, opened, conns, f, link, raced, changed>>

NetEnded == netPc \in {"crash", "done"} /\ UNCHANGED netVars
NetNext == \/ \E q \in Pids, x \in NetFds : CloseFd(q, x)
           \/ ReadConnections \/ Opendir \/ NetReaddir \/ Readlink \/ Match
           \/ ListConnections \/ NetEnded
NetSpec == NetInit /\ [][NetNext]_netVars

(* ------------------------------ properties ----------------------------- *)
Holds(q, i) == \E x \in NetFds : opened[q][x] = i

\* A process is named beside a connection only if it had its socket open, or
\* a descriptor was closed between readdir () and readlink ().
OwnerRight ==
    \A n \in DOMAIN conns : conns[n].pid # 0 => Holds(conns[n].pid, conns[n].inode) \/ raced

\* Undisturbed, the scan finds an owner for every connection that has one.
OwnerFound ==
    netPc = "done" /\ ~changed =>
           \A n \in DOMAIN conns : (\E q \in Pids : Holds(q, conns[n].inode)) => conns[n].pid # 0

\* A line shows the address of its own connection, unless it is a long one.
AddressOwn == \A n \in DOMAIN printed : printed[n].ip = n \/ printed[n].entry.long

-----------------------------------------------------------------------------
(* Homework/hw2: the library that is preloaded into a program and prints a   *)
(* line for each file call.  The program makes the calls; each one runs the  *)
(* original, looks up the file behind its descriptor and prints to `out',    *)
(* which is stderr or the file MONITOR_OUTPUT names, opened before main ().  *)
CONSTANTS NFDS,       \* bound: descriptors 0..NFDS-1
          Paths,      \* files the program opens
          MAXCALLS    \* bound: calls
NONE == "none"
Std == <<"<STDIN>", "<STDOUT>", "<STDERR>">>
VARIABLES fds, out, lines, dest, was, touched, over
monVars == <<fds, out, lines, dest, was, touched, over>>
MonFds == 0..(NFDS - 1)
Args == MonFds \cup {-1}     \* a call may be given a descriptor that is not open

\* prework (): MONITOR_OUTPUT, if set, takes the first free descriptor.
MonInit ==
    /\ out \in {2, 3}
    /\ fds = [d \in MonFds |-> IF d < 3 THEN "tty" ELSE IF d = out THEN "log" ELSE NONE]
    /\ lines = <<>> /\ dest = <<>> /\ was = <<>> /\ touched = FALSE /\ over = "no"

LogFile == IF out = 2 THEN "tty" ELSE "log"
Lowest(t) == CHOOSE d \in MonFds : t[d] = NONE /\ \A e \in MonFds : t[e] = NONE => d <= e
Full(t) == \A d \in MonFds : t[d] # NONE
IsOpen(d) == d \in MonFds /\ fds[d] # NONE

\* The names 0, 1 and 2 get are fixed; readlink () of /proc/self/fd otherwise,
\* whose failure is not tested and leaves any bytes.
fd_to_filename(t, d) ==
    IF d < 0 THEN {"<ERROR>"} ELSE IF d < 3 THEN {Std[d + 1]}
    ELSE IF t[d] = NONE THEN Paths \cup {"?"} ELSE {t[d]}

\* Lines that have been printed reach the file that is behind `out' when the
\* stream is written: stderr at once, another one when its buffer is full.
Written(l) == [i \in DOMAIN l |-> IF i <= Len(dest) THEN dest[i] ELSE fds'[out]]
\* PRINT_GENERAL: the name in the line, and the file that was behind it.
Line(n, file) ==
    /\ lines' = Append(lines, n)
    /\ was' = Append(was, file)
    /\ \/ dest' = Written(lines')
       \/ out # 2 /\ UNCHANGED dest
MonCall == over = "no" /\ Len(lines) < MAXCALLS
Behind(d) == IF d < 0 THEN "<ERROR>" ELSE IF d < 3 THEN Std[d + 1] ELSE fds[d]

\* open () prints the path it was given; it may fail.
open(path) ==
    /\ MonCall
    /\ \/ ~Full(fds) /\ fds' = [fds EXCEPT ![Lowest(fds)] = path] /\ Line(path, path)
       \/ UNCHANGED fds /\ Line(path, path)
    /\ UNCHANGED <<out, touched, over>>

\* creat, fopen and opendir look the name up after the call.
creat(path) ==
    /\ MonCall
    /\ \/ /\ ~Full(fds) /\ fds' = [fds EXCEPT ![Lowest(fds)] = path]
          /\ LET d == Lowest(fds)
             IN \E n \in fd_to_filename(fds', d) : Line(n, IF d < 3 THEN Std[d + 1] ELSE path)
       \/ UNCHANGED fds /\ \E n \in fd_to_filename(fds, -1) : Line(n, "<ERROR>")
    /\ UNCHANGED <<out, touched, over>>

\* mkdir, chmod, chdir, rmdir, link, unlink, readlink, symlink, remove, rename
\* and the stat calls print the path they were given.
PathCall(path) ==
    /\ MonCall /\ UNCHANGED fds /\ Line(path, path) /\ UNCHANGED <<out, touched, over>>

\* read, write, pwrite, fgetc, fread, fwrite, fscanf and fprintf look the name
\* up after the call, which leaves the descriptor alone, open or not.
InOut(d) ==
    /\ MonCall /\ UNCHANGED fds
    /\ \E n \in fd_to_filename(fds, d) : Line(n, Behind(d))
    /\ UNCHANGED <<out, touched, over>>

\* close, fclose and closedir look it up before the call.
close(d) ==
    /\ MonCall
    /\ fds' = IF IsOpen(d) THEN [fds EXCEPT ![d] = NONE] ELSE fds
    /\ touched' = (touched \/ d = out)
    /\ \E n \in fd_to_filename(fds, d) : Line(n, Behind(d))
    /\ UNCHANGED <<out, over>>

dup(d) ==
    /\ MonCall
    /\ fds' = IF IsOpen(d) /\ ~Full(fds) THEN [fds EXCEPT ![Lowest(fds)] = fds[d]] ELSE fds
    /\ \E n \in fd_to_filename(fds, d) : Line(n, Behind(d))
    /\ UNCHANGED <<out, touched, over>>
dup2(old, new) ==
    /\ MonCall
    /\ fds' = IF IsOpen(old) THEN [fds EXCEPT ![new] = fds[old]] ELSE fds
    /\ touched' = (touched \/ (IsOpen(old) /\ new = out /\ old # new))
    /\ \E n \in fd_to_filename(fds, old) : Line(n, Behind(old))
    /\ UNCHANGED <<out, over>>

\* A failed fopen () or opendir () is passed to fileno () or dirfd (), and an
\* unknown owner's null entry is read in chown (): what is in the buffer of
\* `out' then is never written.
FailedLookup == MonCall /\ over' = "crash" /\ UNCHANGED <<fds, out, lines, dest, was, touched>>
\* postwork (): the stream is closed.
postwork == /\ over = "no" /\ over' = "exit"
            /\ UNCHANGED <<fds, out, lines, was, touched>> /\ dest' = Written(lines)

Over == over # "no" /\ UNCHANGED monVars
MonNext == \/ \E p \in Paths : open(p) \/ creat(p) \/ PathCall(p)
           \/ \E d \in Args : InOut(d) \/ close(d) \/ dup(d) \/ \E e \in MonFds : dup2(d, e)
           \/ FailedLookup \/ postwork \/ Over
MonSpec == MonInit /\ [][MonNext]_monVars

(* ------------------------------ properties ----------------------------- *)
\* A line names the file that was behind its descriptor when the call was
\* made, also for the calls that close it or give it away; only a line for a
\* descriptor that was not open may name any file.
NamesRight == \A i \in DOMAIN lines : was[i] # NONE => lines[i] = was[i]

\* The lines reach the monitor's own file, in order and, unless the library
\* ended the program before its buffer was written, all of them.  A program
\* that closed or replaced the descriptor behind that file is excepted: even
\* the lines of calls before that may land in a file of its own.
LinesApart ==
    ~touched => /\ \A i \in DOMAIN dest : dest[i] = LogFile
                /\ Len(dest) <= Len(lines)
                /\ over = "exit" \/ out = 2 => Len(dest) = Len(lines)

-----------------------------------------------------------------------------
(* file/ftw4.c: the walk through a directory hierarchy with one path that    *)
(* every level extends and restores, while entries may disappear.  A path is *)
(* a sequence of nodes, in which 0 stands for a slash.                       *)
CONSTANTS Trees        \* bound: [kind : node -> kind, up : node -> directory]; 1 is the top
VARIABLES tree, gone, fullpath, frames, calling, calls, count
ftwVars == <<tree, gone, fullpath, frames, calling, calls, count>>

FtwNodes == DOMAIN tree.kind
FtwKids(d) == {x \in FtwNodes \ {1} : tree.up[x] = d}
Last(s) == s[Len(s)]

\* myftw (): the path is the one given.
FtwInit == /\ tree \in Trees /\ gone = {} /\ fullpath = <<1>> /\ frames = <<>> /\ calling = TRUE
           /\ calls = <<>> /\ count = [k \in {"F", "D"} |-> 0]

\* myfunc (): counts by kind; a directory that cannot be read, or an entry that
\* cannot be looked at, is only reported.
func(type) == /\ calls' = Append(calls, <<type, fullpath>>)
              /\ count' = IF type \in {"F", "D"} THEN [count EXCEPT ![type] = @ + 1] ELSE count
Here == Last(fullpath)
Return == calling' = FALSE /\ UNCHANGED frames

\* dopath () for the entry the path leads to.
NoStat == /\ calling /\ Here \in gone /\ func("NS") /\ Return /\ UNCHANGED <<tree, gone, fullpath>>
File == /\ calling /\ Here \notin gone /\ tree.kind[Here] = "file" /\ func("F") /\ Return
        /\ UNCHANGED <<tree, gone, fullpath>>
\* A directory is passed on before what is in it; opendir () gives its entries,
\* in any order, as they are then.
Dir == /\ calling /\ Here \notin gone /\ tree.kind[Here] = "dir" /\ func("D")
       /\ frames' = Append(frames, [dir |-> Here, rest |-> FtwKids(Here) \ gone, ptr |-> Len(fullpath) + 1])
       /\ fullpath' = Append(fullpath, 0) /\ calling' = FALSE
       /\ UNCHANGED <<tree, gone>>
\* It cannot be read: the slash stays behind.
Unreadable == /\ calling /\ Here \notin gone /\ tree.kind[Here] = "locked"
              /\ calls' = calls \o << <<"D", fullpath>>, <<"DNR", Append(fullpath, 0)>> >>
              /\ count' = [count EXCEPT !["D"] = @ + 1]
              /\ fullpath' = Append(fullpath, 0) /\ Return /\ UNCHANGED <<tree, gone>>

\* Mutant of readdir: the name is put behind the one before.
readdir_Append(x) == Append(IF Last(fullpath) = 0 THEN fullpath ELSE Append(fullpath, 0), x)
readdir(x) == Append(SubSeq(fullpath, 1, Last(frames).ptr), x)
FtwReaddir == /\ ~calling /\ frames # <<>>
              /\ \E x \in Last(frames).rest :
                   /\ fullpath' = readdir(x)
                   /\ frames' = [frames EXCEPT ![Len(frames)].rest = @ \ {x}]
              /\ calling' = TRUE /\ UNCHANGED <<tree, gone, calls, count>>
Closedir == /\ ~calling /\ frames # <<>> /\ Last(frames).rest = {}
            /\ fullpath' = SubSeq(fullpath, 1, Last(frames).ptr - 1)
            /\ frames' = SubSeq(frames, 1, Len(frames) - 1)
            /\ UNCHANGED <<tree, gone, calling, calls, count>>

\* Somebody removes an entry that is a file, or empty.
Unlink(x) == /\ x # 1 /\ x \notin gone /\ FtwKids(x) \subseteq gone
             /\ gone' = gone \cup {x}
             /\ UNCHANGED <<tree, fullpath, frames, calling, calls, count>>
FtwNext == NoStat \/ File \/ Dir \/ Unreadable \/ FtwReaddir \/ Closedir \/ \E x \in FtwNodes : Unlink(x)

(* ------------------------------ properties ----------------------------- *)
Path(x) == LET up[k \in 0..Cardinality(FtwNodes)] ==
                 IF k = 0 THEN <<x>>
                 ELSE IF up[k - 1][1] = 1 THEN up[k - 1] ELSE <<tree.up[up[k - 1][1]], 0>> \o up[k - 1]
           IN up[Cardinality(FtwNodes)]
FtwEnded == ~calling /\ frames = <<>>

\* The path func () is given is the path of the entry, at every level, however
\* deep the walk was before.
PathTrue == \A i \in DOMAIN calls : calls[i][1] # "DNR" => calls[i][2] = Path(Last(calls[i][2]))

\* Whatever is removed meanwhile, what stays there and can be reached is counted
\* once, under its kind, and nothing is counted twice.
Reached(x) == \A k \in DOMAIN Path(x) : Path(x)[k] \in {0, x} \/ tree.kind[Path(x)[k]] = "dir"
Counted(x) == Cardinality({i \in DOMAIN calls : calls[i][1] \in {"F", "D"} /\ calls[i][2] = Path(x)})
CountedOnce ==
    FtwEnded => \A x \in FtwNodes : Counted(x) <= 1 /\ (x \notin gone /\ Reached(x) => Counted(x) = 1)

-----------------------------------------------------------------------------
(* termios/ttyname.c: the name of the terminal of a descriptor, found by     *)
(* looking through /dev and, directory by directory, below it.  The list of  *)
(* directories is static, as is the name that is returned.                   *)
CONSTANTS DevTrees,       \* bound: [kind : node -> kind, up : node -> directory]; 1 is /dev
          MAXNAMES     \* bound
VARIABLES dev, absent, want, namePc, head, at, dirent, rval, skipped, moved, ncalls
nameVars == <<dev, absent, want, namePc, head, at, dirent, rval, skipped, moved, ncalls>>

NameNodes == DOMAIN dev.kind
NameKids(d) == {x \in NameNodes \ {1} : dev.up[x] = d}
Terminals == {x \in NameNodes : dev.kind[x] \in {"tty", "alias"}}
NULL == 0

\* `absent': names that are not there at the moment.
NameInit == /\ dev \in DevTrees /\ absent \in SUBSET Terminals /\ want = 1 /\ namePc = "idle" /\ head = <<>>
            /\ at = 0 /\ dirent = {} /\ rval = NULL /\ skipped = {} /\ moved = {} /\ ncalls = 0

\* opendir (): the entries, or NULL, and the directory is passed over.
NameOpendir(d) == \/ dirent' = NameKids(d) /\ UNCHANGED skipped
                  \/ dirent' = {} /\ skipped' = skipped \cup {d}

\* A descriptor that is a terminal; it need not have a name in /dev any more.
NameCall(x) == /\ namePc = "idle" /\ ncalls < MAXNAMES /\ ncalls' = ncalls + 1
               /\ want' = x /\ at' = 0 /\ rval' = NULL /\ moved' = {}
               /\ \/ /\ dev.kind[x] = "file" /\ skipped' = {} /\ UNCHANGED <<namePc, dirent>>
                  \/ /\ x \in Terminals /\ namePc' = "search"
                     /\ \/ dirent' = NameKids(1) /\ skipped' = {}
                        \/ dirent' = {} /\ skipped' = {1}
               /\ UNCHANGED <<dev, absent, head>>

\* Terminals come and go, also while the directories are read.
DevChange(x) == /\ namePc = "search" /\ x \in Terminals /\ moved' = moved \cup {x}
                /\ absent' = IF x \in absent THEN absent \ {x} ELSE absent \cup {x}
                /\ UNCHANGED <<dev, want, namePc, head, at, dirent, rval, skipped, ncalls>>

\* add (): . and .., and /dev/fd, are not followed; nor what there is no room for.
add(x) == \/ head' = Append(head, x) /\ UNCHANGED skipped
          \/ skipped' = skipped \cup {x} /\ UNCHANGED head

\* searchdir (): one entry.  The names /dev/stdin and so on, and one stat ()
\* does not find any more, are passed over; two names of one file have the
\* same number.
Found(x) == x \notin absent /\ dev.ino[x] = dev.ino[want] /\ dev.kind[x] # "file"
Passed(x) == (dev.kind[x] = "alias" /\ dev.up[x] = 1) \/ dev.kind[x] = "fd"
Entry(x) ==
    /\ namePc = "search" /\ x \in dirent
    /\ \/ dev.kind[x] = "dir" /\ add(x) /\ dirent' = dirent \ {x} /\ UNCHANGED <<rval, namePc>>
       \/ /\ dev.kind[x] # "dir" /\ (Passed(x) \/ ~Found(x))
          /\ dirent' = dirent \ {x} /\ UNCHANGED <<head, skipped, rval, namePc>>
       \/ /\ dev.kind[x] # "dir" /\ ~Passed(x) /\ Found(x)
          /\ rval' = x /\ namePc' = "cleanup" /\ dirent' = {} /\ UNCHANGED <<head, skipped>>
    /\ UNCHANGED <<dev, absent, want, at, moved, ncalls>>
\* The next directory of the list, to which searchdir () adds as it goes.
NextDir_More == namePc = "search" /\ dirent = {} /\ at < Len(head)
NextDir == /\ NextDir_More /\ at' = at + 1 /\ NameOpendir(head[at + 1])
           /\ UNCHANGED <<dev, absent, want, namePc, head, rval, moved, ncalls>>
NotFound == /\ namePc = "search" /\ dirent = {} /\ ~NextDir_More /\ namePc' = "cleanup"
            /\ UNCHANGED <<dev, absent, want, head, at, dirent, rval, skipped, moved, ncalls>>
cleanup == /\ namePc = "cleanup" /\ namePc' = "idle" /\ head' = <<>>
           /\ UNCHANGED <<dev, absent, want, at, dirent, rval, skipped, moved, ncalls>>

NameNext == \/ NextDir \/ NotFound \/ cleanup
            \/ \E x \in NameNodes : NameCall(x) \/ Entry(x) \/ DevChange(x)

(* ------------------------------ properties ----------------------------- *)
Below(x) == LET up[k \in 0..Cardinality(NameNodes)] ==
                  IF k = 0 THEN x ELSE IF up[k - 1] = 1 THEN 1 ELSE dev.up[up[k - 1]]
            IN {up[k] : k \in 1..Cardinality(NameNodes)}
Named == {x \in Terminals : /\ dev.ino[x] = dev.ino[want] /\ ~Passed(x)
                            /\ \A d \in Below(x) : dev.kind[d] = "dir"}

\* The name is one of the terminal asked for.  None is returned only if every
\* such name below /dev that is not an alias was missing, came or went during
\* the call, or lies below a directory that could not be opened or that there
\* was no memory for.
FindsTty == namePc = "cleanup" =>
                IF rval # NULL THEN rval \in Named \ (absent \ moved)
                ELSE \A x \in Named : x \in absent \cup moved \/ Below(x) \cap skipped # {}

\* A call never looks at directories of an earlier call: each directory is
\* searched once.
DirsOnce == \A i, j \in DOMAIN head : i # j => head[i] # head[j]
=============================================================================
