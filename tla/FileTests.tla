------------------------------- MODULE FileTests ------------------------------
(***************************************************************************)
(* The file tests of the user's shell (user/shell.c), run one after the    *)
(* other in any order on one CPU: every system call they make, with its    *)
(* result, and their assertions.  A test is a script of calls; an          *)
(* assertion that fails ends it where it is.  Contents are lengths.        *)
(***************************************************************************)
EXTENDS Integers, Sequences, FiniteSetsExt

CONSTANTS FS_FD_MAX,      \* bound: entries of fd_table
          OPENS,          \* how often filetest2 opens
          MAXTESTS        \* bound: tests run

VARIABLES ref, size, pos, fil,   \* fd_table and file_objs
          dir,                   \* lengths of files, -1 if there is none
          test, step, fd, taken, \* the test, where it is, its descriptors
          count,                 \* tests run so far, by name
          alive,                 \* shell () has not returned
          failed                 \* assertions that failed: [test, step, why]

vars == <<ref, size, pos, fil, dir, test, step, fd, taken, count, alive, failed>>

Fds == 0..FS_FD_MAX-1
Files == {"hello", "large", "test4", "test5", "test2", "test"}
Closed == [file |-> "none"]
ENOENT == -2
EBADF == -9
EEXIST == -17
EINVAL == -22
ANYERR == -1000
OK == 0

---------------------------------------------------------------------------
(* A system call on s = [ref, size, pos, fil, dir]: the new s, and ret. *)
Ret(s, r) == [s |-> s, ret |-> r]

FreeFds(s) == {k \in Fds : s.ref[k] =< 0}
f_open(s, f, m) ==
    IF m.creat /\ ~m.trunc /\ s.dir[f] >= 0 THEN [res |-> EEXIST, dir |-> s.dir, fil |-> Closed]
    ELSE IF ~m.creat /\ s.dir[f] < 0 THEN [res |-> ENOENT, dir |-> s.dir, fil |-> Closed]
    ELSE LET d == IF m.creat THEN [s.dir EXCEPT ![f] = 0] ELSE s.dir IN
         [res |-> OK, dir |-> d,
          fil |-> [file |-> f, ptr |-> IF m.append THEN d[f] ELSE 0, len |-> d[f],
                   read |-> m.read, write |-> m.write, modified |-> m.creat]]

\* The reference that fd_new () takes stays when the open fails.
sys_open(s, f, m) ==
    IF FreeFds(s) = {} THEN Ret(s, -1)
    ELSE LET k == Min(FreeFds(s))
             o == f_open(s, f, m)
         IN Ret([s EXCEPT !.ref[k] = 1, !.size[k] = IF m.creat THEN 0 ELSE @, !.pos[k] = 0,
                          !.fil[k] = o.fil, !.dir = o.dir],
                IF o.res < 0 THEN o.res ELSE k)

\* fd_get (): it accepts FS_FD_MAX itself, which no test passes.
Null(k) == k < 0 \/ k > FS_FD_MAX

fd_put(s, k, n) == [s EXCEPT !.ref[k] = @ - n,
                             !.fil[k] = IF s.ref[k] - n = 0 THEN Closed ELSE @]
fd_get(s, k) == [s EXCEPT !.ref[k] = @ + 1]

sys_close(s, k) ==
    IF Null(k) THEN Ret(s, EINVAL)
    ELSE LET o == s.fil[k]
             d == IF o # Closed /\ o.modified /\ s.dir[o.file] >= 0
                  THEN [s EXCEPT !.dir[o.file] = o.len] ELSE s
         IN Ret(fd_put([fd_get(d, k) EXCEPT !.fil[k] = Closed], k, 2),
                IF o = Closed THEN ANYERR ELSE OK)

\* A bad buffer or length returns with the reference.
sys_read(s, k, bad, n) ==
    IF Null(k) THEN Ret(s, EBADF) ELSE IF bad THEN Ret(fd_get(s, k), EINVAL)
    ELSE IF s.fil[k] = Closed \/ ~s.fil[k].read THEN Ret(fd_put(fd_get(s, k), k, 1), ANYERR)
    ELSE LET br == Min({n, s.fil[k].len - s.fil[k].ptr})
         IN Ret(fd_put([fd_get(s, k) EXCEPT !.fil[k].ptr = @ + br], k, 1), br)

sys_write(s, k, bad, n) ==
    IF Null(k) THEN Ret(s, EBADF) ELSE IF bad THEN Ret(fd_get(s, k), EINVAL)
    ELSE IF s.fil[k] = Closed \/ ~s.fil[k].write THEN Ret(fd_put(fd_get(s, k), k, 1), ANYERR)
    ELSE LET to == s.fil[k].ptr + n
             p == s.pos[k] + n
         IN Ret(fd_put([fd_get(s, k) EXCEPT !.fil[k].ptr = to, !.fil[k].len = Max({@, to}),
                                            !.fil[k].modified = TRUE,
                                            !.pos[k] = p, !.size[k] = Max({@, p})], k, 1), n)

\* The offset counts from the descriptor's own idea of the size.
sys_lseek(s, k, n, end) ==
    IF Null(k) THEN Ret(s, EBADF)
    ELSE IF s.fil[k] = Closed THEN Ret(s, ANYERR)
    ELSE LET to == IF end THEN s.size[k] + n ELSE n
             o == s.fil[k]
             at == IF o.write THEN to ELSE Min({to, o.len})
         IN Ret([s EXCEPT !.fil[k].ptr = at, !.fil[k].len = Max({@, at}),
                          !.fil[k].modified = @ \/ at > o.len], OK)

sys_unlink(s, f) ==
    IF s.dir[f] < 0 THEN Ret(s, ENOENT) ELSE Ret([s EXCEPT !.dir[f] = -1], OK)

---------------------------------------------------------------------------
(* The scripts.  "want" is what the test asserts of the result: a value,   *)
(* "fd" (not negative), "any"; "if" marks an open without which the test   *)
(* skips ahead.  "big" stands for a descriptor out of range.               *)
M(flags) == [read |-> "r" \in flags, write |-> "w" \in flags, creat |-> "c" \in flags,
             trunc |-> "t" \in flags, append |-> "a" \in flags]
Open(f, flags, want) == [op |-> "open", file |-> f, mode |-> M(flags), want |-> want]
Close(want) == [op |-> "close", big |-> FALSE, want |-> want]
Read(n, want) == [op |-> "read", bad |-> FALSE, big |-> FALSE, n |-> n, want |-> want]
Write(n, want) == [op |-> "write", bad |-> FALSE, big |-> FALSE, n |-> n, want |-> want]
Seek(n, end, want) == [op |-> "lseek", n |-> n, end |-> end, want |-> want]
Unlink(f, want) == [op |-> "unlink", file |-> f, want |-> want]

Is(x) == <<"is", x>>
Any == <<"any", 0>>
Fd == <<"fd", 0>>          \* asserted
Positive == <<"positive", 0>>
If(n) == <<"if", n>>       \* when it fails, go on n steps later

filetest == <<Open("hello", {"w", "c", "t"}, If(3)), Write(27, Any), Close(Any),
              Open("hello", {"r"}, If(3)), Read(128, Any), Close(Any)>>
filetest3 == <<Open("large", {"r", "w", "c", "t"}, Fd), Write(4000, Is(4000)), Seek(0, FALSE, Is(OK)),
               Read(4000, Is(4000)), Close(Any)>>
filetest4 == <<Open("test4", {"w"}, Is(ENOENT)), Open("test4", {"w", "c", "t"}, Fd),
               [Close(Is(EINVAL)) EXCEPT !.big = TRUE], Close(Is(OK)),
               Open("test4", {"w", "c"}, Is(EEXIST)), Open("test4", {"r", "w", "c", "t"}, Fd),
               [Write(0, Is(EINVAL)) EXCEPT !.bad = TRUE], [Write(128, Is(EBADF)) EXCEPT !.big = TRUE],
               [Read(128, Is(EINVAL)) EXCEPT !.bad = TRUE], [Read(128, Is(EBADF)) EXCEPT !.big = TRUE],
               Read(128, Is(0)), Write(128, Is(128)), Close(Is(OK))>>
filetest5 == <<Unlink("test5", Is(ENOENT)), Open("test5", {"w", "c"}, Fd), Close(Is(OK)),
               Unlink("test5", Is(OK)), Open("test5", {"r", "w"}, Is(ENOENT)),
               Open("hello", {"r", "w", "a"}, Fd), Write(10, Is(10)), Seek(0, FALSE, Is(OK)),
               Read(128, Positive), Close(Is(OK))>>
fs_seek_test == <<Open("test2", {"w", "c", "t"}, If(3)), Write(10, Any), Close(Any),
                  Open("test2", {"r", "w"}, If(7)), Seek(10, TRUE, Any), Write(10, Any),
                  Seek(0, FALSE, Any), Read(128, Any), Close(Any)>>
\* One round of fs_speed_test.
fs_speed_test == <<Open("test", {"w", "c", "t"}, Fd), Write(180, Is(180)), Close(Any),
                   Open("test", {"r"}, Fd), Read(180, Is(180)), Close(Any)>>
\* filetest2: the same file opened OPENS times, then those closed.
filetest2 == [k \in 1..OPENS |-> Open("hello", {"w", "c", "t"}, Any)]
             \o [k \in 1..OPENS |-> [op |-> "closeall", want |-> Any]]

Script == [filetest |-> filetest, filetest2 |-> filetest2, filetest3 |-> filetest3,
           filetest4 |-> filetest4, filetest5 |-> filetest5, fs_seek_test |-> fs_seek_test,
           fs_speed_test |-> fs_speed_test]
Tests == DOMAIN Script

---------------------------------------------------------------------------
\* fs_init (), after fs_test () has made hello.txt.
Init ==
    /\ ref = [k \in Fds |-> 0] /\ size = [k \in Fds |-> 0] /\ pos = [k \in Fds |-> 0]
    /\ fil = [k \in Fds |-> Closed]
    /\ dir = [f \in Files |-> IF f = "hello" THEN 15 ELSE -1]
    /\ test = "none" /\ step = 0 /\ fd = -1 /\ taken = <<>>
    /\ alive = TRUE
    /\ count = [t \in Tests |-> 0] /\ failed = {}

State == [ref |-> ref, size |-> size, pos |-> pos, fil |-> fil, dir |-> dir]
Run(t) ==
    /\ test = "none" /\ alive /\ MapThenSumSet(LAMBDA u : count[u], Tests) < MAXTESTS
    /\ test' = t /\ step' = 1 /\ fd' = -1 /\ taken' = <<>>
    /\ count' = [count EXCEPT ![t] = @ + 1]
    /\ UNCHANGED <<ref, size, pos, fil, dir, alive, failed>>

Big(c) == IF c.big THEN FS_FD_MAX + 90 ELSE fd
Result(c) ==
    CASE c.op = "open" -> sys_open(State, c.file, c.mode)
      [] c.op = "close" -> sys_close(State, Big(c))
      [] c.op = "closeall" -> IF taken = <<>> \/ Head(taken) < 0 THEN Ret(State, OK)
                              ELSE sys_close(State, Head(taken))
      [] c.op = "read" -> sys_read(State, Big(c), c.bad, c.n)
      [] c.op = "write" -> sys_write(State, Big(c), c.bad, c.n)
      [] c.op = "lseek" -> sys_lseek(State, fd, c.n, c.end)
      [] c.op = "unlink" -> sys_unlink(State, c.file)

Holds(want, r) == CASE want[1] = "is" -> r = want[2]
                    [] want[1] = "fd" -> r >= 0
                    [] want[1] = "positive" -> r > 0
                    [] OTHER -> TRUE

\* A negative result of a command ends shell ().  filetest3 returns -1 when its
\* open fails; fs_seek_test and fs_speed_test end without a return statement.
Ends(t, held, last) == IF t = "filetest3" /\ ~held /\ last = 1 THEN {FALSE}
                       ELSE IF t \in {"fs_seek_test", "fs_speed_test"} THEN BOOLEAN ELSE {TRUE}

Call ==
    /\ test # "none"
    /\ LET c == Script[test][step]
           r == Result(c)
           on == IF ~Holds(c.want, r.ret) THEN Len(Script[test]) + 1
                 ELSE IF c.want[1] = "if" /\ r.ret < 0 THEN step + c.want[2] ELSE step + 1
       IN /\ ref' = r.s.ref /\ size' = r.s.size /\ pos' = r.s.pos /\ fil' = r.s.fil /\ dir' = r.s.dir
          /\ fd' = IF c.op = "open" THEN r.ret ELSE fd
          /\ taken' = IF c.op = "closeall" THEN (IF taken = <<>> THEN taken ELSE Tail(taken))
                      ELSE IF test = "filetest2" THEN Append(taken, r.ret) ELSE taken
          /\ failed' = IF Holds(c.want, r.ret) THEN failed
                       ELSE failed \cup {[test |-> test, step |-> step, full |-> r.ret = -1]}
          /\ IF on > Len(Script[test])
             THEN test' = "none" /\ step' = 0 /\ alive' \in Ends(test, Holds(c.want, r.ret), step)
             ELSE step' = on /\ UNCHANGED <<test, alive>>
    /\ UNCHANGED count

Next == Call \/ \E t \in Tests : Run(t)

Spec == Init /\ [][Next]_vars

---------------------------------------------------------------------------
\* The assertions hold, in any order of tests, but for two cases: filetest4 run
\* again, which finds the file it left behind, and a table that is full because
\* filetest4's and filetest5's error cases keep descriptors.
AssertionsHold ==
    \A f \in failed : \/ f.test = "filetest4" /\ f.step = 1 /\ count["filetest4"] > 1
                      \/ f.full /\ count["filetest4"] + count["filetest5"] > 0

\* Between tests a descriptor in use is one that an error case has kept: at
\* most three by filetest4, two by filetest5.
DescriptorsBack ==
    test = "none" => Cardinality({k \in Fds : ref[k] > 0}) =<
                     (3 * count["filetest4"]) + (2 * count["filetest5"])
=============================================================================
