----------------------------- MODULE MCPrograms -----------------------------
(*****************************************************************************)
(* Libraries, tools and computations in one run: the first state picks a     *)
(* part, and only that part moves.                                           *)
(*****************************************************************************)
EXTENDS Integers, Sequences, FiniteSets, TLC

\* Programs for Sdb: linked at a fixed address, position independent, and with
\* an entry that is not the start of .text; four instructions, with a loop.
Images ==
    {[vmtext |-> 10, elftext |-> 12, elfentry |-> 12, elftextoff |-> 2, start |-> 12],
     [vmtext |-> 30, elftext |-> 2, elfentry |-> 2, elftextoff |-> 2, start |-> 60],
     [vmtext |-> 10, elftext |-> 12, elfentry |-> 14, elftextoff |-> 2, start |-> 14]}
Ins == 0 :> [size |-> 2, next |-> {2}] @@ 2 :> [size |-> 1, next |-> {3}]
       @@ 3 :> [size |-> 2, next |-> {0, 5}] @@ 5 :> [size |-> 1, next |-> {-1}]

\* Files for the ELF reader: whole, with a symbol table that links nowhere, and with
\* no segments.
Sect(t, l, x) == [type |-> t, link |-> l, text |-> x]
ElfFiles ==
    {[phnum |-> 1, shstrndx |-> 3,
      sections |-> <<Sect("progbits", 0, TRUE), Sect("symtab", 3, FALSE), Sect("strtab", 0, FALSE),
                     Sect("strtab", 0, FALSE), Sect("dynsym", 4, FALSE)>>],
     [phnum |-> 1, shstrndx |-> 2, sections |-> <<Sect("symtab", 5, FALSE), Sect("strtab", 0, FALSE)>>],
     [phnum |-> 0, shstrndx |-> 1, sections |-> <<Sect("strtab", 0, FALSE)>>]}

\* What homework 1 finds in /proc: descriptors of two processes and the list of
\* sockets, one with a long address.
FdTables == {<<<<7, 9, 0>>, <<8, 7, 9>>>>, <<<<9, 7, 8>>, <<9, 9, 0>>>>, <<<<8, 0, 0>>, <<7, 8, 9>>>>}
Sockets == {<<[inode |-> 7, long |-> FALSE], [inode |-> 8, long |-> TRUE], [inode |-> 6, long |-> FALSE]>>}

\* Hierarchies of four entries for ftw4.
WalkTrees == {t \in [kind : [1..4 -> {"dir", "file", "locked"}], up : [1..4 -> 1..3]] :
    /\ t.kind[1] = "dir" /\ t.up[1] = 1
    /\ \A x \in 2..4 : t.up[x] < x /\ t.kind[t.up[x]] # "file"
    /\ \A x \in 2..3 : t.up[x] <= t.up[x + 1]}

\* Directories below /dev for ttyname: five entries, two of them one terminal.
DevTrees == {t \in [kind : {<<"dir", "dir", "dir", "tty", "tty">>, <<"dir", "dir", "dir", "alias", "tty">>,
                            <<"dir", "fd", "dir", "tty", "alias">>, <<"dir", "dir", "dir", "file", "tty">>},
                    up : [1..5 -> 1..3], ino : {<<1, 2, 3, 4, 4>>, <<1, 2, 3, 4, 5>>}] :
    t.up[1] = 1 /\ \A x \in 2..5 : t.up[x] < x}

\* size of the matrix of CG at every row.
Sizes == [r \in 0..2 |-> r + 1]

\* Boards of three pages of two entries, in the order of time, of three years
\* and two dates; one entry may be invalid; they end in the year after the one
\* wanted.
CrawlTimes == {t \in [1..6 -> 0..4] : t[6] = 4 /\ \A i \in 1..5 : t[i] <= t[i + 1]}
CrawlEntry(t, bad, i) ==
    [n |-> i, year |-> (t[i] \div 2) - 1, date |-> (t[i] % 2) + 1, ok |-> i # bad, hot |-> i \in {2, 3, 5}]
CrawlBoards ==
    {<< <<CrawlEntry(t, bad, 1), CrawlEntry(t, bad, 2)>>, <<CrawlEntry(t, bad, 3), CrawlEntry(t, bad, 4)>>,
        <<CrawlEntry(t, bad, 5), CrawlEntry(t, bad, 6)>> >> :
        t \in CrawlTimes, bad \in {0, 3}}
CrawlComments == [n \in 1..6 |-> IF n % 2 = 0 THEN << <<1, "push">>, <<2, "boo">> >>
                                 ELSE << <<2, "push">>, <<2, "push">>, <<1, "push">> >>]

\* Minimum supports of the miner.
Supports == {<<1, 4>>, <<3, 4>>}

VARIABLES part,    \* the part that moves
          v1, v2, v3, v4, v5, v6, v7, v8, v9, v10, v11, v12, v13, v14    \* its variables

Sd == INSTANCE Sdb WITH
       Images <- Images, Ins <- Ins, END <- -1, MAXID <- 2, img <- v1, stat <- v2, bps <- v3,
       bp_id <- v4, cc <- v5, rip <- v6, child <- v7, mode <- v8, hit <- v9, hrip <- v10,
       trapped <- v11, slipped <- v12, wild <- v13
Sv == INSTANCE SdbView WITH
       Sizes <- <<1, 3, 1, 2, 1>>, ELFTEXT <- 4, Mem <- {2, 3, 4, 6},
       FileArgs <- {0, 4, 5, 6, 8, 13}, MemArgs <- {0, 2, 6}, MAXLIST <- 2, MAXDUMP <- 2,
       Files <- ElfFiles, stat <- v1, disasm_addr <- v2, dump_addr <- v3, cmdstr <- v4,
       arg1 <- v5, eof <- v6, listed <- v7, from <- v8, dumped <- v9, file <- v1, pc <- v2,
       shdr0 <- v3, section <- v4, held <- v5, tabs <- v6, sym <- v7, text <- v8, result <- v9,
       lost <- v10, freed <- v11
Wk == INSTANCE Walks WITH
       NPIDS <- 2, PROC_FDS <- 3, FILE <- 9, Tables <- FdTables, Lists <- Sockets, NFDS <- 5,
       Paths <- {"f", "g"}, MAXCALLS <- 3, Trees <- WalkTrees, DevTrees <- DevTrees,
       MAXNAMES <- 2, held <- v1, opened <- v2, conns <- v3, netPc <- v4,
       proc <- v5, f <- v6, link <- v7, raced <- v8, changed <- v9, ip <- v10, printed <- v11,
       fds <- v1, out <- v2, lines <- v3, dest <- v4, was <- v5, touched <- v6, over <- v7, tree <- v1,
       gone <- v2, fullpath <- v3, frames <- v4, calling <- v5, calls <- v6, count <- v7,
       dev <- v1, absent <- v2, want <- v3, namePc <- v4, head <- v5, at <- v6, dirent <- v7,
       rval <- v8, skipped <- v9, moved <- v10, ncalls <- v11
Lm == INSTANCE LibMini WITH
       Members <- {2, 14}, Odd <- {34}, Sigs <- {2, 14}, MAXSEND <- 2, sigset <- v1, ref <- v2,
       odd <- v3, errno <- v4, shown <- v5, stuck <- v6, mask <- v1, asked <- v2, pending <- v3,
       action <- v4, sent <- v5, stack <- v6, jumps <- v7, env <- v8, alive <- v9
Cg == INSTANCE Cg WITH
       BITS <- 3, Mults <- {5, 13, 29, 61}, NA <- 3, NONZER <- 2, Elts <- {3}, SIZE <- Sizes,
       RCSHIFT <- -5, Threads <- {1, 2}, Chunk <- << <<0, 0>>, <<1, 1>> >>,
       Rowstr <- [r \in 0..2 |-> 2 * r], Colidx <- [e \in 0..3 |-> e % 2],
       ProdA <- [e \in 0..3 |-> e + 1], P <- [c \in 0..1 |-> c + 1], DIM <- 3, PRIME <- 5,
       NITER <- 2, x0 <- v1, randX <- v2, randA <- v3, drawn <- v4, matPc <- v1, iouter <- v2,
       iv <- v3, vc <- v4, acol <- v5, aelt <- v6, rowstr <- v7, colidx <- v8, matA <- v9,
       nzloc <- v10, matI <- v11, sum <- v1, prodK <- v2, prodQ <- v3, prodJ <- v4,
       prodPc <- v5, reg <- v6, SolveA <- v1, solvePc <- v2, it <- v3, cgit <- v4,
       solveX <- v5, solveZ <- v6, solveR <- v7, solveP <- v8, solveQ <- v9, rho <- v10,
       d <- v11, rnorm <- v12, zeta <- v13, dirs <- v14
Ds == INSTANCE DataScience WITH
       Boards <- CrawlBoards, Dates <- 1..2, Comments <- CrawlComments,
       Keyword <- {1, 3, 4, 6}, TOP <- 1, Items <- {1, 2, 3, 4}, MAXLINES <- 3,
       Supports <- Supports, board <- v1, pc <- v2, page <- v3, all_file <- v4,
       popular_file <- v5, match_url <- v6, like <- v7, boo <- v8, out <- v9, asked <- v10,
       done <- v11, unlucky <- v12, phase <- v1, transactions <- v2, line <- v3,
       min_support_ <- v4, item_frequency_ <- v5, total_transactions_ <- v6,
       min_support_count_ <- v7, fptree <- v8, result <- v9

allvars == <<part, v1, v2, v3, v4, v5, v6, v7, v8, v9, v10, v11, v12, v13, v14>>

\* The variables that the part does not have are 0 and stay so.
Zero14 == v14 = 0
Zero13 == v13 = 0 /\ Zero14
Zero12 == v12 = 0 /\ Zero13
Zero11 == v11 = 0 /\ Zero12
Zero10 == v10 = 0 /\ Zero11
Zero9 == v9 = 0 /\ Zero10
Zero8 == v8 = 0 /\ Zero9
Zero7 == v7 = 0 /\ Zero8
Zero6 == v6 = 0 /\ Zero7
Zero5 == v5 = 0 /\ Zero6

Keep14 == UNCHANGED v14
Keep13 == UNCHANGED v13 /\ Keep14
Keep12 == UNCHANGED v12 /\ Keep13
Keep11 == UNCHANGED v11 /\ Keep12
Keep10 == UNCHANGED v10 /\ Keep11
Keep9 == UNCHANGED v9 /\ Keep10
Keep8 == UNCHANGED v8 /\ Keep9
Keep7 == UNCHANGED v7 /\ Keep8
Keep6 == UNCHANGED v6 /\ Keep7
Keep5 == UNCHANGED v5 /\ Keep6

Init ==
    \/ part = "sdb" /\ Zero14 /\ Sd!Init
    \/ part = "sdbview" /\ Zero10 /\ Sv!ViewInit
    \/ part = "elftool" /\ Zero12 /\ Sv!ElfInit
    \/ part = "netstat" /\ Zero12 /\ Wk!NetInit
    \/ part = "fsmon" /\ Zero8 /\ Wk!MonInit
    \/ part = "ftw" /\ Zero8 /\ Wk!FtwInit
    \/ part = "ttyname" /\ Zero12 /\ Wk!NameInit
    \/ part = "libmini" /\ Zero7 /\ Lm!SetInit
    \/ part = "libsignal" /\ Zero10 /\ Lm!SigInit
    \/ part = "randlc" /\ Zero5 /\ Cg!RandInit
    \/ part = "cgmatrix" /\ Zero12 /\ Cg!MatInit
    \/ part = "product" /\ Zero7 /\ Cg!ProdInit
    \/ part = "cgsolve" /\ Cg!SolveInit
    \/ part = "crawler" /\ Zero13 /\ Ds!CrawlInit
    \/ part = "fpgrowth" /\ Zero10 /\ Ds!FpInit

Next ==
    /\ UNCHANGED part
    /\ \/ part = "sdb" /\ Sd!Next /\ Keep14
       \/ part = "sdbview" /\ Sv!ViewNext /\ Keep10
       \/ part = "elftool" /\ Sv!ElfNext /\ Keep12
       \/ part = "netstat" /\ Wk!NetNext /\ Keep12
       \/ part = "fsmon" /\ Wk!MonNext /\ Keep8
       \/ part = "ftw" /\ Wk!FtwNext /\ Keep8
       \/ part = "ttyname" /\ Wk!NameNext /\ Keep12
       \/ part = "libmini" /\ Lm!SetNext /\ Keep7
       \/ part = "libsignal" /\ Lm!SigNext /\ Keep10
       \/ part = "randlc" /\ Cg!RandNext /\ Keep5
       \/ part = "cgmatrix" /\ Cg!MatNext /\ Keep12
       \/ part = "product" /\ Cg!ProdNext /\ Keep7
       \/ part = "cgsolve" /\ Cg!SolveNext
       \/ part = "crawler" /\ Ds!CrawlNext /\ Keep13
       \/ part = "fpgrowth" /\ Ds!FpNext /\ Keep10

Spec == Init /\ [][Next]_allvars

-----------------------------------------------------------------------------
\* The debugger: the traps in the text are the breakpoints set and the byte under each is known,
\* stepping over one leaves the others armed, the program never goes on inside an instruction and is
\* put back only after a trap; disasm and dump go on where they stopped, and elf_close () gives back
\* all that was taken.
DebuggerSound ==
    /\ [](part = "sdb" => Sd!TrapsMatch /\ Sd!OrigKept /\ Sd!OthersArmed /\ Sd!NeverStrays)
    /\ [][part = "sdb" => (v8 = "prompt" /\ v8' = "wait" /\ v6' = v6 - 1 =>
        v11 \/ v12 \/ v6 \in Sd!Starts)]_allvars
    /\ [](part = "sdbview" => Sv!DisasmGoesOn)
    /\ [][part = "sdbview" => (v9' # v9 /\ v5' = Sv!None /\ v9 # <<>> => v9'[Len(v9) + 1] = v9[Len(v9)] + 1)]_allvars
    /\ [](part = "elftool" => Sv!AllGivenBack)

\* Walks: the owner shown of a socket has it open, one that is there is found, and a line shows its
\* own address; the monitor names the open file a call was about and its lines reach its own file, all
\* of them if it ends in order; the path given for an entry is its path and what stays is counted
\* once; a terminal whose name stays and can be reached is found and each directory searched once.
WalksTrue ==
    /\ part = "netstat" => Wk!OwnerRight /\ Wk!OwnerFound /\ Wk!AddressOwn
    /\ part = "fsmon" => Wk!NamesRight /\ Wk!LinesApart
    /\ part = "ftw" => Wk!PathTrue /\ Wk!CountedOnce
    /\ part = "ttyname" => Wk!FindsTty /\ Wk!DirsOnce

\* The small library: signal sets hold what was put in, perror () stays in its table, a handler that
\* will go on is not entered again for its own signal, and outside handlers the mask is the one
\* asked for.
SignalsKept ==
    /\ part = "libmini" => Lm!SetsRight /\ Lm!PerrorInTable
    /\ part = "libsignal" => Lm!NotReentered /\ Lm!MaskKept

\* CG: the seed comes back after a quarter of the modulus and not before; the compressed rows hold
\* the sum of the outer products and the room counted is enough; the residual is the true one, the
\* directions are conjugate and the system is solved after NA steps.
CgRight ==
    /\ part = "randlc" => Cg!FullPeriod
    /\ part = "cgmatrix" => Cg!MatrixRight /\ Cg!RoomEnough
    /\ part = "cgsolve" => Cg!ResidualTrue /\ Cg!Conjugate /\ Cg!Solves

\* The crawler's file holds exactly the valid articles of the year, and the pages that begin before and
\* end after it, a query visits those of its dates and reports the right articles and users; the
\* patterns mined are exactly those of the minimum support, rounded down to lines, and the chains of
\* the tree add up to the lines read.
DataRight ==
    /\ part = "crawler" => Ds!YearExact /\ Ds!QueryExact /\ Ds!ImagesExact /\ Ds!TopRight
    /\ part = "fpgrowth" => Ds!PatternsRight /\ Ds!TreeAddsUp

\* conj_grad (): "q = A.p".
ProductRight == part = "product" => Cg!ProductRight
=============================================================================
