------------------------------ MODULE MCKernel ------------------------------
(*****************************************************************************)
(* The parts of nctuOS in one run: the first state picks a part, and only    *)
(* that part moves.  The constants of Trap and Files are in the .cfg.        *)
(*****************************************************************************)
EXTENDS Trap, Files, Integers, Sequences, FiniteSets, TLC

\* Flags for the file calls, of the programs in user/shell.c.
O_RDONLY == [read |-> TRUE, write |-> FALSE, creat |-> FALSE, trunc |-> FALSE, append |-> FALSE]
O_RDWR == [O_RDONLY EXCEPT !.write = TRUE]
MCFlags == {O_RDONLY, [O_RDWR EXCEPT !.creat = TRUE, !.trunc = TRUE], [O_RDWR EXCEPT !.append = TRUE]}
\* Descriptors outside the table: -1, and the one past it.
MCExtraFds == {-1, FS_FD_MAX}

\* Kernels for bootmain: two segments, the second with a bss, as kern.ld lays them
\* out: offsets in memory and file agree within a sector, and no two segments
\* share a sector.
Segments(b) == {s \in [pa : b..b+1, memsz : 0..3, filesz : 0..2, offset : {3, 4}] :
                  s.filesz =< s.memsz /\ s.pa % 2 = s.offset % 2}
Kernels == {<<s, t>> \in Segments(4) \X Segments(8) : s.memsz = s.filesz}

\* Keys: Control left and right, Shift, Caps Lock, a letter, an arrow.
Keys == {[code |-> 29, e0 |-> FALSE], [code |-> 29, e0 |-> TRUE], [code |-> 42, e0 |-> FALSE],
         [code |-> 58, e0 |-> FALSE], [code |-> 30, e0 |-> FALSE], [code |-> 72, e0 |-> TRUE]}

\* Memories for the string routines: strings that end at 2, 3 or 7.
Rams == {[a \in 0..7 |-> IF a = 7 \/ a = z THEN 0 ELSE a + 1] : z \in {2, 3, 7}}

\* Sizes of disk for f_mkfs: from the first size it takes past the block the data
\* starts at, around the changes of cluster size and sub-type, the last size whose
\* sectors fit 16 bits, and beyond it into FAT32.
Sizes == (128..140) \cup (505..520) \cup {n \in 521..65598 : n % 31 = 0} \cup (65500..65620)
         \cup {63 + (65536 * k) + d : k \in {2, 4, 16, 64, 70}, d \in {-1, 0, 1, 600, 9999}}

\* Memory: setupkvm fills two entries of the directory; entry 0 is the stack's.
MCKernelDirs == <<1, 2>>

\* Memory as the NVRAM reports it, in kB: base memory, extended memory, and the
\* pages of the kernel's image.
MemLayouts == [base : {12, 15, 16}, ext : {60, 72, 75, 96}, kernel : {4, 5}]

\* Strings of up to two bytes and their end; numbers of up to four characters.
ScanStrings == {<<a, b, 0>> : a, b \in 1..2} \cup {<<a, 0, b>> : a \in 1..2, b \in 0..2} \cup {<<0, 1, 2>>}
ScanNumbers == UNION {[1..k -> {0, 7, 9, 10, 33, 50, 51, 52}] : k \in 1..3} \cup [1..4 -> {0, 9, 33, 52}]

\* Machines for mp_init: the table found or not, processors in several orders, more
\* of them than fit, and an entry of unknown type.
Ap == [type |-> "proc", boot |-> FALSE]
Bp == [type |-> "proc", boot |-> TRUE]
Bus == [type |-> "bus", boot |-> FALSE]
Odd == [type |-> "unknown", boot |-> FALSE]
Machines ==
    {[found |-> TRUE, entries |-> e] :
       e \in {<<Bp>>, <<Bp, Ap, Bus>>, <<Ap, Bp>>, <<Bp, Ap, Ap>>, <<Ap, Bus, Bp, Ap>>,
              <<Bp, Ap, Ap, Ap>>, <<Ap, Bp, Ap, Ap>>, <<Bp, Ap, Odd, Ap>>}}
    \cup {[found |-> FALSE, entries |-> e] : e \in {<<Bp, Ap>>, <<Ap, Bp>>}}

\* Drives for Disk: the primary slave is hdb; requests across a head, a cylinder
\* and the limits of 24 and 28 bits.
Drives == {b \in [(0..1) \X (0..1) -> {"empty", "ata", "atapi", "other"}] :
             b[<<1, 1>>] = "empty" /\ b[<<1, 0>>] \in {"ata", "atapi"} /\ b[<<0, 0>>] # "other"}
Lbas == {62, 63, 1007, 1008, 16777216, 16777217, 268435456, 268435457}
Requests == {[dir |-> d, lba |-> r[1], n |-> r[2]] : d \in {0, 1},
               r \in {<<62, 2>>, <<1007, 2>>, <<16777216, 2>>, <<268435456, 1>>, <<268435457, 2>>}}

VARIABLES part,    \* the part that moves
          v1, v2, v3, v4, v5, v6, v7, v8, v9, v10, v11, v12, v13, v14, v15    \* its variables

Mt == INSTANCE Memory WITH
       NPAGES <- 19, NSLOTS <- 3, Reserved <- {1, 4}, AS <- {"a1", "a2", "a3"},
       KernelDirs <- MCKernelDirs, StackDir <- 0, NSTACK <- 2, KernDir <- 0, mem <- v1,
       root <- v2, held <- v3, dead <- v4
Mb == INSTANCE Memory WITH
       NPAGES <- 5, NSLOTS <- 2, Reserved <- {1}, AS <- {}, KernelDirs <- <<>>, StackDir <- 0,
       NSTACK <- 2, KernDir <- 1, mem <- v1, root <- v2, held <- v3, dead <- v4
Bs == INSTANCE Bootstrap WITH
       SECTSIZE <- 2, SCRATCH <- 0, HDRSECTS <- 1, MEMORY <- 14, Kernels <- Kernels,
       NSLOTS <- 20, IOPHYS <- 4, EXTPHYS <- 6, MPENTRY <- 1, UPAGES <- 14, UVPT <- 15,
       MMIO <- 16, KSTACK <- 17, KERNBASE <- 18, NCPU <- 3, Layouts <- MemLayouts,
       Machines <- Machines,
       kernel <- v1, memory <- v2, segment <- v3, pa <- v4, endpa <- v5, sector <- v6,
       loader <- v7, nv <- v1, pc <- v2, m <- v3, pp <- v4, fl <- v5, nextfree <- v6,
       mmio <- v7, start <- v8,
       table <- v1, ncpu <- v2, bootcpu <- v3, ismp <- v4, status <- v5, lapicmap <- v6,
       mpentry_kstack <- v7, stack <- v8, tasks <- v9, cputask <- v10, at <- v11, ap <- v12
Con == INSTANCE Console WITH
       CPU <- {"c1"}, boot <- "c1", TypedChar <- {"a", "b"}, Nothing <- "nothing",
       CONSBUFSIZE <- 3, PORT <- 2, Keys <- Keys, MAXKEYS <- 3, WIDTH <- 4,
       HEIGHT <- 2, TAB <- 2, Glyphs <- {"x"}, MAXPUT <- 6, Letters <- {"a", "b"},
       Space <- " ", Prompt <- <<">">>, Commands <- <<<<"a">>, <<"b", "a">>, <<"a", "b">>>>, BUFLEN <- 4,
       HISTMAX <- 2, MAXARGS <- 2, MAXTYPED <- 6, port <- v1, buf <- v2, rpos <- v3,
       wpos <- v4, writer <- v5, reader <- v6, unread <- v7, wrong <- v8, held <- v1,
       wire <- v2, kbport <- v3, shift <- v4, kbchar <- v5, missed <- v6, strokes <- v7,
       cells <- v1, csrx <- v2, csry <- v3, lines <- v4, puts <- v5, line <- v1, tabidx <- v2,
       istab <- v3, isfound <- v4, onscreen <- v5, cleared <- v6, stuck <- v14, hist <- v7,
       hhead <- v8, htail <- v9, hcurr <- v10, past <- v11, ran <- v12, typed <- v13
Lib == INSTANCE UserLib WITH
       MEM <- 8, WORD <- 2, Rams <- Rams, Strings <- ScanStrings, Numbers <- ScanNumbers,
       BYTE <- 3, HALF <- 128, Flags <- {"", "0", "-"}, Widths <- {-1, 1, 4}, Precs <- {-1, 2},
       Convs <- {"s", "d", "u", "x", "p", "c", "o", "%", "q"}, Nums <- {-31, 0, 255},
       Strs <- {<<>>, <<"h", "i", "j">>}, BUFFER <- 4, memBefore <- v1, ram <- v2,
       copyCall <- v3, src <- v4, dst <- v5, left <- v6, copying <- v7, scanCall <- v1,
       p <- v2, scanLen <- v3, val <- v4, neg <- v5, scanBase <- v6, ret <- v7, given <- v1,
       output <- v2, chunks <- v3
Ft == INSTANCE FileTests WITH
       FS_FD_MAX <- 5, OPENS <- 6, MAXTESTS <- 3, ref <- v1, size <- v2, pos <- v3, fil <- v4,
       dir <- v5, test <- v6, step <- v7, fd <- v8, taken <- v9, count <- v10, alive <- v11,
       failed <- v12
Vol == INSTANCE Volume WITH
       Sizes <- Sizes, BYTES <- 8, NFATENT <- 6, Values <- {0, 2748, 268435455}, BODY <- 2,
       EXT <- 1, Chars <- {97, 65, 46, 47, 229, 42, 32}, PATHLEN <- 4, size <- v1, step <- v2,
       boot <- v3, made <- v4, found <- v5, fstype <- v1, bytes <- v2, win <- v3,
       winsect <- v4, table <- v5, path <- v1, sfn <- v2, shown <- v3, again <- v4
Dk == INSTANCE Disk WITH
       Bays <- Drives, Lbas <- Lbas, Requests <- Requests, MAXREQS <- 2, MAXFAULTS <- 1,
       bay <- v1, probe <- v2, count <- v3, devices <- v4, lbacap <- v5, pc <- v6, req <- v7,
       done <- v8, mem <- v9, status <- v10, drive <- v11, medium <- v12, reqs <- v13,
       faults <- v14, want <- v15
Irq == INSTANCE Interrupts WITH
       CPUS <- 0..2, Values <- {"x", "y", "z"}, step <- v1, irq_mask <- v2, pic <- v3,
       didinit <- v4, idt <- v5, trap_hnd <- v6, lidt <- v7, sti <- v8, last <- v9, call <- v1,
       regs <- v2, stack <- v3, pc <- v4, got <- v5, ret <- v6, before <- v7

allvars == <<part, trapVars, fileVars, v1, v2, v3, v4, v5, v6, v7, v8, v9, v10, v11, v12, v13, v14, v15>>

\* What the parts that are not picked look like.
Rest_trap == TrapInit /\ cur = CHOOSE t \in Task : TRUE
Rest_files == FileInit /\ disk = [f \in File |-> Absent]
Rest == Rest_trap /\ Rest_files
restvars == <<trapVars, fileVars>>
\* The variables that the part does not have are 0 and stay so.
Zero15 == v15 = 0
Zero14 == v14 = 0 /\ Zero15
Zero13 == v13 = 0 /\ Zero14
Zero12 == v12 = 0 /\ Zero13
Zero11 == v11 = 0 /\ Zero12
Zero10 == v10 = 0 /\ Zero11
Zero9 == v9 = 0 /\ Zero10
Zero8 == v8 = 0 /\ Zero9
Zero7 == v7 = 0 /\ Zero8
Zero6 == v6 = 0 /\ Zero7
Zero5 == v5 = 0 /\ Zero6
Zero4 == v4 = 0 /\ Zero5
Zero3 == v3 = 0 /\ Zero4
Zero2 == v2 = 0 /\ Zero3
Zero1 == v1 = 0 /\ Zero2

Keep15 == UNCHANGED v15
Keep14 == UNCHANGED v14 /\ Keep15
Keep13 == UNCHANGED v13 /\ Keep14
Keep12 == UNCHANGED v12 /\ Keep13
Keep11 == UNCHANGED v11 /\ Keep12
Keep10 == UNCHANGED v10 /\ Keep11
Keep9 == UNCHANGED v9 /\ Keep10
Keep8 == UNCHANGED v8 /\ Keep9
Keep7 == UNCHANGED v7 /\ Keep8
Keep6 == UNCHANGED v6 /\ Keep7
Keep5 == UNCHANGED v5 /\ Keep6
Keep4 == UNCHANGED v4 /\ Keep5
Keep3 == UNCHANGED v3 /\ Keep4
Keep2 == UNCHANGED v2 /\ Keep3
Keep1 == UNCHANGED v1 /\ Keep2

Init ==
    \/ part = "trap" /\ Rest_files /\ Zero1 /\ TrapInit
    \/ part = "files" /\ Rest_trap /\ Zero1 /\ FileInit
    \/ part = "memory" /\ Rest /\ Zero5 /\ Mt!Init
    \/ part = "memclient" /\ Rest /\ Zero5 /\ Mb!Init
    \/ part = "loader" /\ Rest /\ Zero8 /\ Bs!LoadInit
    \/ part = "meminit" /\ Rest /\ Zero9 /\ Bs!MemInit
    \/ part = "boot" /\ Rest /\ Zero13 /\ Bs!MpInit
    \/ part = "console" /\ Rest /\ Zero9 /\ Con!ConsInit
    \/ part = "keyboard" /\ Rest /\ Zero8 /\ Con!KbdInit
    \/ part = "screen" /\ Rest /\ Zero6 /\ Con!ScrInit
    \/ part = "terminal" /\ Rest /\ Zero15 /\ Con!TermInit
    \/ part = "cstring" /\ Rest /\ Zero8 /\ Lib!StrInit
    \/ part = "cscan" /\ Rest /\ Zero8 /\ Lib!ScanInit
    \/ part = "printf" /\ Rest /\ Zero4 /\ Lib!PrfInit
    \/ part = "filetests" /\ Rest /\ Zero13 /\ Ft!Init
    \/ part = "mkfs" /\ Rest /\ Zero6 /\ Vol!MkfsInit
    \/ part = "fatbits" /\ Rest /\ Zero6 /\ Vol!BitsInit
    \/ part = "fatname" /\ Rest /\ Zero5 /\ Vol!NameInit
    \/ part = "disk" /\ Rest /\ Dk!Init
    \/ part = "interrupts" /\ Rest /\ Zero10 /\ Irq!IrqInit
    \/ part = "sysabi" /\ Rest /\ Zero8 /\ Irq!AbiInit

Next ==
    /\ UNCHANGED part
    /\ \/ part = "trap" /\ TrapNext /\ Keep1 /\ UNCHANGED fileVars
       \/ part = "files" /\ FileNext /\ Keep1 /\ UNCHANGED trapVars
       \/ part = "memory" /\ Mt!Next /\ Keep5 /\ UNCHANGED restvars
       \/ part = "memclient" /\ Mb!Next /\ Keep5 /\ UNCHANGED restvars
       \/ part = "loader" /\ Bs!LoadNext /\ Keep8 /\ UNCHANGED restvars
       \/ part = "meminit" /\ Bs!MemNext /\ Keep9 /\ UNCHANGED restvars
       \/ part = "boot" /\ Bs!MpNext /\ Keep13 /\ UNCHANGED restvars
       \/ part = "console" /\ Con!ConsNext /\ Keep9 /\ UNCHANGED restvars
       \/ part = "keyboard" /\ Con!KbdNext /\ Keep8 /\ UNCHANGED restvars
       \/ part = "screen" /\ Con!ScrNext /\ Keep6 /\ UNCHANGED restvars
       \/ part = "terminal" /\ Con!TermNext /\ Keep15 /\ UNCHANGED restvars
       \/ part = "cstring" /\ Lib!StrNext /\ Keep8 /\ UNCHANGED restvars
       \/ part = "cscan" /\ Lib!ScanNext /\ Keep8 /\ UNCHANGED restvars
       \/ part = "printf" /\ Lib!PrfNext /\ Keep4 /\ UNCHANGED restvars
       \/ part = "filetests" /\ Ft!Next /\ Keep13 /\ UNCHANGED restvars
       \/ part = "mkfs" /\ Vol!MkfsNext /\ Keep6 /\ UNCHANGED restvars
       \/ part = "fatbits" /\ Vol!BitsNext /\ Keep6 /\ UNCHANGED restvars
       \/ part = "fatname" /\ Vol!NameNext /\ Keep5 /\ UNCHANGED restvars
       \/ part = "disk" /\ Dk!Next /\ UNCHANGED restvars
       \/ part = "interrupts" /\ Irq!IrqNext /\ Keep10 /\ UNCHANGED restvars
       \/ part = "sysabi" /\ Irq!AbiNext /\ Keep8 /\ UNCHANGED restvars

bootVars == Bs!mpVars
diskVars == Dk!vars

\* The fairness of each part, as its module's comment justifies it: a premise of
\* what must happen in that part.
Fair_boot == WF_bootVars(part = "boot" /\ Bs!MpNext)
Fair_disk ==
    /\ WF_diskVars(part = "disk" /\ Dk!Driver)
    /\ WF_diskVars(part = "disk" /\ Dk!Answer)

Spec == Init /\ [][Next]_allvars

\* Bound: once two CPUs have updated one entry of fd_table at once nothing is
\* said about it, and the run goes no further there.
FilesBound == part = "files" => ~raced

-----------------------------------------------------------------------------
\* mem.c, called by task_create () and task_free () and, before there are tasks, in any order: the
\* assertions of page_free () hold, the free list holds the free pages, a page is free exactly when
\* nothing uses it, pp_ref counts the entries that name it, no two tasks share a page of their
\* stacks, and page_insert () maps what it was given or changes nothing.
MemorySound ==
    /\ [](part = "memory" => Mt!NoDoubleFree /\ Mt!FreeListExact /\ Mt!FreeExactlyUnused /\ Mt!RefsExact /\ Mt!StacksPrivate)
    /\ [](part = "memclient" => Mb!NoDoubleFree /\ Mb!FreeListExact /\ Mb!RefsExact /\ Mb!FreeExactlyUnused)
    /\ [][part = "memclient" => Mb!InsertStep]_allvars

\* The way to the first task: the segments are whole and the bss clear when the kernel starts, the
\* self-tests of mem.c pass and leave no page behind, tables made early lie in the 4 MB that are
\* mapped, and no two CPUs start on one stack or with another's task.
BootstrapRight ==
    /\ part = "loader" => Bs!SegmentsWhole
    /\ part = "meminit" => Bs!SelfTestsPass /\ Bs!EarlyTablesMapped /\ Bs!NothingLost
    /\ part = "boot" => Bs!StackOwn /\ Bs!TaskOwn

\* What the user types is what is run and shown: characters are read in the order typed, a modifier
\* is in force only while held, the last lines of the text are on the screen, Return runs the line
\* as shown, and the history is the last lines in order.
ConsoleRight ==
    /\ part = "console" => Con!NextCharacter
    /\ part = "keyboard" => Con!ModifiersHeld
    /\ part = "screen" => Con!ShowsText
    /\ part = "terminal" => Con!ShownIsRun /\ Con!HistoryRight

\* The user's side: each routine copies, compares, fills, converts and prints what it promises, and
\* the assertions of the shell's file tests hold but in two cases and give descriptors back.
LibraryRight ==
    /\ part = "cstring" => Lib!CopiesRight
    /\ part = "cscan" => Lib!ScanRight /\ Lib!FillRight /\ Lib!StrtolRight
    /\ part = "printf" => Lib!FieldPrinted /\ Lib!AllPut
    /\ part = "filetests" => Ft!AssertionsHold /\ Ft!DescriptorsBack

\* What is put on a volume is found again: a volume of fewer than 65536 sectors that was made is mounted as it was made, a FAT
\* entry holds what was put there and its reserved bits, the name a directory shows leads back to
\* its entry, and a transfer reported done was done, on a drive listed once.
VolumeRight ==
    /\ part = "mkfs" => Vol!MkfsMounts
    /\ part = "fatbits" => Vol!EntriesKept /\ Vol!ReservedKept
    /\ part = "fatname" => Vol!ShownLeadsBack
    /\ part = "disk" => Dk!SlotsRight /\ Dk!ReadRight /\ Dk!WriteRight

\* The ways in: an interrupt line that reaches a CPU has its handler, clock and keyboard are heard,
\* a handler is given the arguments of the wrapper, and a system call changes eax alone.
InterruptsRight ==
    /\ part = "interrupts" => Irq!IrqHandled /\ Irq!BothHeard
    /\ part = "sysabi" => Irq!ArgumentsArrive /\ Irq!OnlyEaxChanges

\* Every CPU gets into its task after boot_aps (), and a request to the disk comes to an end.
KernelWaitsEnd ==
    /\ part = "boot" /\ Fair_boot =>
         (<>[](part = "boot" => Bs!Entered))
    /\ part = "disk" /\ Fair_disk =>
         (part = "disk" /\ v6 = "wait" ~> part = "disk" /\ v6 = "idle")

\* trap_dispatch (): "Handle spurious interrupts ... We don't care."
SpuriousIgnored == part = "interrupts" => Irq!SpuriousIgnored
=============================================================================
