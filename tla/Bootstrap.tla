------------------------------ MODULE Bootstrap ------------------------------
(*****************************************************************************)
(* From the boot sector to the first tasks: the boot loader brings in the    *)
(* kernel, mem_init () lays out memory, and the processors start up.         *)
(*****************************************************************************)
EXTENDS Integers, Sequences, FiniteSets

(***************************************************************************)
(* The boot loader (boot/main.c): bootmain () reads the ELF header, then   *)
(* each program segment, by whole sectors; entry.S clears the bss.         *)
(*                                                                         *)
(* A cell of memory holds the file offset of the byte that was read there, *)
(* Zero or Old.  The file is on the disk from sector 1 on.                 *)
(***************************************************************************)
CONSTANTS SECTSIZE, SCRATCH,  \* address of ELFHDR
          HDRSECTS,           \* sectors read for the header
          MEMORY,             \* addresses 0 .. MEMORY-1
          Kernels             \* files: sequences of [pa, memsz, filesz, offset]

VARIABLES kernel, memory, segment, pa, endpa, sector, loader

loadVars == <<kernel, memory, segment, pa, endpa, sector, loader>>

Old == -1
Zero == -2

\* The arguments of readseg (): rounded down to a sector of memory, and the
\* sector of the disk.
RoundDown(a) == a - (a % SECTSIZE)
SectorOf(offset) == (offset \div SECTSIZE) + 1

readseg(a, count, offset) ==
    /\ pa' = RoundDown(a)
    /\ endpa' = a + count
    /\ sector' = SectorOf(offset)

LoadInit ==
    /\ kernel \in Kernels
    /\ memory = [a \in 0..MEMORY-1 |-> Old]
    /\ segment = 0
    /\ pa = RoundDown(SCRATCH) /\ endpa = SCRATCH + (SECTSIZE * HDRSECTS) /\ sector = SectorOf(0)
    /\ loader = "read"

\* One turn of the loop: waitdisk () and readsect ().
readsect ==
    /\ loader = "read" /\ pa < endpa
    /\ memory' = [a \in DOMAIN memory |->
                    IF a \in pa .. pa + SECTSIZE - 1
                    THEN ((sector - 1) * SECTSIZE) + (a - pa) ELSE memory[a]]
    /\ pa' = pa + SECTSIZE
    /\ sector' = sector + 1
    /\ UNCHANGED <<kernel, segment, endpa, loader>>

\* The next program header.
NextSegment ==
    /\ loader = "read" /\ pa >= endpa /\ segment < Len(kernel)
    /\ segment' = segment + 1
    /\ readseg(kernel[segment + 1].pa, kernel[segment + 1].memsz, kernel[segment + 1].offset)
    /\ UNCHANGED <<kernel, memory, loader>>

\* The jump to the entry point, where entry.S clears from bss_start to end.
Bss == UNION {LET s == kernel[k] IN s.pa + s.filesz .. s.pa + s.memsz - 1 : k \in 1..Len(kernel)}
entry ==
    /\ loader = "read" /\ pa >= endpa /\ segment = Len(kernel)
    /\ memory' = [a \in DOMAIN memory |-> IF a \in Bss THEN Zero ELSE memory[a]]
    /\ loader' = "entered"
    /\ UNCHANGED <<kernel, segment, pa, endpa, sector>>

LoadNext == readsect \/ NextSegment \/ entry

LoadSpec == LoadInit /\ [][LoadNext]_loadVars

---------------------------------------------------------------------------
\* "We'd write more to memory than asked, but it doesn't matter -- we load in
\* increasing order": at the kernel's first C line every byte of a segment is
\* the file's, and the rest of the segment is zero.
SegmentsWhole ==
    loader = "entered" =>
      \A k \in 1..Len(kernel) : LET s == kernel[k] IN
        \A i \in 0 .. s.memsz - 1 :
          memory[s.pa + i] = IF i < s.filesz THEN s.offset + i ELSE Zero

-----------------------------------------------------------------------------
(* How mem_init of nctuOS (kernel/mem.c) brings the page tables up: memory   *)
(* is measured, the kernel's directory and the array of pages are carved off *)
(* behind the kernel, the free list is built, and the self-tests of mem.c    *)
(* run, the first ones while only the 4 MB of entry_pgdir are mapped.  The   *)
(* functions of mem.c are the ones of Memory.  Physical page k is k + 1, a   *)
(* virtual address is a directory entry and a table entry.                   *)
CONSTANTS
    NSLOTS,      \* bound: entries of a table (1024): what entry_pgdir maps
    IOPHYS, EXTPHYS, MPENTRY,       \* page numbers
    UPAGES, UVPT, MMIO, KSTACK, KERNBASE,   \* directory entries
    NCPU,
    Layouts      \* bound: [base, ext: kB that the NVRAM reports, kernel: pages]
VARIABLES nv, pc, m, pp, fl, nextfree, mmio, start
memVars == <<nv, pc, m, pp, fl, nextfree, mmio, start>>

MAXPAGES == (NSLOTS - KERNBASE) * NSLOTS    \* what the window at KERNBASE holds
NULL == 0
M == INSTANCE Memory WITH NPAGES <- MAXPAGES, Reserved <- {}, AS <- {}, KernelDirs <- <<>>,
        StackDir <- 0, NSTACK <- 2, KernDir <- NULL, mem <- 0, root <- 0, held <- 0, dead <- 0
Slot == 0..(NSLOTS - 1)
PG(k) == k + 1                              \* page number k of physical memory

\* i386_detect_memory (), in kB and pages of 4 kB.
npages_basemem == nv.base \div 4
npages == IF nv.ext \div 4 # 0 THEN EXTPHYS + (nv.ext \div 4) ELSE npages_basemem

kern_pgdir == PG(EXTPHYS + nv.kernel)       \* the first page boot_alloc () gives
pages == kern_pgdir + 1
bootstack == PG(EXTPHYS)
kstack(i) == PG(EXTPHYS + 1 + i)            \* percpu_kstacks[i]

MemInit == /\ nv \in Layouts /\ pc = "boot_alloc" /\ nextfree = EXTPHYS + nv.kernel
           /\ m = M!page_init /\ pp = <<NULL, NULL, NULL>> /\ fl = NULL /\ mmio = 0 /\ start = {}

\* The head and every page a link leads to: the walk along pp_link, as the link
\* of a page that is off the list is NULL.
Listed(x) == ({x.head} \cup {x.link[p] : p \in DOMAIN x.link}) \ {NULL}
Assert(x, P) == IF P THEN x ELSE [x EXCEPT !.fault = "assert"]
To(now, next) == pc = now /\ pc' = next

\* boot_alloc () twice, and the directory as its own table at UVPT.
boot_alloc ==
    /\ To("boot_alloc", "page_init") /\ nextfree' = nextfree + 2
    /\ m' = [m EXCEPT !.word[kern_pgdir][UVPT] = kern_pgdir]
    /\ UNCHANGED <<nv, pp, fl, mmio, start>>

\* page_init (): the free pages are pushed in increasing order.
page_init ==
    LET free == {k \in 1..(npages - 1) : (k < npages_basemem /\ k # MPENTRY)
                                          \/ (k >= npages_basemem /\ k >= EXTPHYS /\ k >= nextfree)}
        top(S) == IF S = {} THEN NULL ELSE PG(CHOOSE k \in S : \A j \in S : j <= k)
    IN [m EXCEPT !.head = top(free), !.nfree = Cardinality(free),
                 !.link = [p \in DOMAIN m.link |-> IF p - 1 \in free THEN top({k \in free : k < p - 1}) ELSE NULL],
                 !.ref = [p \in DOMAIN m.ref |-> IF p - 1 \in free \/ p > npages THEN 0 ELSE 1]]
PageInit == /\ To("page_init", "free_list") /\ m' = page_init /\ start' = Listed(page_init)
            /\ UNCHANGED <<nv, pp, fl, nextfree, mmio>>

\* check_page_free_list (1) sorts the pages that entry_pgdir maps to the front,
\* each half in its order.
Low(p) == p <= NSLOTS
low_first(x) ==
    LET after(p, S) == {q \in S : q < p}
        top(S) == IF S = {} THEN NULL ELSE CHOOSE q \in S : \A r \in S : r <= q
        low == {p \in Listed(x) : Low(p)}   high == Listed(x) \ low
    IN [x EXCEPT !.head = IF low = {} THEN top(high) ELSE top(low),
                 !.link = [p \in DOMAIN x.link |->
                    IF p \in low THEN IF after(p, low) = {} THEN top(high) ELSE top(after(p, low))
                    ELSE IF p \in high THEN top(after(p, high)) ELSE NULL]]
check_page_free_list(x) ==
    Assert(x, /\ Listed(x) \subseteq PG(0)..npages
              /\ Listed(x) \cap {PG(0), PG(IOPHYS), PG(EXTPHYS - 1), PG(EXTPHYS), PG(MPENTRY)} = {}
              /\ \A p \in Listed(x) : p < PG(EXTPHYS) \/ p >= PG(nextfree)
              /\ \E p \in Listed(x) : p < PG(EXTPHYS)
              /\ \E p \in Listed(x) : p >= PG(EXTPHYS))
FreeList(now, next) ==
    /\ To(now, next)
    /\ m' = check_page_free_list(IF now = "free_list" THEN low_first(m) ELSE m)
    /\ UNCHANGED <<nv, pp, fl, nextfree, mmio, start>>

\* page_alloc (0) leaves the page as it is; Memory's page_alloc is ALLOC_ZERO.
page_alloc(x) == LET n == M!page_alloc(x) IN IF n.got = NULL THEN n ELSE [n EXCEPT !.word[n.got] = x.word[n.got]]
FreeAll(x, p) == M!page_free(M!page_free(M!page_free(x, p[1]), p[2]), p[3])
None(x) == Assert(x, page_alloc(x).got = NULL)
Filled == [s \in Slot |-> 1]
Rest == UNCHANGED <<nv, nextfree, mmio, start>>

\* The three pages that each test takes; then "temporarily steal the rest".
Three(now, next) ==
    /\ To(now, next) /\ Rest /\ UNCHANGED fl
    /\ LET a == page_alloc(m)  b == page_alloc(a)  c == page_alloc(b)
       IN /\ pp' = <<a.got, b.got, c.got>>
          /\ m' = Assert(c, Cardinality({a.got, b.got, c.got} \ {NULL}) = 3)
Steal(now, next) ==
    /\ To(now, next) /\ Rest /\ UNCHANGED pp
    /\ fl' = m.head /\ m' = None([m EXCEPT !.head = NULL])
\* "give free list back", "free the pages we took"
GiveBack(now, next) ==
    /\ To(now, next) /\ Rest /\ UNCHANGED <<pp, fl>>
    /\ m' = FreeAll([m EXCEPT !.head = fl], pp)
\* A stretch of assertions and calls that leaves x behind.
Test(now, next, x) == To(now, next) /\ Rest /\ m' = x /\ UNCHANGED <<pp, fl>>

\* check_page_alloc ()
Zeroed == LET c == M!page_alloc(M!page_free([None(m) EXCEPT !.word[pp[1]] = Filled], pp[1]))
          IN Assert(c, c.got = pp[1] /\ \A s \in Slot : c.word[c.got][s] = NULL)
check_page_alloc ==
    \/ Three("page_alloc", "pa1")
    \/ Steal("pa1", "pa2")
    \/ Test("pa2", "pa3", FreeAll(m, pp))
    \/ Three("pa3", "pa4")
    \/ Test("pa4", "pa5", Zeroed)
    \/ GiveBack("pa5", "pa6")
    \/ Test("pa6", "page", Assert(m, Cardinality(Listed(m)) = Cardinality(start)))

\* check_va2pa ()
va2pa(x, d, t) == IF x.word[kern_pgdir][d] = NULL THEN NULL ELSE x.word[x.word[kern_pgdir][d]][t]
Insert(x, p, d, t) == M!page_insert(x, kern_pgdir, p, d, t)
Remove(x, d, t) == M!page_remove(x, kern_pgdir, d, t)
\* pp1 and pp2 are mapped i and j times, p is at address 0 and q at PGSIZE.
Maps(x, p, q, i, j) ==
    Assert(x, /\ va2pa(x, 0, 0) = p /\ va2pa(x, 0, 1) = q
              /\ x.ref[pp[2]] = i /\ x.ref[pp[3]] = j)
Alloc(x, p) == LET n == page_alloc(x) IN Assert(n, n.got = p)
Drop(x, d) == [x EXCEPT !.word[kern_pgdir][d] = NULL, !.ref[pp[1]] = 0]
\* A page table made of pp0, cleared, and taken back by force.
Walk(x, d) == LET n == M!pgdir_walk(M!page_free(x, pp[1]), kern_pgdir, d)
              IN Drop(Assert(n, n.got = pp[1] /\ \A s \in Slot : n.word[pp[1]][s] = NULL), d)
NoTable(x, p, d) == Assert(x, Insert(x, p, d, 0).got = NULL)

\* check_page (): inserting, replacing and removing with three pages.
check_page ==
    \/ Three("page", "p1")
    \/ Steal("p1", "p2")
    \/ Test("p2", "p3", M!page_free(NoTable(Assert(m, va2pa(m, 0, 0) = NULL), pp[2], 0), pp[1]))
    \/ Test("p3", "p4", Maps(Insert(m, pp[2], 0, 0), pp[2], NULL, 1, 0))
    \/ Test("p4", "p5", None(Maps(Insert(m, pp[3], 0, 1), pp[2], pp[3], 1, 1)))
    \/ Test("p5", "p6", None(Maps(Insert(m, pp[3], 0, 1), pp[2], pp[3], 1, 1)))
    \/ Test("p6", "p7", Maps(Insert(NoTable(m, pp[1], 1), pp[2], 0, 1), pp[2], pp[2], 2, 0))
    \/ Test("p7", "p8", Maps(Remove(Alloc(m, pp[3]), 0, 0), NULL, pp[2], 1, 0))
    \/ Test("p8", "p9", Maps(Insert(m, pp[2], 0, 1), NULL, pp[2], 1, 0))
    \/ Test("p9", "p10", None(Alloc(Maps(Remove(m, 0, 1), NULL, NULL, 0, 0), pp[2])))
    \/ Test("p10", "p11", Drop(Assert(m, m.word[kern_pgdir][0] = pp[1] /\ m.ref[pp[1]] = 1), 0))
    \/ Test("p11", "p12", [Walk(m, 1) EXCEPT !.word[pp[1]] = Filled])
    \/ Test("p12", "p13", Walk(m, 0))
    \/ GiveBack("p13", "mmio")

\* boot_map_region (): n pages from page p at entry d, t, table by table.
boot_map_region(x, d, t, n, p) ==
    LET last == (t + n - 1) \div NSLOTS
        row(old, k) == [s \in Slot |-> LET i == (k * NSLOTS) + s - t
                                       IN IF i \in 0..(n - 1) THEN p + i ELSE old[s]]
        step[k \in 0..(last + 1)] ==
            IF k = 0 THEN x
            ELSE LET w == M!pgdir_walk(step[k - 1], kern_pgdir, d + k - 1)
                 IN IF w.got = NULL THEN [w EXCEPT !.fault = "null entry"]
                    ELSE [w EXCEPT !.word[w.got] = row(@, k - 1)]
    IN step[last + 1]
\* mmio_map_region () of pages 0 and up; the region ends before MMIOLIM.
mmio_map_region(x, base, n) == Assert(boot_map_region(x, MMIO, base, n, PG(0)), base + n < NSLOTS)
Clear(x, t) == [x EXCEPT !.word[x.word[kern_pgdir][MMIO]][t] = NULL]
\* The end of check_page (): regions of 4097 and of 4096 bytes.
CheckMmio ==
    /\ To("mmio", "map") /\ mmio' = mmio + 3
    /\ LET b == mmio_map_region(mmio_map_region(m, mmio, 2), mmio + 2, 1)
           c == Assert(b, /\ va2pa(b, MMIO, mmio) = PG(0) /\ va2pa(b, MMIO, mmio + 1) = PG(1)
                          /\ va2pa(b, MMIO, mmio + 2) = PG(0) /\ va2pa(b, MMIO, mmio + 3) = NULL)
       IN m' = Clear(Clear(Clear(c, mmio), mmio + 1), mmio + 2)
    /\ UNCHANGED <<nv, pp, fl, nextfree, start>>

\* mem_init_mp (): stack i lies under KSTACKTOP - i * (KSTKSIZE + KSTKGAP).
Stacktop(i) == NSLOTS - 2 * i
mem_init_mp(x) ==
    LET step[i \in 0..NCPU] == IF i = 0 THEN x
                               ELSE boot_map_region(step[i - 1], KSTACK, Stacktop(i - 1) - 1, 1, kstack(i - 1))
    IN step[NCPU]
mem_init ==
    LET a == boot_map_region(m, UPAGES, 0, 1, pages)
        b == boot_map_region(a, KSTACK, NSLOTS - 1, 1, bootstack)
        c == boot_map_region(b, KERNBASE, 0, MAXPAGES, PG(0))
    IN mem_init_mp(boot_map_region(c, 0, IOPHYS, EXTPHYS - IOPHYS, PG(IOPHYS)))
Map == /\ To("map", "kern_pgdir") /\ m' = mem_init /\ UNCHANGED <<nv, pp, fl, nextfree, mmio, start>>

\* check_kern_pgdir ()
check_kern_pgdir(x) ==
    /\ \A k \in IOPHYS..(EXTPHYS - 1) : va2pa(x, 0, k) = PG(k)
    /\ va2pa(x, UPAGES, 0) = pages
    /\ \A k \in 0..(npages - 1) : va2pa(x, KERNBASE + (k \div NSLOTS), k % NSLOTS) = PG(k)
    /\ \A i \in 0..(NCPU - 1) : /\ va2pa(x, KSTACK, Stacktop(i) - 1) = kstack(i)
                                /\ va2pa(x, KSTACK, Stacktop(i) - 2) = NULL
    /\ \A d \in Slot : x.word[kern_pgdir][d] # NULL <=>
                          d \in {0, UVPT, KSTACK, UPAGES, MMIO} \cup KERNBASE..(NSLOTS - 1)
KernPgdir == /\ To("kern_pgdir", "lcr3") /\ m' = Assert(m, check_kern_pgdir(m))
             /\ UNCHANGED <<nv, pp, fl, nextfree, mmio, start>>
lcr3 == /\ To("lcr3", "free_list_all") /\ UNCHANGED <<nv, m, pp, fl, nextfree, mmio, start>>

\* check_page_installed_pgdir (): the pages are reached at EXTPHYSMEM.
Here(x, p, i, j) == Assert(x, va2pa(x, 0, EXTPHYS) = p /\ x.ref[pp[2]] = i /\ x.ref[pp[3]] = j)
check_page_installed_pgdir ==
    \/ Three("installed", "i1")
    \/ Test("i1", "i2", Here(Insert(M!page_free(m, pp[1]), pp[2], 0, EXTPHYS), pp[2], 1, 0))
    \/ Test("i2", "i3", Here(Insert(m, pp[3], 0, EXTPHYS), pp[3], 0, 1))
    \/ Test("i3", "lapic", Here(Remove(m, 0, EXTPHYS), NULL, 0, 0))
\* lapic_init () maps its registers with the page tables installed.
Lapic == /\ To("lapic", "done") /\ m' = mmio_map_region(m, mmio, 1) /\ mmio' = mmio + 1
         /\ UNCHANGED <<nv, pp, fl, nextfree, start>>

MemNext == \/ boot_alloc \/ PageInit \/ FreeList("free_list", "page_alloc") \/ check_page_alloc
           \/ check_page \/ CheckMmio \/ Map \/ KernPgdir \/ lcr3
           \/ FreeList("free_list_all", "installed") \/ check_page_installed_pgdir \/ Lapic

(* ------------------------------ properties ----------------------------- *)
\* On every layout with enough memory the kernel's self-tests pass and no entry
\* is written through a null pointer: the machine comes up.
SelfTestsPass == m.fault = "none"

Tables == {m.word[kern_pgdir][d] : d \in Slot \ {UVPT}} \ {NULL}
\* Before the new directory is loaded only the 4 MB of entry_pgdir are mapped:
\* every page table that was cleared and written lies in them.
EarlyTablesMapped ==
    pc \notin {"free_list_all", "installed", "i1", "i2", "i3", "lapic", "done"} =>
        \A p \in Tables : Low(p)

\* The self-tests leave no page behind: outside of a test a page is on the free
\* list, and counted, exactly if it was free at first and is no page table now.
NothingLost ==
    pc \in {"page", "mmio", "map", "kern_pgdir", "lcr3", "free_list_all", "lapic", "done"} =>
        /\ Listed(m) = start \ Tables
        /\ m.nfree = Cardinality(Listed(m))
-----------------------------------------------------------------------------
(* Start-up of the processors: mp_init () reads the configuration table,     *)
(* kernel_main () prepares its own CPU and boot_aps () starts the others one *)
(* at a time; they enter through mpentry.S, with the stack the boot CPU left *)
(* in mpentry_kstack, and report in mp_main ().  CPUs are known by their     *)
(* APIC ids.  cpus[] is indexed by the order of the table, and cpunum () is  *)
(* the APIC id: the two agree when the table lists the ids 0, 1, ... in      *)
(* order, as the emulator's does.                                            *)
CONSTANT Machines     \* bound: [found, entries], the entries [type, boot]

VARIABLES table,      \* the table of this machine
          ncpu, bootcpu, ismp,
          status,     \* cpus[i].cpu_status = CPU_STARTED
          lapicmap,   \* lapic # NULL
          mpentry_kstack,  \* the CPU whose stack it is, or -1
          stack,      \* the stack each CPU runs on: that of CPU n, or -1
          tasks,      \* the tasks made so far: [cpu, eip]
          cputask,    \* cpus[i].cpu_task, or 0
          at,         \* where each CPU is
          ap          \* i of boot_aps ()

mpVars == <<table, ncpu, bootcpu, ismp, status, lapicmap, mpentry_kstack, stack, tasks, cputask, at, ap>>

Procs(t) == SelectSeq(t, LAMBDA e : e.type = "proc")
Cpus == 0 .. Len(Procs(table.entries)) - 1    \* the CPUs of the machine
Bsp == CHOOSE c \in Cpus : Procs(table.entries)[c + 1].boot

MpInit ==
    /\ table \in Machines
    /\ ncpu = 0 /\ bootcpu = 0 /\ ismp = FALSE
    /\ status = [i \in 0..NCPU-1 |-> FALSE]
    /\ lapicmap = FALSE
    /\ mpentry_kstack = -1
    /\ stack = [c \in Cpus |-> -1]
    /\ tasks = <<>>
    /\ cputask = [i \in 0..NCPU-1 |-> 0]
    /\ at = [c \in Cpus |-> IF c = Bsp THEN "mp_init" ELSE "halted"]
    /\ ap = 0

\* mp_init (): nothing without a table that mpconfig () accepts; else the
\* entries up to the first of unknown type, which turns it all off.
\* Processors that do not fit in cpus[] are left out.
mp_init ==
    /\ at[Bsp] = "mp_init"
    /\ LET bad == {k \in 1..Len(table.entries) : table.entries[k].type = "unknown"}
           end == IF bad = {} THEN Len(table.entries)
                  ELSE (CHOOSE k \in bad : \A j \in bad : k =< j) - 1
           procs == Procs(SubSeq(table.entries, 1, end))
           boots == {k \in 1..Len(procs) : procs[k].boot}
           b == IF boots = {} THEN 0 ELSE (CHOOSE k \in boots : TRUE) - 1
       IN IF table.found
          THEN /\ bootcpu' = IF b < NCPU THEN b ELSE NCPU
               /\ ismp' = (bad = {})
               /\ ncpu' = IF bad # {} THEN 1 ELSE IF Len(procs) < NCPU THEN Len(procs) ELSE NCPU
               /\ status' = [i \in 0..NCPU-1 |-> i = bootcpu']
          ELSE UNCHANGED <<bootcpu, ismp, ncpu, status>>
    /\ at' = [at EXCEPT ![Bsp] = "lapic"]
    /\ UNCHANGED <<table, lapicmap, mpentry_kstack, stack, tasks, cputask, ap>>

\* cpunum ().
thiscpu(c) == IF lapicmap THEN c ELSE 0

\* lapic_init () maps the registers on the first CPU that comes by; without a
\* table there is no address to map.
lapic_init(c) ==
    /\ at[c] = "lapic"
    /\ lapicmap' = (lapicmap \/ ismp)
    /\ at' = [at EXCEPT ![c] = "task"]
    /\ UNCHANGED <<table, ncpu, bootcpu, ismp, status, mpentry_kstack, stack, tasks, cputask, ap>>

\* task_init_percpu (): a first task, and the runqueue with it (task_create ()
\* takes its entry under task_lock).
task_init_percpu(c) ==
    /\ at[c] = "task"
    /\ tasks' = Append(tasks, [cpu |-> c, eip |-> IF thiscpu(c) = bootcpu THEN "user_entry"
                                                                         ELSE "idle_entry"])
    /\ cputask' = [cputask EXCEPT ![thiscpu(c)] = Len(tasks')]
    /\ stack' = IF c = Bsp THEN [stack EXCEPT ![c] = c] ELSE stack
    /\ at' = [at EXCEPT ![c] = IF c = Bsp THEN "boot_aps" ELSE "report"]
    /\ UNCHANGED <<table, ncpu, bootcpu, ismp, status, lapicmap, mpentry_kstack, ap>>

\* boot_aps (): one turn of the loop up to the wait, the INIT and the two
\* STARTUP messages of lapic_startap () included.  A halted CPU takes the
\* first of them and ignores the second.
StartAp ==
    /\ at[Bsp] = "boot_aps" /\ ap < ncpu
    /\ IF ap = bootcpu
       THEN /\ ap' = ap + 1
            /\ UNCHANGED <<mpentry_kstack, at>>
       ELSE /\ mpentry_kstack' = ap
            /\ at' = [at EXCEPT ![Bsp] = "wait", ![ap] = "entry"]
            /\ UNCHANGED ap
    /\ UNCHANGED <<table, ncpu, bootcpu, ismp, status, lapicmap, stack, tasks, cputask>>

\* Mutant: on to the next CPU at once.
WaitAp_Not ==
    /\ at[Bsp] = "wait"
    /\ ap' = ap + 1
    /\ at' = [at EXCEPT ![Bsp] = "boot_aps"]
    /\ UNCHANGED <<table, ncpu, bootcpu, ismp, status, lapicmap, mpentry_kstack, stack, tasks, cputask>>

\* while (cpus[i].cpu_status != CPU_STARTED) ;
WaitAp ==
    /\ at[Bsp] = "wait" /\ status[ap]
    /\ ap' = ap + 1
    /\ at' = [at EXCEPT ![Bsp] = "boot_aps"]
    /\ UNCHANGED <<table, ncpu, bootcpu, ismp, status, lapicmap, mpentry_kstack, stack, tasks, cputask>>

\* Both kernel_main () and mp_main () end with a jump into their CPU's task.
Eip(c) == tasks[cputask[thiscpu(c)]].eip

Enter ==
    /\ at[Bsp] = "boot_aps" /\ ap >= ncpu
    /\ at' = [at EXCEPT ![Bsp] = Eip(Bsp)]
    /\ UNCHANGED <<table, ncpu, bootcpu, ismp, status, lapicmap, mpentry_kstack, stack, tasks, cputask, ap>>

\* mpentry.S: real mode, protected mode, paging, then the stack.
mpentry(c) ==
    /\ at[c] = "entry"
    /\ stack' = [stack EXCEPT ![c] = mpentry_kstack]
    /\ at' = [at EXCEPT ![c] = "lapic"]
    /\ UNCHANGED <<table, ncpu, bootcpu, ismp, status, lapicmap, mpentry_kstack, tasks, cputask, ap>>

\* The end of mp_main (): xchg(&thiscpu->cpu_status, CPU_STARTED), then its task.
Report(c) ==
    /\ at[c] = "report"
    /\ status' = [status EXCEPT ![thiscpu(c)] = TRUE]
    /\ at' = [at EXCEPT ![c] = Eip(c)]
    /\ UNCHANGED <<table, ncpu, bootcpu, ismp, lapicmap, mpentry_kstack, stack, tasks, cputask, ap>>

MpNext == \/ mp_init \/ StartAp \/ WaitAp \/ Enter
          \/ \E c \in Cpus : lapic_init(c) \/ task_init_percpu(c) \/ mpentry(c) \/ Report(c)

MpFairness == WF_mpVars(MpNext)

MpSpec == MpInit /\ [][MpNext]_mpVars /\ MpFairness

---------------------------------------------------------------------------
\* No two CPUs run on one stack: mpentry_kstack is one word, and the boot CPU
\* changes it only after the CPU it was meant for has reported.
StackOwn == \A c \in Cpus : stack[c] \in {-1, c}

\* thiscpu is a CPU's own entry when it sets its task: every CPU that has come
\* as far as its task finds there the one that was made for it.
TaskOwn == \A c \in Cpus : at[c] \in {"report", "boot_aps", "wait", "user_entry", "idle_entry"} =>
             cputask[thiscpu(c)] # 0 /\ tasks[cputask[thiscpu(c)]].cpu = c

\* Where the CPUs belong: the boot CPU in the user's program, every other CPU of
\* the table, up to NCPU of them, in the idle loop, and the rest halted.
Entered == \A c \in Cpus : at[c] = IF c = Bsp THEN "user_entry"
                                   ELSE IF c < ncpu THEN "idle_entry" ELSE "halted"

\* Start-up ends there: boot_aps () waits for each CPU, and each reports.
AllEnter == <>[]Entered
=============================================================================
