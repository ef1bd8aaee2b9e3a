------------------------------- MODULE Memory -------------------------------
(***************************************************************************)
(* The physical page allocator and the page tables of nctuOS               *)
(* (kernel/mem.c), and their one user after boot: the address spaces that  *)
(* task_create builds and task_free takes down (kernel/task.c).            *)
(*                                                                         *)
(* Every operation is a C function and is modelled as one: it takes a      *)
(* memory state and returns the next one, its C result in the field "got". *)
(* A call sequence is one atomic action, because task_lock is held around  *)
(* it (task_create, task_free) or because it runs at boot, on one CPU.     *)
(*                                                                         *)
(* A page holds words, one per entry of a directory or a table; 0 is an    *)
(* entry that is not present.  The entries that boot_map_region writes map *)
(* memory that is not reference counted and are left 0.                    *)
(***************************************************************************)
EXTENDS Integers, FiniteSets, FiniteSetsExt, SequencesExt

CONSTANTS
    NPAGES,       \* bound: the physical pages are 1 .. NPAGES
    NSLOTS,       \* bound: entries of a directory or a table (1024)
    Reserved,     \* pages that page_init keeps off the free list
    AS,           \* the task slots
    KernelDirs,   \* directory entries that setupkvm fills, in its order; not StackDir
    StackDir,     \* the directory entry of the user stack
    NSTACK,       \* pages of a user stack (USR_STACK_SIZE / PGSIZE), no more than NSLOTS
    KernDir       \* the page of kern_pgdir, or 0: no boot-time client

Page == 1 .. NPAGES
Slot == 0 .. NSLOTS - 1
NULL == 0

VARIABLES
    mem,     \* the memory state
    root,    \* tasks[a].pgdir of the tasks that exist, else NULL
    held,    \* pages that the boot-time client has allocated and not freed
    dead     \* why no operation follows: a failed task_create, or no reason

vars == <<mem, root, held, dead>>

\* page_init: the free pages are pushed in increasing order.
page_init ==
    LET free == Page \ Reserved
        below(p) == {q \in free : q < p}
        top(S) == IF S = {} THEN NULL ELSE Max(S)
    IN  [head  |-> top(free),
         link  |-> [p \in Page |-> IF p \in free THEN top(below(p)) ELSE NULL],
         ref   |-> [p \in Page |-> IF p \in free THEN 0 ELSE 1],
         nfree |-> Cardinality(free),
         word  |-> [p \in Page |-> [s \in Slot |-> NULL]],
         got   |-> NULL,
         fault |-> "none"]

Init ==
    /\ mem = page_init
    /\ root = [a \in AS |-> NULL]
    /\ held = {}
    /\ dead = "no"

-----------------------------------------------------------------------------
\* page_alloc(ALLOC_ZERO)
page_alloc(m) ==
    IF m.head = NULL
    THEN [m EXCEPT !.got = NULL]
    ELSE [m EXCEPT !.got = m.head,
                   !.head = m.link[m.head],
                   !.link[m.head] = NULL,
                   !.word[m.head] = [s \in Slot |-> NULL],
                   !.nfree = @ - 1]

page_free(m, p) ==
    IF m.ref[p] # 0 \/ m.link[p] # NULL
    THEN [m EXCEPT !.fault = "assert"]
    ELSE [m EXCEPT !.link[p] = m.head, !.head = p, !.nfree = @ + 1]

page_decref(m, p) ==
    LET n == [m EXCEPT !.ref[p] = @ - 1]
    IN  IF n.ref[p] = 0 THEN page_free(n, p) ELSE n

\* got is the page table that holds the entry of directory entry d.
pgdir_walk(m, dir, d) ==
    IF m.word[dir][d] # NULL
    THEN [m EXCEPT !.got = m.word[dir][d]]
    ELSE LET n == page_alloc(m)
         IN  IF n.got = NULL THEN n
             ELSE [n EXCEPT !.ref[n.got] = @ + 1, !.word[dir][d] = n.got]

\* The page mapped at directory entry d, table entry t (create is 0).
page_lookup(m, dir, d, t) ==
    IF m.word[dir][d] = NULL THEN NULL ELSE m.word[m.word[dir][d]][t]

page_remove(m, dir, d, t) ==
    LET p == page_lookup(m, dir, d, t)
    IN  IF p = NULL THEN m
        ELSE [page_decref(m, p) EXCEPT !.word[m.word[dir][d]][t] = NULL]

\* Mutant: the old page loses no reference.
page_insert_NoRemove(m, dir, p, d, t) ==
    LET n == pgdir_walk(m, dir, d)
    IN  IF n.got = NULL THEN n
        ELSE [n EXCEPT !.word[n.got][t] = p, !.ref[p] = @ + 1]

\* got is NULL for -E_NO_MEM.
page_insert(m, dir, p, d, t) ==
    LET n == pgdir_walk(m, dir, d)
        up == [n EXCEPT !.ref[p] = @ + 1]
        clear == IF n.word[n.got][t] # NULL THEN page_remove(up, dir, d, t) ELSE up
    IN  IF n.got = NULL THEN n ELSE [clear EXCEPT !.word[n.got][t] = p]

\* One region needs one page table here.  The entry is written through the
\* result of pgdir_walk, NULL or not.
boot_map_region(m, dir, d) ==
    LET n == pgdir_walk(m, dir, d)
    IN  IF n.got = NULL THEN [n EXCEPT !.fault = "null entry"] ELSE n

\* got is the new directory.
setupkvm(m) ==
    LET n == page_alloc(m)
        map(x, d) == boot_map_region(x, n.got, d)
    IN  IF n.got = NULL THEN n
        ELSE [FoldLeft(map, n, KernelDirs) EXCEPT !.got = n.got]

ptable_remove(m, dir) ==
    LET drop(x, d) == IF x.word[dir][d] # NULL
                      THEN page_decref(x, x.word[dir][d]) ELSE x
    IN  FoldLeft(drop, m, [i \in 1 .. NSLOTS |-> i - 1])

pgdir_remove(m, dir) == page_free(m, dir)

-----------------------------------------------------------------------------
\* The stack loop of task_create.  An iteration ends the loop when there is no
\* page; its test of page_insert for -1 never succeeds, since the error is
\* -E_NO_MEM, so the page that was not mapped stays allocated.
UserStack(m, dir) ==
    LET entries == [i \in 1 .. NSTACK |-> i - 1]
        step(x, t) ==
            LET n == page_alloc(x)
            IN  IF x.fault # "none" THEN x
                ELSE IF n.got = NULL THEN [n EXCEPT !.fault = "no page"]
                ELSE page_insert(n, dir, n.got, StackDir, t)
    IN  FoldLeft(step, m, entries)

\* task_create, the slot being found.  A failure panics, faults, or returns
\* with task_lock held: in each case it is the last operation on memory.
task_create(a) ==
    /\ dead = "no" /\ root[a] = NULL /\ held = {}
    /\ LET k == setupkvm(mem)
           m == UserStack(k, k.got)
       IN  IF k.got = NULL
           THEN mem' = k /\ dead' = "panic" /\ UNCHANGED root
           ELSE IF k.fault # "none"
           THEN mem' = k /\ dead' = "fault" /\ UNCHANGED root
           ELSE /\ mem' = m
                /\ dead' = IF m.fault = "none" THEN "no" ELSE "locked"
                /\ root' = [root EXCEPT ![a] = k.got]
    /\ UNCHANGED held

\* task_free, called by sys_kill.
task_free(a) ==
    /\ dead = "no" /\ root[a] # NULL
    /\ LET dir == root[a]
           unmap(x, t) == page_remove(x, dir, StackDir, t)
           bare == FoldLeft(unmap, mem, [i \in 1 .. NSTACK |-> i - 1])
       IN  mem' = pgdir_remove(ptable_remove(bare, dir), dir)
    /\ root' = [root EXCEPT ![a] = NULL]
    /\ UNCHANGED <<held, dead>>

-----------------------------------------------------------------------------
\* The calls check_page makes at boot, in any order: on the directory
\* kern_pgdir, with pages it allocated, as mem_init does before there are tasks.
Booting == KernDir # NULL /\ root = [a \in AS |-> NULL]

\* The page whose last mapping is at d, t: unmapped there, it is freed, and the
\* client must not use it again.
Unmapped(d, t) == {p \in {page_lookup(mem, KernDir, d, t)} \ {NULL} : mem.ref[p] = 1}

ClientAlloc ==
    /\ Booting
    /\ mem' = page_alloc(mem)
    /\ held' = held \cup ({mem'.got} \ {NULL})
    /\ UNCHANGED <<root, dead>>

ClientInsert(p, d, t) ==
    /\ Booting
    /\ p \in held
    /\ mem' = page_insert(mem, KernDir, p, d, t)
    /\ held' = held \ (Unmapped(d, t) \ {p})
    /\ UNCHANGED <<root, dead>>

ClientRemove(d, t) ==
    /\ Booting
    /\ mem' = page_remove(mem, KernDir, d, t)
    /\ held' = held \ Unmapped(d, t)
    /\ UNCHANGED <<root, dead>>

ClientFree(p) ==
    /\ Booting
    /\ p \in held /\ mem.ref[p] = 0
    /\ mem' = page_free(mem, p)
    /\ held' = held \ {p}
    /\ UNCHANGED <<root, dead>>

Next ==
    \/ \E a \in AS : task_create(a) \/ task_free(a)
    \/ ClientAlloc
    \/ \E p \in Page : ClientFree(p) \/ \E d, t \in Slot : ClientInsert(p, d, t)
    \/ \E d, t \in Slot : ClientRemove(d, t)

Spec == Init /\ [][Next]_vars

-----------------------------------------------------------------------------
\* The directories in use, their tables, and the pages these map.
Entries(pages) == {mem.word[e[1]][e[2]] : e \in pages \X Slot} \ {NULL}
Dirs == ({root[a] : a \in AS} \cup {KernDir}) \ {NULL}
Tables == Entries(Dirs)
Mapped == Entries(Tables)

\* The free list, as far as NPAGES links lead.
Chain ==
    LET after == [p \in Page \cup {NULL} |-> IF p = NULL THEN NULL ELSE mem.link[p]]
        c[i \in 0 .. NPAGES] == IF i = 0 THEN mem.head ELSE after[c[i - 1]]
    IN  c
Listed == LET c == Chain IN {c[i] : i \in 0 .. NPAGES} \ {NULL}

\* Links, entries and directories name pages that exist; num_free_pages never
\* leaves the range that page_init gives it.
TypeOK ==
    /\ mem.head \in Page \cup {NULL}
    /\ mem.link \in [Page -> Page \cup {NULL}]
    /\ mem.ref \in [Page -> Nat]
    /\ mem.nfree \in 0 .. NPAGES
    /\ mem.word \in [Page -> [Slot -> Page \cup {NULL}]]
    /\ root \in [AS -> Page \cup {NULL}]
    /\ held \subseteq Page
    /\ dead \in {"no", "panic", "fault", "locked"}

\* The free list ends, repeats no page, and is as long as num_free_pages says:
\* what sys_get_num_free_page and check_page_free_list rely on.
FreeListExact ==
    /\ Chain[NPAGES] = NULL
    /\ Cardinality(Listed) = mem.nfree

\* A page is free exactly if nothing uses it: no directory, table or mapped page
\* is handed out again, and no page is lost, however many tasks are created and
\* killed, for as long as every task_create succeeds.
FreeExactlyUnused ==
    dead = "no" => Listed = Page \ (Reserved \cup Dirs \cup Tables \cup Mapped \cup held)

\* pp_ref counts the directory and table entries that name the page; a task's
\* directory itself has none, which pgdir_remove depends on.
RefsExact ==
    dead = "no" =>
        LET entry == (Dirs \cup Tables) \X Slot
        IN  \A p \in Page \ Reserved :
                mem.ref[p] = Cardinality({e \in entry : mem.word[e[1]][e[2]] = p})

\* The assertions of page_free never fail.
NoDoubleFree == mem.fault # "assert"

\* No table and no stack page is shared by two tasks, and a task that could be
\* created has its whole stack.
StacksPrivate ==
    dead = "no" =>
        \A a \in {x \in AS : root[x] # NULL} :
            /\ \A t \in 0 .. NSTACK - 1 : page_lookup(mem, root[a], StackDir, t) # NULL
            /\ Cardinality({page_lookup(mem, root[a], StackDir, t) : t \in 0 .. NSTACK - 1})
                   = NSTACK
            /\ \A b \in AS \ {a}, s, t \in 0 .. NSTACK - 1 :
                   root[b] # NULL =>
                       page_lookup(mem, root[a], StackDir, s)
                           # page_lookup(mem, root[b], StackDir, t)

\* page_insert maps the page it was given, or fails and changes no mapping; it
\* never disturbs another address.  The re-insertion of a page at its own
\* address, which the comment of page_insert warns of, is one of the cases.
InsertStep ==
    \A p \in Page, d, t \in Slot :
        ClientInsert(p, d, t) =>
            \A e, i \in Slot :
                page_lookup(mem', KernDir, e, i) =
                    IF e = d /\ i = t /\ mem'.got # NULL
                    THEN p ELSE page_lookup(mem, KernDir, e, i)
InsertExact == [][InsertStep]_vars
=============================================================================
