# NCTU_Courses in TLA+

The repository holds the work of six university courses. This development models
the parts of it that are programs with state worth checking:

- **nctuOS**, the multiprocessor x86 kernel under
  `src/2018_2_Operating_System_Design_and_Implementation/` (`kernel/`, `lib/`,
  `user/`, `boot/` below are relative to it), with the FatFs it carries;
- the servers, libraries and tools of `src/2018_2_Unix_Programming/` (the
  textbook's code in `apue.2e/`, the class code in `inclass-20190428/`, the
  homework in `Homework/`);
- the thread messages and the NAS CG program of
  `src/2018_1_Parallel_Programming/`;
- the crawler and the pattern miner of `src/2018_1_Data_Science/`.

TLC checks every module on a small instance. TLAPS proves the main facts about
spinlocks, tasks and runqueues, kernel entry, descriptors, the database library,
semaphores, the open server, daemons, turn taking and thread messages for every
value of the constants.

`PROJECT.json` is the machine-readable side: components, runs, mutants, the map
from every definition to its source lines, findings, hazards, theorems.

## Inventory

A module that models several programs has one specification per program in it
(`ConsSpec`, `KbdSpec`, ... in `Console`), with variables of its own.

### nctuOS

| part | code | modules | state |
|---|---|---|---|
| spinlocks | `kernel/spinlock.c` | `Spinlock`, `Mutex` | modelled, proved |
| tasks, runqueues, scheduler, timer | `kernel/task.c`, `sched.c`, `timer.c`, `syscall.c` | `Tasks` | after boot; all but `jiffies`, `parent_id`; proved |
| kernel entry and exit | `kernel/trap.c`, `trap_entry.S`, `syscall.c` | `Trap` | one CPU; proved |
| vectors, masks, registers of a call | `kernel/trap.c`, `picirq.c`, `lapic.c`, `lib/syscall.c` | `Interrupts` | modelled |
| pages and page tables | `kernel/mem.c`, `task_create`, `task_free` | `Memory` | modelled |
| loader, memory set-up, start of the CPUs | `boot/main.c`, `kernel/entry.S`, `mem.c`, `main.c`, `mpconfig.c`, `lapic.c`, `mpentry.S` | `Bootstrap` | from `bootmain` on |
| descriptors, file calls | `kernel/fs/fs*.c` | `Files`, `FileTests` | all calls but `ls`; proved |
| FatFs | `kernel/fs/fat/ff.c` | `Fat`, `FileStore`, `Volume` | the calls compiled in |
| disk driver and glue | `kernel/drv/disk.c`, `kernel/fs/diskio.c` | `Disk` | one request at a time |
| keyboard, screen, line editor, shell | `kernel/kbd.c`, `screen.c`, `lib/readline.c`, `user/shell.c` | `Console` | all but colours |
| strings and printing | `lib/string.c`, `lib/printfmt.c`, `printf.c` | `UserLib` | modelled |

### Unix Programming

| part | code | modules |
|---|---|---|
| database library | `apue.2e/db/db.c`, `lib/lockreg.c` | `Db`, `KvStore`; proved |
| print spooler and client | `apue.2e/ipp/` | `Printd`, `PrintClient` |
| call server and client | `apue.2e/calld/`, `call/` | `Calld`, `Calling` |
| open server | `apue.2e/opend/`, `open/`, `lib/` | `Opend`; proved |
| semaphores, TELL and WAIT | `apue.2e/lib/semaph.c`, `tellwait.c`, `advio/devzero.c` | `Sync`; proved |
| terminals, popen, pty | `apue.2e/lib/ttymodes.c`, `popen.c`, `pty/` | `Pty` |
| uptime service | `apue.2e/sockets/` | `Ruptime` |
| daemons | `apue.2e/daemons/`, `inclass-20190428/daemon/lock.c` | `Daemon`; proved |
| walks | `apue.2e/file/ftw4.c`, `termios/ttyname.c`, `Homework/hw1`, `hw2` | `Walks` |
| class code | `inclass-20190428/` | `ClassCode` |
| homework 3: C library | `Homework/hw3/` | `LibMini` |
| homework 4: debugger | `Homework/hw4/` | `Sdb`, `SdbView` |

### Parallel Programming and Data Science

| part | code | modules |
|---|---|---|
| messages between threads | `1_pthread/pth_semaphore.c` | `Sync`; proved |
| NAS CG on OpenMP | `2_openmp/hw2/cg.c`, `common/randdp.c` | `Cg` |
| crawler, frequent patterns | `Data_Science/hw1`, `hw2` | `DataScience` |

How the parts of the kernel meet: `Bootstrap` brings the kernel in and sets up
memory and CPUs; its end is the Init of `Tasks`. User programs enter through
`Trap`'s gates; which handler an entry finds, and what the registers carry, is
`Interrupts`. A system call then runs with interrupts off, which is why a handler
of `Tasks` or `Files` is never interrupted on its own CPU and interleaves with
other CPUs only. `Tasks` uses the atomic lock of `Mutex` for `task_lock`, and
`Spinlock` is shown to implement it. `task_create` and `task_free` call `Memory`
with that lock held, so a call of `Memory` is one step. `Files` and `Console` have
no lock. `Files` takes FatFs by lengths and positions; `Fat` has it down to the
sector write and is shown to implement `FileStore`; `Disk` is under it.

`MCKernel`, `MCLive` and `MCPrograms` put parts that do not share state into one
run: the first state picks a part (`part`), and only that part moves. So the
instance is the sum of the parts and not their product. The modules whose
properties are proved are extended, not instantiated, so that the run checks the
same definition as the theorem. `MCDb` and `MCFat` give one module its constants.

## The modules and the code

Every module says in its head what it models and at which grain; definitions keep
the names of the code. This section gives the state and the steps of each.

### nctuOS

**Spinlock / Mutex.** State: the two words `locked` and `cpu` of `struct
spinlock` and a program counter per CPU. Each read and write of a word is its
own action: `LockCheck` and `LockCheckOwner` are the two reads of `holding` in
`spin_lock`, `Xchg`/`Spin` the loop, `Record` the owner, `UnlockCheck`,
`UnlockCheckOwner`, `Clear`, `XchgRelease` the parts of `spin_unlock`. The first
state picks the careless CPUs among `Careless`: they may leave with the lock held
(what `task_create` does on its error paths) or unlock without holding. `Mutex`
is the atomic lock; the mapping is at the end of `Spinlock`.

**Tasks.** State: `tasks[]` (state, `remind_ticks`, and whether stack, page
directory and program are in place), the runqueues `rq`/`cnt`, `nextCPU`,
`cpu_task`, `task_lock`, and the locals of the call each CPU is in. Init is the
moment after `boot_aps`: the shell runs on CPU 0, an idle task on each other
CPU. Actions: `Timer` (`timer_handler`), `Yield` (`sched_yield`), `Sleep`, the
steps of `sys_fork` and those of `sys_kill`. The unlocked enqueue is four steps
(load, store, increment, advance); an increment adds to the value loaded before
or to the one in memory, since the compiler may do either. The scan of a runqueue
and the search loop of `sys_kill` over one runqueue are one step each. A write
that leaves the modelled arrays sets `wild`, and the behaviour ends there.
`SPILL_WORDS` counts the words of `struct CpuInfo` that repeated kills overwrite
before one that matters. Not modelled: `parent_id`, `jiffies`, and `TASK_STOP`,
which nothing sets.

**Trap.** One CPU, a program counter per task, the saved frame `tf` and the
frame on the kernel stack. A system call enters through a trap gate (interrupts
stay on), `trap_dispatch` turns them off, and `TimerInGate` is the timer
interrupt in between. A nested interrupt that ends no slice changes nothing here
and is a stuttering step. `Tasks` leaves this window out: there a system call is
entered with interrupts off.

**Interrupts.** The masks of the two controllers, the descriptor table and
`trap_hnd[]`, set up in the order of `kernel_main` and `mp_main`, with interrupts
of every source from the moment a CPU may take one; and one system call through
its registers: the wrapper loads them, the gate pushes the frame, the handler
reads the structure laid over it and puts its result into `eax`.

**Memory.** The free list, `pp_ref` and the words of directories and tables form
one record; each C function is an operator on it with its result in the field
`got`. The actions are `task_create` and `task_free`, or (with `KernDir` set) a
client that makes the calls of `check_page` in any order. A `task_create` that
fails panics, faults or keeps `task_lock`: it is the last operation.

**Bootstrap.** Three programs one after the other: `bootmain`, sector by sector,
where a cell of memory holds the file offset of its byte; `mem_init` for several
layouts of physical memory, with its self-tests as steps; `mp_init`, one turn of
`boot_aps` per step, `mpentry` and `mp_main` of each CPU.

**Files, FileTests.** `ref_count`, `pos`, `size` of `fd_table`, the FatFs object
of each entry, the length of each file, and the call each CPU is in. Every access
to a `ref_count` is a step: `fd_new` tests (`NewScan`) and later sets
(`NewTake`), the `++` of `fd_get` is `GetLoad` and `GetStore`, and `fd_put` is
`PutLoad`, `PutStore`, `PutTest` and, for the last reference, `PutClear`. Any CPU
may open, and use or close what another has opened. The call of FatFs between
them is one step; `sys_lseek` makes it after `fd_put`. `raced` remembers that two
CPUs were at once inside these accesses to one entry (`Overlap`). A file is its
length; `LENGTH` also stands for the capacity of the disk. `FileTests` runs the
scripts of `filetest1` to `filetest5` in any order with their assertions.

**Fat, FileStore, Volume.** `Fat` is an operator per function of `ff.c` on the
volume (disk, window, counters) and an action per call of the interface. One call
is one step, and between any two sector writes of it the power may fail: what is
then on the disk is mounted again. A sector holds few cells; a cell is a FAT
entry, a directory entry or a unit of data. `Volume` shows that the packed bytes
of FAT12, FAT16 and FAT32 behave as such cells, that names go into entries and
back, and that what `f_mkfs` lays out is what `f_mount` finds. `FileStore` is the
promise: a tree of files, each a sequence of units.

**Disk.** Detection of the drives, then transfers by polling, with a drive that
may be slow and may fail.

**Console, UserLib.** `kbd_proc_data` per byte; the ring of `cons_getc`, where a
store or read with its increment is one step and the wrap test another, and an
overrun loses what waited; `k_putch` against the text printed so far; a key per
step of `readline`, with completion, history, Control-L, and the left edge of the
screen, where a backspace stops. In `UserLib` one turn of a loop of `string.c` is a step,
and a conversion of `printf` is compared with the field it describes.

### Unix Programming

**Db, KvStore.** Every lock call, read and write of `db.c` is a step. The files
are sequences of records, an offset is a record number, and `lock` says who holds
which lock of the hash chains, the free list and the two ends of the files. Each
call takes effect at one of its steps, which the mapping to `KvStore` names.

**Printd, PrintClient.** Client threads, the printer thread, the job number file
and the spool directory; the daemon may stop at any step and starts again from
what is on disk. The data file of a job may fail to open. SIGHUP is taken where
the printer thread looks at `reread`, which nobody else does. The list of
workers, pointer by pointer. `PrintClient`: the
printer's answer in pieces, and `print` against a spooler that answers, refuses
or dies.

**Calld, Calling.** `Calld`: the select loop, `client[]`, children and SIGCHLD,
device locks. `Calling`: the three files with one position, with clients that
leave while a child dials for them; expect and send; and the client with its
escapes, `take` and `put`.

**Opend.** The select and the poll form of the loop, entry by entry; and the two
bytes of the protocol over a stream that splits messages.

**Sync.** `TELL_WAIT`: each system call is a step and signals come between any
two. Semaphores: every `semop ()` is a step, each carries `SEM_UNDO`, and a
process may end at any point. Thread messages: a step per access.

**Pty, Ruptime, Daemon, Walks.** `tcsetattr` may do a part of its work; signals
come between any two steps of `pty`. Three servers and two kinds of clients with
lost datagrams. `daemonize` and `already_running` of several copies with SIGHUP
and SIGTERM between any two steps. Walks through directories, `/proc` and `/dev`
that change meanwhile (`CloseFd`, `Unlink` and `DevChange` are the others'
steps); and the file call monitor, whose lines reach the log at once or when the
stream's buffer is written, with calls that fail and descriptors that are not
open.

**ClassCode.** The job queue with its condition variable; pipelines, groups and
the terminal, which stops a command that reads it too early; the preforked
server, its lock, a fork that fails and children that may be killed.

**LibMini, Sdb, SdbView.** Signal sets, `errno` through the system call wrappers,
masks, handlers, `setjmp`, and `longjmp` in two steps, the mask and then the stack; breakpoints as
bytes in the text of a child with instructions of several sizes; the cursors of
`disasm` and `dump`; what the ELF reader holds and gives back.

### Parallel Programming and Data Science

**Cg.** A double is abstracted by what the property needs: an integer for the
random numbers and the matrix, an element of a prime field, where the algebra of
the solver holds exactly. Rounding is left out. The product runs on threads with
the shared variables of the code; the matrix is made by one thread, although
`sparse` has parallel loops as well: one of them (`cg.c:567-571`) writes the
shared `j` and adds to `rowstr[j]`, and on several threads it races as the product
does.

**DataScience.** The crawl and its queries over a site of a few pages; the miner
on files of up to three lines against the definition of a frequent set.

## Runs

Passing runs (bounds are in the `.cfg` and in the MC modules):

| run | instance | shows |
|---|---|---|
| `tasks_nokill` | 2 CPUs, 5 slots, only the shell forks | `ListsSound`, `OneCpuPerTask`, `IdleLast`, `SleepersWake` |
| `tasks_all` | 2 CPUs, 4 slots, every call, memory may fail | `TableSound` |
| `spin_locks` | 3 CPUs, careless or not | `MutualExclusion`, `NoFalsePanic`, `ImplementsMutex`, `Progress` |
| `db_two` | 2 processes, one scans, 3 keys, 2 chains | `FilesSound`, `WritersApart`, `ImplementsKv` |
| `fat_calls` | FAT16 and FAT32, up to 4 calls, power failures | `VolumeSound`, `CrashSpares`, `ImplementsStore` |
| `kernel_parts` | `MCKernel`, 21 parts | `CallsInOrder`, `FilesShared`, `MemorySound`, `BootstrapRight`, `ConsoleRight`, `LibraryRight`, `VolumeRight`, `InterruptsRight`, `KernelWaitsEnd` |
| `live_parts` | `MCLive`, 22 parts | `OneAnswer`, `NeverCutOff`, `OneDaemon`, `TurnsTaken`, `SemaphRight`, `GetsMessage`, `PrintingSafe`, `CallsSafe`, `ServersRight`, `TerminalsRight`, `WaitsEnd` |
| `programs` | `MCPrograms`, 15 parts | `DebuggerSound`, `WalksTrue`, `SignalsKept`, `CgRight`, `DataRight` |

The comment before each property says what it states and of which code. A
property of several conjuncts is one promise to one kind of user (what the locks
are for, what is on disk, what the callers of a part rely on).

Why the bounds are enough for the cases of interest: a race of the unlocked code
involves one word and two parties, and two CPUs give each; three CPUs in
`Spinlock` add the bystander that sees a lock change hands. The task tables are
full, reused and exhausted within the bounds; a slice of one or two ticks ends
everywhere; `TICK_MOD` 2 or 4 lets `remind_ticks` wrap. In `Memory` two tasks fit
and the third fails half-way. `PTR_MAX` 2 with `NREC` 3 lets the index outgrow
its pointers; two keys of one length share a chain and reuse records, a third has
its own chain. Two clients and two slots fill the tables of the servers. Rings,
buffers and histories hold two or three, so that they wrap. Sizes of disks (too
small for a cluster, at each change of the sub-type, at 65536 sectors), text
lengths and numbers are taken around the limits of the code. `FilesBound` ends a
behaviour of `Files` where two CPUs have met in one entry, since nothing is
promised afterwards. Named bounds that exist only in the model are marked `bound:`
at their declaration.

Deadlock is checked in `tasks_nokill`, `spin_locks` and `db_two`. Elsewhere the
programs do stop: `Tasks` when all CPUs are in panic or fault or spin on a lock
that a failed `task_create` has kept; a part of `MCKernel`, `MCLive` or
`MCPrograms` when its program has ended; `Fat` after its last call.

The properties are stated under the conditions in which the code keeps them (no
kill, one task that forks, no O_TRUNC of a database in use); the constants of
each run and the guards of the modules say which. Where the code breaks its
promise in a case of its own, the model has the case and the property names it as
an exception (`raced` in `Files`, `stuck` and `cleared` in `Console`, a client
that left in `Calling`); without the exception TLC finds the counterexample.

An operator marked "Mutant" is a small bug in the operator after it; substituted
for it, TLC finds the property violated that `PROJECT.json` names, which shows
that the property depends on that code.

## Where the code and its comments disagree

Four runs end in a counterexample to a comment; `PROJECT.json` quotes it.

- `kill_unlists`: `sys_kill` drops the last entry of the *next* CPU's runqueue,
  since `++i` has run once more; the killed task stays listed.
- `trap_restart`: a timer interrupt between the system call gate and `cli` ends
  the slice with the frame not yet saved; the task restarts at an older point.
- `spurious`: a spurious interrupt reaches `Default_ISR`, whose number the test
  of `trap_dispatch` does not know, and ends in a panic.
- `cg_threads`: `sum` and `k` of the product are shared by the OpenMP threads.

The modules contain these departures as well. The runs' constants keep clear of
them or the properties except them by name:

- `Tasks`: `task_create` fails with `task_lock` held, so the next fork on that
  CPU panics; two forks at once may store into one entry and lose a task; a kill
  on CPU 0 may empty CPU 1's runqueue; `sched_yield` takes the last RUNNABLE entry
  every time, where its comment asks for round-robin.
- `Files`: two opens at once may take one entry; `++` and `--` of two CPUs lose an
  update, and the `memset` of the last `fd_put` may clear an entry that is in use
  again; a failed open or a bad argument keeps its reference; `fd_get` accepts
  `FS_FD_MAX`; `sys_lseek` uses the entry after `fd_put`; `fd->pos` and `fd->size`
  do not follow reads, seeks, or the opening of an existing file.
- `Console`: `CONSBUFSIZE` unread characters look like an empty buffer and are
  lost; a `getc` on another CPU than the boot CPU meets the buffer between two
  updates; a backspace does not go back over the edge of the screen, so that a
  line of more than one row cannot be erased on it; Control-L shows the prompt
  without the line that is kept.
- `Volume`: `f_mkfs` stores the number of sectors of a volume of 65536 or more in
  16 bits, and formats small disks with no room for a cluster.
- `Db`: `db_open` truncates before it locks, so a process that creates a database
  in use destroys it; a scan that another call disturbs may end in `err_dump`.
- `Printd`: a job whose data file cannot be opened is dropped although the client
  was told it is accepted; a restart may give a number that is in use.
- `Calling`, `Calld`: one client's wrong command line ends the server for all; the
  end of a client frees its device under the child that still dials.
- `ClassCode`: a command that reads the terminal before its group has it stops for
  good; a failed fork ends the preforked server and leaves its children.
- `Sync`: `sem_open ()` takes no lock and may lose its set to a `sem_close ()`
  that has already looked at the counter.
- `Walks`: the monitor names 0, 1 and 2 by number, whatever is behind them, gives
  a closed descriptor any name, and loses a buffered log when the program is
  killed; `ttyname` passes over a directory it cannot open or has no memory for.
- `LibMini`: `nanosleep` calls itself; `longjmp` restores the mask before the
  stack, so a handler may run on the stack that is being left; `perror` with a
  prefix tests `errno` after its `write` has changed it; a set takes signals from
  32 on for others.
- `DataScience`: a page that begins before the year and ends after it is kept as a
  whole; the miner rounds the minimum support down to lines.

## Fairness

`Spinlock`: weak fairness of each CPU's steps inside `spin_lock` and
`spin_unlock`, since a CPU there keeps executing. A CPU owes no call. `Progress`
promises that some CPU enters, not which: nothing orders the exchanges.

`Tasks`: weak fairness of a CPU inside the kernel, and strong fairness of the
timer, because an interrupt that becomes pending while interrupts are off is
delivered when they are on again. Programs owe no system call.

`MCKernel` and `MCLive` state fairness as a premise, part by part (`Fair_boot`,
`Fair_disk`, `Fair_opend`, ...): the server, the driver, a child or a thread that
can go on does (weak fairness). It is strong where a process sleeps in the kernel
on a lock that others pass around (`SemCall`, the lock of the preforked server:
the kernel queues sleepers), and for a printer that, tried again and again, at
some time takes the job (`SendOk`). No user, client or signal owes a step.

## Proofs

Eight modules hold theorems. Each states an inductive invariant, that the initial
states satisfy it, that every action keeps it, and what follows from it.

**`RunqueueProofs`, `ForkProofs`, `TasksProofs`** (any `ncpu`, any `NR_TASKS >=
ncpu`, under `TasksAssumption`). `RunqueueProofs` has the invariants and every
step but those of `sys_fork`, `ForkProofs` those, `TasksProofs` the theorems.

- `TasksTypeOK`, `TasksTableExclusive`, `TasksShellListed`, `TasksTableSound`:
  from `IInv` = `TypeOK`, `Locals`, `LockHeld` and `ShellListed`, whatever is
  forked and killed. `ShellListed` needs from `Locals` that an entry is dropped
  only in a runqueue with index at least 1 and that an enqueue into runqueue 0 has
  read a `cnt` of at least 1; `TableExclusive` follows from `LockHeld`.
- `TasksOneCpuPerTask`: without killers. `OwnInv` says that a task belongs to at
  most one CPU, as its current task, as an entry of its runqueue array or as the
  task its scheduler has picked; that a task `sys_fork` is still working on
  belongs to none and to one `sys_fork`; and that `task_create` never finds an
  owned slot FREE. The unlocked enqueue may lose a task but never hands it to two
  CPUs.
- `TasksListsSound`, `TasksIdleLast`: while only the shell forks and it does not
  sleep, nobody kills and memory suffices (`OnlyShellForks`). `ListInv` adds that the runqueues are
  strictly increasing: slots of the table are taken in increasing order and never
  given back, so entry `i` is at least `i`, the new task is above all that are
  listed, and no runqueue overflows; no counting is needed.

**`SyncProofs`**

- `SpinlockMutualExclusion`, `SpinlockNoFalsePanic` (any set of CPUs, any of them
  careless): mutual exclusion alone is not inductive. The exchange must know that
  a clear word means no holder, and the two-read check must know where the CPU
  recorded as owner can be: between its own `Record` and its own `Clear`, or it is
  careless.
- `SpinlockImplementsMutex`: while no CPU is careless every step is a step of
  `Mutex` or stutters (`StepRefines`, one case per action).
- `TrapCallsInOrder` (any tasks, any program): a task in user mode or at the gate
  has performed no call since the point it would be restarted at, so that a frame
  dropped by a nested timer interrupt costs no call and repeats none.
- `TellWaitTurns` (any even number of turns): the right to add is a token in one
  place, a process, a pending signal or a flag; where it is tells who added last.
- `PthGetsMessage` (any number of threads): a semaphore that is up, or was taken,
  was posted by the thread before, after it wrote its message.

**`FilesProofs`**

- `FilesSharedAlways` (any CPUs, table and files; no caller passes an entry of the
  table that is not its own, `OwnDescriptors`). `FilesInv` says that until two
  CPUs have met in one entry `FdInv` holds: `ref_count` is at least the calls that
  hold a reference and one more for the owner; a count that a call has loaded is
  still the one in memory; an entry that `fd_new` has found free still is; a
  descriptor has one keeper, its open call, its owner or its close call; and a
  kept entry that was opened has its object. A step changes one entry of the
  table, one call and at most who keeps it (`Effect`); `EffectKeeps` shows once
  that such a change keeps `FdInv`, and then each step of `fs.c` has one lemma
  that says which effect it has. That no other call is inside an update of the
  same entry (`Exclusive`) is what `~raced` gives after the step. Both conditions
  are needed: an update that overlaps another is lost, and a second close of a
  descriptor drops the reference of whoever has it by then.

**`DbProofs`**

- `DbWritersApart` (any processes, keys, values, hash function, calls and sizes,
  under `DbAssumption`): no two calls work on one hash chain unless both fetch, no
  two change or walk the free list at once and nobody scans meanwhile, every chain
  pointer leads to a record that `PTR_SZ` digits can name, and no two index
  records share a data record. `DbInv` is `Locking` (which locks are held at each
  place; it keeps itself) and `Data` (what the fields of a `DB` structure are
  worth at each place). `Data` is needed because the offset of an append is read
  in one step and used in another: it is still the end of the file because the
  lock on that end is held, and the record written there is named by nobody until
  its index record is written.

**`SemaphProofs`**

- `SemaphoresRight` (any finite set of processes smaller than `BIGCOUNT`, any
  initial value, `Semaphores`): `SemInv` says what the kernel owes each process at
  each place (`Adjusted`), that the lock has one holder and the set stays while it
  is held, and that either nobody is in and the set is not initialised or both
  counts are right. A crash gives back exactly what is owed, so the process that
  finds the counter at `BIGCOUNT` is the last.

**`ServerProofs`**

- `OpendOneAnswer`, `OpendNeverCutOff` (any clients, any size of `client[]`; the
  second for the select form): the entries are those of connected clients, each in
  one entry, and what select said of the entries the round has not come to is
  still true when it comes to them.
- `DaemonOneCopy` (any number of copies): a copy past the lock holds it, and past
  the write the file names it.

The assumptions on constants are `SpinlockAssumption`, `TasksAssumption`,
`FilesAssumption` and `DbAssumption` in the modules that declare them, which TLC
evaluates in the runs, and the conditions named above, which are premises of the
theorems and hold in the instances that the runs check.

### Only model-checked, and why

- The liveness properties `Progress`, `SleepersWake`, `KernelWaitsEnd` and
  `WaitsEnd`: they need fairness and ENABLED.
- `FilesSound` and `ImplementsKv` of `Db`, `MemorySound`, the chains of `Fat`
  (`VolumeSound`, `CrashSpares`, `ImplementsStore`), the patterns, matrices and
  strings of `programs` and `UserLib`: they say what a list, a tree or a loop
  reaches, through recursive functions, and need induction over data. The
  provers cannot instantiate the library's induction theorems.
- The other properties of `kernel_parts`, `live_parts` and `programs` range over
  instances of several modules at once. They are checked on the constants of the
  run only.

## Not modelled

Robotics and convex optimization, the learning scripts of data science (floating
point, no state of their own); the textbook's remaining examples and the class
demonstrations, which show one call each, and `textbook-20180326`, an older copy
of the same programs; the MPI, CUDA and OpenCL exercises, which split one loop and
join at one barrier; formatting, colours and messages; two CPUs inside FatFs or
the disk driver at once (neither has a lock, and the build is not reentrant);
straight-line device set-up in `boot.S` and `kclock.c`.

## Running

    tlc -workers 2 -config tasks_all.cfg Tasks
    tlc -workers 2 -config kernel_parts.cfg MCKernel
    tlapm TasksProofs.tla

`PROJECT.json` names the module of each run. The proofs of a module take from one
to about ten minutes.
