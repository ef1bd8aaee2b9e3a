----------------------------- MODULE Interrupts -----------------------------
(*****************************************************************************)
(* The ways into nctuOS: which handler an interrupt reaches on which CPU, and *)
(* how the registers carry a system call.                                    *)
(*****************************************************************************)
EXTENDS Integers, FiniteSets, Sequences

(***************************************************************************)
(* How an interrupt finds its handler: the mask of the two 8259A           *)
(* controllers (picirq.c), the descriptor table and the table of handlers  *)
(* (trap.c), the entries (trap_entry.S) and the order in which kernel_main *)
(* and mp_main set them up.  The processors share all of it but the flag   *)
(* that enables interrupts and the register that holds the table.          *)
(***************************************************************************)
CONSTANT CPUS          \* processors, 0 is the one that boots

VARIABLES step,        \* of kernel_main, then of mp_main on the others
          irq_mask,    \* irq_mask_8259A: the lines that are masked
          pic,         \* the lines the controllers mask
          didinit,
          idt,         \* vector -> [entry, dpl]
          trap_hnd,    \* vector -> handler
          lidt, sti,   \* per processor: table loaded, interrupts enabled
          last         \* what became of the last interrupt
irqVars == <<step, irq_mask, pic, didinit, idt, trap_hnd, lidt, sti, last>>

\* The lines and vectors the kernel names (inc/trap.h), and some it does not.
IRQ_TIMER == 0
IRQ_KBD == 1
IRQ_SLAVE == 2
IRQ_SPURIOUS == 7
IRQ_IDE == 14
Lines == {IRQ_TIMER, IRQ_KBD, IRQ_SLAVE, IRQ_SPURIOUS, IRQ_IDE}
IRQ_OFFSET == 32
T_PGFLT == 14
T_GPFLT == 13
T_STACK == 12
T_SYSCALL == 48
T_DEFAULT == 500
Vectors == {IRQ_OFFSET + i : i \in Lines} \cup {0, T_PGFLT, T_GPFLT, T_STACK, T_SYSCALL}
NVEC == 256

NULL == "NULL"
Gate(entry, dpl) == [entry |-> entry, dpl |-> dpl]
\* The number an entry of trap_entry.S pushes.
trapno(entry) == CASE entry = "KBD_Input" -> IRQ_OFFSET + IRQ_KBD
                   [] entry = "TIM_ISR" -> IRQ_OFFSET + IRQ_TIMER
                   [] entry = "GPFLT" -> T_GPFLT
                   [] entry = "STACK_ISR" -> T_STACK
                   [] entry = "PGFLT" -> T_PGFLT
                   [] entry = "SYS_CALL" -> T_SYSCALL
                   [] OTHER -> T_DEFAULT

IrqInit == /\ step = "trap_init" /\ didinit = FALSE
           /\ irq_mask = Lines \ {IRQ_SLAVE} /\ pic \in SUBSET Lines
           /\ idt = [v \in Vectors |-> Gate(NULL, 0)] /\ trap_hnd = [v \in Vectors |-> NULL]
           /\ lidt = [c \in CPUS |-> FALSE] /\ sti = [c \in CPUS |-> FALSE] /\ last = <<"none", "none">>

irq_setmask_8259A(mask) == irq_mask' = mask /\ pic' = IF didinit' THEN mask ELSE pic
register_handler(v, hnd, entry, dpl) ==
    /\ trap_hnd' = [trap_hnd EXCEPT ![v] = hnd]
    /\ idt' = [idt EXCEPT ![v] = Gate(entry, dpl)]

trap_init ==
    /\ step = "trap_init" /\ step' = "pic_init"
    /\ idt' = [v \in Vectors |-> CASE v = T_GPFLT -> Gate("GPFLT", 0)
                                   [] v = T_STACK -> Gate("STACK_ISR", 0)
                                   [] v = T_PGFLT -> Gate("PGFLT", 0)
                                   [] OTHER -> Gate("Default_ISR", 0)]
    /\ trap_hnd' = [v \in Vectors |-> IF v = T_PGFLT THEN "page_fault_handler" ELSE NULL]
    /\ lidt' = [lidt EXCEPT ![0] = TRUE]
    /\ UNCHANGED <<irq_mask, pic, didinit, sti, last>>

pic_init ==
    /\ step = "pic_init" /\ step' = "kbd_init" /\ didinit' = TRUE
    /\ IF irq_mask # Lines THEN irq_setmask_8259A(irq_mask) ELSE pic' = Lines /\ UNCHANGED irq_mask
    /\ UNCHANGED <<idt, trap_hnd, lidt, sti, last>>

kbd_init ==
    /\ step = "kbd_init" /\ step' = "timer_init" /\ didinit' = didinit
    /\ irq_setmask_8259A(irq_mask \ {IRQ_KBD})
    /\ register_handler(IRQ_OFFSET + IRQ_KBD, "kbd_intr", "KBD_Input", 0)
    /\ UNCHANGED <<lidt, sti, last>>
timer_init ==
    /\ step = "timer_init" /\ step' = "syscall_init" /\ didinit' = didinit
    /\ irq_setmask_8259A(irq_mask \ {IRQ_TIMER})
    /\ register_handler(IRQ_OFFSET + IRQ_TIMER, "timer_handler", "TIM_ISR", 0)
    /\ UNCHANGED <<lidt, sti, last>>
syscall_init ==
    /\ step = "syscall_init" /\ step' = "boot_aps"
    /\ register_handler(T_SYSCALL, "syscall_handler", "SYS_CALL", 3)
    /\ UNCHANGED <<irq_mask, pic, didinit, lidt, sti, last>>

\* Mutant of mp_main: interrupts are on before the table is loaded.
mp_main_Sti(c) ==
    /\ step = "boot_aps" /\ c # 0 /\ ~sti[c]
    /\ sti' = [sti EXCEPT ![c] = TRUE]
    /\ UNCHANGED <<step, irq_mask, pic, didinit, idt, trap_hnd, lidt, last>>

\* mp_main on another processor: it loads the table before it enables interrupts.
mp_main(c) ==
    /\ step = "boot_aps" /\ c # 0
    /\ \/ ~lidt[c] /\ lidt' = [lidt EXCEPT ![c] = TRUE] /\ UNCHANGED sti
       \/ lidt[c] /\ ~sti[c] /\ sti' = [sti EXCEPT ![c] = TRUE] /\ UNCHANGED lidt
    /\ UNCHANGED <<step, irq_mask, pic, didinit, idt, trap_hnd, last>>
\* The end of kernel_main, once boot_aps has seen the others started.
Sti == /\ step = "boot_aps" /\ ~sti[0] /\ \A c \in CPUS \ {0} : lidt[c]
       /\ sti' = [sti EXCEPT ![0] = TRUE]
       /\ UNCHANGED <<step, irq_mask, pic, didinit, idt, trap_hnd, lidt, last>>

\* trap_dispatch (): the number of Default_ISR is outside the table of handlers;
\* what lies behind the table is called, or found to be NULL.
trap_dispatch(n) ==
    IF n = IRQ_OFFSET + IRQ_SPURIOUS THEN {"ignored"}
    ELSE IF n >= NVEC THEN {"panic", "wild"}
    ELSE IF trap_hnd[n] # NULL THEN {trap_hnd[n]}
    ELSE {"panic"}
Deliver(c, from, v) ==
    /\ sti[c] /\ last[2] \notin {"panic", "wild"}
    /\ \E out \in IF lidt[c] THEN trap_dispatch(trapno(idt[v].entry)) ELSE {"fault"} : last' = <<from, out>>
    /\ UNCHANGED <<step, irq_mask, pic, didinit, idt, trap_hnd, lidt, sti>>

\* A line that is not masked, on a processor that has interrupts enabled; the
\* second controller goes through a line of the first.
Irq(c, i) == /\ i \notin pic /\ i \in {IRQ_TIMER, IRQ_KBD, IRQ_IDE}
             /\ i > 7 => IRQ_SLAVE \notin pic
             /\ Deliver(c, "irq", IRQ_OFFSET + i)
\* A line that drops too early: the controller reports line 7.
Spurious(c) == Deliver(c, "spurious", IRQ_OFFSET + IRQ_SPURIOUS)
\* int v in a user program: a gate that is not for it is a general protection fault.
SoftInt(c, v) == Deliver(c, "int", IF idt[v].dpl = 3 THEN v ELSE T_GPFLT)

IrqNext == \/ trap_init \/ pic_init \/ kbd_init \/ timer_init \/ syscall_init \/ Sti
           \/ \E c \in CPUS : mp_main(c) \/ Spurious(c)
           \/ \E c \in CPUS, i \in Lines : Irq(c, i)
           \/ \E c \in CPUS, v \in Vectors : SoftInt(c, v)

(* ------------------------------ properties ----------------------------- *)
\* A line that reaches a processor has its handler, on every processor.
IrqHandled == last[1] = "irq" => last[2] \in {"kbd_intr", "timer_handler"}

\* Once the kernel runs programs, the clock and the keyboard reach it and the
\* only gate a program can enter by itself is the one of the system calls.
BothHeard == sti[0] => /\ pic \cap {IRQ_TIMER, IRQ_KBD} = {}
                       /\ \A v \in Vectors : idt[v].dpl = 3 <=> v = T_SYSCALL

\* "Handle spurious interrupts. ... We don't care" (trap.c:139-141).
SpuriousIgnored == last[1] = "spurious" => last[2] = "ignored"

-----------------------------------------------------------------------------
(* A system call from the wrapper in lib/syscall.c to the handler and back:  *)
(* the number and the arguments in registers, the frame that the entry code  *)
(* pushes, the structure laid over it, the dispatch in kernel/syscall.c and  *)
(* the value that comes back in eax.  A value is a name for itself.          *)
CONSTANTS Values         \* bound: what arguments, registers and results may be
VARIABLES call, regs, stack, pc, got, ret, before
abiVars == <<call, regs, stack, pc, got, ret, before>>

Nil == "0"
\* The wrappers, and how many arguments each passes on.  The enumeration of
\* inc/syscall.h gives each name its number; here the name is the number.
Wrappers == [puts |-> 2, getc |-> 0, getpid |-> 0, getcid |-> 0, fork |-> 0, kill |-> 0, sleep |-> 1,
             get_num_used_page |-> 0, get_num_free_page |-> 0, get_ticks |-> 0, settextcolor |-> 2,
             cls |-> 0, open |-> 3, close |-> 1, read |-> 3, write |-> 3, lseek |-> 3,
             unlink |-> 1, ls |-> 1, rm |-> 1, touch |-> 1]
\* do_syscall (): what each handler takes of a1 to a5.
Handlers == [puts |-> <<1, 2>>, getc |-> <<>>, getpid |-> <<>>, getcid |-> <<>>, fork |-> <<>>,
             kill |-> <<>>, sleep |-> <<1>>, get_num_used_page |-> <<>>, get_num_free_page |-> <<>>,
             get_ticks |-> <<>>, settextcolor |-> <<1, 2>>, cls |-> <<>>, open |-> <<1, 2, 3>>,
             close |-> <<1>>, read |-> <<1, 2, 3>>, write |-> <<1, 2, 3>>, lseek |-> <<1, 2, 3>>,
             unlink |-> <<1>>, ls |-> <<1>>, rm |-> <<1>>, touch |-> <<1>>]
Zero == {"puts", "kill", "settextcolor", "cls"}         \* retVal = 0

Registers == {"eax", "ecx", "edx", "ebx", "esp", "ebp", "esi", "edi"}
AbiInit == /\ call = [name |-> "none", args |-> <<>>] /\ pc = "user"
           /\ regs = [r \in Registers |-> Nil] /\ before = [r \in Registers |-> Nil]
           /\ stack = <<>> /\ got = <<>> /\ ret = Nil

\* syscall (): "pass system call number in AX, up to five parameters in DX, CX,
\* BX, DI, SI"; the wrappers fill up with zero.  The other registers hold
\* whatever the program has in them.
Arg(args, i) == IF i <= Len(args) THEN args[i] ELSE Nil
Loaded(name, args, bp) ==
    [eax |-> name, edx |-> Arg(args, 1), ecx |-> Arg(args, 2), ebx |-> Arg(args, 3),
     edi |-> Arg(args, 4), esi |-> Arg(args, 5), ebp |-> bp, esp |-> Nil]
syscall(name, args, bp) ==
    /\ pc = "user" /\ pc' = "int"
    /\ call' = [name |-> name, args |-> args]
    /\ regs' = Loaded(name, args, bp) /\ before' = Loaded(name, args, bp)
    /\ got' = <<>> /\ ret' = Nil
    /\ UNCHANGED stack

\* SYS_CALL and _alltraps: pushal leaves edi at the lowest address.
pushal == <<regs.edi, regs.esi, regs.ebp, regs.esp, regs.ebx, regs.edx, regs.ecx, regs.eax>>
Alltraps == /\ pc = "int" /\ pc' = "handler" /\ stack' = pushal
            /\ regs' = [r \in Registers |-> "kernel"]
            /\ UNCHANGED <<call, got, ret, before>>

\* struct PushRegs over the frame
PushRegs(f) == [edi |-> f[1], esi |-> f[2], ebp |-> f[3], oesp |-> f[4],
                ebx |-> f[5], edx |-> f[6], ecx |-> f[7], eax |-> f[8]]
\* syscall_handler () and do_syscall (): the result goes to the frame's eax.
a(f) == LET t == PushRegs(f) IN <<t.edx, t.ecx, t.ebx, t.edi, t.esi>>
do_syscall(f) == LET t == Handlers[PushRegs(f).eax] IN [i \in DOMAIN t |-> a(f)[t[i]]]
reg_eax(f, v) == [f EXCEPT ![8] = v]
syscall_handler ==
    /\ pc = "handler" /\ pc' = "iret"
    /\ PushRegs(stack).eax # "sleep"
    /\ got' = do_syscall(stack)
    /\ \E v \in Values : /\ ret' = IF PushRegs(stack).eax \in Zero THEN Nil ELSE v
                         /\ stack' = reg_eax(stack, ret')
    /\ UNCHANGED <<call, regs, before>>
\* sched_yield () does not come back to do_syscall (): the task goes on from its
\* frame as it was pushed, with the number still in eax.
SYS_sleep ==
    /\ pc = "handler" /\ pc' = "iret"
    /\ PushRegs(stack).eax = "sleep"
    /\ got' = do_syscall(stack) /\ ret' = "sleep"
    /\ UNCHANGED <<call, regs, stack, before>>
\* sys_kill () ends every task but the one with id 0.
SYS_kill ==
    /\ pc = "handler" /\ PushRegs(stack).eax = "kill" /\ pc' = "ended"
    /\ UNCHANGED <<call, regs, stack, got, ret, before>>
Ended == pc = "ended" /\ UNCHANGED abiVars

\* env_pop_tf (): popal skips the saved esp.
popal(f) == [edi |-> f[1], esi |-> f[2], ebp |-> f[3], esp |-> Nil,
             ebx |-> f[5], edx |-> f[6], ecx |-> f[7], eax |-> f[8]]
env_pop_tf == /\ pc = "iret" /\ pc' = "user" /\ regs' = popal(stack) /\ stack' = <<>>
              /\ UNCHANGED <<call, got, ret, before>>

AbiNext == \/ \E name \in DOMAIN Wrappers : \E args \in [1..Wrappers[name] -> Values], bp \in Values :
                syscall(name, args, bp)
           \/ Alltraps \/ syscall_handler \/ SYS_sleep \/ SYS_kill \/ Ended \/ env_pop_tf

(* ------------------------------ properties ----------------------------- *)
\* The handler of a call is given the arguments the program gave to the wrapper
\* of that name, each in its place, through registers, frame and structure.
ArgumentsArrive == pc = "iret" => got = call.args

\* The program finds the handler's result in eax, which the asm statement of
\* syscall () names as its output, and its other registers as they were, which it
\* relies on: they are not in the list of what the statement changes.
OnlyEaxChanges ==
    pc = "user" /\ call.name # "none" => regs = [before EXCEPT !.eax = ret]
=============================================================================
