------------------------------- MODULE LibMini -------------------------------
(*****************************************************************************)
(* Homework 3, the small C library: signal sets and messages, and signals with *)
(* setjmp and longjmp.                                                       *)
(*****************************************************************************)
EXTENDS Integers, Sequences, FiniteSets

(* The C library of Homework/hw3: the system call wrappers with errno and    *)
(* perror (), and the signal sets.  A sigset_t is the set of its one-bits,   *)
(* numbered 1 to 64, so the 32-bit shift 1 << (signum - 1) of libmini.c can  *)
(* be given its real value.                                                  *)
CONSTANTS Members,       \* the signals that occur, below 32
          Odd         \* signal numbers from 32 on that a program passes
VARIABLES sigset, ref, odd, errno, shown, stuck
setVars == <<sigset, ref, odd, errno, shown, stuck>>
setvars == <<sigset, ref, odd>>

NSIG == 65
\* 1 << (signum - 1) with a 32-bit int and the shift count modulo 32, widened
\* to 64 bits with its sign.
Bit(signum) ==
    LET s == ((signum - 1) % 32) + 1 IN IF s = 32 THEN 32..64 ELSE {s}

Valid(signum) == 0 < signum /\ signum < NSIG
sigfillset == (1..64) \ {32, 33}
sigismember(s, signum) == s \cap Bit(signum) # {}

(* ------------------------- calls on a signal set ----------------------- *)
EINVAL == 22
Build(s, r, o) ==
    /\ sigset' = s /\ ref' = r /\ odd' = (odd \/ o)
    /\ UNCHANGED <<errno, shown>>
DoEmpty == Build({}, {}, FALSE)
DoFill == Build(sigfillset, sigfillset, FALSE)
sigaddset(n) == Valid(n) /\ Build(sigset \cup Bit(n), ref \cup {n}, n >= 32)
\* ~0 - (1 << (signum - 1)): the complement of the same bits.
sigdelset(n) == Valid(n) /\ Build(sigset \ Bit(n), ref \ {n}, n >= 32)
\* Either, or sigismember (), of a number that is no signal.
Invalid(n) == ~Valid(n) /\ errno' = EINVAL /\ UNCHANGED <<shown, setvars>>

\* The kernel's answer is any set.
sigpending ==
    /\ \E s \in SUBSET Members : sigset' = s /\ ref' = s
    /\ odd' = FALSE /\ errno' = 0 /\ UNCHANGED shown

(* -------------------------------- errno -------------------------------- *)
PERRMSG_MAX == 34
\* errno is set by a success too.
WRAPPER_RETval(ret) == errno' = IF ret < 0 THEN -ret ELSE 0
\* A system call and its result.
Wrapper(ret) == WRAPPER_RETval(ret) /\ UNCHANGED <<shown, setvars>>
\* nanosleep () calls itself and never comes to the system call.
nanosleep == stuck' = TRUE /\ UNCHANGED <<errno, shown, setvars>>
\* perror (): the write () of a prefix changes errno before its range is
\* tested, and the saved value is the index.
Message(n) == IF n \in 0..PERRMSG_MAX THEN "known" ELSE "beyond"
perror(prefix) ==
    LET tested == IF prefix THEN 0 ELSE errno
    IN /\ shown' = [prefix |-> prefix, text |-> IF tested > PERRMSG_MAX THEN "unknown" ELSE Message(errno)]
       /\ errno' = 0 /\ UNCHANGED <<setvars>>

SetInit ==
    /\ sigset = {} /\ ref = {} /\ odd = FALSE
    /\ errno = 0 /\ shown = [prefix |-> FALSE, text |-> "none"] /\ stuck = FALSE
Call ==
    \/ DoEmpty \/ DoFill \/ sigpending
    \/ \E n \in Members \cup Odd \cup {0, NSIG} : sigaddset(n) \/ sigdelset(n) \/ Invalid(n)
    \/ \E r \in {0, -4, -35} : Wrapper(r)
    \/ \E p \in BOOLEAN : perror(p)
SetNext == \/ ~stuck /\ Call /\ UNCHANGED stuck
           \/ ~stuck /\ nanosleep
SetSpec == SetInit /\ [][SetNext]_setVars

(* ------------------------------ properties ----------------------------- *)
\* The calls on a signal set do what a set does for the signals below 32, as
\* long as no signal from 32 on was added or removed.
SetsRight == ~odd => \A n \in 1..31 : sigismember(sigset, n) <=> n \in ref

\* Without a prefix perror () never reads past its table of messages.
PerrorInTable == shown.text = "beyond" => shown.prefix

-----------------------------------------------------------------------------
(* Signals and non-local jumps of the C library of Homework/hw3: signal (),  *)
(* sigaction (), sigprocmask (), restorer (), setjmp () and longjmp () of    *)
(* libmini.c and libmini64.asm.  The kernel's side, which sends and delivers *)
(* signals, is external.                                                     *)
CONSTANTS Sigs,       \* the signals that occur, below 32
          MAXSEND     \* bound: signals sent
VARIABLES mask, asked, pending, action, sent, stack,
          jumps,      \* depths of the stack at which a longjmp () is under way
          env,        \* a jmp_buf
          alive
sigVars == <<mask, asked, pending, action, sent, stack, jumps, env, alive>>
sigvars == <<mask, asked, pending, action, sent, stack, jumps>>

\* The code at the top of the stack goes on, and is not in longjmp ().
Running == Len(stack) \notin jumps
InMain == stack = <<>> /\ Running

(* ---------------------------- signal handling -------------------------- *)
\* signal () leaves sa_flags unset: any flags.  Only the two that change what
\* delivery does are told apart.
Flags == SUBSET {"NODEFER", "RESETHAND"}
sigaction(n, act) == action' = [action EXCEPT ![n] = act]
signal(n, h) ==
    /\ \E f \in Flags : sigaction(n, [handler |-> h, mask |-> {n}, flags |-> f])
    /\ InMain
    /\ pending' = IF h = "IGN" THEN pending \ {n} ELSE pending
    /\ UNCHANGED <<mask, asked, sent, stack, jumps, env>>

\* The repository's handlers do not call it, nor signal () and setjmp ().
sigprocmask(how, set) ==
    /\ mask' = CASE how = "block" -> mask \cup set
                 [] how = "unblock" -> mask \ set
                 [] how = "setmask" -> set
    /\ InMain /\ asked' = mask'
    /\ UNCHANGED <<pending, action, sent, stack, jumps, env>>
\* Kernel: another process's kill () or the alarm clock.
Send(n) ==
    /\ sent < MAXSEND /\ sent' = sent + 1
    /\ pending' = IF action[n].handler = "IGN" /\ n \notin mask THEN pending ELSE pending \cup {n}
    /\ UNCHANGED <<mask, asked, action, stack, jumps, env>>

\* Kernel: a handler starts with the action's mask added, and restorer () ends
\* it with rt_sigreturn, which puts the old mask back.
Deliver(n) ==
    /\ n \in pending \ mask /\ action[n].handler = "h"
    /\ pending' = pending \ {n}
    /\ stack' = Append(stack, [sig |-> n, old |-> mask])
    /\ mask' = mask \cup action[n].mask \cup (IF "NODEFER" \in action[n].flags THEN {} ELSE {n})
    /\ action' = IF "RESETHAND" \in action[n].flags
                 THEN [action EXCEPT ![n].handler = "DFL"] ELSE action
    /\ UNCHANGED <<asked, sent, jumps, env>>
restorer ==
    /\ stack # <<>> /\ Running
    /\ mask' = stack[Len(stack)].old /\ stack' = SubSeq(stack, 1, Len(stack) - 1)
    /\ UNCHANGED <<asked, pending, action, sent, jumps, env>>

(* -------------------------- setjmp and longjmp ------------------------- *)
setjmp ==
    /\ InMain
    /\ env' = [valid |-> TRUE, mask |-> mask, asked |-> asked] /\ UNCHANGED sigvars
\* Mutant of longjmp: the mask is not restored.
longjmp_NoMask ==
    /\ env.valid /\ Running
    /\ asked' = env.asked /\ jumps' = jumps \cup {Len(stack)}
    /\ UNCHANGED <<mask, pending, action, sent, stack, env>>

\* Called below the function that called setjmp (), or from a handler.  The
\* mask is set first, by a system call of its own, ...
longjmp ==
    /\ env.valid /\ Running
    /\ mask' = env.mask /\ asked' = env.asked /\ jumps' = jumps \cup {Len(stack)}
    /\ UNCHANGED <<pending, action, sent, stack, env>>
\* ... and only then the stack pointer and the registers: a signal in between
\* is handled on the stack that is about to be left.
longjmp2 ==
    /\ ~Running /\ stack' = <<>> /\ jumps' = {}
    /\ UNCHANGED <<mask, asked, pending, action, sent, env>>
\* The function that called setjmp () returns: the buffer may not be used.
Return ==
    /\ InMain /\ env.valid /\ env' = [env EXCEPT !.valid = FALSE] /\ UNCHANGED sigvars

SigInit ==
    /\ mask = {} /\ asked = {} /\ pending = {}
    /\ action = [n \in Sigs |-> [handler |-> "DFL", mask |-> {}, flags |-> {}]]
    /\ sent = 0 /\ stack = <<>> /\ jumps = {} /\ alive = TRUE
    /\ env = [valid |-> FALSE, mask |-> {}, asked |-> {}]
Step ==
    \/ restorer \/ setjmp \/ Return \/ longjmp \/ longjmp2
    \/ \E n \in Sigs : Send(n) \/ Deliver(n) \/ \E h \in {"h", "IGN"} : signal(n, h)
    \/ \E how \in {"block", "unblock", "setmask"}, s \in SUBSET Sigs : sigprocmask(how, s)
\* Kernel: the default of a signal ends the process.
Die == /\ \E n \in pending \ mask : action[n].handler = "DFL"
       /\ alive' = FALSE /\ UNCHANGED <<sigvars, env>>
SigNext == \/ alive /\ Step /\ UNCHANGED alive
           \/ alive /\ Die
           \/ ~alive /\ UNCHANGED sigVars
SigSpec == SigInit /\ [][SigNext]_sigVars

(* ------------------------------ properties ----------------------------- *)
\* A handler installed with signal () is not entered again for its own signal
\* while it runs, whatever sa_flags signal () left unset.  Only a handler that
\* is being left by longjmp (), and will never go on, may find a second one of
\* its signal above it.
NotReentered ==
    \A i, j \in DOMAIN stack : i < j /\ stack[i].sig = stack[j].sig => jumps \cap i..(j - 1) # {}

\* Outside any handler the blocked signals are the ones the program asked
\* for, also when a handler was left with longjmp (), and whatever handlers
\* ran while it was: they are the ones blocked when setjmp () was called.
MaskKept == stack = <<>> => mask = asked
=============================================================================
