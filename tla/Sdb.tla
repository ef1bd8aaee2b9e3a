-------------------------------- MODULE Sdb --------------------------------
(* The debugger of Homework/hw4: the commands of sdb.c on a traced child,    *)
(* from load to exit.  An address is a number; the child's text is a         *)
(* sequence of instructions with sizes and successors, and of its bytes only *)
(* the ones that hold the breakpoint code 0xcc are recorded.  Three kinds of *)
(* images occur: linked at a fixed address, position independent, and linked *)
(* at a fixed address with an entry point that is not the start of .text.    *)
EXTENDS Integers, Sequences, FiniteSets

CONSTANTS Images,     \* records: vmtext, elftext, elfentry, elftextoff, start
          Ins,        \* offset in .text -> [size, next: offsets or END]
          END,        \* a successor: the child exits
          MAXID       \* bound: breakpoints ever set
VARIABLES img, stat, bps, bp_id, cc, rip, child, mode, hit, hrip,
          trapped, slipped, wild
vars == <<img, stat, bps, bp_id, cc, rip, child, mode, hit, hrip,
          trapped, slipped, wild>>

TextSize == CHOOSE n \in 1..20 : \E i \in DOMAIN Ins :
                /\ n = i + Ins[i].size /\ \A j \in DOMAIN Ins : j <= i

VMToELF(addr, elfentry) ==
    IF elfentry - img.elftextoff = img.vmtext THEN addr ELSE addr - img.vmtext
ELFToVM(addr, elfentry) ==
    IF elfentry - img.elftextoff = img.vmtext THEN addr ELSE addr + img.vmtext

\* Where the kernel put .text: what the translations are to compute.
Base == img.vmtext + img.elftextoff
Mapped(a) == a \in Base..(Base + TextSize - 1)
Starts == {Base + i : i \in DOMAIN Ins}

Loaded == stat # "unloaded"
Running == stat = "running"
Listed == {bps[i] : i \in DOMAIN bps}
Armed == {ELFToVM(b.addr, img.elftext) : b \in Listed}

\* execv under PTRACE_TRACEME: a new process stopped at its first instruction.
Fresh == rip' = img.start /\ cc' = {} /\ child' = "stopped" /\ trapped' = FALSE

Init ==
    /\ img \in Images /\ stat = "unloaded" /\ bps = <<>> /\ bp_id = 0
    /\ cc = {} /\ rip = 0 /\ child = "none" /\ mode = "prompt"
    /\ hit = FALSE /\ hrip = 0 /\ trapped = FALSE
    /\ slipped = FALSE /\ wild = FALSE

Load ==
    /\ mode = "prompt" /\ ~Loaded
    /\ stat' = "intermediate" /\ Fresh
    /\ UNCHANGED <<img, bps, bp_id, mode, hit, hrip, slipped, wild>>

\* PTRACE_O_EXITKILL: the child goes with the debugger.
ErrQuit == mode' = "quit" /\ child' = "none"

BreakPointExist(id, addr) == \E b \in Listed : b.id = id \/ b.addr = addr

Byte(vm) == IF vm \in cc THEN "cc" ELSE "orig"
Break(addr) ==
    LET elf == IF Running THEN VMToELF(addr, img.elftext) ELSE addr
        vm == IF Running THEN addr ELSE ELFToVM(addr, img.elftext)
    IN /\ mode = "prompt" /\ Loaded /\ bp_id < MAXID
       /\ elf - img.elftext \in DOMAIN Ins
       /\ Mapped(vm)
       /\ ~BreakPointExist(bp_id, elf)
       /\ bps' = Append(bps, [id |-> bp_id, addr |-> elf, orig_code |-> Byte(vm)])
       /\ bp_id' = bp_id + 1
       /\ cc' = IF Running THEN cc \cup {vm} ELSE cc
       /\ UNCHANGED <<img, stat, rip, child, mode, hit, hrip, trapped, slipped, wild>>

\* PatchCode (): the byte at an address of the child's memory.
PatchCode(a, value) ==
    IF Mapped(a) /\ child = "stopped"
    THEN /\ cc' = IF value = "cc" THEN cc \cup {a} ELSE cc \ {a}
         /\ UNCHANGED <<mode, child>>
    ELSE ErrQuit /\ UNCHANGED cc

Unlisted(i) == [j \in 1..(Len(bps) - 1) |-> IF j < i THEN bps[j] ELSE bps[j + 1]]
\* The address kept with a breakpoint goes to PatchCode () untranslated.
Delete(i) ==
    /\ mode = "prompt" /\ i \in DOMAIN bps
    /\ bps' = Unlisted(i)
    /\ IF Running THEN PatchCode(bps[i].addr, bps[i].orig_code)
       ELSE UNCHANGED <<cc, mode, child>>
    /\ slipped' = (slipped \/ (trapped /\ ELFToVM(bps[i].addr, img.elftext) = rip - 1))
    /\ UNCHANGED <<img, stat, bp_id, rip, hit, hrip, trapped, wild>>

CheckIfHit(at) == \E b \in Listed : b.addr = VMToELF(at - 1, img.elftext)

\* Mutant of RestoreRIPAndCode: rip is not set back.
RestoreRIPAndCode_CodeOnly ==
    rip' = rip /\ hrip' = rip - 1 /\ cc' = cc \ {rip - 1}

\* RestoreRIPAndCode (): looks for the breakpoint with elfentry, where
\* CheckIfHit () used elftext.
RestoreRIPAndCode ==
    LET own == {b \in Listed : b.addr = VMToELF(rip - 1, img.elfentry)}
    IN /\ rip' = rip - 1 /\ hrip' = rip - 1
       /\ cc' = IF \E b \in own : b.orig_code # "cc" THEN cc \ {rip - 1} ELSE cc

Resume(how) ==
    /\ hit' = CheckIfHit(rip)
    /\ IF CheckIfHit(rip) THEN RestoreRIPAndCode ELSE UNCHANGED <<rip, hrip, cc>>
    /\ mode' = "wait" /\ child' = how
    /\ trapped' = FALSE
    /\ UNCHANGED <<img, stat, bps, bp_id, slipped, wild>>
Cont == mode = "prompt" /\ Running /\ Resume("run")
Si == mode = "prompt" /\ Running /\ Resume("step")

SetBreakPoints == cc' = cc \cup Armed
Run ==
    /\ mode = "prompt" /\ stat = "intermediate"
    /\ stat' = "running" /\ SetBreakPoints
    /\ mode' = "wait" /\ child' = "run" /\ hit' = FALSE
    /\ trapped' = FALSE
    /\ UNCHANGED <<img, bps, bp_id, rip, hrip, slipped, wild>>
Start ==
    /\ mode = "prompt" /\ stat = "intermediate"
    /\ stat' = "running" /\ SetBreakPoints
    /\ UNCHANGED <<img, bps, bp_id, rip, child, mode, hit, hrip, trapped, slipped, wild>>

\* set rip: the one register the commands depend on.
Set(a) ==
    /\ mode = "prompt" /\ Running /\ a # rip
    /\ rip' = a /\ trapped' = FALSE
    /\ UNCHANGED <<img, stat, bps, bp_id, cc, child, mode, hit, hrip, slipped, wild>>

Exit ==
    /\ mode = "prompt"
    /\ mode' = "quit" /\ child' = "none"
    /\ UNCHANGED <<img, stat, bps, bp_id, cc, rip, hit, hrip, trapped, slipped, wild>>

(* ------------------------- the child (external) ------------------------ *)
AfterOne == child' = IF child = "step" THEN "stopped" ELSE "run"
Trap ==
    /\ rip \in cc
    /\ rip' = rip + 1 /\ child' = "stopped" /\ trapped' = TRUE
    /\ UNCHANGED wild
Execute ==
    /\ rip \notin cc /\ rip \in Starts \cup {img.start}
    /\ \E n \in IF rip \in Starts THEN Ins[rip - Base].next ELSE {0} :
          IF n = END THEN child' = "exited" /\ UNCHANGED rip
          ELSE rip' = Base + n /\ AfterOne
    /\ UNCHANGED <<trapped, wild>>
\* Bytes from the middle of an instruction: a fault, or a jump to anywhere.
Stray ==
    /\ rip \notin cc \cup Starts \cup {img.start}
    /\ wild' = TRUE /\ UNCHANGED trapped
    /\ \/ child' = "stopped" /\ UNCHANGED rip
       \/ rip' \in Starts /\ AfterOne
Killed == child' = "killed" /\ UNCHANGED <<rip, trapped, wild>>
ChildStep ==
    /\ child \in {"run", "step"}
    /\ (Trap \/ Execute \/ Stray \/ Killed)
    /\ UNCHANGED <<img, stat, bps, bp_id, cc, mode, hit, hrip, slipped>>

\* waitpid () returns, the rest of Cont (), Si () and Run ().
Reload ==
    /\ child = "exited" /\ stat' = "intermediate" /\ mode' = "prompt" /\ Fresh
    /\ hit' = FALSE /\ UNCHANGED <<hrip>>
Lost ==
    /\ child = "killed" /\ ErrQuit
    /\ UNCHANGED <<stat, cc, rip, trapped, hit, hrip>>
Stopped ==
    /\ child = "stopped" /\ mode' = "prompt" /\ hit' = FALSE /\ hrip' = 0
    /\ cc' = IF hit THEN cc \cup {hrip} ELSE cc
    /\ UNCHANGED <<stat, rip, child, trapped>>
Waited ==
    /\ mode = "wait" /\ (Reload \/ Lost \/ Stopped)
    /\ UNCHANGED <<img, bps, bp_id, slipped, wild>>

Quit == mode = "quit" /\ UNCHANGED vars
Next == \/ Load \/ Cont \/ Si \/ Run \/ Start \/ Exit
        \/ \E a \in {img.elftext + i : i \in 0..TextSize} \cup Starts : Break(a)
        \/ \E i \in 1..MAXID : Delete(i)
        \/ \E a \in Starts : Set(a)
        \/ ChildStep \/ Waited \/ Quit
Spec == Init /\ [][Next]_vars

(* ------------------------------ properties ----------------------------- *)
\* At the prompt the child's memory holds 0xcc exactly where a listed
\* breakpoint stands, and nowhere before the program is run.
TrapsMatch ==
    mode = "prompt" => cc = IF Running THEN Armed ELSE {}

\* The byte kept with a breakpoint is the program's own, never another
\* breakpoint's 0xcc: deleting it gives the instruction back.
OrigKept == \A b \in Listed : b.orig_code # "cc"

\* While the child runs, the only listed breakpoint that may be missing from
\* its memory is the one it was stopped at.
OthersArmed ==
    mode = "wait" => /\ cc \subseteq Armed
                     /\ Armed \ (IF hit THEN {hrip} ELSE {}) \subseteq cc

\* The child never executes from the middle of an instruction, unless the
\* breakpoint it stood at was deleted under it.
NeverStrays == wild => slipped

\* cont and si move rip back only after a trap, except behind a one-byte
\* instruction that carries a breakpoint, where the two cannot be told apart, or
\* once a breakpoint was deleted under it.
RewoundRight ==
    [][mode = "prompt" /\ mode' = "wait" /\ rip' = rip - 1 =>
        trapped \/ slipped \/ rip \in Starts]_vars
=============================================================================
