------------------------------- MODULE SdbView -------------------------------
(*****************************************************************************)
(* The listings of the debugger of homework 4, and its ELF reader.           *)
(*****************************************************************************)
EXTENDS Integers, Sequences, FiniteSets

(* What the debugger of Homework/hw4 shows: the command line it reads, the   *)
(* cursors that disasm and dump keep between calls, and the registers and    *)
(* maps it prints.  An address of the file is a number, an address of the    *)
(* child's memory the number of an 8-byte word, a register a name.           *)
CONSTANTS Sizes,      \* the sizes of the instructions of .text, in order
          ELFTEXT,    \* where .text starts in the file
          Mem,        \* the words of the child that PEEKTEXT can read
          FileArgs, MemArgs,   \* bound: the addresses that are typed
          MAXLIST, MAXDUMP     \* 10 instructions, 10 words
VARIABLES stat, disasm_addr, dump_addr, cmdstr, arg1, eof, listed, from, dumped
viewVars == <<stat, disasm_addr, dump_addr, cmdstr, arg1, eof, listed, from, dumped>>

None == 0 - 1    \* no argument
Words == {"d", "disasm", "x", "dump", "g", "get", "getregs", "m", "vmmap", "h", "help",
          "l", "list", "start", "q", "exit", "", "?"}
ReadCommand(word) ==
    CASE word = "" -> "NOP"
      [] word \in {"d", "disasm"} -> "DISASM"
      [] word \in {"x", "dump"} -> "DUMP"
      [] word \in {"g", "get", "getregs"} -> "GET"
      [] word \in {"m", "vmmap"} -> "VMMAP"
      [] word \in {"h", "help"} -> "HELP"
      [] word \in {"l", "list"} -> "LIST"
      [] word = "start" -> "START"
      [] word \in {"q", "exit"} -> "EXIT"
      [] word = "?" -> "unknown"

ViewInit == /\ stat \in {"unloaded", "intermediate"}
            /\ disasm_addr = 0 /\ dump_addr = 0
            /\ cmdstr = "" /\ arg1 = None /\ eof = FALSE
            /\ listed = <<>> /\ from = None /\ dumped = <<>>

\* fgets () and strtok_r (): the first word ends where the first blank was,
\* so at the end of the input the buffer still holds the last word alone.
fgets(word, arg) ==
    IF eof THEN word = cmdstr /\ arg = None ELSE TRUE

rip(i) == ELFTEXT + (LET before[j \in 1..i] == IF j = 1 THEN 0 ELSE before[j - 1] + Sizes[j - 1]
                     IN before[i])
lower_bound(addr) == {i \in DOMAIN Sizes : addr >= rip(i) /\ addr < rip(i) + Sizes[i]}

\* ListInstructions (): the instructions shown, and what they add up to.
Shown(addr) ==
    LET lb == CHOOSE i \in lower_bound(addr) : TRUE
    IN {i \in DOMAIN Sizes : i >= lb /\ i < lb + MAXLIST}
ListInstructions(addr) ==
    IF lower_bound(addr) = {} THEN 0
    ELSE LET s == Shown(addr)
             last == CHOOSE i \in s : \A j \in s : j <= i
             first == CHOOSE i \in s : \A j \in s : i <= j
         IN rip(last) + Sizes[last] - rip(first)

Lines(addr) ==
    IF lower_bound(addr) = {} THEN <<>>
    ELSE LET f == CHOOSE i \in lower_bound(addr) : TRUE
         IN [k \in 1..Cardinality(Shown(addr)) |-> f + k - 1]

NoCursor(arg, cursor) == arg = None /\ cursor = 0
Disasm(arg) ==
    LET addr == IF arg = None THEN disasm_addr ELSE arg
    IN /\ IF NoCursor(arg, disasm_addr) THEN UNCHANGED <<disasm_addr, listed, from>>
          ELSE IF stat = "unloaded"
          THEN disasm_addr' = addr /\ UNCHANGED <<listed, from>>
          ELSE /\ disasm_addr' = addr + ListInstructions(addr)
               /\ listed' = IF arg = None THEN listed \o Lines(addr) ELSE Lines(addr)
               /\ from' = IF arg = None THEN from ELSE arg
       /\ UNCHANGED <<stat, dump_addr, dumped>>

\* Dump (): the words that could be read, up to the first that could not.
count(addr) == CHOOSE n \in 0..MAXDUMP :
                  /\ \A k \in 0..(n - 1) : addr + k \in Mem
                  /\ n = MAXDUMP \/ addr + n \notin Mem
Dump(arg) ==
    LET addr == IF arg = None THEN dump_addr ELSE arg
    IN /\ IF NoCursor(arg, dump_addr) THEN UNCHANGED <<dump_addr, dumped>>
          ELSE IF stat # "running" THEN dump_addr' = addr /\ UNCHANGED dumped
          ELSE /\ dump_addr' = addr + count(addr)
               /\ dumped' = (IF arg = None THEN dumped ELSE <<>>) \o [k \in 1..count(addr) |-> addr + k - 1]
       /\ UNCHANGED <<stat, disasm_addr, listed, from>>

Start(arg) == /\ stat' = IF stat = "intermediate" THEN "running" ELSE stat
              /\ UNCHANGED <<disasm_addr, dump_addr, listed, from, dumped>>
Exit(arg) == stat' = "quit" /\ UNCHANGED <<disasm_addr, dump_addr, listed, from, dumped>>
\* Get (), GetRegs (), Vmmap (), Help () and List () print and change nothing.
Print_(arg) == UNCHANGED <<stat, disasm_addr, dump_addr, listed, from, dumped>>

Command(word, arg) ==
    /\ stat # "quit" /\ fgets(word, arg)
    /\ cmdstr' = word /\ arg1' = arg
    /\ eof' \in {eof, TRUE}
    /\ CASE ReadCommand(word) = "DISASM" -> arg \in FileArgs \cup {None} /\ Disasm(arg)
         [] ReadCommand(word) = "DUMP" -> arg \in MemArgs \cup {None} /\ Dump(arg)
         [] ReadCommand(word) = "START" -> arg = None /\ Start(arg)
         [] ReadCommand(word) = "EXIT" -> arg = None /\ Exit(arg)
         [] OTHER -> arg = None /\ Print_(arg)
Quit == stat = "quit" /\ UNCHANGED viewVars

Loop == \E word \in Words, arg \in FileArgs \cup MemArgs \cup {None} : Command(word, arg)
ViewNext == \/ Quit
            \/ Loop

(* ------------------------------ properties ----------------------------- *)
Runs(s) == \A k \in 1..(Len(s) - 1) : s[k + 1] = s[k] + 1

\* disasm without an address goes on where the last one stopped: since an
\* address was typed that starts an instruction, every instruction from there
\* on was listed once and in order.
DisasmGoesOn == (\E i \in DOMAIN Sizes : rip(i) = from) => Runs(listed)

\* dump without an address goes on behind the last word shown, also when it
\* had to stop at memory it could not read: no word is skipped.
DumpGoesOn ==
    [][dumped' # dumped /\ arg1' = None /\ dumped # <<>> =>
          dumped'[Len(dumped) + 1] = dumped[Len(dumped)] + 1]_viewVars

-----------------------------------------------------------------------------
(* ReadElf () of Homework/hw4/sdb.c over elftool.c: the file is opened, the  *)
(* program headers, section headers, string tables and the two symbol tables *)
(* are loaded, .text is looked up, and all of it is given back.  What is     *)
(* recorded is what is held: descriptors and allocations.  libelf's          *)
(* iteration starts at section 1, so entry 0 of the header array keeps the   *)
(* bytes malloc () returned: its type is any value.                          *)
CONSTANTS Files      \* [phnum, shstrndx, sections: sequence of [type, link, text]]
VARIABLES file, pc, shdr0, section, held, tabs, sym, text, result, lost, freed
elfVars == <<file, pc, shdr0, section, held, tabs, sym, text, result, lost, freed>>

shnum == Len(file.sections) + 1
Type(n) == IF n = 0 THEN shdr0 ELSE file.sections[n].type
Tables == {"symtab", "dynsym"}

ElfInit ==
    /\ file \in Files /\ pc = "open" /\ shdr0 = "null" /\ section = 0 /\ held = {}
    /\ tabs = {} /\ sym = {} /\ text = 0 /\ result = "none"
    /\ lost = FALSE /\ freed = {}

\* An object is a pair.
Obj(x) == <<x, x>>
Handle == {Obj("fd"), Obj("elf"), Obj("e")}
Headers == {Obj("phdr"), Obj("shdr")}
Keep(s) == held' = held \cup s /\ UNCHANGED freed
Free(s) == held' = held \ s /\ freed' = freed \cup (s \ held)

\* open (), elf_begin (), elf_getident () and malloc () in turn: a failure
\* gives back what the earlier ones took.
Opens == {{}, {Obj("fd")}, {Obj("fd"), Obj("elf")}}
elf_open ==
    /\ pc = "open"
    /\ \/ /\ Keep(Handle) /\ pc' = "phdr" /\ UNCHANGED result
       \/ \E s \in Opens : /\ held' = (held \cup s) \ Handle
                           /\ pc' = "done" /\ result' = "no" /\ UNCHANGED freed
    /\ UNCHANGED <<file, shdr0, section, tabs, sym, text, lost>>

elf_load_phdr ==
    /\ pc = "phdr"
    /\ \/ file.phnum > 0 /\ Keep({Obj("phdr")}) /\ pc' = "shdr"
       \/ pc' = "undo" /\ UNCHANGED <<held, freed>>
    /\ UNCHANGED <<file, shdr0, section, tabs, sym, text, result, lost>>

elf_load_shdr ==
    /\ pc = "shdr"
    /\ \/ Keep({Obj("shdr")}) /\ pc' = "strtab" /\ shdr0' \in {"null", "strtab"} \cup Tables
       \/ pc' = "undo" /\ UNCHANGED <<held, freed, shdr0>>
    /\ section' = 0
    /\ UNCHANGED <<file, tabs, sym, text, result, lost>>

No(n) == <<"s0", "s1", "s2", "s3", "s4", "s5">>[n + 1]
Tab(n) == {<<No(n), "tab">>, <<No(n), "data">>}
elf_free_strtab(ts) == UNION {Tab(n) : n \in ts}

\* One turn of the loop; the entry being read when it fails is not yet in the
\* list, so elf_free_strtab () does not reach it.
StrtabFails ==
    \E part \in {{}, {<<No(section), "tab">>}, Tab(section)} :
        /\ held' = (held \cup part) \ elf_free_strtab(tabs)
        /\ tabs' = {} /\ pc' = "undo" /\ lost' = (lost \/ part # {})
        /\ UNCHANGED <<section, freed>>
StrtabOne ==
    /\ section < shnum
    /\ \/ Type(section) # "strtab" /\ section' = section + 1 /\ UNCHANGED <<held, freed, tabs, pc, lost>>
       \/ /\ Type(section) = "strtab"
          /\ Keep(Tab(section)) /\ tabs' = tabs \cup {section} /\ section' = section + 1
          /\ UNCHANGED <<pc, lost>>
       \/ Type(section) = "strtab" /\ StrtabFails
StrtabEnd ==
    /\ section = shnum
    /\ pc' = IF tabs = {} THEN "undo" ELSE "symtab"
    /\ UNCHANGED <<section, held, freed, tabs, lost>>
elf_load_strtab ==
    /\ pc = "strtab" /\ (StrtabOne \/ StrtabEnd)
    /\ UNCHANGED <<file, shdr0, sym, text, result>>

\* elf_load_symtab_internal (): the strtab field of the new table is not set
\* before the search, so a table that is not found may look found.
Symbols(t) == {<<t, "table">>, <<t, "symbol">>}
Linked(n) == (IF n = 0 THEN 0 ELSE file.sections[n].link) \in tabs
internal(t, n) ==
    \/ /\ Keep(Symbols(t)) /\ sym' = sym \cup {[table |-> t, linked |-> Linked(n)]}
       /\ UNCHANGED lost
    \/ UNCHANGED <<held, freed, sym, lost>>            \* malloc or search failed
    \/ /\ Keep({<<t, "symbol">>})                      \* the read failed
       /\ lost' = TRUE /\ UNCHANGED sym
First(t) == {n \in 0..(shnum - 1) : Type(n) = t /\ \A m \in 0..(n - 1) : Type(m) # t}
LoadTable(t, here, after) ==
    /\ pc = here /\ pc' = after
    /\ \/ First(t) = {} /\ UNCHANGED <<held, freed, sym, lost>>
       \/ \E n \in First(t) : internal(t, n)
    /\ UNCHANGED <<file, shdr0, section, tabs, text, result>>
elf_load_symtab == LoadTable("symtab", "symtab", "dynsym")
elf_load_dsymtab == LoadTable("dynsym", "dynsym", "find")

\* elf_load_all ()'s err_quit, then elf_close () in ReadElf ().
elf_load_all_undo ==
    /\ pc = "undo" /\ pc' = "close" /\ result' = "no"
    /\ Free(held \cap (Headers \cup elf_free_strtab(tabs)))
    /\ tabs' = {}
    /\ UNCHANGED <<file, shdr0, section, sym, text, lost>>

\* ReadElf (): the section header string table, then .text from section 1 on.
ReadElf ==
    /\ pc = "find" /\ pc' = "close"
    /\ IF file.shstrndx \notin tabs THEN result' = "no" /\ UNCHANGED text
       ELSE /\ result' = "ok"
            /\ LET t == {n \in 1..(shnum - 1) : file.sections[n].text}
               IN text' = IF t = {} THEN text ELSE CHOOSE n \in t : \A m \in t : n <= m
    /\ UNCHANGED <<file, shdr0, section, held, tabs, sym, lost, freed>>

elf_close ==
    /\ pc = "close" /\ pc' = "done"
    /\ Free((held \cap Headers) \cup Handle
            \cup UNION {Symbols(s.table) : s \in sym} \cup elf_free_strtab(tabs))
    /\ tabs' = {} /\ sym' = {}
    /\ UNCHANGED <<file, shdr0, section, text, result, lost>>

Done == pc = "done" /\ UNCHANGED elfVars
ElfNext == \/ elf_open \/ elf_load_phdr \/ elf_load_shdr \/ elf_load_strtab
           \/ elf_load_symtab \/ elf_load_dsymtab \/ elf_load_all_undo
           \/ ReadElf \/ elf_close \/ Done
ElfSpec == ElfInit /\ [][ElfNext]_elfVars

(* ------------------------------ properties ----------------------------- *)
\* When ReadElf () returns nothing is held, unless a string or symbol table
\* could not be read; and nothing is ever given back twice.
AllGivenBack == /\ pc = "done" => held = {} \/ lost
                /\ freed = {}
=============================================================================
