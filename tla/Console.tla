------------------------------- MODULE Console -------------------------------
(*****************************************************************************)
(* What the user types and sees: the input buffer, the keyboard, the screen, *)
(* and the line editor of the shell.                                         *)
(*****************************************************************************)
EXTENDS Integers, Sequences

(***************************************************************************)
(* Keyboard input of nctuOS (kernel/kbd.c): the interrupt handler kbd_intr *)
(* puts characters into the circular buffer cons, the system call getc     *)
(* takes them out.                                                         *)
(*                                                                         *)
(* Keyboard interrupts go to the boot CPU only (kernel/lapic.c).  Handlers *)
(* and system calls run with interrupts off, so on the boot CPU they do    *)
(* not interleave; a getc on another CPU does, because the buffer has no   *)
(* lock: it may run between an increment of rpos or wpos and the           *)
(* assignment that wraps it.                                               *)
(*                                                                         *)
(* Scancodes are abstracted to what kbd_proc_data makes of them: a         *)
(* character, or Nothing for a release or a modifier key.                  *)
(***************************************************************************)
CONSTANTS
    CPU,
    boot,           \* the boot CPU
    TypedChar,
    Nothing,        \* the result 0 of kbd_proc_data and of cons_getc
    CONSBUFSIZE,
    PORT            \* bound: bytes that the keyboard controller holds

VARIABLES
    port,      \* the keyboard controller
    buf, rpos, wpos,
    writer,    \* where the interrupt handler is
    reader,    \* where each CPU's cons_getc is
    unread,    \* the characters stored, not returned and not overrun, oldest first
    wrong      \* a getc has returned something other than the oldest of them

consVars == <<port, buf, rpos, wpos, writer, reader, unread, wrong>>

ConsInit ==
    /\ port = <<>>
    /\ buf = [i \in 0 .. CONSBUFSIZE - 1 |-> Nothing]
    /\ rpos = 0 /\ wpos = 0
    /\ writer = "idle"
    /\ reader = [c \in CPU |-> "user"]
    /\ unread = <<>>
    /\ wrong = FALSE

-----------------------------------------------------------------------------
Key(k) ==
    /\ Len(port) < PORT
    /\ port' = Append(port, k)
    /\ UNCHANGED <<buf, rpos, wpos, writer, reader, unread, wrong>>

kbd_intr ==
    /\ writer = "idle" /\ reader[boot] = "user"
    /\ port # <<>>
    /\ writer' = "proc"
    /\ UNCHANGED <<port, buf, rpos, wpos, reader, unread, wrong>>

\* The loop of cons_intr: until the port is empty or a character is stored.
ProcNothing ==
    /\ writer = "proc"
    /\ \/ port = <<>> /\ writer' = "idle" /\ UNCHANGED port
       \/ port # <<>> /\ Head(port) = Nothing /\ port' = Tail(port) /\ UNCHANGED writer
    /\ UNCHANGED <<buf, rpos, wpos, reader, unread, wrong>>

\* There is no test for a full buffer: with CONSBUFSIZE characters unread wpos is
\* rpos again, the buffer looks empty, and they are lost.
Overrun(u) == IF Len(u) = CONSBUFSIZE THEN <<>> ELSE u
ProcChar ==
    /\ writer = "proc"
    /\ port # <<>> /\ Head(port) # Nothing
    /\ port' = Tail(port)
    /\ buf' = [buf EXCEPT ![wpos] = Head(port)]
    /\ wpos' = wpos + 1
    /\ unread' = Overrun(Append(unread, Head(port)))
    /\ writer' = "wrap"
    /\ UNCHANGED <<rpos, reader, wrong>>

WriterWrap ==
    /\ writer = "wrap"
    /\ wpos' = IF wpos = CONSBUFSIZE THEN 0 ELSE wpos
    /\ writer' = "idle"
    /\ UNCHANGED <<port, buf, rpos, reader, unread, wrong>>

-----------------------------------------------------------------------------
\* cons_getc, its test of rpos against wpos.
GetcTest(c) ==
    /\ reader[c] = "user"
    /\ c = boot => writer = "idle"
    /\ IF rpos = wpos
       THEN wrong' = (wrong \/ unread # <<>>) /\ UNCHANGED reader
       ELSE reader' = [reader EXCEPT ![c] = "take"] /\ UNCHANGED wrong
    /\ UNCHANGED <<port, buf, rpos, wpos, writer, unread>>

\* Its read and increment.
GetcTake(c) ==
    /\ reader[c] = "take"
    /\ wrong' = (wrong \/ unread = <<>> \/ rpos >= CONSBUFSIZE \/ buf[rpos] # Head(unread))
    /\ unread' = IF unread = <<>> THEN unread ELSE Tail(unread)
    /\ rpos' = rpos + 1
    /\ reader' = [reader EXCEPT ![c] = "wrap"]
    /\ UNCHANGED <<port, buf, wpos, writer>>

GetcWrap(c) ==
    /\ reader[c] = "wrap"
    /\ rpos' = IF rpos = CONSBUFSIZE THEN 0 ELSE rpos
    /\ reader' = [reader EXCEPT ![c] = "user"]
    /\ UNCHANGED <<port, buf, wpos, writer, unread, wrong>>

\* The model ends at the first wrong result.
ConsNext ==
    /\ ~wrong
    /\ \/ \E k \in TypedChar \cup {Nothing} : Key(k)
       \/ kbd_intr \/ ProcNothing \/ ProcChar \/ WriterWrap
       \/ \E c \in CPU : GetcTest(c) \/ GetcTake(c) \/ GetcWrap(c)

ConsSpec == ConsInit /\ [][ConsNext]_consVars

-----------------------------------------------------------------------------
\* rpos and wpos stay in the buffer; wpos is CONSBUFSIZE only inside cons_intr.
ConsTypeOK ==
    /\ port \in Seq(TypedChar \cup {Nothing}) /\ Len(port) <= PORT
    /\ buf \in [0 .. CONSBUFSIZE - 1 -> TypedChar \cup {Nothing}]
    /\ rpos \in 0 .. CONSBUFSIZE
    /\ wpos \in 0 .. CONSBUFSIZE
    /\ writer = "idle" => wpos < CONSBUFSIZE
    /\ writer \in {"idle", "proc", "wrap"}
    /\ reader \in [CPU -> {"user", "take", "wrap"}]
    /\ unread \in Seq(TypedChar)
    /\ wrong \in BOOLEAN

\* "return the next input character from the console, or 0 if none waiting"
\* (cons_getc): characters come out in the order typed, none lost and none twice,
\* but for an overrun, which loses exactly the CONSBUFSIZE that were waiting.
NextCharacter == ~wrong

-----------------------------------------------------------------------------
(***************************************************************************)
(* Scancodes (kernel/kbd.c): what kbd_proc_data () makes of the bytes of   *)
(* the keyboard, one key at a time pressed or released.  The bytes of a    *)
(* two-byte code may arrive apart; a second inb () then reads the first    *)
(* one again.                                                              *)
(***************************************************************************)
CONSTANTS Keys,        \* [code, e0]: the keys of this keyboard
          MAXKEYS      \* bound: presses and releases

VARIABLES held,        \* keys that are down
          wire,        \* bytes the keyboard has yet to send
          kbport,      \* bytes in the controller
          shift,       \* CTL, SHIFT and ALT bits, and CAPSLOCK
          kbchar,      \* the last character returned
          missed,      \* modifiers whose release the handler did not take in
          strokes

kbdVars == <<held, wire, kbport, shift, kbchar, missed, strokes>>

shiftcode(d) == CASE d \in {29, 157} -> {"ctl"} [] d \in {42, 54} -> {"shift"}
                  [] d \in {56, 184} -> {"alt"} [] OTHER -> {}
togglecode(d) == CASE d = 58 -> {"caps"} [] d = 69 -> {"num"} [] d = 70 -> {"scroll"} [] OTHER -> {}

\* charcode[]: the keys the properties tell apart, a letter (30), the keypad's
\* 8 (72) and the arrow above it (200).
normalmap(d) == CASE d = 30 -> "a" [] d = 72 -> "8" [] d = 200 -> "up" [] OTHER -> "none"
shiftmap(d)  == CASE d = 30 -> "A" [] d = 72 -> "8" [] d = 200 -> "up" [] OTHER -> "none"
ctlmap(d)    == CASE d = 30 -> "C-a" [] d = 200 -> "up" [] OTHER -> "none"
Caps(c, s) == IF "caps" \notin s THEN c ELSE CASE c = "a" -> "A" [] c = "A" -> "a" [] OTHER -> c
Char(d, s) == Caps(IF "ctl" \in s THEN ctlmap(d)
                   ELSE IF "shift" \in s THEN shiftmap(d) ELSE normalmap(d), s)

KbdInit ==
    /\ held = {} /\ wire = <<>> /\ kbport = <<>>
    /\ shift = {} /\ kbchar = "none" /\ missed = {} /\ strokes = 0

Bytes(k, up) == (IF k.e0 THEN <<224>> ELSE <<>>) \o <<IF up THEN k.code + 128 ELSE k.code>>

Stroke(k) ==
    /\ wire = <<>> /\ strokes < MAXKEYS /\ strokes' = strokes + 1
    /\ held' = IF k \in held THEN held \ {k} ELSE held \cup {k}
    /\ wire' = Bytes(k, k \in held)
    /\ UNCHANGED <<kbport, shift, kbchar, missed>>

Arrive ==
    /\ wire # <<>>
    /\ kbport' = Append(kbport, Head(wire)) /\ wire' = Tail(wire)
    /\ UNCHANGED <<held, shift, kbchar, missed, strokes>>

Pressed(d) ==
    LET s == (shift \cup shiftcode(d)) IN
    /\ shift' = (s \ togglecode(d)) \cup (togglecode(d) \ s)
    /\ kbchar' = Char(d, shift')
    /\ UNCHANGED missed

Released(d) ==
    /\ shift' = shift \ shiftcode(d) /\ missed' = missed \ shiftcode(d)
    /\ kbchar' = "none"

\* kbd_proc_data (): a release with the prefix is dropped.
kbd_proc_data ==
    /\ kbport # <<>>
    /\ LET first == Head(kbport)
           late == Len(kbport) = 1
           second == IF late THEN 224 ELSE kbport[2]
       IN IF first = 224
          THEN /\ kbport' = IF late THEN <<>> ELSE Tail(Tail(kbport))
               /\ IF second >= 128
                  THEN /\ missed' = missed \cup shiftcode(second)
                       /\ kbchar' = "none"
                       /\ UNCHANGED shift
                  ELSE Pressed(second + 128)
          ELSE /\ kbport' = Tail(kbport)
               /\ IF first >= 128 THEN Released(first - 128) ELSE Pressed(first)
    /\ UNCHANGED <<held, wire, strokes>>

KbdNext == Arrive \/ kbd_proc_data \/ \E k \in Keys : Stroke(k)

KbdSpec == KbdInit /\ [][KbdNext]_kbdVars

---------------------------------------------------------------------------
\* Once every byte is handled, Control, Shift or Alt is in force only while one
\* of its keys is down, or after the release of a right-hand key, which
\* kbd_proc_data () drops, until a release of the left-hand one.
ModifiersHeld ==
    wire = <<>> /\ kbport = <<>> =>
      \A m \in shift \ {"caps", "num", "scroll"} :
        m \in missed \/ \E k \in held : m \in shiftcode(k.code)

-----------------------------------------------------------------------------
(***************************************************************************)
(* The text screen (kernel/screen.c): k_putch () and sys_cls () against    *)
(* what a terminal promises, the last lines of the text printed so far.    *)
(***************************************************************************)
CONSTANTS WIDTH, HEIGHT, TAB, Glyphs,
          MAXPUT               \* bound: characters printed

VARIABLES cells,               \* textmemptr[0 .. WIDTH * HEIGHT - 1]
          csrx, csry,
          lines,               \* the text printed so far, line by line
          puts

scrVars == <<cells, csrx, csry, lines, puts>>

Blank == "blank"
BlankLine == [x \in 0..WIDTH-1 |-> Blank]
Codes == Glyphs \cup {"BS", "HT", "CR", "NL", "other"}

\* sys_cls (), also by init_video ().
Cleared == [i \in 0 .. (WIDTH * HEIGHT) - 1 |-> Blank]

ScrInit ==
    /\ cells = Cleared /\ csrx = 0 /\ csry = 0
    /\ lines = <<BlankLine>>
    /\ puts = 0

\* The state [cells, x, y] after the character itself.
Put(c, s) ==
    CASE c = "BS" -> IF s.x # 0
                     THEN [s EXCEPT !.cells[(s.y * WIDTH) + s.x - 1] = Blank, !.x = s.x - 1] ELSE s
      [] c = "HT" -> [s EXCEPT !.x = ((s.x + TAB) \div TAB) * TAB]
      [] c = "CR" -> [s EXCEPT !.x = 0]
      [] c = "NL" -> [s EXCEPT !.x = 0, !.y = s.y + 1]
      [] c \in Glyphs -> [s EXCEPT !.cells[(s.y * WIDTH) + s.x] = c, !.x = s.x + 1]
      [] OTHER -> s

Edge(s) == IF s.x >= WIDTH THEN [s EXCEPT !.x = 0, !.y = s.y + 1] ELSE s

scroll(s) ==
    IF s.y >= HEIGHT
    THEN LET t == s.y - HEIGHT + 1 IN
         [s EXCEPT !.cells = [i \in DOMAIN s.cells |->
                                IF i < (HEIGHT - t) * WIDTH THEN s.cells[i + (t * WIDTH)] ELSE Blank],
                   !.y = HEIGHT - 1]
    ELSE s

\* What the character does to a text without an end: x is the column.
Last == Len(lines)
Typed(c) ==
    LET wrapped(l, x) == IF x >= WIDTH THEN Append(l, BlankLine) ELSE l
    IN CASE c = "NL" -> Append(lines, BlankLine)
         [] c = "BS" /\ csrx # 0 -> [lines EXCEPT ![Last][csrx - 1] = Blank]
         [] c \in Glyphs -> wrapped([lines EXCEPT ![Last][csrx] = c], csrx + 1)
         [] c = "HT" -> wrapped(lines, ((csrx \div TAB) + 1) * TAB)
         [] OTHER -> lines

k_putch(c) ==
    /\ puts < MAXPUT /\ puts' = puts + 1
    /\ LET s == scroll(Edge(Put(c, [cells |-> cells, x |-> csrx, y |-> csry])))
       IN cells' = s.cells /\ csrx' = s.x /\ csry' = s.y
    /\ lines' = Typed(c)

sys_cls ==
    /\ puts < MAXPUT /\ puts' = puts + 1
    /\ cells' = Cleared /\ csrx' = 0 /\ csry' = 0
    /\ lines' = <<BlankLine>>

ScrNext == sys_cls \/ \E c \in Codes : k_putch(c)

ScrSpec == ScrInit /\ [][ScrNext]_scrVars

---------------------------------------------------------------------------
\* The screen shows the last HEIGHT lines of what was printed since it was
\* cleared, blank below them, with the cursor in the last line.
ShowsText ==
    LET top == IF Last > HEIGHT THEN Last - HEIGHT ELSE 0 IN
    /\ csrx \in 0..WIDTH-1 /\ csry = Last - top - 1
    /\ \A y \in 0..HEIGHT-1, x \in 0..WIDTH-1 :
         cells[(y * WIDTH) + x] = IF top + y + 1 =< Last THEN lines[top + y + 1][x] ELSE Blank

-----------------------------------------------------------------------------
(***************************************************************************)
(* The command line of the user's shell: readline () (lib/readline.c) with *)
(* its completion and history, and shell () and runcmd () (user/shell.c).  *)
(* A line is a sequence of characters; what the screen shows of it is the  *)
(* effect of the characters readline () prints, backspaces included.       *)
(***************************************************************************)
CONSTANTS Letters, Space, Prompt,
          Commands,     \* the names of commands[], each a sequence of letters
          BUFLEN, HISTMAX, MAXARGS,
          MAXTYPED      \* bound: keys typed

VARIABLES line,         \* buf[0 .. i-1]
          tabidx, istab, isfound,
          onscreen,     \* prompt and line as the screen shows them
          cleared,      \* Control-L has wiped a line that was not empty
          stuck,        \* a backspace has met the left edge
          hist, hhead, htail, hcurr,
          past,         \* every line entered
          ran,          \* argv of the last line, or "too many"
          typed

termVars == <<line, tabidx, istab, isfound, onscreen, cleared, stuck, hist, hhead, htail, hcurr,
              past, ran, typed>>

Names == 1..Len(Commands)
IsPrefix(p, s) == Len(p) =< Len(s) /\ SubSeq(s, 1, Len(p)) = p
Rest(s, n) == SubSeq(s, n + 1, Len(s))
\* n times cprintf("\b"): k_putch () goes back one column, but not past the first,
\* so that the part of a long line in the rows above stays.
Column(s) == Len(s) % WIDTH
Erased(s, n) == SubSeq(s, 1, Len(s) - (IF n > Column(s) THEN Column(s) ELSE n))
Stuck(n) == stuck' = (stuck \/ n > Column(onscreen))

TermInit ==
    /\ line = <<>> /\ tabidx = 1 /\ istab = FALSE /\ isfound = FALSE
    /\ onscreen = Prompt /\ cleared = FALSE /\ stuck = FALSE
    /\ hist = [k \in 0..HISTMAX-1 |-> <<>>] /\ hhead = 0 /\ htail = 0 /\ hcurr = 0
    /\ past = <<>> /\ ran = <<>> /\ typed = 0

\* Every key but the tab takes over a command that completion has found.
Filled == IF istab /\ isfound THEN Commands[tabidx] ELSE line
TakeOver == /\ isfound' = (isfound /\ ~istab)
            /\ istab' = (istab /\ ~isfound)
            /\ tabidx' = IF istab /\ isfound THEN 1 ELSE tabidx
Typing == typed < MAXTYPED /\ typed' = typed + 1
Saved == UNCHANGED <<hist, hhead, htail, hcurr, past, ran>>

Backspace ==
    /\ Typing /\ TakeOver /\ Saved /\ UNCHANGED cleared
    /\ IF Filled = <<>> THEN line' = Filled /\ UNCHANGED <<onscreen, stuck>>
       ELSE line' = SubSeq(Filled, 1, Len(Filled) - 1) /\ onscreen' = Erased(onscreen, 1) /\ Stuck(1)

Letter(c) ==
    /\ Typing /\ TakeOver /\ Saved /\ UNCHANGED <<cleared, stuck>>
    /\ IF Len(Filled) < BUFLEN - 1
       THEN line' = Append(Filled, c) /\ onscreen' = Append(onscreen, c)
       ELSE line' = Filled /\ UNCHANGED onscreen

ClearScreen ==
    /\ Typing /\ TakeOver /\ Saved
    /\ line' = Filled /\ onscreen' = Prompt
    /\ cleared' = (Filled # <<>>) /\ UNCHANGED stuck

\* The next command, from the one found last, that the line is a prefix of.
Found == LET from == IF isfound THEN tabidx + 1 ELSE 1
         IN {k \in Names : k >= from /\ IsPrefix(line, Commands[k])}
Tab ==
    /\ Typing /\ Saved /\ UNCHANGED <<line, cleared>>
    /\ LET back == IF isfound THEN Len(Commands[tabidx]) - Len(line) ELSE 0
           kept == Erased(onscreen, back)
       IN /\ Stuck(back)
          /\ IF Found = {}
             THEN onscreen' = kept /\ isfound' = FALSE /\ UNCHANGED <<istab, tabidx>>
             ELSE LET k == CHOOSE m \in Found : \A n \in Found : m =< n IN
                  /\ onscreen' = kept \o Rest(Commands[k], Len(line))
                  /\ istab' = TRUE /\ isfound' = TRUE /\ tabidx' = k

Up ==
    /\ Typing /\ TakeOver /\ UNCHANGED <<cleared, hist, hhead, htail, past, ran>>
    /\ hcurr' = IF hcurr = hhead THEN hcurr ELSE (hcurr + HISTMAX - 1) % HISTMAX
    /\ line' = hist[hcurr']
    /\ onscreen' = Erased(onscreen, Len(Filled)) \o line' /\ Stuck(Len(Filled))

Down ==
    /\ Typing /\ TakeOver /\ UNCHANGED <<cleared, hist, hhead, htail, past, ran>>
    /\ hcurr' = IF hcurr = htail THEN hcurr ELSE (hcurr + 1) % HISTMAX
    /\ line' = hist[hcurr']
    /\ onscreen' = Erased(onscreen, Len(Filled)) \o line' /\ Stuck(Len(Filled))

\* runcmd ()'s words of a line: where each begins, and where it ends.
Starts(s) == {k \in 1..Len(s) : s[k] # Space /\ (k = 1 \/ s[k - 1] = Space)}
WordAt(s, k) == LET end == {j \in k..Len(s) : j = Len(s) \/ s[j + 1] = Space}
                IN SubSeq(s, k, CHOOSE j \in end : \A m \in end : j =< m)
RECURSIVE Words(_, _)
Words(s, b) == IF b = {} THEN <<>>
               ELSE LET k == CHOOSE m \in b : \A n \in b : m =< n
                    IN <<WordAt(s, k)>> \o Words(s, b \ {k})
runcmd(s) == LET w == Words(s, Starts(s)) IN IF Len(w) > MAXARGS - 1 THEN <<"too many">> ELSE w

\* Mutant of Wiped: the slot that becomes the current line is not emptied.
Wiped_Not(h, t) == h

\* Return: readline () returns, and shell () files the line and runs it.
Wiped(h, t) == [h EXCEPT ![t] = <<>>]
Enter ==
    /\ Typing /\ TakeOver
    /\ LET full == (htail + 1) % HISTMAX = hhead
           filed == [hist EXCEPT ![htail] = Filled]
       IN /\ htail' = (htail + 1) % HISTMAX
          /\ hhead' = IF full THEN (hhead + 1) % HISTMAX ELSE hhead
          /\ hist' = IF full THEN Wiped(filed, htail') ELSE filed
    /\ hcurr' = htail'
    /\ past' = Append(past, Filled)
    /\ ran' = runcmd(Filled)
    /\ line' = <<>> /\ onscreen' = Prompt /\ cleared' = FALSE /\ stuck' = FALSE

TermNext == \/ Backspace \/ ClearScreen \/ Tab \/ Up \/ Down \/ Enter
            \/ \E c \in Letters \cup {Space} : Letter(c)

TermSpec == TermInit /\ [][TermNext]_termVars

---------------------------------------------------------------------------
\* Return runs what the screen shows: the line with the completion offered, if
\* any, through any order of completion, history and editing, until Control-L
\* wipes the screen but not the line, or a backspace has no effect because what it
\* is to erase has wrapped to another row.
ShownIsRun == ~cleared /\ ~stuck => onscreen = Prompt \o Filled

\* The history holds the last HISTMAX - 1 lines in order, between head and
\* tail, with an empty line at the tail to come down to.
HistoryRight ==
    LET n == (htail + HISTMAX - hhead) % HISTMAX IN
    /\ n = IF Len(past) < HISTMAX THEN Len(past) ELSE HISTMAX - 1
    /\ \A k \in 0..n-1 : hist[(hhead + k) % HISTMAX] = past[Len(past) - n + k + 1]
    /\ hist[htail] = <<>>
=============================================================================
