------------------------------- MODULE UserLib -------------------------------
(*****************************************************************************)
(* The C library of nctuOS: copying, scanning and printing.                  *)
(*****************************************************************************)
EXTENDS Integers, Sequences

(***************************************************************************)
(* The kernel's copying routines (lib/string.c) on a small memory, one     *)
(* turn of the loop (or of the repeated string instruction) per step.  0   *)
(* ends a string.                                                          *)
(***************************************************************************)
CONSTANTS MEM,          \* addresses 0 .. MEM-1
          WORD,         \* bytes the movsl form moves at a time
          Rams          \* the memories to start from

VARIABLES memBefore, ram, copyCall, src, dst, left, copying

strVars == <<memBefore, ram, copyCall, src, dst, left, copying>>

Addr == 0..MEM-1
Ops == {"memmove", "strcpy", "strcat", "strncpy", "strlcpy"}

\* strlen () and strnlen ().
strlen(m, s) == LET e == {k \in 0..MEM-1-s : m[s + k] = 0} IN CHOOSE k \in e : \A j \in e : k =< j
Ends(m, s) == \E k \in s..MEM-1 : m[k] = 0

\* Calls whose ranges are in the memory; but for memmove () they do not overlap.
Valid(m, c) ==
    LET need == CASE c.op = "memmove" -> c.n
                  [] c.op = "strcat" -> strlen(m, c.dst) + strlen(m, c.src) + 1
                  [] c.op = "strcpy" -> strlen(m, c.src) + 1
                  [] OTHER -> c.n
    IN /\ c.op # "memmove" => Ends(m, c.src) /\ c.src # c.dst
       /\ c.op = "strcat" => Ends(m, c.dst)
       /\ c.dst + need =< MEM
       /\ c.op = "memmove" => c.src + c.n =< MEM
       /\ c.op # "memmove" => c.src >= c.dst + need \/ c.src + strlen(m, c.src) < c.dst

\* memmove () copies downwards when the end of the source is overwritten.
\* Mutant: the test of the overlap is dropped.
Downwards_Never(c) == FALSE
Downwards(c) == c.op = "memmove" /\ c.src < c.dst /\ c.src + c.n > c.dst

\* movsl or movsb.
Unit(c) == IF c.op = "memmove" /\ \A x \in {c.src, c.dst, c.n} : x % WORD = 0 THEN WORD ELSE 1

StrInit ==
    /\ memBefore \in Rams /\ ram = memBefore
    /\ copyCall \in [op : Ops, dst : Addr, src : Addr, n : 0..MEM]
    /\ copyCall.op \in {"strcpy", "strcat"} => copyCall.n = 0
    /\ Valid(memBefore, copyCall)
    /\ src = copyCall.src + (IF Downwards(copyCall) THEN copyCall.n - Unit(copyCall) ELSE 0)
    /\ dst = copyCall.dst + (IF copyCall.op = "strcat" THEN strlen(memBefore, copyCall.dst)
                             ELSE IF Downwards(copyCall) THEN copyCall.n - Unit(copyCall) ELSE 0)
    /\ left = copyCall.n
    /\ copying = TRUE

Put(a, x) == ram' = [ram EXCEPT ![a] = x]
Done == copying' = FALSE /\ UNCHANGED <<src, dst, left>>

memmove ==
    /\ copying /\ copyCall.op = "memmove"
    /\ IF left = 0 THEN Done /\ UNCHANGED ram
       ELSE LET u == Unit(copyCall) IN
            /\ ram' = [a \in Addr |-> IF a \in dst..dst+u-1 THEN ram[src + a - dst] ELSE ram[a]]
            /\ src' = IF Downwards(copyCall) THEN src - u ELSE src + u
            /\ dst' = IF Downwards(copyCall) THEN dst - u ELSE dst + u
            /\ left' = left - u /\ UNCHANGED copying
    /\ UNCHANGED <<memBefore, copyCall>>

\* strcpy (), and strcat () from the end of its first string.
strcpy ==
    /\ copying /\ copyCall.op \in {"strcpy", "strcat"}
    /\ Put(dst, ram[src])
    /\ src' = src + 1 /\ dst' = dst + 1 /\ copying' = (ram[src] # 0)
    /\ UNCHANGED <<memBefore, copyCall, left>>

strncpy ==
    /\ copying /\ copyCall.op = "strncpy"
    /\ IF left = 0 THEN Done /\ UNCHANGED ram
       ELSE /\ Put(dst, ram[src])
            /\ dst' = dst + 1 /\ left' = left - 1
            /\ src' = IF ram[src] # 0 THEN src + 1 ELSE src
            /\ UNCHANGED copying
    /\ UNCHANGED <<memBefore, copyCall>>

strlcpy ==
    /\ copying /\ copyCall.op = "strlcpy"
    /\ IF left > 1 /\ ram[src] # 0
       THEN Put(dst, ram[src]) /\ src' = src + 1 /\ dst' = dst + 1 /\ left' = left - 1 /\ UNCHANGED copying
       ELSE (IF copyCall.n > 0 THEN Put(dst, 0) ELSE UNCHANGED ram) /\ Done
    /\ UNCHANGED <<memBefore, copyCall>>

StrNext == memmove \/ strcpy \/ strncpy \/ strlcpy

StrSpec == StrInit /\ [][StrNext]_strVars

---------------------------------------------------------------------------
\* The byte the routine promises at a, from the memory before the call.
Promised(a) ==
    LET len == strlen(memBefore, copyCall.src)
        off == IF copyCall.op = "strcat" THEN a - copyCall.dst - strlen(memBefore, copyCall.dst) ELSE a - copyCall.dst
        from == memBefore[copyCall.src + off]
        end == IF len < copyCall.n - 1 THEN len ELSE copyCall.n - 1      \* of strlcpy ()'s string
    IN IF off < 0 THEN memBefore[a] ELSE
       CASE copyCall.op = "memmove" -> IF off < copyCall.n THEN from ELSE memBefore[a]
         [] copyCall.op \in {"strcpy", "strcat"} -> IF off =< len THEN from ELSE memBefore[a]
         [] copyCall.op = "strncpy" -> IF off >= copyCall.n THEN memBefore[a] ELSE IF off =< len THEN from ELSE 0
         [] OTHER -> IF off < end THEN from ELSE IF off = end /\ copyCall.n > 0 THEN 0 ELSE memBefore[a]

\* Every routine writes what its name promises and nothing else: memmove ()
\* whatever the overlap, strlcpy () never past its size, strncpy () padded.
CopiesRight == ~copying => \A a \in Addr : ram[a] = Promised(a)

-----------------------------------------------------------------------------
(***************************************************************************)
(* The routines of lib/string.c that compare, search, fill and convert,    *)
(* one turn of their loop per step.  A string is a sequence of bytes that  *)
(* ends in 0; a pointer is a position in it.                               *)
(***************************************************************************)
CONSTANTS Strings,      \* bound: the strings compared and searched
          Numbers,      \* bound: the strings given to strtol ()
          BYTE,         \* bytes are 0 .. BYTE-1
          HALF          \* a long is -HALF .. HALF-1

VARIABLES scanCall, p, scanLen, val, neg, scanBase, ret
scanVars == <<scanCall, p, scanLen, val, neg, scanBase, ret>>

None == 99             \* the null pointer; no result yet
Scans == {"strcmp", "strncmp", "memcmp", "strchr", "strfind", "memfind"}
Call(op, a, b, c, k) == [op |-> op, a |-> a, b |-> b, c |-> c, n |-> k]
Fits(s, k) == k <= Len(s)
Calls ==
    {Call(op, a, b, 0, k) : op \in {"strcmp", "strncmp", "memcmp"}, a, b \in Strings, k \in 0..3}
    \cup {Call(op, a, a, c, k) : op \in {"strchr", "strfind", "memfind"}, a \in Strings, c \in 1..BYTE-1, k \in 0..3}
    \cup {Call("strtol", s, s, b, 0) : s \in Numbers, b \in {0, 8, 10, 16}}
    \cup {Call("memset", <<7, 7, 7, 7>>, <<>>, c, k) : c \in 0..2 * BYTE - 1, k \in 0..4}
Allowed(c) == c.op \in {"memcmp", "memfind"} => Fits(c.a, c.n) /\ Fits(c.b, c.n)

ScanInit == /\ scanCall \in {c \in Calls : Allowed(c)}
            /\ p = 1 /\ scanLen = scanCall.n /\ val = 0 /\ neg = FALSE /\ scanBase = scanCall.c /\ ret = None

Return(x) == ret' = x /\ UNCHANGED <<scanCall, p, scanLen, val, neg, scanBase>>
Advance == p' = p + 1 /\ scanLen' = scanLen - 1 /\ UNCHANGED <<scanCall, val, neg, scanBase, ret>>

strcmp == /\ scanCall.op = "strcmp" /\ ret = None
          /\ IF scanCall.a[p] # 0 /\ scanCall.a[p] = scanCall.b[p] THEN Advance ELSE Return(scanCall.a[p] - scanCall.b[p])
strncmp == /\ scanCall.op = "strncmp" /\ ret = None
           /\ IF scanLen > 0 /\ scanCall.a[p] # 0 /\ scanCall.a[p] = scanCall.b[p] THEN Advance
              ELSE Return(IF scanLen = 0 THEN 0 ELSE scanCall.a[p] - scanCall.b[p])
memcmp == /\ scanCall.op = "memcmp" /\ ret = None
          /\ IF scanLen > 0 THEN IF scanCall.a[p] # scanCall.b[p] THEN Return(scanCall.a[p] - scanCall.b[p]) ELSE Advance
             ELSE Return(0)

strchr == /\ scanCall.op = "strchr" /\ ret = None
          /\ IF scanCall.a[p] = 0 THEN Return(0)
             ELSE IF scanCall.a[p] = scanCall.c THEN Return(p) ELSE Advance
strfind == /\ scanCall.op = "strfind" /\ ret = None
           /\ IF scanCall.a[p] # 0 /\ scanCall.a[p] # scanCall.c THEN Advance ELSE Return(p)
memfind == /\ scanCall.op = "memfind" /\ ret = None
           /\ IF scanLen > 0 /\ scanCall.a[p] # scanCall.c % BYTE THEN Advance ELSE Return(p)

\* memset (): whole words when address and size are; the byte is repeated in the
\* word.  A word has two bytes here, and the address is even.
memset_Word == scanCall.n % 2 = 0
memset ==
    /\ scanCall.op = "memset" /\ ret = None
    /\ IF scanLen <= 0 THEN Return(0)
       ELSE LET u == IF memset_Word THEN 2 ELSE 1
            IN /\ scanCall' = [scanCall EXCEPT !.a = [i \in 1..4 |-> IF i \in p..p+u-1 THEN scanCall.c % BYTE ELSE scanCall.a[i]]]
               /\ p' = p + u /\ scanLen' = scanLen - u /\ UNCHANGED <<val, neg, scanBase, ret>>

(* strtol ().  A character is the value of a digit or letter, or one of:     *)
Space == 50
Plus == 51
Minus == 52
X == 33       \* the value of the letter x
End == 60
At(i) == IF i <= Len(scanCall.a) THEN scanCall.a[i] ELSE End

strtol_Space == /\ scanCall.op = "strtol" /\ ret = None /\ scanLen = 0
                /\ IF At(p) = Space THEN p' = p + 1 /\ UNCHANGED scanLen ELSE scanLen' = 1 /\ UNCHANGED p
                /\ UNCHANGED <<scanCall, val, neg, scanBase, ret>>
strtol_Sign == /\ scanCall.op = "strtol" /\ scanLen = 1
               /\ p' = IF At(p) \in {Plus, Minus} THEN p + 1 ELSE p
               /\ neg' = (At(p) = Minus) /\ scanLen' = 2
               /\ UNCHANGED <<scanCall, val, scanBase, ret>>
strtol_Prefix ==
    /\ scanCall.op = "strtol" /\ scanLen = 2 /\ scanLen' = 3
    /\ IF scanBase \in {0, 16} /\ At(p) = 0 /\ At(p + 1) = X THEN p' = p + 2 /\ scanBase' = 16
       ELSE IF scanBase = 0 /\ At(p) = 0 THEN p' = p + 1 /\ scanBase' = 8
       ELSE scanBase' = (IF scanBase = 0 THEN 10 ELSE scanBase) /\ UNCHANGED p
    /\ UNCHANGED <<scanCall, val, neg, ret>>
Wrap(x) == ((x + HALF) % (2 * HALF)) - HALF
strtol_Digits ==
    /\ scanCall.op = "strtol" /\ scanLen = 3 /\ ret = None
    /\ IF At(p) < scanBase THEN val' = Wrap((val * scanBase) + At(p)) /\ p' = p + 1 /\ UNCHANGED <<scanCall, scanLen, neg, scanBase, ret>>
       ELSE Return(Wrap(IF neg THEN -val ELSE val))

ScanNext == \/ strcmp \/ strncmp \/ memcmp \/ strchr \/ strfind \/ memfind \/ memset
            \/ strtol_Space \/ strtol_Sign \/ strtol_Prefix \/ strtol_Digits

(* ------------------------------ properties ----------------------------- *)
Least(S) == CHOOSE x \in S : \A y \in S : x <= y
\* The first position at which two strings differ, or one of them ends.
Differ(a, b, k) == LET D == {i \in 1..k : a[i] # b[i]} IN IF D = {} THEN 0 ELSE Least(D)
Strlen(s) == Least({i \in DOMAIN s : s[i] = 0}) - 1
Shorter(a, b) == IF Strlen(a) < Strlen(b) THEN Strlen(a) ELSE Strlen(b)
Upto(k, m) == IF k < m THEN k ELSE m
Order(a, b, k) == LET d == Differ(a, b, k) IN IF d = 0 THEN 0 ELSE a[d] - b[d]

\* Comparisons give the difference at the first byte that differs, up to the end
\* of a string and never behind n; searches give the first place.
ScanRight ==
    ret # None /\ scanCall.op \in Scans =>
        ret = CASE scanCall.op = "strcmp" -> Order(scanCall.a, scanCall.b, Shorter(scanCall.a, scanCall.b) + 1)
                [] scanCall.op = "strncmp" -> Order(scanCall.a, scanCall.b, Upto(scanCall.n, Shorter(scanCall.a, scanCall.b) + 1))
                [] scanCall.op = "memcmp" -> Order(scanCall.a, scanCall.b, scanCall.n)
                [] OTHER ->
                     LET k == IF scanCall.op = "memfind" THEN scanCall.n ELSE Strlen(scanCall.a)
                         F == {i \in 1..k : scanCall.a[i] = scanCall.c}
                     IN IF F # {} THEN Least(F) ELSE IF scanCall.op = "strchr" THEN 0 ELSE k + 1

\* memset () fills n bytes and no more, in words or in bytes.
FillRight ==
    ret # None /\ scanCall.op = "memset" =>
        \A i \in 1..4 : scanCall.a[i] = IF i <= scanCall.n THEN scanCall.c % BYTE ELSE 7

\* strtol () gives the number that its longest run of digits stands for, wrapped
\* to a long and with its sign, behind blanks, sign and prefix.
Value(s, b) == LET v[i \in 0..Len(s)] == IF i = 0 THEN 0 ELSE (v[i - 1] * b) + s[i] IN v[Len(s)]
StrtolRight ==
    ret # None /\ scanCall.op = "strtol" =>
        LET s == scanCall.a
            body == Least({i \in 1..Len(s) + 1 : i > Len(s) \/ s[i] # Space})
            sign == body <= Len(s) /\ s[body] \in {Plus, Minus}
            at == IF sign THEN body + 1 ELSE body
            hex == scanCall.c \in {0, 16} /\ at < Len(s) /\ s[at] = 0 /\ s[at + 1] = X
            from == IF hex THEN at + 2 ELSE at
            b == IF hex THEN 16 ELSE IF scanCall.c # 0 THEN scanCall.c
                 ELSE IF at <= Len(s) /\ s[at] = 0 THEN 8 ELSE 10
            to == Least({i \in from..Len(s) + 1 : i > Len(s) \/ s[i] >= b})
            v == Value(SubSeq(s, from, to - 1), b)
        IN ret = Wrap(IF sign /\ s[body] = Minus THEN -v ELSE v)

-----------------------------------------------------------------------------
(***************************************************************************)
(* vprintfmt () (lib/printfmt.c) and the buffer of cprintf () (lib/        *)
(* printf.c): a format with one conversion, read character by character,   *)
(* against the field it describes.                                         *)
(***************************************************************************)
CONSTANTS Flags, Widths, Precs,   \* "" , "-" or "0"; numbers, or -1 for none
          Convs,                  \* conversion characters, known or not
          Nums, Strs,             \* arguments
          BUFFER                  \* size of struct printbuf's buf

VARIABLES given,                  \* [flag, width, prec, conv, num, str]
          output, chunks          \* what was put, and the calls of puts ()

prfVars == <<given, output, chunks>>

Digit == <<"0", "1", "2", "3", "4", "5", "6", "7", "8", "9", "a", "b", "c", "d", "e", "f">>
Copies(c, n) == [k \in 1 .. (IF n > 0 THEN n ELSE 0) |-> c]
RECURSIVE Digits(_, _)
Digits(n, base) == (IF n >= base THEN Digits(n \div base, base) ELSE <<>>) \o <<Digit[(n % base) + 1]>>

\* The text of the format: "%", then each part that is given, then a letter.
Decimal(n) == IF n < 0 THEN <<>> ELSE Digits(n, 10)
Format(g) == <<"%">> \o (IF g.flag = "" THEN <<>> ELSE <<g.flag>>) \o Decimal(g.width)
             \o (IF g.prec < 0 THEN <<>> ELSE <<".">> \o Decimal(g.prec)) \o <<g.conv, "z">>

---------------------------------------------------------------------------
\* printnum (): the more significant digits first, the padding before them.
RECURSIVE printnum(_, _, _, _)
printnum(num, base, width, padc) ==
    (IF num >= base THEN printnum(num \div base, base, width - 1, padc) ELSE Copies(padc, width - 1))
    \o <<Digit[(num % base) + 1]>>

\* The %s conversion.
Min2(a, b) == IF a < b THEN a ELSE b
PutStr(str, s) ==
    LET shown == IF s.prec < 0 THEN Len(str) ELSE Min2(Len(str), s.prec)
        before == s.width > 0 /\ s.padc # "-"
    IN (IF before THEN Copies(s.padc, s.width - shown) ELSE <<>>)
       \o SubSeq(str, 1, shown)
       \o (IF before THEN <<>> ELSE Copies(" ", s.width - shown))

\* The conversions, and how an unknown one is printed: "%", then from there on.
Convert(conv, g, s) ==
    CASE conv = "c" -> <<Digit[(g.num % 16) + 1]>>
      [] conv = "s" -> PutStr(g.str, s)
      [] conv = "d" -> IF g.num < 0 THEN <<"-">> \o printnum(-g.num, 10, s.width, s.padc)
                       ELSE printnum(g.num, 10, s.width, s.padc)
      [] conv = "u" -> printnum(g.num, 10, s.width, s.padc)
      [] conv = "x" -> printnum(g.num, 16, s.width, s.padc)
      [] conv = "p" -> <<"0", "x">> \o printnum(g.num, 16, s.width, s.padc)
      [] conv = "o" -> <<"X", "X", "X">>

IsDigit(c) == \E k \in 2..10 : c = Digit[k]
ValueOf(c) == (CHOOSE k \in 1..10 : c = Digit[k]) - 1
RECURSIVE Number(_, _, _)
\* The digits from i on: the number, and the place after them.
Number(f, i, n) == IF \E k \in 1..10 : f[i] = Digit[k] THEN Number(f, i + 1, (n * 10) + ValueOf(f[i])) ELSE <<n, i>>

RECURSIVE vprintfmt(_, _, _), Escape(_, _, _, _, _)
vprintfmt(f, i, g) ==
    IF i > Len(f) THEN <<>>
    ELSE IF f[i] # "%" THEN <<f[i]>> \o vprintfmt(f, i + 1, g)
    ELSE Escape(f, i + 1, i + 1, g, [padc |-> " ", width |-> -1, prec |-> -1])
\* reswitch: from the character at i; the escape began before "start".  The
\* long and # flags change nothing for the arguments here; "*" and "e" are left out.
Escape(f, i, start, g, s) ==
    LET c == IF i > Len(f) THEN "end" ELSE f[i] IN
    CASE c = "-" -> Escape(f, i + 1, start, g, [s EXCEPT !.padc = "-"])
      [] c = "0" -> Escape(f, i + 1, start, g, [s EXCEPT !.padc = "0"])
      [] IsDigit(c) -> LET n == Number(f, i, 0) IN
                       Escape(f, n[2], start, g, IF s.width < 0 THEN [s EXCEPT !.width = n[1]]
                                                 ELSE [s EXCEPT !.prec = n[1]])
      [] c \in {"l", "#"} -> Escape(f, i + 1, start, g, s)
      [] c = "." -> Escape(f, i + 1, start, g, [s EXCEPT !.width = IF s.width < 0 THEN 0 ELSE s.width])
      [] c \in {"c", "s", "d", "u", "x", "p", "o"} -> Convert(c, g, s) \o vprintfmt(f, i + 1, g)
      [] c = "%" -> <<"%">> \o vprintfmt(f, i + 1, g)
      [] OTHER -> <<"%">> \o vprintfmt(f, start, g)

---------------------------------------------------------------------------
PrfInit ==
    /\ given \in [flag : Flags, width : Widths, prec : Precs, conv : Convs, num : Nums, str : Strs]
    /\ given.conv \in {"u", "x", "p", "c"} => given.num >= 0
    /\ output = <<>> /\ chunks = <<>>

\* vcprintf (): putch () passes the buffer on when it holds BUFFER - 1.
RECURSIVE Chunks(_)
Chunks(o) == IF Len(o) < BUFFER - 1 THEN <<o>>
             ELSE <<SubSeq(o, 1, BUFFER - 1)>> \o Chunks(SubSeq(o, BUFFER, Len(o)))
vcprintf ==
    /\ chunks = <<>>
    /\ output' = vprintfmt(Format(given), 1, given)
    /\ chunks' = Chunks(output')
    /\ UNCHANGED given

PrfNext == vcprintf

PrfSpec == PrfInit /\ [][PrfNext]_prfVars

---------------------------------------------------------------------------
\* The field a conversion describes.
Field(g) ==
    LET pad == IF g.flag = "0" THEN "0" ELSE " "
        w == IF g.width < 0 THEN 0 ELSE g.width
        cut == IF g.prec =< 0 THEN g.str ELSE SubSeq(g.str, 1, Min2(Len(g.str), g.prec))
        digits == Digits(IF g.num < 0 THEN -g.num ELSE g.num, IF g.conv \in {"x", "p"} THEN 16 ELSE 10)
    IN CASE g.conv = "s" -> IF g.flag = "-" THEN cut \o Copies(" ", w - Len(cut))
                            ELSE Copies(pad, w - Len(cut)) \o cut
         [] g.conv \in {"d", "u", "x", "p"} ->
              (IF g.conv = "p" THEN <<"0", "x">> ELSE IF g.num < 0 THEN <<"-">> ELSE <<>>)
              \o Copies(pad, w - Len(digits)) \o digits

\* %s, %d, %u, %x and %p print the field the format describes (a sign and the
\* "0x" outside it; the "-" flag is for strings), what follows the conversion is printed after it, and an
\* unknown conversion appears as it was written.
FieldPrinted ==
    chunks # <<>> =>
      /\ given.conv \in {"s", "d", "u", "x", "p"} /\ (given.flag = "-" => given.conv = "s") => output = Field(given) \o <<"z">>
      /\ given.conv = "q" => output = Format(given)

\* cprintf () prints all of it, in pieces that fit its buffer.
RECURSIVE Joined(_)
Joined(cs) == IF cs = <<>> THEN <<>> ELSE Head(cs) \o Joined(Tail(cs))
AllPut == chunks # <<>> => Joined(chunks) = output /\ \A k \in 1..Len(chunks) : Len(chunks[k]) < BUFFER
=============================================================================
