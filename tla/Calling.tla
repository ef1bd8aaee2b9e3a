------------------------------- MODULE Calling -------------------------------
(*****************************************************************************)
(* A call from its entries to its end (apue.2e/calld and call): the three files *)
(* of the server, the chat with the modem, and the client.                   *)
(*****************************************************************************)
EXTENDS Integers, Sequences, FiniteSets

(* What calld takes from a client's arguments and from its files Systems,    *)
(* Devices and Dialers, and how it sets up the line: cliargs.c, sysfile.c,   *)
(* devfile.c, dialfile.c and ttyopen.c, with several clients served in turn  *)
(* by one process that has one position in the Systems file.                 *)
CONSTANTS Clients,
          Files,       \* bound: [systems, devices, dialers]
          Rates,       \* the classes tty_open () knows
          Speeds       \* what a client may ask for with -s, "" for nothing
VARIABLES
    tried, skipped,  \* per client: the entries tried, and passed by as locked
    asked,           \* per client: its arguments
    files, fpsys, opts, client, lock, lineSet, quit
entryVars == <<files, fpsys, opts, client, lock, lineSet, quit, tried, skipped, asked>>

Parities == {"NONE", "EVEN", "ODD"}
NoLine == [class |-> "", parity |-> "", modem |-> FALSE]

EntryInit == /\ files \in Files /\ fpsys = 0 /\ quit = FALSE
             /\ opts = [speed |-> "", parity |-> "NONE"]
             /\ client = [c \in Clients |-> [st |-> "new", speed |-> "", parity |-> "NONE", posn |-> 0, at |-> 0, dev |-> 0]]
             /\ lock = [l \in {"tty1", "tty2"} |-> 0]
             /\ lineSet = [l \in {"tty1", "tty2"} |-> NoLine]
             /\ tried = [c \in Clients |-> <<>>] /\ skipped = [c \in Clients |-> {}]
             /\ asked = [c \in Clients |-> [speed |-> "", parity |-> "NONE"]]

Least(S) == CHOOSE x \in S : \A y \in S : x <= y

\* dev_find (): from the first line; a line that is not complete ends the server.
dev_find(s) ==
    LET D == files.devices
        stop == {i \in DOMAIN D : D[i].bad \/ (D[i].type = s.type /\ D[i].class = s.class)}
    IN IF stop = {} THEN 0 ELSE IF D[Least(stop)].bad THEN -1 ELSE Least(stop)

\* sys_next (): comments and empty lines are skipped (they are not in the
\* sequence); the speed must match when one was asked for.
EntryMatch(r, i) == files.systems[i].host /\ r.speed \in {"", files.systems[i].class}
Locked(i, lk) == LET d == dev_find(files.systems[i]) IN d > 0 /\ lk[files.devices[d].line] # 0

sys_posn(posn) == posn

\* request (): on from where this client left off.  A matching entry whose
\* device is locked is passed by; one without a device ends the search.
request(c, r, lk) ==
    LET from == sys_posn(r.posn)
        left == from + 1..Len(files.systems)
        stops == {i \in left : files.systems[i].bad \/ (EntryMatch(r, i) /\ ~Locked(i, lk))}
        end == IF stops = {} THEN Len(files.systems) ELSE Least(stops)
        d == dev_find(files.systems[end])
        dial == stops # {} /\ ~files.systems[end].bad /\ d > 0
    IN /\ fpsys' = end
       /\ quit' = (stops # {} /\ (files.systems[end].bad \/ d = -1))
       /\ skipped' = [skipped EXCEPT ![c] = @ \cup {i \in left \ stops : i <= end /\ EntryMatch(r, i)}]
       /\ tried' = [tried EXCEPT ![c] = IF stops # {} THEN Append(@, end) ELSE @]
       /\ lock' = IF dial THEN [lk EXCEPT ![files.devices[d].line] = c] ELSE lk
       /\ client' = [client EXCEPT ![c] =
            IF dial THEN [r EXCEPT !.st = "child", !.posn = end, !.at = end, !.dev = d]
            ELSE [r EXCEPT !.st = "refused", !.at = end]]

\* cli_args () sets the globals from their defaults, loop () copies them to the
\* client's entry.
cli_args(o) == o
Serve(c, o) ==
    /\ ~quit /\ client[c].st = "new"
    /\ opts' = cli_args(o) /\ asked' = [asked EXCEPT ![c] = o]
    /\ request(c, [client[c] EXCEPT !.speed = cli_args(o).speed, !.parity = cli_args(o).parity], lock)
    /\ UNCHANGED <<files, lineSet>>
\* An unknown option, or no host: the "command line error" is a log_quit (), which
\* ends the server for every client.
BadArgs(c) == /\ ~quit /\ client[c].st = "new" /\ quit' = TRUE
              /\ client' = [client EXCEPT ![c].st = "wrong"]
              /\ \E o \in [speed : Speeds, parity : Parities] : opts' \in {opts, cli_args(o)}
              /\ UNCHANGED <<files, fpsys, lock, lineSet, tried, skipped, asked>>

\* tty_open () in the child, with the options of the client it was forked for; a
\* client that has closed its end meanwhile does not stop the child.
Settings(c) == [class |-> files.systems[client[c].at].class, parity |-> client[c].parity,
                modem |-> files.devices[client[c].dev].dialer # "direct"]
tty_open(c) == /\ files.systems[client[c].at].class \in Rates
               /\ lineSet' = [lineSet EXCEPT ![files.devices[client[c].dev].line] = Settings(c)]
dial_find(c) == LET n == files.devices[client[c].dev].dialer IN n = "direct" \/ n \in files.dialers

child_dial(c) == /\ client[c].st \in {"child", "left"} /\ dial_find(c) /\ tty_open(c)
                 /\ client' = [client EXCEPT ![c].st = IF @ = "child" THEN "dialing" ELSE @]
                 /\ UNCHANGED <<files, fpsys, opts, lock, quit, tried, skipped, asked>>
Unlocked(c) == [lock EXCEPT ![files.devices[client[c].dev].line] = 0]
\* The modem answers: the client has the line, and child_done () only clears the
\* flag.
Connected(c) == /\ client[c].st = "dialing"
                /\ client' = [client EXCEPT ![c].st = "has"]
                /\ UNCHANGED <<files, fpsys, opts, lock, lineSet, quit, tried, skipped, asked>>
\* The client's end of file releases the device, also under a child that dials.
Closed(c) == /\ ~quit /\ client[c].st \in {"child", "dialing", "has"} /\ lock' = Unlocked(c)
             /\ client' = [client EXCEPT ![c].st = IF @ = "has" THEN "closed" ELSE "left"]
             /\ UNCHANGED <<files, fpsys, opts, lineSet, quit, tried, skipped, asked>>
\* The child could not: child_done () frees the line and tries the next entry.
Failed(c) == /\ ~quit /\ client[c].st \in {"child", "dialing"}
             /\ request(c, client[c], Unlocked(c))
             /\ UNCHANGED <<files, opts, lineSet, asked>>

EntryNext == \E c \in Clients : \/ \E o \in [speed : Speeds, parity : Parities] : Serve(c, o)
                                \/ BadArgs(c) \/ child_dial(c) \/ Connected(c) \/ Closed(c) \/ Failed(c)

(* ------------------------------ properties ----------------------------- *)
\* Whoever else is served in between, a client is taken through every entry of
\* its host and speed, in order and once, but for those that were locked.
EveryEntry ==
    \A c \in Clients : client[c].st \notin {"new", "wrong"} =>
        /\ \A i, j \in DOMAIN tried[c] : i < j => tried[c][i] < tried[c][j]
        /\ {i \in 1..client[c].at : EntryMatch(asked[c], i) \/ files.systems[i].bad}
             = {tried[c][k] : k \in DOMAIN tried[c]} \cup skipped[c]

\* A line that is dialled or in use has the speed of the entry and the parity this
\* client asked for, although the options pass through globals and the line has had
\* other users, unless one of them left while its child was dialing the line.
LineOf(c) == files.devices[client[c].dev].line
LineAsAsked ==
    \A c \in Clients :
      /\ client[c].st \in {"dialing", "has"}
      /\ ~\E d \in Clients : client[d].st = "left" /\ LineOf(d) = LineOf(c)
      => LET t == lineSet[LineOf(c)]
         IN /\ t.parity = asked[c].parity /\ asked[c].speed \in {"", t.class}
            /\ t.modem <=> files.devices[client[c].dev].dialer # "direct"

-----------------------------------------------------------------------------
(***************************************************************************)
(* The modem chat of calld (tty_dial (), expect_str (), send_str ()): wait *)
(* for a string from the modem, send one, and so on.  exp_read () returns  *)
(* a size_t, so that "exp_read () < 0" is never true: after the alarm the  *)
(* reading loops go on with what the buffer happens to hold.               *)
(***************************************************************************)
CONSTANTS Chats,     \* scripts: [expect, send] in turn, sequences of characters
          Chars,     \* what the modem may say
          MAXIN      \* bound: characters read of the modem

VARIABLES chat, step,  \* the script and the pair it is at
          dpc, ch,    \* where expect_str () is, the character in hand
          inbuf,        \* inbuf from cmpptr on
          heard,     \* all the modem said since the last match
          caught,    \* caught_alrm
          wrote, nread

dialVars == <<chat, step, dpc, ch, inbuf, heard, caught, wrote, nread>>

DialInit ==
    /\ chat \in Chats /\ step = 1 /\ dpc = "skip" /\ ch \in Chars /\ inbuf = <<>> /\ heard = <<>>
    /\ caught = FALSE /\ wrote = <<>> /\ nread = 0

expstr == chat[step].expect
matchlen == Len(expstr)
Say(x) == heard' = Append(heard, x) /\ nread' = nread + 1

\* SIGALRM, 45 seconds after alarm ().
sig_alrm ==
    /\ dpc \in {"skip", "fill", "match"} /\ ~caught /\ caught' = TRUE
    /\ UNCHANGED <<chat, step, dpc, ch, inbuf, heard, wrote, nread>>

\* do ... while (c != expstr[0]).
Skip ==
    /\ dpc = "skip" /\ UNCHANGED <<chat, step, caught, wrote>>
    /\ \/ /\ ~caught /\ nread < MAXIN
          /\ \E x \in Chars :
             /\ Say(x) /\ ch' = x
             /\ IF x = expstr[1] THEN inbuf' = <<x>> /\ dpc' = "fill" ELSE UNCHANGED <<inbuf, dpc>>
       \/ /\ caught /\ UNCHANGED <<ch, heard, nread>>
          /\ IF ch = expstr[1] THEN inbuf' = <<ch>> /\ dpc' = "fill" ELSE dpc' = "spin" /\ UNCHANGED inbuf

\* The next matchlen - 1 characters; what inbuf[] held before, once the alarm
\* was caught.
Fill ==
    /\ dpc = "fill" /\ UNCHANGED <<chat, step, ch, caught, wrote>>
    /\ IF Len(inbuf) = matchlen
       THEN dpc' = "match" /\ UNCHANGED <<inbuf, heard, nread>>
       ELSE /\ UNCHANGED dpc
            /\ \E x \in Chars :
               /\ inbuf' = Append(inbuf, x)
               /\ IF caught THEN UNCHANGED <<heard, nread>> ELSE nread < MAXIN /\ Say(x)

\* send_str (): escapes are converted on the way, a carriage return ends the
\* string unless "\c" does; the number of "\T" is sent as a string of its own.
RECURSIVE send_str(_, _)
send_str(s, phone) ==
    IF s = <<>> THEN <<"CR">>
    ELSE CASE Head(s) = "esc-c" -> IF Len(s) = 1 THEN <<>> ELSE send_str(Tail(s), phone)
           [] Head(s) \in {"esc-d", "esc-p", "esc-e", "esc-E"} -> send_str(Tail(s), phone)
           [] Head(s) = "esc-T" -> send_str(phone, phone) \o send_str(Tail(s), phone)
           [] Head(s) = "esc-r" -> <<"CR">> \o send_str(Tail(s), phone)
           [] OTHER -> <<Head(s)>> \o send_str(Tail(s), phone)

Number == <<"5", "5">>

\* tty_dial (): the string came, send the answer and go on.
Got ==
    /\ wrote' = Append(wrote, send_str(chat[step].send, Number))
    /\ step' = step + 1 /\ inbuf' = <<>> /\ heard' = <<>>
    /\ dpc' = IF step = Len(chat) THEN "connected" ELSE "skip"

\* Slide along one character at a time until inbuf has the string; past the
\* end of inbuf[] once the alarm was caught.
DialMatch ==
    /\ dpc = "match" /\ UNCHANGED <<chat, ch>>
    /\ IF inbuf = expstr
       THEN Got /\ caught' = FALSE /\ UNCHANGED nread
       ELSE /\ UNCHANGED <<step, wrote, caught>>
            /\ \/ /\ ~caught /\ nread < MAXIN /\ UNCHANGED dpc
                  /\ \E x \in Chars : Say(x) /\ inbuf' = Append(Tail(inbuf), x)
               \/ /\ caught /\ UNCHANGED <<heard, nread>>
                  /\ \/ UNCHANGED dpc /\ \E x \in Chars : inbuf' = Append(Tail(inbuf), x)
                     \/ dpc' = "spin" /\ UNCHANGED inbuf

Stay == (dpc \in {"connected", "spin"} \/ nread = MAXIN) /\ UNCHANGED dialVars

DialNext == sig_alrm \/ Skip \/ Fill \/ DialMatch \/ Stay

DialSpec == DialInit /\ [][DialNext]_dialVars /\ WF_dialVars(Skip \/ Fill \/ DialMatch)

(* ------------------------------ properties ----------------------------- *)
DialEnds(s, t) == Len(s) >= Len(t) /\ SubSeq(s, Len(s) - Len(t) + 1, Len(s)) = t
In(s, t) == \E n \in 1..Len(s) : DialEnds(SubSeq(s, 1, n), t)

\* As long as the alarm is not caught, expect_str () goes on reading exactly
\* until the modem has said the string: never past its first occurrence.
StopsAtFirst ==
    dpc \in {"skip", "fill", "match"} /\ ~caught /\ heard # <<>> =>
        ~In(SubSeq(heard, 1, Len(heard) - 1), expstr)

\* Until the alarm is caught, an answer is sent only when the modem has said
\* the string it answers.
AnswerEarned == [][Len(wrote') > Len(wrote) /\ ~caught => DialEnds(heard, expstr)]_dialVars

-----------------------------------------------------------------------------
(* apue.2e/call: loop () between the terminal and the line, the escapes of   *)
(* doescape (), the file transfers take () and put (), prompt_read ().  The  *)
(* terminal is raw, or in the user's own mode (the user may change that one  *)
(* while the program is stopped); entering raw mode may fail, which leaves   *)
(* the user's mode.  The line delivers in pieces, and may drop.              *)
CONSTANTS Typed,       \* characters the user may type
          MAXTYPED,    \* bound: characters typed
          RemoteFile,  \* what the remote host holds, a sequence
          Message,     \* what the remote host says of its own accord
          MAXFAULTS    \* bound: times raw mode is refused
VARIABLES cpc, bol, typed, ttyMode, umode, saved, line, rem, out, file, pend, leak, faults, ended
callVars == <<cpc, bol, typed, ttyMode, umode, saved, line, rem, out, file, pend, leak, faults, ended>>

\* line: what the host sent and the client has not read; rem: rem_buf[] of
\* take (); out: what stdout got; pend: something was under way when take ()
\* began; leak: files take () left open.  bol is not initialised.
CallInit ==
    /\ cpc = "loop" /\ bol \in BOOLEAN /\ typed = 0 /\ umode = 0 /\ ttyMode = "raw" /\ saved = 0
    /\ line = <<>> /\ rem = <<>> /\ out = <<>> /\ file = <<>> /\ pend = FALSE
    /\ leak = 0 /\ faults = 0 /\ ended = "no"

Mode == IF umode = 0 THEN "user0" ELSE "user1"
\* tty_reset () and tty_raw (): from raw to the mode saved, and back.
tty_reset == ttyMode' = IF ttyMode = "raw" THEN (IF saved = 0 THEN "user0" ELSE "user1") ELSE ttyMode
tty_raw == \/ saved' = umode /\ ttyMode' = "raw" /\ faults' = faults
           \/ faults < MAXFAULTS /\ faults' = faults + 1 /\ saved' = umode /\ ttyMode' = Mode

Line == <<line, rem, out, file, pend, leak>>
Tty == <<ttyMode, umode, saved, faults>>

\* exit (), through tty_atexit ().
exit(why) == cpc' = "end" /\ ended' = why /\ tty_reset /\ UNCHANGED <<umode, saved, faults>>

-----------------------------------------------------------------------------
\* loop (): a character of the user's, an escape only at the start of a line.
Send(c) == /\ bol' = (c = "nl") /\ cpc' = "loop"
Stdin(c) ==
    /\ cpc = "loop" /\ typed < MAXTYPED /\ typed' = typed + 1
    /\ IF c = "~" /\ bol THEN cpc' = "escape" /\ UNCHANGED bol ELSE Send(c)
    /\ UNCHANGED <<Line, Tty, ended>>

\* doescape (), with what loop () makes of its result: a char above 127 comes
\* back negative, like "terminate".
doescape(c) ==
    /\ cpc = "escape" /\ typed < MAXTYPED /\ typed' = typed + 1 /\ UNCHANGED Line
    /\ \/ c \in {".", "high"} /\ exit(c) /\ UNCHANGED bol
       \/ /\ c = "susp" /\ tty_reset /\ cpc' = "stopped"
          /\ UNCHANGED <<bol, umode, saved, faults, ended>>
       \/ c = "#" /\ cpc' = "loop" /\ UNCHANGED <<bol, Tty, ended>>
       \/ /\ c \in {"t", "p"} /\ tty_reset /\ cpc' = (IF c = "t" THEN "asktake" ELSE "askput")
          /\ UNCHANGED <<bol, umode, saved, faults, ended>>
       \/ c \notin {".", "high", "susp", "#", "t", "p"} /\ Send(c) /\ UNCHANGED <<Tty, ended>>

\* SIGTSTP: the user is back in the shell, and may change the mode.
Continue ==
    /\ cpc = "stopped" /\ cpc' = "resumed"
    /\ umode' \in 0..1 /\ ttyMode' = (IF umode' = umode THEN ttyMode ELSE IF umode' = 0 THEN "user0" ELSE "user1")
    /\ UNCHANGED <<bol, typed, saved, faults, Line, ended>>
Resumed == /\ cpc = "resumed" /\ tty_raw /\ cpc' = "loop"
           /\ UNCHANGED <<bol, typed, umode, Line, ended>>

\* prompt_read () and the opening of the local file; then the command, which
\* the host echoes before it runs it; writing it is taken to succeed.
Answer == <<"echo", "nl">> \o RemoteFile \o <<"ctrla", "prompt">>
take ==
    /\ cpc = "asktake" /\ tty_raw
    /\ \/ cpc' = "loop" /\ UNCHANGED <<line, file, pend>>
       \/ /\ cpc' = "echo" /\ line' = line \o Answer /\ file' = <<>> /\ pend' = (line # <<>>)
    /\ rem' = <<>> /\ UNCHANGED <<bol, typed, umode, out, leak, ended>>
put ==
    /\ cpc = "askput" /\ tty_raw /\ cpc' = "loop"
    /\ line' \in {line, <<>>}
    /\ UNCHANGED <<bol, typed, umode, rem, out, file, pend, leak, ended>>

\* rem_read (): a piece of the line when the buffer is empty, 0 when it dropped.
Piece == /\ cpc \in {"echo", "file"} /\ rem = <<>> /\ line # <<>>
         /\ \E n \in 1..Len(line) : rem' = SubSeq(line, 1, n) /\ line' = SubSeq(line, n + 1, Len(line))
         /\ UNCHANGED <<cpc, bol, typed, Tty, out, file, pend, leak, ended>>
Took(l) == cpc' = l /\ rem' = Tail(rem)
TakeEcho ==
    /\ cpc = "echo" /\ rem # <<>> /\ Took(IF Head(rem) = "nl" THEN "file" ELSE "echo")
    /\ UNCHANGED <<bol, typed, Tty, line, out, file, pend, leak, ended>>
TakeFile ==
    /\ cpc = "file" /\ rem # <<>>
    /\ CASE Head(rem) \in {"ctrla", "nul"} -> Took("loop") /\ UNCHANGED file
         [] Head(rem) = "cr" -> Took("file") /\ UNCHANGED file
         [] OTHER -> Took("file") /\ file' = Append(file, Head(rem))
    /\ UNCHANGED <<bol, typed, Tty, line, out, pend, leak, ended>>
\* The line drops: the return from the echo loop leaves the file open.
Drop ==
    /\ \/ cpc = "loop" /\ exit("hangup") /\ UNCHANGED leak
       \/ /\ cpc \in {"echo", "file"} /\ rem = <<>> /\ cpc' = "loop"
          /\ leak' = (IF cpc = "echo" THEN leak + 1 ELSE leak) /\ UNCHANGED <<Tty, ended>>
    /\ line' = <<>> /\ UNCHANGED <<bol, typed, rem, out, file, pend>>

\* Data of the host's in loop (), shown at once.
Remote ==
    /\ cpc = "loop" /\ line # <<>> /\ out' = line /\ line' = <<>>
    /\ UNCHANGED <<cpc, bol, typed, Tty, rem, file, pend, leak, ended>>
Says == /\ line = <<>> /\ cpc \in {"loop", "escape", "asktake"} /\ out = <<>> /\ line' = Message
        /\ UNCHANGED <<cpc, bol, typed, Tty, rem, out, file, pend, leak, ended>>

CallNext == \/ \E c \in Typed : Stdin(c) \/ doescape(c)
            \/ Continue \/ Resumed \/ take \/ put \/ Piece \/ TakeEcho \/ TakeFile \/ Drop
            \/ Remote \/ Says
CallSpec == CallInit /\ [][CallNext]_callVars

-----------------------------------------------------------------------------
\* The terminal is raw whenever loop () reads it, unless raw mode was refused,
\* and the mode the user chose last when the program stops or ends, also when
\* the user changed it during a stop.
ModeRight ==
    /\ cpc \in {"loop", "escape", "echo", "file"} => ttyMode = "raw" \/ faults > 0
    /\ cpc \in {"end", "resumed", "asktake", "askput"} => ttyMode = Mode

\* A file taken is the remote one without its returns, however the line cuts
\* it up, as far as its first null or Control-A; provided nothing else was
\* under way on the line when the transfer began.
Kept(s) == SelectSeq(s, LAMBDA c : c # "cr")
CallEnds(s) == {i \in 1..Len(s) : s[i] \in {"nul", "ctrla"}}
Whole == LET e == CallEnds(RemoteFile)
         IN Kept(IF e = {} THEN RemoteFile
                 ELSE SubSeq(RemoteFile, 1, (CHOOSE i \in e : \A j \in e : i <= j) - 1))
FileTaken ==
    [][(cpc = "file" /\ cpc' = "loop" /\ rem # <<>> /\ ~pend) => file' = Whole]_callVars
=============================================================================
