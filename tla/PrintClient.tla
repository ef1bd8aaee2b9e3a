----------------------------- MODULE PrintClient -----------------------------
(*****************************************************************************)
(* The two dialogs of the print spooler: the print command with the spooler, *)
(* and the spooler with the printer.                                         *)
(*****************************************************************************)
EXTENDS Sequences, FiniteSets, Integers

(* The print command (apue.2e/ipp/print.c with util.c, and connect_retry (), *)
(* readn () and writen () of the library), against a spooler that answers a  *)
(* request, refuses it or dies.  The file is NBLOCKS buffers, the answer is  *)
(* read in PIECES pieces.                                                    *)
CONSTANTS Configs,     \* configuration files: sequences of lines, as sequences of words
          NADDR,       \* addresses of the server
          MAXSLEEP,
          NBLOCKS, PIECES
VARIABLES conf, pc, aip, nsec, tries, slept,
          socks,             \* the addresses a socket was made for
          sent, taken,       \* buffers written, and taken by the spooler
          srv,               \* the spooler's side
          arrived, had,      \* pieces of the answer sent, and read
          faulty,            \* read () of the file fails from some point on
          shown
clientVars == <<conf, pc, aip, nsec, tries, slept, socks, sent, taken, srv, arrived, had, faulty, shown>>

ClientInit ==
    /\ conf \in Configs /\ pc = "open" /\ aip = 1 /\ nsec = 1 /\ slept = 0 /\ socks = {}
    /\ tries = [a \in 1..NADDR |-> 0] /\ sent = 0 /\ taken = 0 /\ srv = "none"
    /\ arrived = 0 /\ had = 0 /\ faulty = FALSE /\ shown = "nothing"

server == <<taken, srv, arrived>>
Says(what, at) == shown' = what /\ pc' = at

\* The first line of two words or more with the keyword first; "" is NULL.
scan_configfile(keyword) ==
    LET fit == {i \in DOMAIN conf : Len(conf[i]) >= 2 /\ conf[i][1] = keyword}
    IN IF fit = {} THEN "" ELSE conf[CHOOSE i \in fit : \A j \in fit : i <= j][2]
get_printserver == scan_configfile("printserver")

\* The file opens and is a regular one, the configuration names a server, and
\* its addresses are found; or the command ends.
Open ==
    /\ pc = "open"
    /\ \/ get_printserver # "" /\ pc' = "socket" /\ UNCHANGED shown
       \/ Says("cannot start", "end")
    /\ UNCHANGED <<conf, aip, nsec, tries, slept, socks, sent, had, faulty, server>>

\* The next address, passed over when there is no socket for it; a socket that
\* did not connect is not closed.
Socket ==
    /\ pc = "socket"
    /\ \/ aip > NADDR /\ Says("can't contact", "end") /\ UNCHANGED <<socks, nsec, aip>>
       \/ aip <= NADDR /\ pc' = "connect" /\ socks' = socks \cup {aip} /\ nsec' = 1 /\ UNCHANGED <<shown, aip>>
       \/ aip <= NADDR /\ aip' = aip + 1 /\ UNCHANGED <<pc, socks, nsec, shown>>
    /\ UNCHANGED <<conf, tries, slept, sent, had, faulty, server>>
connect_retry ==
    /\ pc = "connect" /\ tries' = [tries EXCEPT ![aip] = @ + 1]
    /\ \/ pc' = "header" /\ srv' = "head" /\ UNCHANGED <<aip, nsec, slept>>
       \/ /\ slept' = slept + (IF nsec <= MAXSLEEP \div 2 THEN nsec ELSE 0)
          /\ IF 2 * nsec <= MAXSLEEP THEN nsec' = 2 * nsec /\ UNCHANGED <<pc, aip>>
             ELSE pc' = "socket" /\ aip' = aip + 1 /\ UNCHANGED nsec
          /\ UNCHANGED srv
    /\ UNCHANGED <<conf, socks, sent, had, faulty, shown, taken, arrived>>

(* -------------------------------- submit_file -------------------------- *)
\* writen () to a spooler that has closed its side fails, or SIGPIPE kills.
Refuses == srv \in {"ok", "refused", "dead"}
Header ==
    /\ pc = "header"
    /\ \/ pc' = "file" /\ UNCHANGED shown
       \/ Refuses /\ Says("can't write", "end")
    /\ UNCHANGED <<conf, aip, nsec, tries, slept, socks, sent, had, faulty, server>>
\* A read () that fails gives -1, and so does writen () of that many bytes: the
\* loop goes on, for ever when the error stays.
Send ==
    /\ pc = "file"
    /\ \/ ~faulty /\ sent < NBLOCKS /\ sent' = sent + 1 /\ UNCHANGED <<pc, shown, faulty>>
       \/ ~faulty /\ sent < NBLOCKS /\ Refuses /\ Says("can't write", "end") /\ UNCHANGED <<sent, faulty>>
       \/ ~faulty /\ sent = NBLOCKS /\ pc' = "response" /\ UNCHANGED <<sent, shown, faulty>>
       \/ ~faulty /\ sent < NBLOCKS /\ faulty' = TRUE /\ UNCHANGED <<pc, sent, shown>>
    /\ UNCHANGED <<conf, aip, nsec, tries, slept, socks, had, server>>
readn ==
    /\ pc = "response" /\ had < arrived /\ had' = had + 1
    /\ UNCHANGED <<conf, pc, aip, nsec, tries, slept, socks, sent, faulty, shown, server>>
Response ==
    /\ pc = "response"
    /\ \/ had = PIECES /\ Says(IF srv = "refused" THEN "rejected" ELSE "job ID", "end")
       \/ had < PIECES /\ had = arrived /\ srv = "dead" /\ Says("can't read", "end")
    /\ UNCHANGED <<conf, aip, nsec, tries, slept, socks, sent, had, faulty, server>>
Command == Open \/ Socket \/ connect_retry \/ Header \/ Send \/ readn \/ Response

(* ---------------------------- the spooler's side ----------------------- *)
client == <<conf, pc, aip, nsec, tries, slept, socks, sent, had, faulty, shown>>
\* treadn () of the header and tread () of each buffer; at the time-out, or the
\* client's end, the document is what has come.
Take == /\ srv \in {"head", "blocks"} /\ taken < sent /\ srv' = "blocks" /\ taken' = taken + 1
        /\ UNCHANGED <<client, arrived>>
Timeout == /\ srv \in {"head", "blocks"} /\ taken = sent /\ srv' = "ok" /\ UNCHANGED <<client, taken, arrived>>
Refuse == /\ srv \in {"head", "blocks"} /\ srv' = "refused" /\ UNCHANGED <<client, taken, arrived>>
Answer == /\ srv \in {"ok", "refused"} /\ arrived < PIECES /\ arrived' = arrived + 1
          /\ UNCHANGED <<client, taken, srv>>
Die == srv \in {"head", "blocks", "ok", "refused"} /\ srv' = "dead" /\ UNCHANGED <<client, taken, arrived>>
Spooler == Take \/ Timeout \/ Refuse \/ Answer \/ Die

ClientNext == Command \/ Spooler
ClientSpec == ClientInit /\ [][ClientNext]_clientVars /\ WF_clientVars(Command) /\ WF_clientVars(Spooler)

-----------------------------------------------------------------------------
\* "can't contact" is said only after each address for which there was a socket was
\* tried as often as the pauses double up to MAXSLEEP, with no pause after the
\* last try, and the list of addresses was gone through.
Doublings == Cardinality({k \in 0..10 : 2^k <= MAXSLEEP})
ContactTried ==
    shown = "can't contact" =>
      /\ aip = NADDR + 1
      /\ \A a \in 1..NADDR : tries[a] = IF a \in socks THEN Doublings ELSE 0
      /\ slept = Cardinality(socks) * (MAXSLEEP - 1)

\* A job is called accepted only when the spooler's whole answer said so.
IdTrue == shown = "job ID" => arrived = PIECES /\ sent = NBLOCKS

\* The command comes to an end, unless the file cannot be read.
EndsAtLast == <>(pc = "end" \/ faulty)

-----------------------------------------------------------------------------
(***************************************************************************)
(* printd.c's printer_status (): the printer's answer, read in the pieces  *)
(* the network gives it in and parsed as far as it has come.  The answer   *)
(* is a sequence of tokens: a status line ("100", "200" or "500"), headers *)
(* ("h" any line, "C" "L" the two halves of "Content-Length:"), "n" "r"    *)
(* "n" that end them, and an IPP part of "ok", "bad" or "other" (the       *)
(* header's status and request id) and attributes "a".                     *)
(***************************************************************************)
CONSTANTS Answers

VARIABLES answer,   \* what the printer sends
          statusSent,     \* tokens of it that were read
          reads,    \* calls of tread () that returned data
          bp,       \* the buffer
          pos,        \* the next token to look at; nr is Len(bp)
          spc, success

statusVars == <<answer, statusSent, reads, bp, pos, spc, success>>

StatusInit ==
    /\ answer \in Answers /\ statusSent = 0 /\ reads = 0 /\ bp = <<>> /\ pos = 1
    /\ spc = "first" /\ success = FALSE

\* The Content-Length of the response that follows those of the 100s: what is
\* behind the last blank line.
Length == LET b == {k \in 1..Len(answer) : answer[k] = "n" /\ k > 2 /\ answer[k-1] = "r"}
          IN  Len(answer) - (CHOOSE k \in b : \A l \in b : k >= l)
Infos == {k \in 1..Len(answer) : answer[k] = "100"}

\* tread (): what has come of the answer, at an offset of the buffer; or the
\* time-out or the end, that give up.
Piece(off, to) ==
    \/ \E k \in 1..(Len(answer) - statusSent) :
          /\ bp' = SubSeq(bp, 1, off - 1) \o SubSeq(answer, statusSent + 1, statusSent + k)
          /\ statusSent' = statusSent + k /\ reads' = reads + 1 /\ spc' = to
    \/ spc' = "done" /\ UNCHANGED <<bp, statusSent, reads>>

ReadFirst ==
    /\ spc = "first" /\ Piece(1, "status") /\ pos' = 1
    /\ UNCHANGED <<answer, success>>

\* An answer of the 100s is skipped with all that came in the same piece.
Status ==
    /\ spc = "status"
    /\ spc' = CASE bp[1] = "500" -> "done" [] bp[1] = "200" -> "length" [] OTHER -> "first"
    /\ pos' = 2 /\ UNCHANGED <<answer, statusSent, reads, bp, success>>

readmore(to) == Piece(pos, to)

\* The search for Content-Length; a header that came in two pieces is missed.
FindLength ==
    /\ spc = "length" /\ UNCHANGED <<answer, success>>
    /\ \/ pos > Len(bp) /\ readmore("length") /\ UNCHANGED pos
       \/ /\ pos <= Len(bp) /\ UNCHANGED <<statusSent, reads, bp>>
          /\ IF bp[pos] = "C" /\ pos < Len(bp) /\ bp[pos + 1] = "L"
               THEN pos' = pos + 2 /\ spc' = "more"
               ELSE pos' = pos + 1 /\ UNCHANGED spc

MoreHeader ==
    /\ spc = "more" /\ UNCHANGED <<answer, pos, success>>
    /\ IF pos > Len(bp) THEN readmore("end") ELSE spc' = "end" /\ UNCHANGED <<statusSent, reads, bp>>

Blank(k) == bp[k] = "n" /\ bp[k + 1] = "r" /\ bp[k + 2] = "n"
Blanks == {k \in pos..(Len(bp) - 2) : Blank(k)}

\* The search for the blank line.  When it is not in the buffer the index stops
\* two short of the end, nothing more is read, and the loop goes round for ever.
FindEnd ==
    /\ spc = "end" /\ UNCHANGED <<answer, success>>
    /\ IF Blanks # {}
         THEN LET k == CHOOSE k \in Blanks : \A l \in Blanks : k <= l IN
              /\ pos' = k + 3 /\ spc' = "ended" /\ UNCHANGED <<statusSent, reads, bp>>
         ELSE spc' = "spin" /\ UNCHANGED <<statusSent, reads, bp, pos>>

\* At the end of the buffer another piece is read; found ends the loop.
Ended ==
    /\ spc = "ended" /\ UNCHANGED <<answer, pos, success>>
    /\ IF pos > Len(bp) THEN readmore("body") ELSE spc' = "body" /\ UNCHANGED <<statusSent, reads, bp>>

\* A part of the IPP answer that has come is read over by the rest of it.
Body ==
    /\ spc = "body" /\ UNCHANGED <<answer, pos, success>>
    /\ IF Len(bp) - pos + 1 < Length THEN readmore("ipp")
       ELSE spc' = "ipp" /\ UNCHANGED <<statusSent, reads, bp>>

Ipp ==
    /\ spc = "ipp" /\ spc' = "done"
    /\ success' = (pos <= Len(bp) /\ bp[pos] = "ok")
    /\ UNCHANGED <<answer, statusSent, reads, bp, pos>>

Stay == spc \in {"spin", "done"} /\ UNCHANGED statusVars

StatusNext == ReadFirst \/ Status \/ FindLength \/ MoreHeader \/ FindEnd \/ Ended \/ Body \/ Ipp \/ Stay

StatusSpec == StatusInit /\ [][StatusNext]_statusVars /\ WF_statusVars(StatusNext)

(* ------------------------------ properties ----------------------------- *)
StatusSays(t) == \E k \in 1..Len(answer) : answer[k] = t

\* printer_status () calls a job printed only when the printer said so of this
\* job: the data and the request are removed on its word.
SuccessTrue == success => StatusSays("ok") /\ StatusSays("200")

\* An answer that comes in one piece is understood.
OnePieceRight ==
    spc = "done" /\ reads = 1 /\ statusSent = Len(answer) /\ Infos = {} =>
        success = (StatusSays("ok") /\ StatusSays("200"))

\* The printer thread can be caught in the loop only by an answer whose
\* header came in more than one piece.
SpinsOnlySplit == spc = "spin" => statusSent < Len(answer) \/ reads > 1
=============================================================================
