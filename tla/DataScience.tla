----------------------------- MODULE DataScience -----------------------------
(*****************************************************************************)
(* The crawler and the frequent pattern miner of Data_Science.               *)
(*****************************************************************************)
EXTENDS Integers, Sequences, FiniteSets, FiniteSetsExt, SequencesExt

(* The crawler of Data_Science/hw1: crawl writes the articles of one year,   *)
(* page by page, to a file and the popular ones to another; push, popular    *)
(* and keyword read a file back for a range of dates and visit the articles  *)
(* found.  A page is a sequence of entries in the order they were posted; an *)
(* entry is a year (as an offset from CRAWL_YEAR), a date and three flags.   *)
CONSTANTS Boards,     \* bound: sequences of pages
          Dates,      \* the dates of a year
          Comments,   \* article number -> <<user, tag>> in the order written; users are numbers
          Keyword,    \* the articles that end with a signature and hold the word before it
          TOP         \* 10
VARIABLES
    board, pc, page, all_file, popular_file, match_url, like, boo,
    out,          \* articles whose images it has written to its file
    asked,        \* the last command and its dates
    done,         \* the last crawl ended by itself
    unlucky       \* in it the year of an article could not be found
crawlVars == <<board, pc, page, all_file, popular_file, match_url, asked, like, boo, out, unlucky, done>>

NoYear == 9          \* the article has no header with a time, or was not sent
Select(s, P(_)) ==
    LET sel[i \in 0..Len(s)] == IF i = 0 THEN <<>> ELSE sel[i - 1] \o (IF P(s[i]) THEN <<s[i]>> ELSE <<>>)
    IN sel[Len(s)]

CrawlInit == /\ board \in Boards /\ pc = "get" /\ page = 1
             /\ all_file = <<>> /\ popular_file = <<>>
             /\ match_url = <<>> /\ like = <<>> /\ boo = <<>> /\ out = <<>> /\ asked = <<"none", 0, 0>>
             /\ unlucky = FALSE /\ done = FALSE

valid_rule(rent) == rent.ok
valid(list) == Select(list, valid_rule)
ispopular(rent) == rent.hot

\* get (): any answer but 200, or an exception, ends the program.  What was
\* written is flushed as it exits.
get(next) == \/ pc' = next
             \/ pc' = "exit"
Get == /\ pc = "get" /\ get("page")
       /\ UNCHANGED <<board, page, all_file, popular_file, match_url, asked, like, boo, out, unlucky, done>>

\* year () asks again for the article, and does not look at the status.
year(rent) == {rent.year, NoYear}

\* Pages of one year are kept or dropped as a whole; on the page where the year
\* begins or ends each entry is asked for its year again, lost are the ones
\* without an answer.
rent_list(list, ys, ye, lost) ==
    LET inYear(rent) == rent.year = 0 /\ rent.n \notin lost
    IN IF (ys = -1 /\ ye = -1) \/ ys = 1 THEN <<>>
       ELSE IF (ys = -1 /\ ye = 0) \/ (ys = 0 /\ ye = 1) THEN Select(list, inYear)
       ELSE list
PastYear(ys, ye) == (ys = 0 /\ ye = 1) \/ ys = 1

\* The year of the first and of the last valid entry decides what is written;
\* behind the last page there is no address to go on with.
crawl ==
    LET list == valid(board[page])
    IN /\ pc = "page" /\ list # <<>>
       /\ \E ys \in year(list[1]), ye \in year(list[Len(list)]), lost \in SUBSET {list[1].n} :
            LET kept == rent_list(list, ys, ye, lost)
            IN /\ all_file' = all_file \o kept
               /\ popular_file' = popular_file \o Select(kept, ispopular)
               /\ pc' = IF PastYear(ys, ye) \/ page = Len(board) THEN "exit" ELSE "get"
               /\ done' = PastYear(ys, ye)
               /\ unlucky' = (unlucky \/ NoYear \in {ys, ye} \/ lost # {})
               /\ page' = IF page < Len(board) THEN page + 1 ELSE page
       /\ UNCHANGED <<board, match_url, asked, like, boo, out>>

\* A page without a valid entry: rent_list[0] raises an exception.
NoEntry == /\ pc = "page" /\ valid(board[page]) = <<>> /\ pc' = "exit"
           /\ UNCHANGED <<board, page, all_file, popular_file, match_url, asked, like, boo, out, unlucky, done>>

\* crawl once more: both files are emptied as they are opened.
Again == /\ pc = "exit" /\ pc' = "get" /\ page' = 1
         /\ all_file' = <<>> /\ popular_file' = <<>> /\ unlucky' = FALSE /\ done' = FALSE
         /\ UNCHANGED <<board, match_url, asked, like, boo, out>>

\* find_match_url (): up to the first line behind the range.
First(S, n) == IF S = {} THEN n ELSE CHOOSE i \in S : \A j \in S : i <= j
find_match_url(file, from, to) ==
    LET in(rent) == rent.date >= from /\ rent.date <= to
    IN Select(SubSeq(file, 1, First({i \in DOMAIN file : file[i].date > to}, Len(file))), in)

\* push, popular and keyword open their file, also one that crawl left unfinished.
Command(kind, from, to) ==
    /\ pc = "exit" /\ pc' = "visit" /\ page' = 1 /\ asked' = <<kind, from, to>>
    /\ match_url' = find_match_url(IF kind = "popular" THEN popular_file ELSE all_file, from, to)
    /\ like' = <<>> /\ boo' = <<>> /\ out' = <<>>
    /\ UNCHANGED <<board, all_file, popular_file, unlucky, done>>

\* One article after the other; push counts its comments.
Tagged(n, t) == LET is(c) == c[2] = t IN Select(Comments[n], is)
push == /\ asked[1] = "push" /\ UNCHANGED out
        /\ like' = like \o Tagged(match_url[page].n, "push")
        /\ boo' = boo \o Tagged(match_url[page].n, "boo")
popular == asked[1] = "popular" /\ out' = Append(out, match_url[page].n) /\ UNCHANGED <<like, boo>>
keyword == /\ asked[1] = "keyword" /\ UNCHANGED <<like, boo>>
           /\ out' = IF match_url[page].n \in Keyword THEN Append(out, match_url[page].n) ELSE out
Ended == /\ pc' = "exit" /\ page' = 1 /\ match_url' = <<>> /\ like' = <<>> /\ boo' = <<>> /\ out' = <<>>
         /\ asked' = <<"none", 0, 0>>
Visit == /\ pc = "visit" /\ page <= Len(match_url)
         /\ \/ Ended
            \/ (push \/ popular \/ keyword) /\ page' = page + 1 /\ UNCHANGED <<pc, match_url, asked>>
         /\ UNCHANGED <<board, all_file, popular_file, unlucky, done>>

\* findtop10 (): by number, then by name.
Times(s, u) == Cardinality({i \in DOMAIN s : s[i][1] = u})
Users(s) == {s[i][1] : i \in DOMAIN s}
Before(s, u, v) == Times(s, u) > Times(s, v) \/ (Times(s, u) = Times(s, v) /\ u < v)
findtop10(s) == {u \in Users(s) : Cardinality({v \in Users(s) : Before(s, v, u)}) < TOP}
Finished == pc = "visit" /\ page > Len(match_url)
Written == /\ Finished /\ Ended
           /\ UNCHANGED <<board, all_file, popular_file, unlucky, done>>

CrawlNext == \/ Get \/ crawl \/ NoEntry \/ Again \/ Visit \/ Written
             \/ \E kind \in {"push", "popular", "keyword"}, from, to \in Dates : Command(kind, from, to)

(* ------------------------------ properties ----------------------------- *)
\* A page that begins in the year before and ends in the one after: the tests of
\* crawl have no case for it.
Spans(list) == list # <<>> /\ list[1].year < 0 /\ list[Len(list)].year > 0
AllPages(P(_, _)) ==
    LET cat[i \in 0..Len(board)] ==
          IF i = 0 THEN <<>>
          ELSE LET in(rent) == P(valid(board[i]), rent) IN cat[i - 1] \o Select(valid(board[i]), in)
    IN cat[Len(board)]
Wanted == LET is(list, rent) == rent.year = 0 IN AllPages(is)
Kept == LET is(list, rent) == rent.year = 0 \/ Spans(list) IN AllPages(is)
IsPrefixOf(s, t) == Len(s) <= Len(t) /\ s = SubSeq(t, 1, Len(s))

\* The file holds the valid articles of the year, in order, and others only from
\* a page that begins before the year and ends after it, which is kept as a
\* whole: all of them when crawl ended by itself, and the first ones when the
\* site stopped answering, unless the year of an article could not be found.
YearExact == unlucky \/ (IsPrefixOf(all_file, Kept) /\ (done => all_file = Kept))

\* A query after a full crawl visits every article of its dates, of all or of
\* the popular ones, although it stops reading at the first later line.  It,
\* and the next two, hold for a file of the year alone.
FullYear == done /\ ~unlucky /\ Kept = Wanted
QueryExact ==
    pc = "visit" /\ FullYear =>
        LET in(rent) == /\ rent.date >= asked[2] /\ rent.date <= asked[3]
                        /\ asked[1] = "popular" => rent.hot
        IN match_url = Select(Wanted, in)

\* When popular or keyword has come to its end, its file lists the images of
\* exactly the articles asked for on the board, in the order they were posted.
ImagesExact ==
    Finished /\ FullYear /\ asked[1] # "push" =>
        LET is(rent) == /\ rent.date \in asked[2]..asked[3]
                        /\ IF asked[1] = "popular" THEN rent.hot ELSE rent.n \in Keyword
        IN out = [i \in DOMAIN Select(Wanted, is) |-> Select(Wanted, is)[i].n]

\* The users push reports are the ones who liked most often in the articles of
\* these dates on the board, counted article by article.
Liked(u) == LET S == {i \in DOMAIN Wanted : Wanted[i].date \in asked[2]..asked[3]}
            IN Cardinality({p \in S \X (1..9) : /\ p[2] \in DOMAIN Comments[Wanted[p[1]].n]
                                               /\ Comments[Wanted[p[1]].n][p[2]] = <<u, "push">>})
TopRight ==
    Finished /\ FullYear /\ asked[1] = "push" =>
        \A u \in findtop10(like), v \in Users(like) \ findtop10(like) : Liked(u) >= Liked(v)

-----------------------------------------------------------------------------
(* The frequent pattern miner of Data_Science/hw2 (fpgrowth.cc, main.cc): a  *)
(* first scan of the file counts the items, a second one builds the tree,    *)
(* FindPattern () mines it.  A transaction is the set of items of a line.    *)
CONSTANTS Items,       \* natural numbers
          MAXLINES,    \* bound: lines of the file
          Supports     \* min_support_, as <<numerator, power of two>>: exact doubles
VARIABLES phase, transactions, line, min_support_, item_frequency_, total_transactions_,
          min_support_count_, fptree, result
fpVars == <<phase, transactions, line, min_support_, item_frequency_, total_transactions_,
            min_support_count_, fptree, result>>

NoMap == [s \in {} |-> 0]
Root == 0
FpInit ==
    /\ phase = "first" /\ transactions = <<>> /\ line = 1 /\ min_support_ \in Supports
    /\ item_frequency_ = [i \in {} |-> 0] /\ total_transactions_ = 0 /\ min_support_count_ = 0
    /\ fptree = <<>> /\ result = NoMap

(* --- FPTree: the nodes in the order they were made.  The children of a     *)
(* node, and the next chain of an item's header, are in that order too.      *)
Kids(tree, n) == {c \in DOMAIN tree : tree[c].parent = n}
Chain(tree, item) == {c \in DOMAIN tree : tree[c].item = item}
header(tree) == {tree[c].item : c \in DOMAIN tree}

\* Mutant of Insert: an item that is there is not counted.
Insert_Lost(at, item, repeat) ==
    LET pos == {c \in Kids(at.tree, at.node) : at.tree[c].item = item}
    IN IF pos = {}
       THEN [tree |-> Append(at.tree, [item |-> item, parent |-> at.node, frequency |-> repeat]),
             node |-> Len(at.tree) + 1]
       ELSE [tree |-> at.tree, node |-> Min(pos)]

\* One item below the current node: a new node, or a higher frequency.
Insert(at, item, repeat) ==
    LET pos == {c \in Kids(at.tree, at.node) : at.tree[c].item = item}
    IN IF pos = {}
       THEN [tree |-> Append(at.tree, [item |-> item, parent |-> at.node, frequency |-> repeat]),
             node |-> Len(at.tree) + 1]
       ELSE [tree |-> [at.tree EXCEPT ![Min(pos)].frequency = @ + repeat], node |-> Min(pos)]
\* The transaction is walked from its end.
InsertNodes(tree, trans, repeat) ==
    FoldRight(LAMBDA item, at : Insert(at, item, repeat), trans, [tree |-> tree, node |-> Root]).tree

\* std::map::insert: a key already there keeps its value.
Put(map, new) == [s \in DOMAIN map \cup DOMAIN new |-> IF s \in DOMAIN map THEN map[s] ELSE new[s]]
PutAll(map, keys, count) == Put(map, [s \in keys |-> count])

IsSinglePath(tree) == \A n \in {Root} \cup DOMAIN tree : Cardinality(Kids(tree, n)) <= 1
\* On a single path: every set of its items, at the frequency of the lowest.
SinglePath(tree) ==
    FoldLeft(LAMBDA map, n : LET one == PutAll(map, {{n.item}}, n.frequency)
                             IN PutAll(one, {s \cup {n.item} : s \in DOMAIN one}, n.frequency),
             NoMap, tree)

\* The items above a node, nearest first.
RECURSIVE Above(_, _)
Above(tree, n) ==
    IF tree[n].parent = Root THEN <<>>
    ELSE <<tree[tree[n].parent].item>> \o Above(tree, tree[n].parent)
conditional_frequency(tree, item, x) ==
    MapThenSumSet(LAMBDA n : IF x \in ToSet(Above(tree, n)) THEN tree[n].frequency ELSE 0, Chain(tree, item))
one_item_frequency(tree, item) == MapThenSumSet(LAMBDA n : tree[n].frequency, Chain(tree, item))
conditional_fptree(tree, item) ==
    LET keep(n) == SelectSeq(Above(tree, n), LAMBDA x : conditional_frequency(tree, item, x) >= min_support_count_)
    IN FoldLeft(LAMBDA t, n : InsertNodes(t, keep(n), tree[n].frequency), <<>>,
                SetToSortSeq(Chain(tree, item), <))

RECURSIVE FindPattern(_)
FindPattern(tree) ==
    IF IsSinglePath(tree) THEN SinglePath(tree)
    ELSE FoldLeft(LAMBDA map, item :
                    LET pattern == FindPattern(conditional_fptree(tree, item))
                        longer == [s \in {t \cup {item} : t \in DOMAIN pattern} |-> pattern[s \ {item}]]
                    IN PutAll(Put(map, longer), {{item}}, one_item_frequency(tree, item)),
                  NoMap, SetToSortSeq(header(tree), <))

(* --- the program                                                           *)
CountItemFrequency(trans) ==
    /\ item_frequency_' = [i \in DOMAIN item_frequency_ \cup trans |->
            (IF i \in DOMAIN item_frequency_ THEN item_frequency_[i] ELSE 0) + (IF i \in trans THEN 1 ELSE 0)]
    /\ total_transactions_' = total_transactions_ + 1
FirstScan(trans) ==
    /\ phase = "first" /\ Len(transactions) < MAXLINES
    /\ transactions' = Append(transactions, trans) /\ CountItemFrequency(trans)
    /\ UNCHANGED <<phase, line, min_support_, min_support_count_, fptree, result>>
\* The end of the file; a last line without a newline is not counted.
CalculateMinSupportCount ==
    /\ phase = "first" /\ phase' = "second"
    /\ min_support_count_' = (min_support_[1] * total_transactions_) \div min_support_[2]
    /\ UNCHANGED <<transactions, line, min_support_, item_frequency_, total_transactions_, fptree, result>>

Rarer(x, y) ==
    IF item_frequency_[x] = item_frequency_[y] THEN x < y ELSE item_frequency_[x] < item_frequency_[y]
\* Sorted by frequency; what is before the first frequent item goes.
SortAndTrimTransaction(trans) ==
    SetToSortSeq({i \in trans : item_frequency_[i] >= min_support_count_}, Rarer)
SecondScan ==
    /\ phase = "second" /\ line <= Len(transactions)
    /\ fptree' = InsertNodes(fptree, SortAndTrimTransaction(transactions[line]), 1)
    /\ line' = line + 1
    /\ UNCHANGED <<phase, transactions, min_support_, item_frequency_, total_transactions_, min_support_count_, result>>
Mine ==
    /\ phase = "second" /\ line > Len(transactions)
    /\ result' = FindPattern(fptree) /\ phase' = "done"
    /\ UNCHANGED <<transactions, line, min_support_, item_frequency_, total_transactions_, min_support_count_, fptree>>

FpNext == (\E trans \in SUBSET Items : FirstScan(trans)) \/ CalculateMinSupportCount \/ SecondScan \/ Mine

-----------------------------------------------------------------------------
Support(s, lines) == Cardinality({k \in lines : s \subseteq transactions[k]})
\* The patterns found are the sets of items that as many lines hold as the
\* minimum support asks, rounded down to whole lines (and one at least): every
\* set that has the minimum support, and none that misses it by a line, each
\* with its number of lines (FindPattern).
PatternsRight ==
    phase = "done" =>
        LET lines(s) == Support(s, DOMAIN transactions)
            frequent == {s \in SUBSET Items \ {{}} :
                /\ lines(s) > 0
                /\ (lines(s) + 1) * min_support_[2] > min_support_[1] * Len(transactions)}
        IN result = [s \in frequent |-> lines(s)]
\* While the tree grows, the header chain of an item adds up to the lines read
\* with that item, and a node counts no fewer lines than its children together
\* (InsertNodes after SortAndTrimTransaction).
TreeAddsUp ==
    /\ \A i \in header(fptree) : one_item_frequency(fptree, i) = Support({i}, 1..(line - 1))
    /\ \A n \in DOMAIN fptree :
           fptree[n].frequency >= MapThenSumSet(LAMBDA c : fptree[c].frequency, Kids(fptree, n))
=============================================================================
