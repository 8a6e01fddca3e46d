------------------------------ MODULE LogView ------------------------------
(***************************************************************************)
(* The log on the web page: the page asks for a page of the log, the       *)
(* backend cuts it out of the file, counting from the newest line, and the *)
(* answer is shown.                                                        *)
(*                                                                         *)
(* The daemon goes on writing and the file may be replaced between two     *)
(* requests.  Only the two buttons that turn the page, and the one that    *)
(* was pressed, are locked while a request is under way: the list of       *)
(* pages, the inputs for the page and for the entries per page, the other  *)
(* button and the key Enter can send the next request before the answer.   *)
(* The backend serves one message after the other and the page shows the   *)
(* answers in that order.  An answer may fail: the backend ends, or the    *)
(* text does not parse.                                                    *)
(*                                                                         *)
(* Lines are numbered by their age and a filter is the set of lines that   *)
(* it lets through.  A file that cannot be opened reads as an empty one.   *)
(***************************************************************************)
EXTENDS Integers, SequencesExt

CONSTANTS
    Filters,      \* texts to search for
    Sizes,        \* entries per page (1 to 100)
    PerPage,      \* the entries per page of a page just loaded: 20
    FirstLines,   \* the lines of the log when the page is loaded
    MaxLines,     \* bound: the lines written in all
    MaxRotations, \* bound: the files begun
    MaxClicks,    \* bound: the requests of the page
    MaxFlight,    \* bound: the requests and answers under way at once
    MaxFailures   \* bound: the answers that fail

NoFilter == 1..MaxLines

ASSUME LogAssumption ==
    /\ Filters \subseteq SUBSET NoFilter /\ NoFilter \in Filters
    /\ Sizes \subseteq Nat \ {0} /\ PerPage \in Sizes
    /\ MaxLines \in Nat /\ FirstLines \subseteq 0..MaxLines
    /\ {MaxRotations, MaxClicks, MaxFlight, MaxFailures} \subseteq Nat

VARIABLES
    log,      \* the lines from .first to .last are in the file
    at,       \* log_current_page, also the hidden input current_page
    filter,   \* the hidden inputs log_filter and per_page
    size,
    enabled,  \* the buttons that are not disabled
    shown,    \* the answer on display, with its request
    curr,     \* the page marked in the list of pages, from 1
    failed,   \* the last answer to arrive could not be shown
    asked,    \* requests the backend has not served
    answers,  \* answers the page has not got
    spent     \* history: what the bounds count

server == <<asked, answers>>
page   == <<at, filter, size, enabled, shown, curr, failed>>
vars   == <<log, page, server, spent>>

Turning  == {"prev", "next"}
Buttons  == Turning \cup {"search", "update"}
Request  == [page : Nat, filter : Filters, size : Sizes]
Answer   == [page : Nat, filter : Filters, size : Sizes, total : Nat,
             lines : Seq(NoFilter)]
Failure  == [total |-> -1]   \* no text, or one that does not parse
IsFailure(a) == a.total < 0
----------------------------------------------------------------------------
(* The backend. *)

\* The loop of GetFromFile over the lines of a file.
Passing(first, last, f) ==
    LET read[n \in 0..last] ==
            IF n < first THEN <<>>
            ELSE IF n \in f THEN Append(read[n - 1], n) ELSE read[n - 1]
    IN  read[last]

\* LogReader::GetFromFile
GetFromFile(f) == Passing(log.first, log.last, f)

\* Mutant of PagesNumber: a page that is not full is not counted.
FullPages(n, s) == n \div s

PagesNumber(n, s) == n \div s + (IF (n \div s) * s < n THEN 1 ELSE 0)

NotBelowZero(i) == IF i < 0 THEN 0 ELSE i

\* Mutant of PageOf: the newest line of the page is taken for its end.
PageShort(all, p, s) ==
    SubSeq(all, NotBelowZero(Len(all) - (p + 1) * s) + 1,
                NotBelowZero(Len(all) - p * s) - 1)

\* The newest lines are on page 0, in the order of the file.
PageOf(all, p, s) ==
    SubSeq(all, NotBelowZero(Len(all) - (p + 1) * s) + 1,
                NotBelowZero(Len(all) - p * s))

\* LogReader::GetByPage: the number asked for comes back, whether or not
\* there is such a page.
GetByPage(r) ==
    LET all == GetFromFile(r.filter)
    IN  [page |-> r.page, filter |-> r.filter, size |-> r.size,
         total |-> PagesNumber(Len(all), r.size),
         lines |-> PageOf(all, r.page, r.size)]

ReadLog ==
    /\ asked # <<>>
    /\ asked' = Tail(asked)
    /\ answers' = Append(answers, GetByPage(Head(asked)))
    /\ UNCHANGED <<log, page, spent>>

\* The backend ends while it serves the request, or the text cannot be read.
Fail ==
    /\ asked # <<>> /\ spent.failures < MaxFailures
    /\ asked' = Tail(asked)
    /\ answers' = Append(answers, Failure)
    /\ spent' = [spent EXCEPT !.failures = @ + 1]
    /\ UNCHANGED <<log, page>>
----------------------------------------------------------------------------
(* The page. *)

Ask(p, f, s) ==
    /\ spent.clicks < MaxClicks /\ Len(asked) + Len(answers) < MaxFlight
    /\ at' = p /\ filter' = f /\ size' = s
    /\ asked' = Append(asked, [page |-> p, filter |-> f, size |-> s])
    /\ spent' = [spent EXCEPT !.clicks = @ + 1]
    /\ UNCHANGED <<log, shown, curr, failed, answers>>

\* With LockLogPagination
Lock(buttons) == enabled' = enabled \ (Turning \cup buttons)

Turn(button, p) ==
    /\ button \in enabled
    /\ Ask(p, filter, size) /\ Lock({})

NextPage == at + 1 < shown.total /\ Turn("next", at + 1)
PrevPage == at > 0 /\ Turn("prev", at - 1)

\* The text in the input for the filter is taken by both buttons.
UpdateLogData(button, f) == Ask(0, f, size) /\ Lock({button})

\* Enter, and the button that clears the filter, send the event to the button
\* Filter also when that is disabled.
Search ==
    \/ \E f \in Filters : UpdateLogData("search", f)
    \/ /\ "update" \in enabled
       /\ \E f \in Filters : UpdateLogData("update", f)
    \/ filter # NoFilter /\ UpdateLogData("search", NoFilter)

\* JumpToPage, with numbers from 1.
JumpToPage(n, s) ==
    IF n >= 1 /\ n <= shown.total THEN Ask(n - 1, filter, s) /\ Lock({})
    ELSE /\ size' = s
         /\ UNCHANGED <<log, at, filter, enabled, shown, curr, failed, server, spent>>

\* DirectPageNumberInput
EnterPage(n) == n # at + 1 /\ n \in 1..shown.total /\ JumpToPage(n, size)

\* PerPageInput
EnterSize(s) == s # size /\ JumpToPage(1, s)

\* Mutant of Listed: the end of the range is not cut off.
ListedBeyond(here, total) ==
    LET start == IF here < 7 THEN 1 ELSE here - 5
        end   == IF here < 7 THEN IF total < 10 THEN total ELSE 10 ELSE here + 5
    IN  IF end <= start THEN {} ELSE start..end

\* CreatePaginationContent: the pages of the list under the log.
Listed(here, total) ==
    LET start == IF here < 7 THEN 1 ELSE here - 5
        end   == IF here < 7 THEN IF total < 10 THEN total ELSE 10
                 ELSE IF here + 5 > total THEN total ELSE here + 5
    IN  IF end <= start THEN {} ELSE start..end

Listing == Listed(curr, shown.total)

ClickPage(n) == n \in Listing \ {curr} /\ JumpToPage(n, size)

JumpBack    == Listing # {} /\ JumpToPage(IF at + 1 > 10 THEN at - 9 ELSE 1, size)
JumpForward ==
    /\ Listing # {}
    /\ JumpToPage(IF at + 11 < shown.total THEN at + 11 ELSE shown.total, size)

\* Mutant of Opened: the button Update is forgotten.
OpenedToSearch(a) ==
    {b \in Buttons \ {"update"} :
        (b = "prev" => a.page > 0) /\ (b = "next" => a.page + 1 < a.total)}

\* Mutant of Opened: off by one.
OpenedTooFar(a) ==
    {b \in Buttons :
        (b = "prev" => a.page > 0) /\ (b = "next" => a.page + 1 <= a.total)}

\* The buttons that are enabled once an answer is shown.
Opened(a) ==
    {b \in Buttons :
        (b = "prev" => a.page > 0) /\ (b = "next" => a.page + 1 < a.total)}

\* Mutant of SetLogData: what arrives is put in before it is parsed.
SetUnparsed ==
    /\ answers # <<>> /\ answers' = Tail(answers)
    /\ LET a == Head(answers)
       IN  /\ shown' = a /\ failed' = IsFailure(a)
           /\ IF IsFailure(a) THEN UNCHANGED <<at, enabled>>
              ELSE at' = a.page /\ enabled' = Opened(a)
    /\ curr' = at' + 1
    /\ UNCHANGED <<log, filter, size, asked, spent>>

\* The list is made anew also when there is nothing to show; it then marks the
\* page that was asked for last.
SetLogData ==
    /\ answers # <<>> /\ answers' = Tail(answers)
    /\ LET a == Head(answers)
       IN  /\ failed' = IsFailure(a)
           /\ IF IsFailure(a) THEN UNCHANGED <<shown, at, enabled>>
              ELSE shown' = a /\ at' = a.page /\ enabled' = Opened(a)
    /\ curr' = at' + 1
    /\ UNCHANGED <<log, filter, size, asked, spent>>
----------------------------------------------------------------------------
(* The daemon, and whoever replaces the file. *)

Write ==
    /\ log.last < MaxLines
    /\ log' = [log EXCEPT !.last = @ + 1]
    /\ UNCHANGED <<page, server, spent>>

Rotate ==
    /\ log.first <= log.last /\ spent.rotations < MaxRotations
    /\ log' = [log EXCEPT !.first = log.last + 1]
    /\ spent' = [spent EXCEPT !.rotations = @ + 1]
    /\ UNCHANGED <<page, server>>
----------------------------------------------------------------------------
\* load_recent_log, before the page can be used.
Init ==
    /\ \E n \in FirstLines : log = [first |-> 1, last |-> n]
    /\ at = 0 /\ filter = NoFilter /\ size = PerPage
    /\ shown = GetByPage([page |-> 0, filter |-> NoFilter, size |-> PerPage])
    /\ enabled = Opened(shown) /\ curr = 1
    /\ failed = FALSE
    /\ asked = <<>> /\ answers = <<>>
    /\ spent = [clicks |-> 0, failures |-> 0, rotations |-> 0]

Click ==
    \/ NextPage \/ PrevPage \/ Search \/ JumpBack \/ JumpForward
    \/ \E n \in 1..shown.total : EnterPage(n) \/ ClickPage(n)
    \/ \E s \in Sizes : EnterSize(s)

Next == Click \/ ReadLog \/ Fail \/ SetLogData \/ Write \/ Rotate

\* The backend goes on reading messages, the page shows what arrives.
Spec == Init /\ [][Next]_vars /\ WF_vars(ReadLog) /\ WF_vars(SetLogData)
----------------------------------------------------------------------------
TypeOK ==
    /\ log.first \in 1..(MaxLines + 1) /\ log.last \in (log.first - 1)..MaxLines
    /\ at \in Nat /\ curr \in Nat /\ filter \in Filters /\ size \in Sizes
    /\ enabled \subseteq Buttons /\ failed \in BOOLEAN
    /\ shown \in Answer
    /\ asked \in Seq(Request) /\ answers \in Seq(Answer \cup {Failure})

\* GetByPage cuts the log into pages without a gap or an overlap: from the last
\* to the first they make up the lines the filter lets through, and each but
\* the oldest is full.
PagesMakeUpTheLog ==
    \A f \in Filters, s \in Sizes :
        LET all  == GetFromFile(f)
            n    == PagesNumber(Len(all), s)
            Cut(p) == GetByPage([page |-> p, filter |-> f, size |-> s]).lines
        IN  /\ FlattenSeq([i \in 1..n |-> Cut(n - i)]) = all
            /\ \A p \in 0..(n - 2) : Len(Cut(p)) = s
            /\ Cut(n) = <<>>

\* Older pages while the daemon writes: the page after the one shown may repeat
\* lines, because the newer ones push them down, but skips none.
NextSkipsNothing ==
    [][/\ shown'.page = shown.page + 1
       /\ shown'.filter = shown.filter /\ shown'.size = shown.size
       /\ shown.lines # <<>> /\ shown'.lines # <<>>
       => \A line \in shown.filter :
             line < Head(shown.lines) => line <= Last(shown'.lines)]_shown

Quiet == asked = <<>> /\ answers = <<>>

\* When every answer has arrived and the last could be shown, the page of the
\* log belongs to the filter and to the number on display, however the requests
\* and the answers were interleaved, and the buttons lead to every neighbour.
ShownIsAsked ==
    Quiet /\ ~failed =>
        /\ shown.filter = filter /\ shown.page = at
        /\ "prev" \in enabled <=> at > 0
        /\ "next" \in enabled <=> at + 1 < shown.total

\* The list has the current page and both neighbours of it, when there are such
\* pages, and no page that the log did not have.
ListIsUseful ==
    /\ Listing \subseteq 1..shown.total
    /\ curr <= shown.total /\ shown.total > 1 =>
          ((curr - 1)..(curr + 1)) \cap (1..shown.total) \subseteq Listing

\* A button that was locked opens again, unless the answer failed.
LocksOpen == []<>(failed \/ {"search", "update"} \subseteq enabled)
=============================================================================
