------------------------------ MODULE WorkloadPage -----------------------------
(***************************************************************************)
(* The page /workload in a browser: a request (columns, order, window) is  *)
(* read from a URL, turned into a query and rendered with links to other   *)
(* requests; htmx follows them, replaces the page and the browser's URL,   *)
(* and on an error keeps both.  A window is fixed by start and end, or a   *)
(* range that ends at the current hour; the handler looks at the clock     *)
(* anew each time it needs such a window, and the hour may turn meanwhile. *)
(*                                                                         *)
(* Times are half hours, apart from the zero time; those in URLs are of    *)
(* zones a number of hours from UTC, as the ones the page writes are, so   *)
(* that TruncateHour, which works in the zone of the time, cuts them at    *)
(* hours of UTC.  Columns are a set: the query has its own order of        *)
(* columns, and UnmarshalWorkloadRequest removes duplicates.  The text of  *)
(* an order is split at a last " desc" or " asc", as the code does.        *)
(***************************************************************************)
EXTENDS Integers

CONSTANTS
    Cols,           \* queries.Cols(): the columns the query knows
    Labels,         \* columns label_...
    BadLabels,      \* those of them that make no SQL: refused by labelRegex, or
                    \* with a "-" or "." in the alias, which is not quoted
    Texts,          \* other texts that a URL has as columns and orders
    Sorts,          \* for the orders by an expression or a position, as "1" or
                    \* "namespace DESC", the selections PostgreSQL takes them with
    Ranges,         \* durations offered by the page, in half hours
    Day,            \* the range "24h"
    Zero,           \* the zero time: no start, no end
    Bookmarks,      \* URLs that a user types
    InputTimes,     \* times that a user sets in the inputs of the page
    FirstTime,      \* the time of the first request
    MaxNow,         \* bound: the clock
    MinTime,        \* bounds: how far back and how far into the future a user
    MaxTime         \* pages

Hour == 2
NoRange == 0
NoOrder == [col |-> "", dir |-> ""]

AllCols == Cols \union Labels \union Texts
Order == [col : AllCols \union {""}, dir : {"", "asc", "desc"}]

Time == Int \union {Zero}

Expressions == DOMAIN Sorts

\* What a URL carries, and what WorkloadRequest is read from it.
Request == [cols : SUBSET AllCols, order : Order, range : Nat, start : Time, end : Time]

ASSUME WorkloadPageAssumption ==
    /\ BadLabels \subseteq Labels
    /\ Cols \intersect (Labels \union Texts) = {}
    /\ Labels \intersect Texts = {}
    /\ "" \notin AllCols
    /\ Expressions \subseteq {order \in Order : order.col \in Texts}
    \* What is selected besides does not matter.
    /\ \A order \in Expressions : \A S, T \in SUBSET (Cols \union Labels) :
          S \in Sorts[order] /\ S \subseteq T => T \in Sorts[order]
    /\ Ranges \subseteq Nat \ {0}
    /\ Day \in Ranges
    /\ Zero \notin Int
    /\ Bookmarks \subseteq Request
    /\ InputTimes \subseteq Nat
    /\ {FirstTime, MaxNow, MinTime, MaxTime} \subseteq Nat

VARIABLES
    now,        \* the clock
    page,       \* what the browser shows
    inputs,     \* what its two inputs of dates hold
    location,   \* the browser's URL
    alert       \* an error is shown above the page

vars == <<now, page, inputs, location, alert>>

TruncateHour(t) == t - (t % Hour)
WholeHours(t) == t % Hour = 0

--------------------------------------------------------------------------------
(* Reading and writing URLs.                                                  *)

\* Mutated form of UnmarshalWorkloadRequest: start and end keep their minutes.
UnmarshalWorkloadRequest_KeepsMinutes(url) ==
    IF url.range = NoRange /\ url.start # Zero /\ url.end # Zero THEN url
    ELSE [url EXCEPT !.range = IF @ = NoRange THEN Day ELSE @, !.start = Zero, !.end = Zero]

\* A range goes before start and end, of which both must be there; else a day.
UnmarshalWorkloadRequest(url) ==
    IF url.range = NoRange /\ url.start # Zero /\ url.end # Zero
    THEN [url EXCEPT !.start = TruncateHour(@), !.end = TruncateHour(@)]
    ELSE [url EXCEPT !.range = IF @ = NoRange THEN Day ELSE @, !.start = Zero, !.end = Zero]

\* Mutated form of Link: the order is kept whatever the columns are.
Link_KeepsOrder(r) ==
    [r EXCEPT !.start = IF r.range = NoRange THEN @ ELSE Zero,
              !.end = IF r.range = NoRange THEN @ ELSE Zero]

\* Mutated form of Link: only the suffix " asc" is cut off before the order is
\* looked up among the columns.
Link_TrimsAscOnly(r) ==
    [r EXCEPT !.order = IF @.col \in r.cols /\ @.dir # "desc" THEN @ ELSE NoOrder,
              !.start = IF r.range = NoRange THEN @ ELSE Zero,
              !.end = IF r.range = NoRange THEN @ ELSE Zero]

\* urlValues: the order goes with its column; start and end give way to a range.
Link(r) ==
    [r EXCEPT !.order = IF @.col \in r.cols THEN @ ELSE NoOrder,
              !.start = IF r.range = NoRange THEN @ ELSE Zero,
              !.end = IF r.range = NoRange THEN @ ELSE Zero]

--------------------------------------------------------------------------------
(* The window of a request, the clock being read at t.                        *)

\* rangeToStartEnd: up to the current hour.
StartDate(r, t) == IF r.range = NoRange THEN r.start ELSE TruncateHour(t) - r.range
EndDate(r, t) == IF r.range = NoRange THEN r.end ELSE TruncateHour(t)

Window(r, t) == [start |-> StartDate(r, t), end |-> EndDate(r, t)]

Moved(r, start, end) == Link([r EXCEPT !.start = start, !.end = end, !.range = NoRange])

\* Mutated form of LinkPrev: one hour too few.
LinkPrev_Inclusive(r, t, u) ==
    LET dur == EndDate(r, u) - StartDate(r, t) + Hour
    IN  Moved(r, StartDate(r, t) - dur, EndDate(r, u) - dur)

\* StartDate and EndDate read the clock one after the other, at t and at u.
LinkPrev(r, t, u) ==
    LET dur == EndDate(r, u) - StartDate(r, t)
    IN  Moved(r, StartDate(r, t) - dur, EndDate(r, u) - dur)

LinkNext(r, t, u) ==
    LET dur == EndDate(r, u) - StartDate(r, t)
    IN  Moved(r, StartDate(r, t) + dur, EndDate(r, u) + dur)

LinkRange(r, range) == Link([r EXCEPT !.range = range])

LinkToggleCol(r, c) ==
    Link([r EXCEPT !.cols = IF c \in @ THEN @ \ {c} ELSE @ \union {c}])

\* A column that orders already turns around, any other begins ascending.
Toggled(order, c) ==
    [col |-> c,
     dir |-> IF order.col # c THEN "" ELSE IF order.dir = "desc" THEN "asc" ELSE "desc"]

LinkToggleOrder(r, c) == Link([r EXCEPT !.order = Toggled(@, c)])

\* The script adds to the browser's URL, not to the page's request.
AddLabel(url, l) == [url EXCEPT !.cols = @ \union {l}]
UpdateStartEnd(url, start, end) == [url EXCEPT !.start = start, !.end = end, !.range = NoRange]

--------------------------------------------------------------------------------
(* The query and the handler.                                                 *)

\* workloadQuery silently skips columns it does not know.
Selected(r) == r.cols \intersect (Cols \union Labels)

\* The text of the order is passed on as it is: PostgreSQL takes the name of a
\* selected column, or an expression over what is grouped.
Sorted(r) ==
    \/ r.order = NoOrder
    \/ r.order.col \in Selected(r)
    \/ r.order \in Expressions /\ Selected(r) \in Sorts[r.order]

\* No query, or none that PostgreSQL accepts: an empty window turned around, a
\* label that is no identifier, nothing to select, an order by something else.
Rejected(r, window) ==
    \/ window.start > window.end
    \/ Selected(r) \intersect BadLabels # {}
    \/ Selected(r) = {}
    \/ ~Sorted(r)

\* The page, and when the clock was read for each of its parts.
Readings == 1..7
Rendered(r, clock) ==
    [request |-> r,
     shown   |-> Window(r, clock[1]),
     prev    |-> LinkPrev(r, clock[4], clock[5]),
     next    |-> LinkNext(r, clock[6], clock[7])]

RenderedInputs(r, clock) ==
    [from |-> StartDate(r, clock[2]), until |-> EndDate(r, clock[3])]

Shown(r, clock) ==
    /\ ~Rejected(r, Window(r, clock[1]))
    /\ page' = Rendered(r, clock)
    /\ inputs' = RenderedInputs(r, clock)
    /\ alert' = FALSE

\* HTTPError; the script shows the message above the page that is there, whose
\* inputs keep what was typed.
Refused(typed) ==
    /\ alert' = TRUE
    /\ inputs' = typed
    /\ UNCHANGED <<now, page, location>>

\* HandleWorkload; the half hour may turn once while it runs.  replaced is what
\* becomes of the browser's URL.
Get(url, replaced, typed) ==
    LET r == UnmarshalWorkloadRequest(url)
    IN  \/ /\ Shown(r, [n \in Readings |-> now])
           /\ location' = replaced
           /\ UNCHANGED now
        \/ /\ now < MaxNow
           /\ \E k \in Readings :
                 Shown(r, [n \in Readings |-> IF n < k THEN now ELSE now + 1])
           /\ location' = replaced
           /\ now' = now + 1
        \/ Rejected(r, Window(r, now)) /\ Refused(typed)
        \/ Refused(typed)       \* the database cannot be reached

\* Mutated form of refreshContent: the address bar is left alone.
refreshContent_KeepsUrl(url, typed) == Get(url, location, typed)

\* htmx: the URL is replaced as the header HX-Replace-Url says.
refreshContent(url, typed) == Get(url, Link(UnmarshalWorkloadRequest(url)), typed)

Follow(url) == refreshContent(url, inputs)

--------------------------------------------------------------------------------
(* The user.                                                                  *)

Init ==
    /\ now = FirstTime
    /\ \E url \in Bookmarks :
          LET r == UnmarshalWorkloadRequest(url)
          IN  /\ ~Rejected(r, Window(r, FirstTime))
              /\ page = Rendered(r, [n \in Readings |-> FirstTime])
              /\ inputs = RenderedInputs(r, [n \in Readings |-> FirstTime])
              /\ location = url
    /\ alert = FALSE

Tick == now < MaxNow /\ now' = now + 1 /\ UNCHANGED <<page, inputs, location, alert>>

\* A full load: the header is not read.  After an error the user goes back.
Visit == \E url \in Bookmarks : Get(url, url, inputs)

Prev == page.prev.start >= MinTime /\ Follow(page.prev)
NextPage == page.next.end <= MaxTime /\ Follow(page.next)
Range == \E range \in Ranges : Follow(LinkRange(page.request, range))
ToggleCol(c) == Follow(LinkToggleCol(page.request, c))

\* The heads of the table are the columns that were selected.
ToggleOrder(c) == c \in Selected(page.request) /\ Follow(LinkToggleOrder(page.request, c))

TypeLabel(l) == Follow(AddLabel(location, l))

\* One of the inputs is set, the other keeps what was rendered, or set before if
\* that was refused.
ChangeDates ==
    \E t \in InputTimes :
        \E typed \in {[inputs EXCEPT !.from = t], [inputs EXCEPT !.until = t]} :
            refreshContent(UpdateStartEnd(location, typed.from, typed.until), typed)

Next ==
    \/ Tick \/ Visit \/ Prev \/ NextPage \/ Range \/ ChangeDates
    \/ \E c \in Cols : ToggleCol(c) \/ ToggleOrder(c)
    \/ \E l \in Labels : l \in page.request.cols /\ ToggleCol(l)
    \/ \E l \in Labels : TypeLabel(l)

Spec == Init /\ [][Next]_vars

--------------------------------------------------------------------------------
(* Properties.                                                                *)

Explicit(r) == r.range = NoRange

\* Types; and whatever was typed, start and end of a page are whole hours.
TypeOK ==
    /\ now \in Nat
    /\ page.request \in Request
    /\ inputs \in [from : Int, until : Int]
    /\ Explicit(page.request) => WholeHours(page.request.start) /\ WholeHours(page.request.end)
    /\ location \in Request
    /\ alert \in BOOLEAN

\* The browser's URL tells the request of the page, so a reload, a bookmark, and
\* the script, which starts from the URL, agree with what is seen; also after
\* errors, orders that lost their column and URLs that were typed.  Only an order
\* by an expression that is no column of the URL gets lost: the page has it, the URL
\* does not.
ReloadShowsTheSame ==
    LET r == page.request
        again == UnmarshalWorkloadRequest(location)
    IN  \/ again = r
        \/ /\ r.order \in Expressions
           /\ r.order.col \notin r.cols
           /\ again = [r EXCEPT !.order = NoOrder]

Length(window) == window.end - window.start

\* Paging goes through time without a gap.  From a page with start and end, Prev
\* and Next lead to windows of the same length that touch it; from a range of
\* whole hours Prev does so too, or overlaps by one hour if the hour turned
\* while the page was rendered.
PagesTouch ==
    LET r == page.request
        prev == UnmarshalWorkloadRequest(page.prev)
        next == UnmarshalWorkloadRequest(page.next)
    IN  /\ Explicit(r) =>
              /\ prev.end = page.shown.start /\ next.start = page.shown.end
              /\ Length(prev) = Length(page.shown) /\ Length(next) = Length(page.shown)
        /\ WholeHours(r.range) => prev.end - page.shown.start \in {0, Hour}

\* What the links keep of a request.
Kept(r) == IF r.order.col \in r.cols THEN r ELSE [r EXCEPT !.order = NoOrder]

\* A control of the page changes what it names and keeps the rest of the request,
\* through the URL and back; an order falls only together with its column, or if
\* it is by an expression.  The label form and the inputs of dates, which start
\* from the browser's URL, change the request that is shown too.
ControlsChangeOneThing ==
    LET r == page.request
        k == Kept(r)
        Leads(url, s) == UnmarshalWorkloadRequest(url) = s
    IN  /\ \A url \in {page.prev, page.next} :
              Leads(url, [k EXCEPT !.range = NoRange, !.start = TruncateHour(url.start),
                                   !.end = TruncateHour(url.end)])
        /\ \A range \in Ranges :
              Leads(LinkRange(r, range), [k EXCEPT !.range = range, !.start = Zero, !.end = Zero])
        /\ \A c \in Selected(r) \intersect Cols :
              Leads(LinkToggleOrder(r, c), [r EXCEPT !.order = Toggled(@, c)])
        /\ \A c \in Selected(r) :
              Leads(LinkToggleCol(r, c),
                    [k EXCEPT !.cols = @ \ {c}, !.order = IF @.col = c THEN NoOrder ELSE @])
        /\ \A c \in Cols \ r.cols :
              Leads(LinkToggleCol(r, c), [k EXCEPT !.cols = @ \union {c}])
        /\ \A l \in Labels : \E s \in {r, k} :
              Leads(AddLabel(location, l), [s EXCEPT !.cols = @ \union {l}])
        /\ \A from, until \in InputTimes : \E s \in {r, k} :
              Leads(UpdateStartEnd(location, from, until),
                    [s EXCEPT !.range = NoRange, !.start = TruncateHour(from),
                              !.end = TruncateHour(until)])

\* The order is by an expression that the URL has as a column too, so that the
\* links keep it although what it needs may be switched off.
OrdersByText(r) == r.order.col \in r.cols \intersect Texts

\* Which controls of a page that is shown lead to a request the server refuses,
\* whatever was typed, paged and toggled before: the last column switched off, a
\* label that makes no SQL, dates in the wrong order, and no other.
ControlsAreAccepted ==
    LET r == page.request
        Accepted(url) ==
            LET s == UnmarshalWorkloadRequest(url) IN ~Rejected(s, Window(s, now))
    IN  /\ Accepted(page.prev) /\ Accepted(page.next)
        /\ \A range \in Ranges : Accepted(LinkRange(r, range))
        /\ \A c \in Selected(r) \intersect Cols : Accepted(LinkToggleOrder(r, c))
        /\ \A c \in Cols \ r.cols : Accepted(LinkToggleCol(r, c))
        /\ \A c \in Selected(r) :
              ~OrdersByText(r) => (Accepted(LinkToggleCol(r, c)) <=> Selected(r) # {c})
        /\ \A l \in Labels : Accepted(AddLabel(location, l)) <=> l \notin BadLabels
        /\ \A from, until \in InputTimes :
              Accepted(UpdateStartEnd(location, from, until))
                  <=> TruncateHour(from) <= TruncateHour(until)
================================================================================
