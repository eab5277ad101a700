--------------------------- MODULE WorkloadPageProofs --------------------------
(***************************************************************************)
(* Proofs about WorkloadPage, for any columns, labels, ranges and typed    *)
(* URLs.  A request that is shown is in a normal form (Proper), which Link *)
(* and UnmarshalWorkloadRequest carry through a URL and back unchanged, an *)
(* order by an expression apart; the links of the page lead to requests in *)
(* that form again.                                                        *)
(***************************************************************************)
EXTENDS WorkloadPage, TLAPS

LEMMA Truncated ==
    ASSUME NEW t \in Int
    PROVE  /\ TruncateHour(t) \in Int
           /\ WholeHours(TruncateHour(t))
           /\ WholeHours(t) => TruncateHour(t) = t
           /\ \A u \in Int : t <= u => TruncateHour(t) <= TruncateHour(u)
BY DEF TruncateHour, WholeHours, Hour

LEMMA InputTimesAreTimes ==
    ASSUME NEW t \in InputTimes
    PROVE  t \in Int /\ t # Zero /\ TruncateHour(t) \in Int
<1>1. t \in Nat
  BY WorkloadPageAssumption
<1>2. t \in Int
  BY <1>1
<1>3. t # Zero
  BY <1>2, WorkloadPageAssumption
<1>4. QED
  BY <1>2, <1>3, Truncated

\* What UnmarshalWorkloadRequest returns.
Normal(r) ==
    /\ r \in Request
    /\ Explicit(r) => /\ r.start \in Int /\ WholeHours(r.start)
                      /\ r.end \in Int /\ WholeHours(r.end)
    /\ ~Explicit(r) => r.start = Zero /\ r.end = Zero

\* What the server accepts of it, whatever the time is.
Proper(r) ==
    /\ Normal(r)
    /\ Explicit(r) => r.start <= r.end
    /\ Selected(r) # {}
    /\ Selected(r) \intersect BadLabels = {}
    /\ Sorted(r)

LEMMA UnmarshalIsNormal ==
    ASSUME NEW url \in Request
    PROVE  /\ Normal(UnmarshalWorkloadRequest(url))
           /\ UnmarshalWorkloadRequest(url).cols = url.cols
           /\ UnmarshalWorkloadRequest(url).order = url.order
<1>1. Day \in Nat /\ Day # NoRange /\ Zero \in Time /\ Int \subseteq Time
  BY WorkloadPageAssumption DEF NoRange, Time
<1>2. url.start \in Time /\ url.end \in Time /\ url.range \in Nat
  BY DEF Request
<1>3. CASE Explicit(url) /\ url.start # Zero /\ url.end # Zero
  <2>1. url.start \in Int /\ url.end \in Int
    BY <1>2, <1>3 DEF Time
  <2>2. QED
    BY <1>1, <1>3, <2>1, Truncated DEF UnmarshalWorkloadRequest, Normal, Request, Explicit
<1>4. CASE ~(Explicit(url) /\ url.start # Zero /\ url.end # Zero)
  BY <1>1, <1>2, <1>4 DEF UnmarshalWorkloadRequest, Normal, Request, Explicit
<1>5. QED
  BY <1>3, <1>4

LEMMA LinkIsRequest ==
    ASSUME NEW r \in Request
    PROVE  /\ Link(r) \in Request
           /\ Link(r).cols = r.cols
           /\ Link(r).order = NoOrder \/ Link(r).order.col \in r.cols
BY DEF Link, Request, Order, NoOrder, Time

LEMMA KeptIsNormal ==
    ASSUME NEW r, Normal(r)
    PROVE  /\ Normal(Kept(r)) /\ Kept(r).cols = r.cols
           /\ Kept(r).range = r.range /\ Kept(r).start = r.start /\ Kept(r).end = r.end
           /\ Kept(r).order = IF r.order.col \in r.cols THEN r.order ELSE NoOrder
<1>1. NoOrder \in Order
  BY DEF NoOrder, Order
<1>2. QED
  BY <1>1 DEF Kept, Normal, Request, Explicit

LEMMA RoundTrip ==
    ASSUME NEW r, Normal(r)
    PROVE  UnmarshalWorkloadRequest(Link(r)) = Kept(r)
<1> DEFINE k == Kept(r)
<1>1. k \in Request /\ Normal(k)
  BY KeptIsNormal DEF Normal
<1>2. Link(r) = k
  BY DEF Link, Kept, Normal, Request, Explicit
<1> HIDE DEF k
<1>3. CASE Explicit(k)
  <2>1. k.start # Zero /\ k.end # Zero
    BY <1>1, <1>3, WorkloadPageAssumption DEF Normal
  <2>2. TruncateHour(k.start) = k.start /\ TruncateHour(k.end) = k.end
    BY <1>1, <1>3, Truncated DEF Normal
  <2>3. QED
    BY <1>1, <1>2, <1>3, <2>1, <2>2 DEF UnmarshalWorkloadRequest, Request, Explicit, k
<1>4. CASE ~Explicit(k)
  BY <1>1, <1>2, <1>4 DEF UnmarshalWorkloadRequest, Request, Explicit, Normal, k
<1>5. QED
  BY <1>3, <1>4

\* What is selected besides does not disturb an order.
LEMMA SortedWithMore ==
    ASSUME NEW r, NEW q, q.order = r.order, Selected(r) \subseteq Selected(q), Sorted(r)
    PROVE  Sorted(q)
<1>1. Selected(r) \in SUBSET (Cols \union Labels) /\ Selected(q) \in SUBSET (Cols \union Labels)
  BY DEF Selected
<1>2. QED
  BY <1>1, WorkloadPageAssumption DEF Sorted

--------------------------------------------------------------------------------
(* Links and requests that are accepted.                                      *)

LEMMA LinkIsProper ==
    ASSUME NEW r \in Request,
           Explicit(r) => r.start \in Int /\ r.end \in Int /\ r.start <= r.end,
           Selected(r) # {}, Selected(r) \intersect BadLabels = {},
           r.order.col \in r.cols => Sorted(r)
    PROVE  Proper(UnmarshalWorkloadRequest(Link(r)))
<1> DEFINE url == Link(r)
           s == UnmarshalWorkloadRequest(url)
<1>1. /\ url \in Request /\ url.cols = r.cols
      /\ url.order = NoOrder \/ url.order.col \in r.cols
  BY LinkIsRequest
<1>2. Normal(s) /\ s.cols = r.cols /\ s.order = url.order
  BY <1>1, UnmarshalIsNormal
<1>3. Sorted(s)
  <2>1. url.order = IF r.order.col \in r.cols THEN r.order ELSE NoOrder
    BY DEF Link, Request
  <2>2. CASE r.order.col \in r.cols
    BY <1>2, <2>1, <2>2, SortedWithMore DEF Selected
  <2>3. CASE r.order.col \notin r.cols
    BY <1>2, <2>1, <2>3 DEF Sorted
  <2>4. QED
    BY <2>2, <2>3
<1>4. Explicit(s) => s.start <= s.end
  <2>1. Explicit(s) => Explicit(url) /\ s.start = TruncateHour(url.start) /\ s.end = TruncateHour(url.end)
    BY <1>1, WorkloadPageAssumption DEF UnmarshalWorkloadRequest, Explicit, Request, NoRange
  <2>2. Explicit(url) => Explicit(r) /\ url.start = r.start /\ url.end = r.end
    BY DEF Link, Explicit, Request
  <2>3. QED
    BY <2>1, <2>2, Truncated
<1>5. QED
  BY <1>2, <1>3, <1>4 DEF Proper, Selected

LEMMA ProperIsAccepted ==
    ASSUME NEW r, Proper(r), NEW t \in Nat
    PROVE  ~Rejected(r, Window(r, t))
<1>1. r.range \in Nat /\ TruncateHour(t) \in Int
  BY Truncated DEF Proper, Normal, Request
<1>2. ~(Window(r, t).start > Window(r, t).end)
  BY <1>1 DEF Window, StartDate, EndDate, Proper, Normal, Explicit
<1>3. QED
  BY <1>2 DEF Rejected, Proper

LEMMA AcceptedIsProper ==
    ASSUME NEW r, Normal(r), NEW t \in Nat, ~Rejected(r, Window(r, t))
    PROVE  Proper(r)
BY DEF Rejected, Window, StartDate, EndDate, Proper, Normal, Explicit

--------------------------------------------------------------------------------
(* What is shown.                                                             *)

IsMoved(url, r) == \E a, b \in Int : a <= b /\ url = Moved(r, a, b)

\* Readings of the clock while a page is rendered, within which the half hour
\* turns at most once.
IsClock(clock) ==
    /\ clock \in [Readings -> Nat]
    /\ \A m, n \in Readings : m <= n => clock[m] <= clock[n]
    /\ clock[7] <= clock[1] + 1

PageInv(p) ==
    /\ Proper(p.request)
    /\ \E clock : IsClock(clock) /\ p = Rendered(p.request, clock)
    /\ IsMoved(p.prev, p.request) /\ IsMoved(p.next, p.request)

Inv ==
    /\ now \in Nat
    /\ PageInv(page)
    /\ inputs \in [from : Int, until : Int]
    /\ location \in Request
    /\ ReloadShowsTheSame
    /\ alert \in BOOLEAN

LEMMA DatesAreOrdered ==
    ASSUME NEW r, Proper(r), NEW t \in Nat, NEW u \in Nat, t <= u
    PROVE  StartDate(r, t) \in Int /\ EndDate(r, u) \in Int /\ StartDate(r, t) <= EndDate(r, u)
<1>1. r.range \in Nat /\ t \in Int /\ u \in Int
  BY DEF Proper, Normal, Request
<1>2. QED
  BY <1>1, Truncated DEF StartDate, EndDate, Proper, Normal, Explicit

LEMMA PageIsRendered ==
    ASSUME NEW r, Proper(r), NEW clock, IsClock(clock)
    PROVE  PageInv(Rendered(r, clock)) /\ RenderedInputs(r, clock) \in [from : Int, until : Int]
<1>1. \A n \in 1..7 : n \in Readings /\ clock[n] \in Nat
  BY DEF Readings, IsClock
<1>2. clock[4] <= clock[5] /\ clock[6] <= clock[7]
  BY DEF Readings, IsClock
<1>3. IsMoved(LinkPrev(r, clock[4], clock[5]), r)
  BY <1>1, <1>2, DatesAreOrdered DEF LinkPrev, IsMoved
<1>4. IsMoved(LinkNext(r, clock[6], clock[7]), r)
  BY <1>1, <1>2, DatesAreOrdered DEF LinkNext, IsMoved
<1>5. StartDate(r, clock[2]) \in Int /\ EndDate(r, clock[3]) \in Int
  BY <1>1, DatesAreOrdered
<1>6. QED
  BY <1>3, <1>4, <1>5 DEF PageInv, Rendered, RenderedInputs

\* A URL tells a request, but for an order by an expression.
Tells(url, r) ==
    \/ UnmarshalWorkloadRequest(url) = r
    \/ /\ r.order \in Expressions
       /\ r.order.col \notin r.cols
       /\ UnmarshalWorkloadRequest(url) = [r EXCEPT !.order = NoOrder]

\* The whole handler, if the URL that is put in the address bar tells the request.
LEMMA GetStep ==
    ASSUME Inv, NEW url \in Request, NEW replaced \in Request,
           NEW typed \in [from : Int, until : Int], Get(url, replaced, typed),
           Proper(UnmarshalWorkloadRequest(url)) => Tells(replaced, UnmarshalWorkloadRequest(url))
    PROVE  Inv'
<1> DEFINE r == UnmarshalWorkloadRequest(url)
<1>1. Normal(r)
  BY UnmarshalIsNormal
<1>2. ASSUME NEW clock, IsClock(clock),
             Shown(r, clock), location' = replaced, now' \in Nat
      PROVE  Inv'
  <2>1. clock[1] \in Nat
    BY <1>2 DEF Readings, IsClock
  <2>2. Proper(r)
    BY <1>1, <1>2, <2>1, AcceptedIsProper DEF Shown
  <2>3. page' = Rendered(r, clock) /\ inputs' = RenderedInputs(r, clock) /\ alert' = FALSE
    BY <1>2 DEF Shown
  <2>4. PageInv(page') /\ inputs' \in [from : Int, until : Int]
    BY <1>2, <2>2, <2>3, PageIsRendered
  <2>5. page'.request = r
    BY <2>3 DEF Rendered
  <2>6. QED
    BY <1>2, <2>2, <2>3, <2>4, <2>5 DEF Inv, ReloadShowsTheSame, Tells
<1>3. CASE Shown(r, [n \in Readings |-> now]) /\ location' = replaced /\ UNCHANGED now
  <2> DEFINE clock == [n \in Readings |-> now]
  <2>1. IsClock(clock) /\ now' \in Nat
    BY <1>3 DEF Inv, IsClock, Readings
  <2> HIDE DEF clock
  <2>2. QED
    BY <1>2, <1>3, <2>1 DEF clock
<1>4. ASSUME NEW k \in Readings,
             Shown(r, [n \in Readings |-> IF n < k THEN now ELSE now + 1]),
             location' = replaced, now' = now + 1
      PROVE  Inv'
  <2> DEFINE clock == [n \in Readings |-> IF n < k THEN now ELSE now + 1]
  <2>1. now \in Nat
    BY DEF Inv
  <2>2. IsClock(clock)
    BY <2>1 DEF Readings, IsClock
  <2>3. now' \in Nat
    BY <1>4, <2>1
  <2> HIDE DEF clock
  <2>4. QED
    BY <1>2, <1>4, <2>2, <2>3 DEF clock
<1>5. CASE Refused(typed)
  BY <1>5 DEF Refused, Inv, ReloadShowsTheSame
<1>6. QED
  BY <1>3, <1>4, <1>5 DEF Get

LEMMA RefreshStep ==
    ASSUME Inv, NEW url \in Request, NEW typed \in [from : Int, until : Int],
           refreshContent(url, typed)
    PROVE  Inv'
<1> DEFINE r == UnmarshalWorkloadRequest(url)
<1>1. Normal(r) /\ Link(r) \in Request
  BY UnmarshalIsNormal, LinkIsRequest DEF Normal
<1>2. Proper(r) => Tells(Link(r), r)
  <2> SUFFICES ASSUME Proper(r) PROVE Tells(Link(r), r)
    OBVIOUS
  <2>1. UnmarshalWorkloadRequest(Link(r)) = Kept(r)
    BY <1>1, RoundTrip
  <2>2. r \in Request /\ Sorted(r)
    BY <1>1 DEF Proper, Normal
  <2> HIDE DEF r
  <2>3. r.order = NoOrder => [r EXCEPT !.order = NoOrder] = r
    BY <2>2 DEF Request
  <2>4. r.order = NoOrder \/ r.order.col \in r.cols \/ r.order \in Expressions
    BY <2>2 DEF Sorted, Selected
  <2>5. QED
    BY <2>1, <2>3, <2>4 DEF Tells, Kept
<1>3. QED
  BY <1>1, <1>2, GetStep DEF refreshContent

LEMMA FollowStep ==
    ASSUME Inv, NEW url \in Request, Follow(url)
    PROVE  Inv'
BY RefreshStep DEF Inv, Follow

--------------------------------------------------------------------------------
(* The user.                                                                  *)

LEMMA MovedIsRequest ==
    ASSUME NEW r \in Request, NEW url, IsMoved(url, r)
    PROVE  url \in Request
<1>1. PICK a \in Int, b \in Int : url = Moved(r, a, b)
  BY DEF IsMoved
<1>2. [r EXCEPT !.start = a, !.end = b, !.range = NoRange] \in Request
  BY DEF Request, Time, NoRange
<1>3. QED
  BY <1>1, <1>2, LinkIsRequest DEF Moved

LEMMA InvInit == Init => Inv
<1>1. SUFFICES ASSUME Init PROVE Inv
  OBVIOUS
<1>2. PICK url \in Bookmarks :
          LET r == UnmarshalWorkloadRequest(url)
          IN  /\ ~Rejected(r, Window(r, FirstTime))
              /\ page = Rendered(r, [n \in Readings |-> FirstTime])
              /\ inputs = RenderedInputs(r, [n \in Readings |-> FirstTime])
              /\ location = url
  BY <1>1 DEF Init
<1> DEFINE r == UnmarshalWorkloadRequest(url)
<1>3. url \in Request /\ FirstTime \in Nat
  BY WorkloadPageAssumption
<1>4. Proper(r)
  BY <1>2, <1>3, UnmarshalIsNormal, AcceptedIsProper
<1>5. PageInv(page) /\ inputs \in [from : Int, until : Int]
  <2> DEFINE clock == [n \in Readings |-> FirstTime]
  <2>1. IsClock(clock)
    BY <1>3 DEF IsClock, Readings
  <2>2. page = Rendered(r, clock) /\ inputs = RenderedInputs(r, clock)
    BY <1>2
  <2> HIDE DEF clock
  <2>3. QED
    BY <1>4, <2>1, <2>2, PageIsRendered
<1>6. page.request = r
  BY <1>2 DEF Rendered
<1>7. QED
  BY <1>1, <1>2, <1>3, <1>5, <1>6 DEF Init, Inv, ReloadShowsTheSame

LEMMA InvStep == Inv /\ [Next]_vars => Inv'
<1>1. SUFFICES ASSUME Inv, [Next]_vars PROVE Inv'
  OBVIOUS
<1>2. page.request \in Request /\ location \in Request
  BY <1>1 DEF Inv, PageInv, Proper, Normal
<1>3. CASE Tick
  BY <1>1, <1>3 DEF Tick, Inv, ReloadShowsTheSame
<1>4. CASE Visit
  <2>1. PICK url \in Bookmarks : Get(url, url, inputs)
    BY <1>4 DEF Visit
  <2>2. url \in Request
    BY WorkloadPageAssumption
  <2>3. Tells(url, UnmarshalWorkloadRequest(url)) /\ inputs \in [from : Int, until : Int]
    BY <1>1 DEF Tells, Inv
  <2>4. QED
    BY <1>1, <2>1, <2>2, <2>3, GetStep
<1>5. CASE Prev \/ NextPage
  <2>1. page.prev \in Request /\ page.next \in Request
    BY <1>1, <1>2, MovedIsRequest DEF Inv, PageInv
  <2>2. QED
    BY <1>1, <1>5, <2>1, FollowStep DEF Prev, NextPage
<1>6. CASE Range
  <2>1. PICK range \in Ranges : Follow(LinkRange(page.request, range))
    BY <1>6 DEF Range
  <2>2. [page.request EXCEPT !.range = range] \in Request
    BY <1>2, WorkloadPageAssumption DEF Request
  <2>3. LinkRange(page.request, range) \in Request
    BY <2>2, LinkIsRequest DEF LinkRange
  <2>4. QED
    BY <1>1, <2>1, <2>3, FollowStep
<1>7. CASE ChangeDates
  <2>1. PICK t \in InputTimes :
            \E typed \in {[inputs EXCEPT !.from = t], [inputs EXCEPT !.until = t]} :
                refreshContent(UpdateStartEnd(location, typed.from, typed.until), typed)
    BY <1>7 DEF ChangeDates
  <2>2. PICK typed \in {[inputs EXCEPT !.from = t], [inputs EXCEPT !.until = t]} :
            refreshContent(UpdateStartEnd(location, typed.from, typed.until), typed)
    BY <2>1
  <2>3. t \in Int
    <3>1. t \in Nat
      BY WorkloadPageAssumption
    <3>2. QED
      BY <3>1
  <2>4. typed \in [from : Int, until : Int]
    BY <1>1, <2>3 DEF Inv
  <2>5. \A a, b \in Int : UpdateStartEnd(location, a, b) \in Request
    BY <1>2 DEF UpdateStartEnd, Request, NoRange, Time
  <2>6. QED
    BY <1>1, <2>2, <2>4, <2>5, RefreshStep
<1>8. ASSUME NEW c \in Cols \union Labels, ToggleCol(c) PROVE Inv'
  <2>1. [page.request EXCEPT !.cols = IF c \in @ THEN @ \ {c} ELSE @ \union {c}] \in Request
    BY <1>2 DEF Request, AllCols
  <2>2. LinkToggleCol(page.request, c) \in Request
    BY <2>1, LinkIsRequest DEF LinkToggleCol
  <2>3. QED
    BY <1>1, <1>8, <2>2, FollowStep DEF ToggleCol
<1>9. ASSUME NEW c \in Cols, ToggleOrder(c) PROVE Inv'
  <2>1. [page.request EXCEPT !.order = Toggled(@, c)] \in Request
    BY <1>2 DEF Request, AllCols, Order, Toggled
  <2>2. LinkToggleOrder(page.request, c) \in Request
    BY <2>1, LinkIsRequest DEF LinkToggleOrder
  <2>3. QED
    BY <1>1, <1>9, <2>2, FollowStep DEF ToggleOrder
<1>10. ASSUME NEW l \in Labels, TypeLabel(l) PROVE Inv'
  <2>1. AddLabel(location, l) \in Request
    BY <1>2 DEF AddLabel, Request, AllCols
  <2>2. QED
    BY <1>1, <1>10, <2>1, FollowStep DEF TypeLabel
<1>11. CASE UNCHANGED vars
  BY <1>1, <1>11 DEF vars, Inv, ReloadShowsTheSame
<1>12. QED
  BY <1>1, <1>3, <1>4, <1>5, <1>6, <1>7, <1>8, <1>9, <1>10, <1>11 DEF Next

LEMMA Invariance == Spec => []Inv
BY InvInit, InvStep, PTL DEF Spec

--------------------------------------------------------------------------------

\* Every variable keeps its type, and windows begin and end on the hour.
THEOREM Typing == Spec => []TypeOK
<1>1. Inv => TypeOK
  BY DEF Inv, PageInv, Proper, Normal, TypeOK
<1>2. QED
  BY <1>1, Invariance, PTL

\* The address bar always tells the request of the page, but for an order by an
\* expression.
THEOREM LocationIsTrue == Spec => []ReloadShowsTheSame
<1>1. Inv => ReloadShowsTheSame
  BY DEF Inv
<1>2. QED
  BY <1>1, Invariance, PTL

LEMMA ProperControls == Inv => ControlsAreAccepted
<1>1. SUFFICES ASSUME Inv PROVE ControlsAreAccepted
  OBVIOUS
<1> DEFINE r == page.request
           again == UnmarshalWorkloadRequest(location)
           Accepted(url) ==
               LET s == UnmarshalWorkloadRequest(url) IN ~Rejected(s, Window(s, now))
<1>2. Proper(r) /\ r \in Request /\ now \in Nat /\ location \in Request
  BY <1>1 DEF Inv, PageInv, Proper, Normal
<1>3. \A url : Proper(UnmarshalWorkloadRequest(url)) => Accepted(url)
  BY <1>2, ProperIsAccepted
<1>4. ASSUME NEW url, IsMoved(url, r) PROVE Accepted(url)
  <2>1. PICK a \in Int, b \in Int : a <= b /\ url = Moved(r, a, b)
    BY <1>4 DEF IsMoved
  <2> DEFINE q == [r EXCEPT !.start = a, !.end = b, !.range = NoRange]
  <2>2. /\ q \in Request /\ q.start = a /\ q.end = b
        /\ q.cols = r.cols /\ q.order = r.order
    BY <1>2 DEF Request, Time, NoRange
  <2>3. Proper(UnmarshalWorkloadRequest(Link(q)))
    <3> HIDE DEF q
    <3>1. Sorted(q)
      BY <1>2, <2>2, SortedWithMore DEF Proper, Selected
    <3>2. QED
      BY <1>2, <2>1, <2>2, <3>1, LinkIsProper DEF Proper, Selected
  <2>4. QED
    BY <1>3, <2>1, <2>3 DEF Moved
<1>5. ASSUME NEW range \in Ranges PROVE Accepted(LinkRange(r, range))
  <2> DEFINE q == [r EXCEPT !.range = range]
  <2>1. /\ q \in Request /\ ~Explicit(q) /\ q.cols = r.cols /\ q.order = r.order
    BY <1>2, WorkloadPageAssumption DEF Request, Explicit, NoRange
  <2>2. Proper(UnmarshalWorkloadRequest(Link(q)))
    <3> HIDE DEF q
    <3>1. Sorted(q)
      BY <1>2, <2>1, SortedWithMore DEF Proper, Selected
    <3>2. QED
      BY <1>2, <2>1, <3>1, LinkIsProper DEF Proper, Selected
  <2>3. QED
    BY <1>3, <2>2 DEF LinkRange
<1>6. ASSUME NEW c \in Selected(r) \intersect Cols PROVE Accepted(LinkToggleOrder(r, c))
  <2> DEFINE q == [r EXCEPT !.order = Toggled(@, c)]
  <2>1. /\ q \in Request /\ q.cols = r.cols /\ q.order.col = c
        /\ q.range = r.range /\ q.start = r.start /\ q.end = r.end
    BY <1>2 DEF Request, AllCols, Order, Toggled
  <2>2. Proper(UnmarshalWorkloadRequest(Link(q)))
    <3> HIDE DEF q
    <3>1. Sorted(q)
      BY <1>6, <2>1 DEF Sorted, Selected
    <3>2. QED
      BY <1>2, <1>6, <2>1, <3>1, LinkIsProper DEF Proper, Normal, Selected, Explicit
  <2>3. QED
    BY <1>3, <2>2 DEF LinkToggleOrder
<1>7. ASSUME NEW c \in Cols \ r.cols PROVE Accepted(LinkToggleCol(r, c))
  <2> DEFINE q == [r EXCEPT !.cols = @ \union {c}]
  <2>1. /\ q \in Request /\ q.order = r.order /\ q.cols = r.cols \union {c}
        /\ q.range = r.range /\ q.start = r.start /\ q.end = r.end
    BY <1>2 DEF Request, AllCols
  <2>2. LinkToggleCol(r, c) = Link(q)
    BY <1>2 DEF LinkToggleCol, Request
  <2> HIDE DEF q
  <2>3. Selected(q) # {} /\ Selected(q) \intersect BadLabels = {}
    BY <1>2, <1>7, <2>1, WorkloadPageAssumption DEF Proper, Selected
  <2>4. Sorted(q)
    BY <1>2, <2>1, SortedWithMore DEF Proper, Selected
  <2>5. Explicit(q) => q.start \in Int /\ q.end \in Int /\ q.start <= q.end
    BY <1>2, <2>1 DEF Proper, Normal, Explicit
  <2>6. Proper(UnmarshalWorkloadRequest(Link(q)))
    BY <2>1, <2>3, <2>4, <2>5, LinkIsProper
  <2>7. QED
    BY <1>3, <2>2, <2>6
<1>8. ASSUME NEW c \in Selected(r), ~OrdersByText(r)
      PROVE  Accepted(LinkToggleCol(r, c)) <=> Selected(r) # {c}
  <2> DEFINE q == [r EXCEPT !.cols = @ \ {c}]
  <2>1. /\ q \in Request /\ q.order = r.order /\ q.cols = r.cols \ {c}
        /\ q.range = r.range /\ q.start = r.start /\ q.end = r.end
    BY <1>2 DEF Request, AllCols
  <2>2. LinkToggleCol(r, c) = Link(q)
    BY <1>2, <1>8 DEF LinkToggleCol, Request, Selected
  <2>3. r.cols \subseteq AllCols
    BY <1>2 DEF Request
  <2>4. UnmarshalWorkloadRequest(Link(q)).cols = q.cols
    <3> HIDE DEF q
    <3>1. Link(q) \in Request /\ Link(q).cols = q.cols
      BY <2>1, LinkIsRequest
    <3>2. QED
      BY <3>1, UnmarshalIsNormal
  <2>5. CASE Selected(r) = {c}
    <3>1. Selected(UnmarshalWorkloadRequest(Link(q))) = {}
      BY <2>1, <2>4, <2>5 DEF Selected
    <3>2. QED
      BY <2>2, <2>5, <3>1 DEF Rejected
  <2>6. CASE Selected(r) # {c}
    <3> HIDE DEF q
    <3>1. Selected(q) # {} /\ Selected(q) \intersect BadLabels = {}
      BY <1>2, <1>8, <2>1, <2>6 DEF Proper, Selected
    <3>2. q.order.col \in q.cols => Sorted(q)
      BY <1>8, <2>1, <2>3 DEF OrdersByText, Sorted, Selected, AllCols
    <3>3. Explicit(q) => q.start \in Int /\ q.end \in Int /\ q.start <= q.end
      BY <1>2, <2>1 DEF Proper, Normal, Explicit
    <3>4. Proper(UnmarshalWorkloadRequest(Link(q)))
      BY <2>1, <3>1, <3>2, <3>3, LinkIsProper
    <3>5. QED
      BY <1>3, <2>2, <2>6, <3>4
  <2>7. QED
    BY <2>5, <2>6
\* The script's URLs have what the browser's URL has.
<1>9. /\ Normal(again) /\ again.cols = location.cols /\ again.order = location.order
      /\ Selected(again) = Selected(r) /\ Sorted(again)
      /\ Explicit(again) => again.start <= again.end
  <2>1. Normal(again) /\ again.cols = location.cols /\ again.order = location.order
    BY <1>2, UnmarshalIsNormal
  <2>2. /\ again.cols = r.cols /\ again.range = r.range
        /\ again.start = r.start /\ again.end = r.end
        /\ again.order \in {r.order, NoOrder}
    BY <1>1, <1>2 DEF Inv, ReloadShowsTheSame, Request
  <2> HIDE DEF again, r
  <2>3. Selected(again) = Selected(r)
    BY <2>2 DEF Selected
  <2>4. Sorted(again)
    BY <1>2, <2>2, <2>3 DEF Proper, Sorted
  <2>5. QED
    BY <1>2, <2>1, <2>2, <2>3, <2>4 DEF Proper, Explicit
<1>10. ASSUME NEW l \in Labels PROVE Accepted(AddLabel(location, l)) <=> l \notin BadLabels
  <2> DEFINE s == UnmarshalWorkloadRequest(AddLabel(location, l))
  <2>1. s = [again EXCEPT !.cols = @ \union {l}]
    BY <1>2 DEF AddLabel, UnmarshalWorkloadRequest, Request
  <2>2. again \in Request
    BY <1>9 DEF Normal
  <2>3. /\ s.cols = again.cols \union {l} /\ s.order = again.order /\ s.range = again.range
        /\ s.start = again.start /\ s.end = again.end /\ s \in Request
    BY <2>1, <2>2 DEF Request, AllCols
  <2> HIDE DEF s, again, r
  <2>4. Selected(s) = Selected(r) \union {l}
    BY <1>9, <2>3 DEF Selected
  <2>5. l \in BadLabels => ~Accepted(AddLabel(location, l))
    BY <2>4 DEF Rejected, s
  <2>6. l \notin BadLabels => Proper(s)
    <3>1. Sorted(s)
      BY <1>9, <2>3, <2>4, SortedWithMore
    <3>2. QED
      BY <1>2, <1>9, <2>3, <2>4, <3>1 DEF Proper, Normal, Explicit
  <2>7. QED
    BY <1>3, <2>5, <2>6 DEF s
<1>11. ASSUME NEW from \in InputTimes, NEW until \in InputTimes
       PROVE  Accepted(UpdateStartEnd(location, from, until))
                  <=> TruncateHour(from) <= TruncateHour(until)
  <2> DEFINE s == UnmarshalWorkloadRequest(UpdateStartEnd(location, from, until))
  <2>2. /\ from \in Int /\ until \in Int /\ from # Zero /\ until # Zero
        /\ TruncateHour(from) \in Int /\ TruncateHour(until) \in Int
    BY InputTimesAreTimes
  <2>3. /\ s.cols = location.cols /\ s.order = location.order /\ s.range = NoRange
        /\ s.start = TruncateHour(from) /\ s.end = TruncateHour(until)
    BY <1>2, <2>2 DEF UpdateStartEnd, UnmarshalWorkloadRequest, Request
  <2> HIDE DEF s, again, r
  <2>4. Selected(s) = Selected(r) /\ Sorted(s)
    BY <1>9, <2>3, SortedWithMore DEF Selected
  <2>5. Rejected(s, Window(s, now)) <=> TruncateHour(from) > TruncateHour(until)
    BY <1>2, <2>3, <2>4 DEF Rejected, Window, StartDate, EndDate, Proper
  <2>6. QED
    BY <2>2, <2>5 DEF s
<1> HIDE DEF Accepted
<1>12. Accepted(page.prev) /\ Accepted(page.next)
  BY <1>1, <1>4 DEF Inv, PageInv
<1>13. QED
  BY <1>5, <1>6, <1>7, <1>8, <1>10, <1>11, <1>12 DEF ControlsAreAccepted, Accepted

\* Of the controls of a page, the label form included, just those are refused that
\* switch off the last column, add a label that makes no SQL or turn the dates around.
THEOREM ControlsWork == Spec => []ControlsAreAccepted
BY ProperControls, Invariance, PTL

--------------------------------------------------------------------------------
(* Paging.                                                                    *)

WithWindow(r, a, b) == [r EXCEPT !.range = NoRange, !.start = a, !.end = b]

\* Where a moved window goes once it has been through a URL.
LEMMA MovedThroughUrl ==
    ASSUME NEW r, Proper(r), NEW a \in Int, NEW b \in Int
    PROVE  /\ Moved(r, a, b).start = a /\ Moved(r, a, b).end = b
           /\ UnmarshalWorkloadRequest(Moved(r, a, b))
                  = WithWindow(Kept(r), TruncateHour(a), TruncateHour(b))
<1>1. r \in Request /\ Kept(r) \in Request /\ a # Zero /\ b # Zero
  BY WorkloadPageAssumption, KeptIsNormal DEF Proper, Normal
<1>2. Moved(r, a, b) = [Kept(r) EXCEPT !.start = a, !.end = b, !.range = NoRange]
  BY <1>1 DEF Moved, Link, Kept, Request, NoRange
<1>3. QED
  BY <1>1, <1>2 DEF UnmarshalWorkloadRequest, WithWindow, Request, NoRange

LEMMA PagesOfInv == Inv => PagesTouch
<1>1. SUFFICES ASSUME Inv PROVE PagesTouch
  OBVIOUS
<1> DEFINE r == page.request
<1>2. PICK clock : IsClock(clock) /\ page = Rendered(r, clock)
  BY <1>1 DEF Inv, PageInv
<1>3. /\ Proper(r) /\ r \in Request /\ r.range \in Nat
      /\ Explicit(r) => /\ r.start \in Int /\ WholeHours(r.start)
                        /\ r.end \in Int /\ WholeHours(r.end)
  BY <1>1 DEF Inv, PageInv, Proper, Normal, Request
<1>4. \A n \in 1..7 : clock[n] \in Nat
  BY <1>2 DEF IsClock, Readings
<1>5. clock[1] <= clock[4] /\ clock[4] <= clock[5] /\ clock[4] <= clock[1] + 1
  <2>1. /\ clock[1] <= clock[4] /\ clock[4] <= clock[5]
        /\ clock[4] <= clock[7] /\ clock[7] <= clock[1] + 1
    BY <1>2 DEF IsClock, Readings
  <2>2. QED
    BY <1>4, <2>1
<1> DEFINE prevDur == EndDate(r, clock[5]) - StartDate(r, clock[4])
           nextDur == EndDate(r, clock[7]) - StartDate(r, clock[6])
<1>6. \A t \in Nat : StartDate(r, t) \in Int /\ EndDate(r, t) \in Int
  BY <1>3, DatesAreOrdered
<1>7. /\ page.prev = Moved(r, StartDate(r, clock[4]) - prevDur, EndDate(r, clock[5]) - prevDur)
      /\ page.next = Moved(r, StartDate(r, clock[6]) + nextDur, EndDate(r, clock[7]) + nextDur)
      /\ page.shown.start = StartDate(r, clock[1]) /\ page.shown.end = EndDate(r, clock[1])
  BY <1>2 DEF Rendered, LinkPrev, LinkNext, Window
<1> DEFINE prev == UnmarshalWorkloadRequest(page.prev)
           next == UnmarshalWorkloadRequest(page.next)
<1>8. /\ prev.start = TruncateHour(StartDate(r, clock[4]) - prevDur)
      /\ prev.end = TruncateHour(EndDate(r, clock[5]) - prevDur)
      /\ next.start = TruncateHour(StartDate(r, clock[6]) + nextDur)
      /\ next.end = TruncateHour(EndDate(r, clock[7]) + nextDur)
  <2>0. Proper(r)
    BY <1>3
  <2>1. /\ StartDate(r, clock[4]) - prevDur \in Int /\ EndDate(r, clock[5]) - prevDur \in Int
        /\ StartDate(r, clock[6]) + nextDur \in Int /\ EndDate(r, clock[7]) + nextDur \in Int
    BY <1>4, <1>6
  <2>2. ASSUME NEW a \in Int, NEW b \in Int
        PROVE  /\ UnmarshalWorkloadRequest(Moved(r, a, b)).start = TruncateHour(a)
               /\ UnmarshalWorkloadRequest(Moved(r, a, b)).end = TruncateHour(b)
    <3> HIDE DEF r
    <3>1. UnmarshalWorkloadRequest(Moved(r, a, b))
              = WithWindow(Kept(r), TruncateHour(a), TruncateHour(b))
      BY <2>0, MovedThroughUrl
    <3>2. Kept(r) \in Request
      BY <2>0, KeptIsNormal DEF Proper, Normal
    <3>3. QED
      BY <3>1, <3>2 DEF Request, WithWindow
  <2> HIDE DEF prevDur, nextDur
  <2>3. QED
    BY <1>7, <2>1, <2>2
<1>9. ASSUME Explicit(r)
      PROVE  /\ prev.end = page.shown.start /\ next.start = page.shown.end
             /\ Length(prev) = Length(page.shown) /\ Length(next) = Length(page.shown)
  <2>1. \A t : StartDate(r, t) = r.start /\ EndDate(r, t) = r.end
    BY <1>9 DEF StartDate, EndDate, Explicit
  <2>2. /\ prev.start = TruncateHour(r.start - (r.end - r.start))
        /\ prev.end = TruncateHour(r.end - (r.end - r.start))
        /\ next.start = TruncateHour(r.start + (r.end - r.start))
        /\ next.end = TruncateHour(r.end + (r.end - r.start))
        /\ page.shown.start = r.start /\ page.shown.end = r.end
    BY <1>7, <1>8, <2>1
  <2>3. /\ r.start \in Int /\ WholeHours(r.start) /\ r.end \in Int /\ WholeHours(r.end)
    BY <1>3, <1>9
  <2> HIDE DEF prev, next, r
  <2>4. /\ WholeHours(r.start - (r.end - r.start)) /\ WholeHours(r.end + (r.end - r.start))
    BY <2>3 DEF WholeHours, Hour
  <2>5. /\ r.end - (r.end - r.start) = r.start /\ r.start + (r.end - r.start) = r.end
    BY <2>3
  <2>6. /\ prev.start = r.start - (r.end - r.start) /\ prev.end = r.start
        /\ next.start = r.end /\ next.end = r.end + (r.end - r.start)
    BY <2>2, <2>3, <2>4, <2>5, Truncated
  <2>7. QED
    BY <2>2, <2>3, <2>6 DEF Length
<1>10. ASSUME WholeHours(r.range) PROVE prev.end - page.shown.start \in {0, Hour}
  <2>1. CASE Explicit(r)
    <3>1. page.shown.start = r.start /\ r.start \in Int
      BY <1>3, <1>7, <2>1 DEF StartDate, Explicit
    <3>2. QED
      BY <1>9, <2>1, <3>1
  <2>2. CASE ~Explicit(r)
    <3>1. \A t : StartDate(r, t) = TruncateHour(t) - r.range
      BY <2>2 DEF StartDate, Explicit
    <3>2. prev.end = TruncateHour(TruncateHour(clock[4]) - r.range)
      <4>1. EndDate(r, clock[5]) - prevDur = StartDate(r, clock[4])
        BY <1>4, <1>6
      <4>2. QED
        BY <1>8, <3>1, <4>1
    <3>3. page.shown.start = TruncateHour(clock[1]) - r.range
      BY <1>7, <3>1
    <3>4. clock[4] = clock[1] \/ clock[4] = clock[1] + 1
      BY <1>4, <1>5
    <3> HIDE DEF prev
    <3>5. QED
      BY <1>3, <1>4, <1>10, <3>2, <3>3, <3>4 DEF TruncateHour, WholeHours, Hour
  <2>3. QED
    BY <2>1, <2>2
<1>11. QED
  BY <1>9, <1>10 DEF PagesTouch

\* Prev and Next lead to windows that touch the one that is shown, and from one
\* with start and end to windows as long as it.
THEOREM PagingIsGapless == Spec => []PagesTouch
BY PagesOfInv, Invariance, PTL

LEMMA OneThingOfInv == Inv => ControlsChangeOneThing
<1>1. SUFFICES ASSUME Inv PROVE ControlsChangeOneThing
  OBVIOUS
<1> DEFINE r == page.request
           k == Kept(r)
           again == UnmarshalWorkloadRequest(location)
<1>2. /\ Proper(r) /\ Normal(r) /\ r \in Request /\ location \in Request
  BY <1>1 DEF Inv, PageInv, Proper, Normal
<1>3. /\ Normal(k) /\ k \in Request /\ k.cols = r.cols
      /\ k.range = r.range /\ k.start = r.start /\ k.end = r.end
      /\ k.order = IF r.order.col \in r.cols THEN r.order ELSE NoOrder
  BY <1>2, KeptIsNormal DEF Normal
<1>4. ASSUME NEW url \in {page.prev, page.next}
      PROVE  UnmarshalWorkloadRequest(url) =
                 [k EXCEPT !.range = NoRange, !.start = TruncateHour(url.start),
                           !.end = TruncateHour(url.end)]
  <2>1. PICK a \in Int, b \in Int : url = Moved(r, a, b)
    BY <1>1, <1>4 DEF Inv, PageInv, IsMoved
  <2>2. /\ url.start = a /\ url.end = b
        /\ UnmarshalWorkloadRequest(url) = WithWindow(Kept(r), TruncateHour(a), TruncateHour(b))
    <3>1. Proper(r)
      BY <1>2
    <3> HIDE DEF r
    <3>2. QED
      BY <2>1, <3>1, MovedThroughUrl
  <2>3. QED
    BY <2>2 DEF WithWindow
<1>5. ASSUME NEW range \in Ranges
      PROVE  UnmarshalWorkloadRequest(LinkRange(r, range)) =
                 [k EXCEPT !.range = range, !.start = Zero, !.end = Zero]
  <2>1. range \in Nat /\ range # NoRange
    BY WorkloadPageAssumption DEF NoRange
  <2>2. LinkRange(r, range) = [k EXCEPT !.range = range, !.start = Zero, !.end = Zero]
    BY <1>2, <2>1 DEF LinkRange, Link, Kept, Request
  <2>3. QED
    BY <1>3, <2>1, <2>2 DEF UnmarshalWorkloadRequest, Request
\* The links that leave the window alone.
<1>6. ASSUME NEW q \in Request, q.range = r.range, q.start = r.start, q.end = r.end
      PROVE  UnmarshalWorkloadRequest(Link(q)) = Kept(q)
  BY <1>2, <1>6, RoundTrip DEF Normal, Explicit
<1>7. ASSUME NEW c \in Selected(r) \intersect Cols
      PROVE  UnmarshalWorkloadRequest(LinkToggleOrder(r, c)) = [r EXCEPT !.order = Toggled(@, c)]
  <2> DEFINE q == [r EXCEPT !.order = Toggled(@, c)]
  <2>1. /\ q \in Request /\ q.cols = r.cols /\ q.order.col = c
        /\ q.range = r.range /\ q.start = r.start /\ q.end = r.end
    BY <1>2 DEF Request, AllCols, Order, Toggled
  <2>2. c \in q.cols
    BY <2>1 DEF Selected
  <2>3. LinkToggleOrder(r, c) = Link(q)
    BY DEF LinkToggleOrder
  <2> HIDE DEF q
  <2>4. UnmarshalWorkloadRequest(Link(q)) = q
    BY <1>6, <2>1, <2>2 DEF Kept
  <2>5. QED
    BY <2>3, <2>4 DEF q
<1>8. ASSUME NEW c \in Selected(r)
      PROVE  UnmarshalWorkloadRequest(LinkToggleCol(r, c)) =
                 [k EXCEPT !.cols = @ \ {c}, !.order = IF @.col = c THEN NoOrder ELSE @]
  <2> DEFINE q == [r EXCEPT !.cols = @ \ {c}]
  <2>1. c \in r.cols
    BY DEF Selected
  <2>2. LinkToggleCol(r, c) = Link(q)
    BY <1>2, <2>1 DEF LinkToggleCol, Request
  <2>3. /\ q \in Request /\ q.cols = r.cols \ {c} /\ q.order = r.order
        /\ q.range = r.range /\ q.start = r.start /\ q.end = r.end
    BY <1>2 DEF Request
  <2>4. NoOrder.col = "" /\ "" \notin AllCols /\ r.cols \subseteq AllCols
    BY <1>2, WorkloadPageAssumption DEF NoOrder, Request
  <2>5. UnmarshalWorkloadRequest(Link(q)) = Kept(q)
    <3> HIDE DEF q
    <3>1. QED
      BY <1>6, <2>3
  <2>6. Kept(q) = [k EXCEPT !.cols = @ \ {c}, !.order = IF @.col = c THEN NoOrder ELSE @]
    BY <1>2, <2>1, <2>4 DEF Kept, Request
  <2>7. QED
    BY <2>2, <2>5, <2>6
<1>9. ASSUME NEW c \in Cols \ r.cols
      PROVE  UnmarshalWorkloadRequest(LinkToggleCol(r, c)) = [k EXCEPT !.cols = @ \union {c}]
  <2> DEFINE q == [r EXCEPT !.cols = @ \union {c}]
  <2>1. /\ q \in Request /\ q.cols = r.cols \union {c} /\ q.order = r.order
        /\ q.range = r.range /\ q.start = r.start /\ q.end = r.end
    BY <1>2 DEF Request, AllCols
  <2>2. LinkToggleCol(r, c) = Link(q)
    BY <1>2 DEF LinkToggleCol, Request
  <2>3. UnmarshalWorkloadRequest(Link(q)) = Kept(q)
    <3> HIDE DEF q
    <3>1. QED
      BY <1>6, <2>1
  <2>4. c # "" /\ c \notin Texts /\ c \notin r.cols
    BY <1>9, WorkloadPageAssumption DEF AllCols
  <2>5. r.order.col # c
    <3>1. r.order = NoOrder \/ r.order.col \in r.cols \/ r.order \in Expressions
      BY <1>2 DEF Proper, Sorted, Selected
    <3>2. r.order \in Expressions => r.order.col \in Texts
      BY WorkloadPageAssumption
    <3>3. NoOrder.col = ""
      BY DEF NoOrder
    <3>4. r.order = NoOrder => r.order.col = ""
      BY <3>3
    <3>5. QED
      BY <2>4, <3>1, <3>2, <3>4
  <2>6. Kept(q) = [k EXCEPT !.cols = @ \union {c}]
    BY <1>2, <2>5 DEF Kept, Request
  <2>7. QED
    BY <2>2, <2>3, <2>6
<1>10. again \in {r, k}
  <2> HIDE DEF again
  <2>1. again = r \/ (r.order.col \notin r.cols /\ again = [r EXCEPT !.order = NoOrder])
    BY <1>1 DEF Inv, ReloadShowsTheSame, again
  <2>2. QED
    BY <2>1 DEF Kept
<1>11. ASSUME NEW l \in Labels
       PROVE  UnmarshalWorkloadRequest(AddLabel(location, l)) = [again EXCEPT !.cols = @ \union {l}]
  BY <1>2 DEF UnmarshalWorkloadRequest, AddLabel, Request
<1>12. ASSUME NEW from \in InputTimes, NEW until \in InputTimes
       PROVE  UnmarshalWorkloadRequest(UpdateStartEnd(location, from, until)) =
                  [again EXCEPT !.range = NoRange, !.start = TruncateHour(from),
                                !.end = TruncateHour(until)]
  <2>1. from \in Int /\ until \in Int /\ from # Zero /\ until # Zero
    BY InputTimesAreTimes
  <2>2. QED
    BY <1>2, <2>1 DEF UnmarshalWorkloadRequest, UpdateStartEnd, Request
<1> HIDE DEF r, k, again
<1>13. QED
  BY <1>4, <1>5, <1>7, <1>8, <1>9, <1>10, <1>11, <1>12 DEF ControlsChangeOneThing, r, k

\* A control changes what it names and keeps the rest, through the URL and back.
THEOREM ControlsKeepTheRest == Spec => []ControlsChangeOneThing
BY OneThingOfInv, Invariance, PTL
================================================================================
