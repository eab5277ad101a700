----------------------------- MODULE CostViewsProofs ---------------------------
(***************************************************************************)
(* Proofs about CostViews, for any nodes, pods, usage, any data their rows *)
(* are given and any length of the hour.                                   *)
(*                                                                         *)
(* The hours of a node add up because each row covers the part of the      *)
(* node's life that lies in its hour: taken in their order, each starts    *)
(* where the one before ended.  What is billed adds up because the idle    *)
(* row subtracts the greater of two sums and the pods pay the greater of   *)
(* two amounts each, which is at least as much.                            *)
(***************************************************************************)
EXTENDS CostViews, SumTheorems

--------------------------------------------------------------------------------
(* Quantities.                                                                *)

LEMMA Domains ==
    /\ DOMAIN Decimal = {"n", "u", "m", "k", "M", "G", "T", "P", "E"}
    /\ DOMAIN Binary = {"Ki", "Mi", "Gi", "Ti", "Pi", "Ei"}
    /\ DOMAIN Exponent = {"e3", "e6"}
BY DEF Decimal, Binary, Exponent

\* parse_bytes is right on exactly the binary suffixes, the decimal ones from "M"
\* on, and none.
THEOREM Bytes == BytesAsMeant
<1> SUFFICES ASSUME NEW suffix \in Suffixes
             PROVE  BytesFactor(suffix) = Meaning(suffix)
                        <=> suffix \notin {"n", "u", "m", "k"} \union DOMAIN Exponent
    BY DEF BytesAsMeant
<1>1. CASE suffix = "none"
    BY <1>1, Domains DEF BytesFactor, Meaning
<1>2. CASE suffix \in DOMAIN Decimal
    BY <1>2, Domains DEF BytesFactor, Meaning, One, Decimal
<1>3. CASE suffix \in DOMAIN Binary
    BY <1>3, Domains DEF BytesFactor, Meaning
<1>4. CASE suffix \in DOMAIN Exponent
    BY <1>4, Domains DEF BytesFactor, Meaning, One, Exponent
<1> QED
    BY <1>1, <1>2, <1>3, <1>4 DEF Suffixes

\* parse_cores is right or fails.
THEOREM Cores == CoresAsMeant
<1> SUFFICES ASSUME NEW suffix \in Suffixes
             PROVE  /\ CoresFactor(suffix) \in {Meaning(suffix), Unknown}
                    /\ suffix \in {"none", "m"} => CoresFactor(suffix) = Meaning(suffix)
    BY DEF CoresAsMeant
<1>1. CASE suffix = "none"
    BY <1>1, Domains DEF CoresFactor, Meaning
<1>2. CASE suffix \in DOMAIN Decimal
    BY <1>2, Domains DEF CoresFactor, Meaning, Decimal
<1>3. CASE suffix \in DOMAIN Binary
    BY <1>3, Domains DEF CoresFactor, Meaning
<1>4. CASE suffix \in DOMAIN Exponent
    BY <1>4, Domains DEF CoresFactor, Meaning
<1> QED
    BY <1>1, <1>2, <1>3, <1>4 DEF Suffixes

\* The factors of the suffixes that parse_cores knows, in thousandths.
LEMMA Powers ==
    ASSUME NEW e, e \in {0, 1, 2, 3}
    PROVE  1000 ^ e \in Nat
<1>1. CASE e = 0
    BY <1>1
<1>2. CASE e = 1
    BY <1>2
<1>3. CASE e = 2
    BY <1>3
<1>4. CASE e = 3
    BY <1>4
<1> QED
    BY <1>1, <1>2, <1>3, <1>4

\* What parse_cores reads is a number of thousandths.
LEMMA CoresAreNatural ==
    ASSUME NEW q, Readable(q)
    PROVE  ParseCores(q) \in Nat
<1> DEFINE e == CoresFactor(q[2])[2] + 1
<1>1. q[2] \in {"none", "m", "e3", "e6"} /\ q[1] \in Nat
    BY Domains DEF Readable, CoresFactor
<1>2. e \in {0, 1, 2, 3}
    BY <1>1, Domains DEF CoresFactor, One, Exponent
<1>3. ParseCores(q) = q[1] * 1000 ^ e
    BY DEF ParseCores
<1> HIDE DEF e
<1>4. 1000 ^ e \in Nat
    BY <1>2, Powers
<1> DEFINE factor == 1000 ^ e
<1> HIDE DEF factor
<1>5. q[1] * factor \in Nat
    BY <1>1, <1>4 DEF factor
<1> QED
    BY <1>3, <1>5 DEF factor

--------------------------------------------------------------------------------
(* Hours.                                                                     *)

\* The start of the hour is a multiple of Hour, not after t and less than an
\* hour before it.
LEMMA TruncOf ==
    ASSUME NEW t \in Nat
    PROVE  /\ Trunc(t) \in Nat /\ Trunc(t) <= t /\ t < Trunc(t) + Hour
           /\ \E q \in Nat : Trunc(t) = Hour * q
<1>1. Hour \in Nat /\ Hour > 0
    BY CostViewsAssumption
<1> DEFINE q == t \div Hour
           r == t % Hour
<1>2. q \in Nat /\ r \in Nat /\ r < Hour /\ t = Hour * q + r
    BY <1>1
<1> HIDE DEF q, r
<1>3. Hour * q \in Nat
    BY <1>1, <1>2
<1>4. Trunc(t) = Hour * q
  <2>1. t - r = Hour * q
      BY <1>2, <1>3
  <2> QED
      BY <2>1 DEF Trunc, r
<1> QED
    BY <1>1, <1>2, <1>3, <1>4

\* Every multiple starts an hour.
LEMMA TruncOfMultiple ==
    ASSUME NEW q \in Nat
    PROVE  Hour * q \in Nat /\ Trunc(Hour * q) = Hour * q
<1>1. Hour \in Nat /\ Hour > 0
    BY CostViewsAssumption
<1>2. Hour * q \in Nat
    BY <1>1
<1>3. (Hour * q) % Hour = 0
    BY <1>1
<1> QED
    BY <1>2, <1>3 DEF Trunc

\* Multiples are ordered as their factors, an hour apart at least.
LEMMA MultiplesOrdered ==
    ASSUME NEW i \in Nat, NEW j \in Nat
    PROVE  /\ Hour * (i + 1) = (Hour * i) + Hour
           /\ i <= j => Hour * i <= Hour * j
           /\ i < j <=> Hour * i < Hour * j
           /\ i < j => (Hour * i) + Hour <= Hour * j
<1>1. Hour \in Nat /\ Hour > 0
    BY CostViewsAssumption
<1>2. Hour * (i + 1) = (Hour * i) + Hour
    BY <1>1
<1>3. \A k, m \in Nat : k <= m => Hour * k <= Hour * m
    BY <1>1
<1>4. i < j => (Hour * i) + Hour <= Hour * j
    BY <1>2, <1>3
<1>5. Hour * i \in Nat /\ Hour * j \in Nat
    BY <1>1
<1> QED
    BY <1>1, <1>2, <1>3, <1>4, <1>5

LEMMA HourStart ==
    ASSUME NEW h \in HourStarts
    PROVE  h \in Time /\ h \in Nat /\ h <= MaxNow /\ \E q \in Nat : h = Hour * q
<1>1. h \in Time /\ h \in Nat /\ h <= MaxNow /\ h = Trunc(h)
    BY CostViewsAssumption DEF HourStarts, Time
<1> QED
    BY <1>1, TruncOf

LEMMA MultipleInTime ==
    ASSUME NEW q \in Nat, Hour * q <= MaxNow
    PROVE  Hour * q \in HourStarts
<1>1. MaxNow \in Nat
    BY CostViewsAssumption
<1>2. Hour * q \in Nat /\ Trunc(Hour * q) = Hour * q
    BY TruncOfMultiple
<1>3. Hour * q \in Time
    BY <1>1, <1>2 DEF Time
<1> QED
    BY <1>2, <1>3 DEF HourStarts

LEMMA TruncIsStart ==
    ASSUME NEW t \in Time
    PROVE  Trunc(t) \in HourStarts
<1>1. t \in Nat /\ t <= MaxNow
    BY CostViewsAssumption DEF Time
<1>2. PICK q \in Nat : Trunc(t) = Hour * q
    BY <1>1, TruncOf
<1>3. Hour * q <= MaxNow
    BY <1>1, <1>2, TruncOf, CostViewsAssumption
<1> QED
    BY <1>2, <1>3, MultipleInTime

\* Hours that start in the order of the moments they belong to.
LEMMA TruncMonotonic ==
    ASSUME NEW s \in Nat, NEW t \in Nat, s <= t
    PROVE  Trunc(s) <= Trunc(t)
<1>1. PICK i \in Nat : Trunc(s) = Hour * i
    BY TruncOf
<1>2. PICK j \in Nat : Trunc(t) = Hour * j
    BY TruncOf
<1>3. Trunc(s) \in Nat /\ Trunc(t) \in Nat /\ Trunc(s) <= s /\ t < Trunc(t) + Hour
    BY TruncOf
<1>4. ~ (j < i)
  <2>1. j < i => Trunc(t) + Hour <= Trunc(s)
      BY <1>1, <1>2, MultiplesOrdered
  <2> QED
      BY <1>3, <2>1, CostViewsAssumption
<1> QED
    BY <1>1, <1>2, <1>4, MultiplesOrdered

--------------------------------------------------------------------------------
(* least() and greatest().                                                    *)

LEMMA MinIs ==
    ASSUME NEW S \in SUBSET Int, NEW x \in S, \A y \in S : x <= y
    PROVE  Min(S) = x
<1> DEFINE m == Min(S)
<1>1. m \in S /\ \A y \in S : m <= y
    BY DEF Min
<1> HIDE DEF m
<1>2. m = x
    BY <1>1
<1> QED
    BY <1>2 DEF m

LEMMA MaxIs ==
    ASSUME NEW S \in SUBSET Int, NEW x \in S, \A y \in S : x >= y
    PROVE  Max(S) = x
<1> DEFINE m == Max(S)
<1>1. m \in S /\ \A y \in S : m >= y
    BY DEF Max
<1> HIDE DEF m
<1>2. m = x
    BY <1>1
<1> QED
    BY <1>2 DEF m

Lower(a, b) == IF a <= b THEN a ELSE b
Upper(a, b) == IF a >= b THEN a ELSE b

\* The end of a row: the clock and the end of the hour bound it, and so does the
\* deletion, when there was one.
LEMMA LeastOfThree ==
    ASSUME NEW a \in Int, NEW b \in Int, NEW d \in Int \union {Null}
    PROVE  Least({a, d, b}) = IF d = Null THEN Lower(a, b) ELSE Lower(Lower(a, b), d)
<1>1. Null \notin Int
    BY CostViewsAssumption
<1>2. CASE d = Null
  <2>1. NonNull({a, d, b}) = {a, b}
      BY <1>1, <1>2 DEF NonNull
  <2>2. Min({a, b}) = Lower(a, b)
      BY MinIs DEF Lower
  <2> QED
      BY <1>2, <2>1, <2>2 DEF Least
<1>3. CASE d # Null
  <2>1. NonNull({a, d, b}) = {a, d, b} /\ d \in Int
      BY <1>1, <1>3 DEF NonNull
  <2>2. Min({a, d, b}) = Lower(Lower(a, b), d)
      BY <2>1, MinIs DEF Lower
  <2> QED
      BY <1>3, <2>1, <2>2 DEF Least
<1> QED
    BY <1>2, <1>3

LEMMA LeastOfTwo ==
    ASSUME NEW b \in Int, NEW d \in Int \union {Null}
    PROVE  Least({d, b}) = IF d = Null THEN b ELSE Lower(d, b)
<1>1. Null \notin Int
    BY CostViewsAssumption
<1>2. CASE d = Null
  <2>1. NonNull({d, b}) = {b}
      BY <1>1, <1>2 DEF NonNull
  <2>2. Min({b}) = b
      BY MinIs
  <2> QED
      BY <1>2, <2>1, <2>2 DEF Least
<1>3. CASE d # Null
  <2>1. NonNull({d, b}) = {d, b} /\ d \in Int
      BY <1>1, <1>3 DEF NonNull
  <2>2. Min({d, b}) = Lower(d, b)
      BY <2>1, MinIs DEF Lower
  <2> QED
      BY <1>3, <2>1, <2>2 DEF Least
<1> QED
    BY <1>2, <1>3

LEMMA GreatestOfTwo ==
    ASSUME NEW a \in Int, NEW b \in Int
    PROVE  Greatest({a, b}) = Upper(a, b)
<1>1. NonNull({a, b}) = {a, b}
    BY CostViewsAssumption DEF NonNull
<1>2. Max({a, b}) = Upper(a, b)
    BY MaxIs DEF Upper
<1> QED
    BY <1>1, <1>2 DEF Greatest

LEMMA GreatestOfThree ==
    ASSUME NEW a \in Int, NEW b \in Int, NEW c \in Int
    PROVE  Greatest({a, b, c}) = Upper(Upper(a, b), c)
<1>1. NonNull({a, b, c}) = {a, b, c}
    BY CostViewsAssumption DEF NonNull
<1>2. Max({a, b, c}) = Upper(Upper(a, b), c)
    BY MaxIs DEF Upper
<1> QED
    BY <1>1, <1>2 DEF Greatest

--------------------------------------------------------------------------------
(* The invariant.                                                             *)

\* A node is stored once it exists, with its data.
Seen ==
    \A n \in Nodes : /\ created[n] # Null => created[n] <= now
                     /\ created[n] = Null <=> size[n] = Null

\* Usage is recorded for hours that have begun, before the scraper's cache lost
\* the pod.
Recorded ==
    \A p \in Pods, h \in HourStarts :
        usage[p][h] # Null => h <= now /\ (left[p] # Null => h <= left[p])

Inv == TypeOK /\ Seen /\ Recorded

\* A reading changes one row of the pod, that of an hour which has begun.
LEMMA RecordChanges ==
    ASSUME Inv, NEW p \in Pods, NEW average \in Averages, Record(p, average)
    PROVE  /\ usage' \in [Pods -> [HourStarts -> Averages \union {Null}]]
           /\ \E s \in Time :
                 /\ s <= now /\ (left[p] # Null => s <= left[p])
                 /\ \A q \in Pods, h \in HourStarts :
                       usage'[q][h] = IF q = p /\ h = Trunc(s) THEN average ELSE usage[q][h]
<1>1. PICK s \in 0 .. now : /\ left[p] # Null => s <= left[p]
                           /\ usage' = [usage EXCEPT ![p][Trunc(s)] = average]
    BY DEF Record
<1>2. s \in Time /\ s <= now
    BY CostViewsAssumption DEF Inv, TypeOK, Time
<1>3. Trunc(s) \in HourStarts
    BY <1>2, TruncIsStart
<1>4. usage \in [Pods -> [HourStarts -> Averages \union {Null}]]
    BY DEF Inv, TypeOK
<1>5. usage' \in [Pods -> [HourStarts -> Averages \union {Null}]]
    BY <1>1, <1>3, <1>4
<1>6. ASSUME NEW q \in Pods, NEW h \in HourStarts
      PROVE  usage'[q][h] = IF q = p /\ h = Trunc(s) THEN average ELSE usage[q][h]
    BY <1>1, <1>3, <1>4
<1> QED
    BY <1>1, <1>2, <1>5, <1>6

LEMMA InitKeeps == ASSUME Init PROVE Inv
<1>1. 0 \in Time
    BY CostViewsAssumption DEF Time
<1>2. TypeOK
    BY <1>1 DEF Init, TypeOK
<1>3. Seen /\ Recorded
    BY DEF Init, Seen, Recorded
<1> QED
    BY <1>2, <1>3 DEF Inv

LEMMA TickKeeps == ASSUME Inv, Tick PROVE Inv'
<1>1. now \in Nat /\ now < MaxNow /\ now' = now + 1 /\ MaxNow \in Nat
    BY CostViewsAssumption DEF Inv, TypeOK, Tick, Time
<1>2. /\ now' \in Time
      /\ \A t \in Int : t <= now => t <= now'
    BY <1>1 DEF Time
<1>3. \A t \in Time \union {Null} : t # Null => t \in Int
    BY DEF Time
<1>4. TypeOK'
  <2>1. \A n \in Nodes : deleted[n] # Null => deleted[n] \in Int
      BY <1>3 DEF Inv, TypeOK
  <2> QED
      BY <1>2, <2>1 DEF Inv, TypeOK, Tick
<1>5. Seen'
  <2>1. \A n \in Nodes : created[n] # Null => created[n] \in Int
      BY <1>3 DEF Inv, TypeOK
  <2> QED
      BY <1>2, <2>1 DEF Inv, Seen, Tick
<1>6. Recorded'
    BY <1>2, HourStart DEF Inv, Recorded, Tick
<1> QED
    BY <1>4, <1>5, <1>6 DEF Inv

\* The creation of a node that has a row does not change.
LEMMA StoreNodeChanges ==
    ASSUME Inv, NEW n \in Nodes, NEW s \in Sizes, StoreNode(n, s)
    PROVE  /\ created' \in [Nodes -> Time \union {Null}]
           /\ created'[n] \in Nat /\ created'[n] <= now
           /\ created[n] # Null => created'[n] = created[n]
           /\ \A m \in Nodes : m # n => created'[m] = created[m]
           /\ size' \in [Nodes -> Sizes \union {Null}] /\ size'[n] = s
           /\ \A m \in Nodes : m # n => size'[m] = size[m]
<1>1. PICK t \in 0 .. now : /\ created[n] # Null => t = created[n]
                           /\ created' = [created EXCEPT ![n] = t]
    BY DEF StoreNode
<1>2. t \in Time /\ t \in Nat /\ t <= now
    BY <1>1, CostViewsAssumption DEF Inv, TypeOK, Time
<1>3. size' = [size EXCEPT ![n] = s]
    BY DEF StoreNode
<1> QED
    BY <1>1, <1>2, <1>3 DEF Inv, TypeOK

LEMMA StoreNodeKeeps ==
    ASSUME Inv, NEW n \in Nodes, NEW s \in Sizes, StoreNode(n, s) PROVE Inv'
<1>1. Null \notin Int /\ Null \notin Sizes
    BY CostViewsAssumption
<1>2. created'[n] # Null /\ size'[n] # Null
    BY <1>1, StoreNodeChanges
<1>3. TypeOK'
  <2>1. ASSUME NEW m \in Nodes, deleted[m] # Null
        PROVE  created'[m] # Null /\ created'[m] <= deleted[m] /\ deleted[m] <= now
    <3>1. created[m] # Null /\ created[m] <= deleted[m] /\ deleted[m] <= now
        BY <2>1 DEF Inv, TypeOK
    <3> QED
        BY <3>1, StoreNodeChanges
  <2> QED
      BY <2>1, StoreNodeChanges DEF Inv, TypeOK, StoreNode
<1>4. Seen'
  <2> SUFFICES ASSUME NEW m \in Nodes
               PROVE  /\ created'[m] # Null => created'[m] <= now
                      /\ created'[m] = Null <=> size'[m] = Null
      BY DEF Seen, StoreNode
  <2>1. CASE m = n
      BY <1>2, <2>1, StoreNodeChanges
  <2>2. CASE m # n
      BY <2>2, StoreNodeChanges DEF Inv, Seen
  <2> QED
      BY <2>1, <2>2
<1>5. Recorded'
    BY DEF Inv, Recorded, StoreNode
<1> QED
    BY <1>3, <1>4, <1>5 DEF Inv

LEMMA StorePodKeeps ==
    ASSUME Inv, NEW p \in Pods, NEW s \in Specs, StorePod(p, s) PROVE Inv'
<1>1. TypeOK'
    BY DEF Inv, TypeOK, StorePod
<1>2. Seen' /\ Recorded'
    BY DEF Inv, Seen, Recorded, StorePod
<1> QED
    BY <1>1, <1>2 DEF Inv

LEMMA LeaveKeeps == ASSUME Inv, NEW p \in Pods, Leave(p) PROVE Inv'
<1>1. /\ left' \in [Pods -> Time \union {Null}] /\ left'[p] = now
      /\ \A q \in Pods : q # p => left'[q] = left[q]
    BY DEF Inv, TypeOK, Leave
<1>2. TypeOK'
    BY <1>1 DEF Inv, TypeOK, Leave
<1>3. Seen' /\ Recorded'
    BY <1>1 DEF Inv, Seen, Recorded, Leave
<1> QED
    BY <1>2, <1>3 DEF Inv

LEMMA MarkDeletedKeeps ==
    ASSUME Inv, NEW o \in Nodes \union Pods, MarkDeleted(o) PROVE Inv'
<1>1. /\ deleted' \in [Nodes \union Pods -> Time \union {Null}] /\ deleted'[o] = now
      /\ \A x \in Nodes \union Pods : x # o => deleted'[x] = deleted[x]
      /\ now \in Nat /\ now \in Time
    BY CostViewsAssumption DEF Inv, TypeOK, MarkDeleted, Time
<1>2. o \in Nodes => created[o] # Null /\ created[o] <= now
    BY CostViewsAssumption DEF Inv, TypeOK, MarkDeleted, Node, Pod, Seen
<1>3. TypeOK'
    BY <1>1, <1>2 DEF Inv, TypeOK, MarkDeleted
<1>4. Seen'
    BY DEF Inv, Seen, MarkDeleted
<1>5. Recorded'
    BY DEF Inv, Recorded, MarkDeleted
<1> QED
    BY <1>3, <1>4, <1>5 DEF Inv

LEMMA RecordKeeps ==
    ASSUME Inv, NEW p \in Pods, NEW average \in Averages, Record(p, average) PROVE Inv'
<1>1. TypeOK'
    BY RecordChanges DEF Inv, TypeOK, Record
<1>2. Seen'
    BY DEF Inv, Seen, Record
<1>3. Recorded'
  <2>1. PICK s \in Time :
            /\ s <= now /\ (left[p] # Null => s <= left[p])
            /\ \A q \in Pods, h \in HourStarts :
                  usage'[q][h] = IF q = p /\ h = Trunc(s) THEN average ELSE usage[q][h]
      BY RecordChanges
  <2>2. Trunc(s) <= s /\ Trunc(s) \in Nat /\ s \in Nat
      BY TruncOf, CostViewsAssumption DEF Time
  <2>3. now \in Int /\ (left[p] # Null => left[p] \in Int)
      BY CostViewsAssumption DEF Time, Inv, TypeOK
  <2>4. Trunc(s) <= now /\ (left[p] # Null => Trunc(s) <= left[p])
      BY <2>1, <2>2, <2>3
  <2> QED
      BY <2>1, <2>4 DEF Inv, Recorded, Record
<1> QED
    BY <1>1, <1>2, <1>3 DEF Inv

LEMMA Inductive == Spec => []Inv
<1>1. Init => Inv
    BY InitKeeps
<1>2. Inv /\ [Next]_vars => Inv'
  <2> SUFFICES ASSUME Inv, [Next]_vars PROVE Inv'
      OBVIOUS
  <2>1. CASE Tick
      BY <2>1, TickKeeps
  <2>2. ASSUME NEW n \in Nodes, NEW s \in Sizes, StoreNode(n, s) PROVE Inv'
      BY <2>2, StoreNodeKeeps
  <2>3. ASSUME NEW p \in Pods, NEW s \in Specs, StorePod(p, s) PROVE Inv'
      BY <2>3, StorePodKeeps
  <2>4. ASSUME NEW o \in Nodes \union Pods, MarkDeleted(o) PROVE Inv'
      BY <2>4, MarkDeletedKeeps
  <2>5. ASSUME NEW p \in Pods, NEW average \in Averages, Record(p, average) PROVE Inv'
      BY <2>5, RecordKeeps
  <2>6. ASSUME NEW p \in Pods, Leave(p) PROVE Inv'
      BY <2>6, LeaveKeeps
  <2>7. CASE UNCHANGED vars
    <3>1. TypeOK'
        BY <2>7 DEF Inv, TypeOK, vars
    <3>2. Seen' /\ Recorded'
        BY <2>7 DEF Inv, Seen, Recorded, vars
    <3> QED
        BY <3>1, <3>2 DEF Inv
  <2> QED
      BY <2>1, <2>2, <2>3, <2>4, <2>5, <2>6, <2>7 DEF Next
<1> QED
    BY <1>1, <1>2, PTL DEF Spec

\* Every column keeps its type, and a node's row is never deleted before the node
\* was created, nor in the future.
THEOREM Typing == Spec => []TypeOK
<1>1. Inv => TypeOK
    BY DEF Inv
<1> QED
    BY <1>1, Inductive, PTL

--------------------------------------------------------------------------------
(* The rows of a node.                                                        *)

\* The end of a node's life so far.
EndOf(n) == IF deleted[n] = Null THEN now ELSE deleted[n]

FirstHour == Trunc(Min({created[m] : m \in Node}))

LEMMA NodeLife ==
    ASSUME Inv, NEW n \in Node
    PROVE  /\ n \in Nodes /\ created[n] \in Nat /\ EndOf(n) \in Nat /\ now \in Nat
           /\ created[n] <= EndOf(n) /\ EndOf(n) <= now /\ now <= MaxNow
           /\ deleted[n] \in Int \union {Null}
           /\ Least({deleted[n], now}) = EndOf(n)
<1>1. n \in Nodes /\ created[n] \in Nat /\ created[n] <= now
    BY CostViewsAssumption DEF Node, Inv, TypeOK, Seen, Time
<1>2. now \in Nat /\ now <= MaxNow
    BY CostViewsAssumption DEF Inv, TypeOK, Time
<1>3. deleted[n] \in Nat \union {Null}
    BY <1>1, CostViewsAssumption DEF Inv, TypeOK, Time
<1>4. deleted[n] # Null => created[n] <= deleted[n] /\ deleted[n] <= now
    BY <1>1 DEF Inv, TypeOK
<1>5. Least({deleted[n], now}) = IF deleted[n] = Null THEN now ELSE Lower(deleted[n], now)
  <2>1. now \in Int /\ deleted[n] \in Int \union {Null}
      BY <1>2, <1>3
  <2> QED
      BY <2>1, LeastOfTwo
<1>6. Least({deleted[n], now}) = EndOf(n)
    BY <1>2, <1>3, <1>4, <1>5 DEF EndOf, Lower
<1> QED
    BY <1>1, <1>2, <1>3, <1>4, <1>6 DEF EndOf

\* A row is as long as the part of the node's life that lies in its hour, where
\* one does.
LEMMA NodeRow ==
    ASSUME Inv, NEW n \in Node, NEW h \in HourStarts
    PROVE  NodeTicks(n, h) = Lower(h + Hour, EndOf(n)) - Upper(h, created[n])
<1>1. h + Hour \in Int /\ h \in Int
    BY HourStart, CostViewsAssumption
<1>2. /\ now \in Nat /\ deleted[n] \in Int \union {Null} /\ created[n] \in Nat
      /\ EndOf(n) <= now
    BY NodeLife
<1>3. Least({h + Hour, deleted[n], now})
          = IF deleted[n] = Null THEN Lower(h + Hour, now)
            ELSE Lower(Lower(h + Hour, now), deleted[n])
  <2>1. now \in Int
      BY <1>2
  <2> QED
      BY <1>1, <1>2, <2>1, LeastOfThree
<1>4. Least({h + Hour, deleted[n], now}) = Lower(h + Hour, EndOf(n))
    BY <1>1, <1>2, <1>3 DEF Lower, EndOf
<1>5. Greatest({h, created[n]}) = Upper(h, created[n])
  <2>1. created[n] \in Int
      BY <1>2
  <2> QED
      BY <1>1, <2>1, GreatestOfTwo
<1> QED
    BY <1>4, <1>5 DEF NodeTicks

LEMMA PodRow ==
    ASSUME Inv, NEW p \in Pods, NEW h \in HourStarts
    PROVE  /\ PodTicks(p, h) \in Int
           /\ PodTicks(p, h) = (IF deleted[p] = Null THEN Lower(h + Hour, now)
                                ELSE Lower(Lower(h + Hour, now), deleted[p])) - h
<1>1. h + Hour \in Int /\ h \in Int
    BY HourStart, CostViewsAssumption
<1>2. now \in Int /\ deleted[p] \in Int \union {Null}
    BY CostViewsAssumption DEF Inv, TypeOK, Time
<1>3. Least({h + Hour, deleted[p], now})
          = IF deleted[p] = Null THEN Lower(h + Hour, now)
            ELSE Lower(Lower(h + Hour, now), deleted[p])
    BY <1>1, <1>2, LeastOfThree
<1> QED
    BY <1>1, <1>2, <1>3 DEF PodTicks, Lower

\* Negative hours are reported for nothing but an hour that ended before the node
\* was created, and an hour that began after the pod was marked deleted and before
\* the scraper's cache lost it.
THEOREM NegativeHours == Spec => []NegativeOnlyOutsideLife
<1>1. Inv => NegativeOnlyOutsideLife
  <2> SUFFICES ASSUME Inv PROVE NegativeOnlyOutsideLife
      OBVIOUS
  <2>1. ASSUME NEW n \in Node, NEW h \in HourStarts, HasHour(n, h)
        PROVE  NodeTicks(n, h) < 0 <=> h + Hour < created[n]
    <3>1. h \in Nat /\ Hour \in Nat /\ Hour > 0
        BY HourStart, CostViewsAssumption
    <3>2. /\ created[n] \in Nat /\ EndOf(n) \in Nat /\ created[n] <= EndOf(n)
          /\ NodeTicks(n, h) = Lower(h + Hour, EndOf(n)) - Upper(h, created[n])
        BY NodeLife, NodeRow
    <3>3. h <= EndOf(n)
      <4>1. h <= now /\ (deleted[n] # Null => h < deleted[n])
          BY <2>1 DEF HasHour
      <4>2. deleted[n] \in Int \union {Null}
          BY NodeLife
      <4> QED
          BY <3>1, <4>1, <4>2 DEF EndOf
    <3> QED
        BY <3>1, <3>2, <3>3 DEF Lower, Upper
  <2>2. ASSUME NEW p \in Pod, NEW h \in HourStarts, usage[p][h] # Null
        PROVE  /\ PodTicks(p, h) < 0 <=> deleted[p] # Null /\ deleted[p] < h
               /\ left[p] # Null /\ deleted[p] # Null /\ left[p] <= deleted[p]
                     => PodTicks(p, h) >= 0
    <3>1. p \in Pods
        BY DEF Pod
    <3>2. h \in Nat /\ Hour \in Nat /\ Hour > 0
        BY HourStart, CostViewsAssumption
    <3>3. h <= now /\ (left[p] # Null => h <= left[p])
        BY <2>2, <3>1 DEF Inv, Recorded
    <3>4. now \in Nat /\ deleted[p] \in Nat \union {Null} /\ left[p] \in Nat \union {Null}
        BY <3>1, CostViewsAssumption DEF Inv, TypeOK, Time
    <3>5. PodTicks(p, h) = (IF deleted[p] = Null THEN Lower(h + Hour, now)
                            ELSE Lower(Lower(h + Hour, now), deleted[p])) - h
        BY <3>1, PodRow
    <3>6. PodTicks(p, h) < 0 <=> deleted[p] # Null /\ deleted[p] < h
        BY <3>2, <3>3, <3>4, <3>5 DEF Lower
    <3>7. PodTicks(p, h) \in Int
        BY <3>1, PodRow
    <3> QED
        BY <3>2, <3>3, <3>4, <3>6, <3>7
  <2> QED
      BY <2>1, <2>2 DEF NegativeOnlyOutsideLife, NodeHourly, PodHourly
<1> QED
    BY <1>1, Inductive, PTL

--------------------------------------------------------------------------------
(* The hours of a node.                                                       *)

LEMMA HoursFinite == IsFiniteSet(HourStarts)
<1>1. IsFiniteSet(0 .. MaxNow)
    BY CostViewsAssumption, FS_Interval
<1> QED
    BY <1>1, FS_Subset DEF HourStarts, Time

\* No node is older than the one whose creation starts the series of hours.
LEMMA FirstIsFirst ==
    ASSUME Inv, NEW n \in Node
    PROVE  FirstHour \in Nat /\ FirstHour <= Trunc(created[n])
<1> DEFINE S == {created[m] : m \in Node}
<1>1. S \in SUBSET Nat /\ created[n] \in S
    BY NodeLife
<1> HIDE DEF S
<1>2. PICK x \in S : \A y \in S : x <= y
    BY <1>1, LeastNatural
<1>3. Min(S) = x /\ x \in Nat /\ created[n] \in Nat /\ x <= created[n]
  <2>1. S \in SUBSET Int
      BY <1>1
  <2>2. Min(S) = x
      BY <1>2, <2>1, MinIs
  <2> QED
      BY <1>1, <1>2, <2>2
<1>4. FirstHour = Trunc(x)
    BY <1>3 DEF FirstHour, S
<1> QED
    BY <1>3, <1>4, TruncOf, TruncMonotonic

\* The hours of a node follow each other: from that of its creation to the last
\* that started before its end.
LEMMA HoursFollow ==
    ASSUME Inv, NEW n \in Node
    PROVE  \E a, z \in Nat :
               /\ Trunc(created[n]) = Hour * a /\ a <= z
               /\ EndOf(n) <= Hour * z
               /\ \A q \in Nat : q < z => Hour * q <= EndOf(n)
               /\ HoursFromCreation(n)
                     = {h \in HourStarts : Hour * a <= h /\ h < Hour * z}
<1> DEFINE Has(h) == h <= now /\ (deleted[n] # Null => h < deleted[n])
           T == {q \in Nat : ~ Has(Hour * q)}
<1>1. Hour \in Nat /\ Hour > 0
    BY CostViewsAssumption
<1>2. /\ created[n] \in Nat /\ EndOf(n) \in Nat /\ now \in Nat
      /\ created[n] <= EndOf(n) /\ EndOf(n) <= now
      /\ deleted[n] \in Int \union {Null}
    BY NodeLife
<1>3. \A h \in Nat : Has(h) => h <= EndOf(n)
    BY <1>2 DEF EndOf
<1>4. \A h \in Nat : ~ Has(h) => EndOf(n) <= h
    BY <1>2 DEF EndOf
<1>5. \A g, h \in Nat : g <= h /\ Has(h) => Has(g)
    BY <1>2
<1>6. now + 1 \in T
  <2>1. Hour * (now + 1) >= now + 1
      BY <1>1, <1>2
  <2>2. now + 1 \in Nat /\ ~ (Hour * (now + 1) <= now)
      BY <1>1, <1>2, <2>1
  <2> QED
      BY <2>2
<1>7. PICK z \in T : \A q \in T : z <= q
  <2>1. T \in SUBSET Nat /\ T # {}
      BY <1>6
  <2> HIDE DEF T
  <2> QED
      BY <2>1, LeastNatural
<1>8. z \in Nat /\ ~ Has(Hour * z) /\ \A q \in Nat : q < z => Has(Hour * q)
    BY <1>7
<1>9. PICK a \in Nat : Trunc(created[n]) = Hour * a
    BY <1>2, TruncOf
<1>10. Hour * a \in Nat /\ Hour * a <= created[n] /\ Hour * z \in Nat
    BY <1>2, <1>8, <1>9, TruncOf, TruncOfMultiple
<1>11. EndOf(n) <= Hour * z
    BY <1>4, <1>8, <1>10
<1>12. \A q \in Nat : q < z => Hour * q <= EndOf(n)
    BY <1>3, <1>8, TruncOfMultiple
<1>13. a <= z
  <2>1. z < a => Hour * z < Hour * a
      BY <1>8, MultiplesOrdered
  <2> QED
      BY <1>2, <1>8, <1>10, <1>11, <2>1
<1>14. ASSUME NEW h \in HourStarts
       PROVE  (HasHour(n, h) /\ h >= Hour * a) <=> (Hour * a <= h /\ h < Hour * z)
  <2>1. PICK q \in Nat : h = Hour * q
      BY HourStart
  <2>2. h \in Nat
      BY HourStart
  <2>3. Has(h) <=> h < Hour * z
    <3>1. q < z <=> Hour * q < Hour * z
        BY <1>8, MultiplesOrdered
    <3>2. h < Hour * z => Has(h)
        BY <1>8, <2>1, <3>1
    <3>3. ~ (h < Hour * z) => ~ Has(h)
        BY <1>5, <1>8, <1>10, <2>2
    <3> QED
        BY <3>2, <3>3
  <2>4. HasHour(n, h) <=> h >= FirstHour /\ Has(h)
      BY DEF HasHour, FirstHour
  <2>5. FirstHour \in Nat /\ FirstHour <= Hour * a
      BY <1>9, FirstIsFirst
  <2> HIDE DEF Has
  <2> QED
      BY <1>10, <2>2, <2>3, <2>4, <2>5
<1>15. HoursFromCreation(n) = {h \in HourStarts : Hour * a <= h /\ h < Hour * z}
    BY <1>9, <1>14 DEF HoursFromCreation
<1> QED
    BY <1>8, <1>9, <1>11, <1>12, <1>13, <1>15

\* Hour by hour: the rows before the hour q add up to the part of the life before
\* it.
LEMMA HoursTelescope ==
    ASSUME Inv, NEW n \in Node, NEW f, NEW a \in Nat, NEW z \in Nat,
           Trunc(created[n]) = Hour * a,
           \A q \in Nat : q < z => Hour * q <= EndOf(n),
           \A h \in HourStarts : Hour * a <= h /\ h < Hour * z => f[h] = NodeTicks(n, h),
           NEW b \in Nat, a <= b, b <= z
    PROVE  SumFunctionOnSet(f, {h \in HourStarts : Hour * a <= h /\ h < Hour * b})
               = Upper(Lower(Hour * b, EndOf(n)), created[n]) - created[n]
<1> DEFINE H(q) == {h \in HourStarts : Hour * a <= h /\ h < Hour * q}
           Before(q) == Upper(Lower(Hour * q, EndOf(n)), created[n])
           Sum(q) == SumFunctionOnSet(f, H(q))
           Bad == {q \in Nat : a <= q /\ q <= z /\ Sum(q) # Before(q) - created[n]}
<1>1. SUFFICES ASSUME Bad # {} PROVE FALSE
    OBVIOUS
<1>2. /\ Hour \in Nat /\ Hour > 0
      /\ created[n] \in Nat /\ EndOf(n) \in Nat /\ now \in Nat /\ MaxNow \in Nat
      /\ created[n] <= EndOf(n) /\ EndOf(n) <= now /\ now <= MaxNow
  <2>1. Hour \in Nat /\ Hour > 0 /\ MaxNow \in Nat
      BY CostViewsAssumption
  <2> QED
      BY <2>1, NodeLife
<1>3. Hour * a \in Nat /\ Hour * a <= created[n] /\ created[n] < (Hour * a) + Hour
    BY <1>2, TruncOf
<1>4. PICK q \in Bad : \A p \in Bad : q <= p
  <2>1. Bad \in SUBSET Nat
      OBVIOUS
  <2> HIDE DEF Bad
  <2> QED
      BY <1>1, <2>1, LeastNatural
<1>5. q # a
  <2>1. H(a) = {}
    <3>1. \A h \in HourStarts : h \in Nat
        BY HourStart
    <3> QED
        BY <1>3, <3>1
  <2>2. Sum(a) = 0
      BY <2>1, SumEmpty
  <2>3. Before(a) = created[n]
      BY <1>2, <1>3 DEF Upper, Lower
  <2> QED
      BY <1>2, <1>4, <2>2, <2>3
<1> DEFINE p == q - 1
           h == Hour * p
<1>6. p \in Nat /\ a <= p /\ p < z /\ q = p + 1
    BY <1>4, <1>5
<1>7. Sum(p) = Before(p) - created[n]
    BY <1>4, <1>6
<1> HIDE DEF p
<1>8. h \in Nat /\ Hour * a <= h /\ h <= EndOf(n) /\ Hour * q = h + Hour /\ h < Hour * z
    BY <1>6, TruncOfMultiple, MultiplesOrdered
<1>9. h \in HourStarts
    BY <1>2, <1>6, <1>8, MultipleInTime
<1>10. H(q) = H(p) \union {h} /\ h \notin H(p)
  <2>1. ASSUME NEW g \in HourStarts
        PROVE  g < Hour * q <=> g < h \/ g = h
    <3>1. PICK i \in Nat : g = Hour * i
        BY HourStart
    <3>2. /\ i < p <=> Hour * i < Hour * p
          /\ p < i => (Hour * p) + Hour <= Hour * i
        BY <1>6, <3>1, MultiplesOrdered
    <3>3. g \in Nat
        BY HourStart
    <3>4. p < i \/ i < p \/ i = p
        BY <1>6
    <3> QED
        BY <1>2, <1>8, <3>1, <3>2, <3>3, <3>4
  <2> HIDE DEF h
  <2>2. H(q) = H(p) \union {h}
    <3>1. \A g \in HourStarts : g < Hour * p <=> g < h
        BY DEF h
    <3> QED
        BY <1>8, <1>9, <2>1, <3>1
  <2>3. h \notin H(p)
      BY <1>8 DEF h
  <2> QED
      BY <2>2, <2>3
<1>11. \A g \in H(q) : f[g] \in Int
  <2> SUFFICES ASSUME NEW g \in H(q) PROVE f[g] \in Int
      OBVIOUS
  <2>1. g \in Nat
      BY HourStart
  <2>2. g < Hour * z
      BY <1>2, <1>6, <1>8, <2>1, MultiplesOrdered, <1>4, TruncOfMultiple
  <2>3. f[g] = NodeTicks(n, g)
      BY <2>2
  <2>4. NodeTicks(n, g) = Lower(g + Hour, EndOf(n)) - Upper(g, created[n])
      BY NodeRow
  <2> QED
      BY <1>2, <2>1, <2>3, <2>4 DEF Lower, Upper
<1>12. Sum(q) = Sum(p) + f[h]
  <2>1. IsFiniteSet(H(p))
      BY HoursFinite, FS_Subset
  <2>2. /\ \A g \in H(p) : f[g] \in Int
        /\ f[h] \in Int
      BY <1>10, <1>11
  <2> HIDE DEF h, H
  <2> QED
      BY <1>10, <2>1, <2>2, SumAdd
<1>13. f[h] = Lower(h + Hour, EndOf(n)) - Upper(h, created[n])
    BY <1>8, <1>9, NodeRow
<1>14. Before(p) = Upper(h, created[n]) /\ Before(q) = Lower(h + Hour, EndOf(n))
  <2>1. Hour * q = h + Hour /\ Hour * p = h
      BY <1>8
  <2> HIDE DEF h
  <2> QED
      BY <1>2, <1>3, <1>8, <2>1 DEF Upper, Lower
<1>15. Sum(q) = Before(q) - created[n]
  <2>1. Upper(h, created[n]) \in Int /\ Lower(h + Hour, EndOf(n)) \in Int
      BY <1>2, <1>8 DEF Upper, Lower
  <2> HIDE DEF h, Sum, Before
  <2> QED
      BY <1>2, <1>7, <1>12, <1>13, <1>14, <2>1
<1> QED
    BY <1>4, <1>15

\* From the hour of its creation on, the hours of a node's rows in node_hourly add
\* up to the time it existed, for any length of the hour and any age.
THEOREM HoursAddUp == Spec => []NodeHoursAddUp
<1>1. Inv => NodeHoursAddUp
  <2> SUFFICES ASSUME Inv, NEW n \in Node
               PROVE  SumFunction([h \in HoursFromCreation(n) |-> NodeTicks(n, h)])
                          = Least({deleted[n], now}) - created[n]
      BY DEF NodeHoursAddUp
  <2>1. PICK a \in Nat, z \in Nat :
            /\ Trunc(created[n]) = Hour * a /\ a <= z
            /\ EndOf(n) <= Hour * z
            /\ \A q \in Nat : q < z => Hour * q <= EndOf(n)
            /\ HoursFromCreation(n) = {h \in HourStarts : Hour * a <= h /\ h < Hour * z}
      BY HoursFollow
  <2> DEFINE f == [h \in HoursFromCreation(n) |-> NodeTicks(n, h)]
  <2>2. \A h \in HourStarts : Hour * a <= h /\ h < Hour * z => f[h] = NodeTicks(n, h)
      BY <2>1
  <2>3. SumFunction(f) = SumFunctionOnSet(f, HoursFromCreation(n))
      BY DEF SumFunction
  <2> HIDE DEF f
  <2>4. SumFunctionOnSet(f, {h \in HourStarts : Hour * a <= h /\ h < Hour * z})
            = Upper(Lower(Hour * z, EndOf(n)), created[n]) - created[n]
      BY <2>1, <2>2, HoursTelescope
  <2>5. Upper(Lower(Hour * z, EndOf(n)), created[n]) = EndOf(n)
    <3>1. created[n] \in Nat /\ EndOf(n) \in Nat /\ created[n] <= EndOf(n)
        BY NodeLife
    <3>2. Hour * z \in Nat
        BY TruncOfMultiple
    <3> QED
        BY <2>1, <3>1, <3>2 DEF Upper, Lower
  <2>6. Least({deleted[n], now}) = EndOf(n)
      BY NodeLife
  <2> QED
      BY <2>1, <2>3, <2>4, <2>5, <2>6 DEF f
<1> QED
    BY <1>1, Inductive, PTL

--------------------------------------------------------------------------------
(* What is billed.                                                            *)

\* Amounts keep their order when multiplied by a time.
LEMMA TimesMonotonic ==
    ASSUME NEW x \in Int, NEW y \in Int, NEW t \in Nat, x <= y
    PROVE  x * t \in Int /\ y * t \in Int /\ x * t <= y * t
<1>1. (y - x) \in Nat
    OBVIOUS
<1>2. (y - x) * t >= 0
    BY <1>1
<1>3. (y - x) * t = (y * t) - (x * t)
    OBVIOUS
<1> QED
    BY <1>2, <1>3

LEMMA PodOfName ==
    ASSUME Inv, NEW name, NEW h \in HourStarts, NEW p \in PodsOf(name, h)
    PROVE  /\ p \in Pods /\ RequestCores(p) \in Nat /\ UsedCores(p, h) \in Int
           /\ PodTicks(p, h) \in Int
           /\ PodCost(p, h) = Upper(RequestCores(p), UsedCores(p, h)) * PodTicks(p, h)
<1>1. p \in Pods /\ usage[p][h] # Null
    BY DEF PodsOf, Pod
<1>2. UsedCores(p, h) \in Int
  <2>1. usage[p] \in [HourStarts -> Averages \union {Null}]
      BY <1>1 DEF Inv, TypeOK
  <2>2. usage[p][h] \in Averages
      BY <1>1, <2>1
  <2> QED
      BY <2>2, CostViewsAssumption DEF UsedCores
<1>3. RequestCores(p) \in Nat /\ RequestCores(p) \in Int
  <2>1. spec[p] \in Specs
      BY DEF PodsOf, Pod, Inv, TypeOK
  <2>2. Readable(spec[p].request)
      BY <2>1, CostViewsAssumption
  <2> QED
      BY <2>2, CoresAreNatural DEF RequestCores
<1>4. Greatest({RequestCores(p), UsedCores(p, h)}) = Upper(RequestCores(p), UsedCores(p, h))
    BY <1>2, <1>3, GreatestOfTwo
<1> QED
    BY <1>1, <1>2, <1>3, <1>4, PodRow DEF PodCost

PodCosts(name, h) == SumFunction([p \in PodsOf(name, h) |-> PodCost(p, h)])

\* Together the pods of a node name pay no less than either of the sums that the
\* idle row subtracts; exactly what they requested when none used more.
LEMMA PodsPay ==
    ASSUME Inv, NEW name, NEW h \in HourStarts,
           \A p \in PodsOf(name, h) : PodTicks(p, h) >= 0
    PROVE  /\ RequestSum(name, h) \in Int /\ UsedSum(name, h) \in Int
           /\ PodCosts(name, h) \in Int
           /\ 0 <= RequestSum(name, h)
           /\ RequestSum(name, h) <= PodCosts(name, h)
           /\ UsedSum(name, h) <= PodCosts(name, h)
           /\ (\A p \in PodsOf(name, h) : UsedCores(p, h) <= RequestCores(p)) =>
                 /\ PodCosts(name, h) = RequestSum(name, h)
                 /\ UsedSum(name, h) <= RequestSum(name, h)
<1> DEFINE S == PodsOf(name, h)
           paid == [p \in S |-> PodCost(p, h)]
           requested == [p \in S |-> RequestCores(p) * PodTicks(p, h)]
           used == [p \in S |-> UsedCores(p, h) * PodTicks(p, h)]
<1>1. IsFiniteSet(S)
  <2>1. S \subseteq Pods
      BY DEF PodsOf, Pod
  <2> QED
      BY <2>1, FS_Subset, CostViewsAssumption
<1>2. ASSUME NEW p \in S
      PROVE  /\ paid[p] \in Int /\ requested[p] \in Int /\ used[p] \in Int
             /\ 0 <= requested[p] /\ requested[p] <= paid[p] /\ used[p] <= paid[p]
             /\ UsedCores(p, h) <= RequestCores(p) => paid[p] = requested[p]
  <2> DEFINE r == RequestCores(p)
             u == UsedCores(p, h)
             t == PodTicks(p, h)
  <2>1. /\ r \in Nat /\ r \in Int /\ u \in Int /\ t \in Nat
        /\ PodCost(p, h) = Upper(r, u) * t
      BY PodOfName
  <2>2. paid[p] = PodCost(p, h) /\ requested[p] = r * t /\ used[p] = u * t
      OBVIOUS
  <2> HIDE DEF paid, requested, used, r, u, t
  <2>3. Upper(r, u) \in Int /\ r <= Upper(r, u) /\ u <= Upper(r, u)
      BY <2>1 DEF Upper
  <2>4. /\ r * t \in Int /\ u * t \in Int /\ Upper(r, u) * t \in Int
        /\ r * t <= Upper(r, u) * t /\ u * t <= Upper(r, u) * t
      BY <2>1, <2>3, TimesMonotonic
  <2>5. 0 <= r * t
      BY <2>1
  <2>6. u <= r => Upper(r, u) = r
      BY <2>1 DEF Upper
  <2> QED
      BY <2>1, <2>2, <2>4, <2>5, <2>6 DEF r, u
<1>3. /\ PodCosts(name, h) = SumFunctionOnSet(paid, S)
      /\ RequestSum(name, h) = SumFunctionOnSet(requested, S)
      /\ UsedSum(name, h) = SumFunctionOnSet(used, S)
    BY DEF PodCosts, RequestSum, UsedSum, SumFunction
<1> HIDE DEF paid, requested, used, S
<1>4. /\ SumFunctionOnSet(paid, S) \in Int
      /\ SumFunctionOnSet(requested, S) \in Int
      /\ SumFunctionOnSet(used, S) \in Int
    BY <1>1, <1>2, SumType
<1>5. 0 <= SumFunctionOnSet(requested, S)
    BY <1>1, <1>2, SumNotNegative
<1>6. /\ SumFunctionOnSet(requested, S) <= SumFunctionOnSet(paid, S)
      /\ SumFunctionOnSet(used, S) <= SumFunctionOnSet(paid, S)
    BY <1>1, <1>2, SumMonotonic
<1>7. (\A p \in S : UsedCores(p, h) <= RequestCores(p)) =>
          SumFunctionOnSet(paid, S) = SumFunctionOnSet(requested, S)
    BY <1>1, <1>2, SumSame
<1> QED
    BY <1>3, <1>4, <1>5, <1>6, <1>7 DEF S

\* In an hour of its life, a node's row is no longer than the hour.
LEMMA RowAtMostHour ==
    ASSUME Inv, NEW n \in Node, NEW h \in HourStarts, HasHour(n, h), h >= Trunc(created[n])
    PROVE  NodeTicks(n, h) \in Int /\ NodeTicks(n, h) <= Hour
<1>1. h \in Nat /\ Hour \in Nat /\ Hour > 0
    BY HourStart, CostViewsAssumption
<1>2. /\ created[n] \in Nat /\ EndOf(n) \in Nat
      /\ NodeTicks(n, h) = Lower(h + Hour, EndOf(n)) - Upper(h, created[n])
    BY NodeLife, NodeRow
<1> QED
    BY <1>1, <1>2 DEF Lower, Upper

\* A node that is alone of its name in an hour is billed for no less than its
\* capacity while it was there, and for exactly its capacity when it was there for
\* the whole hour and no pod used more than it requested: no gap, no overlap.
THEOREM CapacityPaid == Spec => []CapacityIsPaid
<1>1. Inv => CapacityIsPaid
  <2> SUFFICES ASSUME Inv, NEW n \in Node, NEW h \in HourStarts, NEW name,
                      HasHour(n, h), name = NameOf[n],
                      NodesOf(name, h) = {n}, h >= Trunc(created[n]),
                      \A p \in PodsOf(name, h) : PodTicks(p, h) >= 0
               PROVE  /\ CostOf(name, h) >= NodeTicks(n, h) * ParseCores(size[n].capacity)
                      /\ ( /\ NodeTicks(n, h) = Hour
                           /\ \A p \in PodsOf(name, h) : UsedCores(p, h) <= RequestCores(p) )
                         => CostOf(name, h) = Hour * ParseCores(size[n].capacity)
      BY DEF CapacityIsPaid, NodeHourly
  <2> DEFINE A == ParseCores(size[n].allocatable)
             C == ParseCores(size[n].capacity)
             T == NodeTicks(n, h)
             R == RequestSum(name, h)
             U == UsedSum(name, h)
             P == PodCosts(name, h)
             most == Upper(Upper(R, U), 0)
  <2>1. A \in Nat /\ C \in Nat /\ A <= C /\ Hour \in Nat
    <3>1. size[n] \in Sizes
        BY DEF Node, Inv, TypeOK, Seen
    <3>2. /\ Readable(size[n].capacity) /\ Readable(size[n].allocatable) /\ A <= C
          /\ Hour \in Nat
        BY <3>1, CostViewsAssumption
    <3> QED
        BY <3>2, CoresAreNatural
  <2>2. T \in Int /\ T <= Hour
      BY RowAtMostHour
  <2>3. R \in Int /\ U \in Int /\ P \in Int /\ 0 <= R /\ R <= P /\ U <= P
      BY PodsPay
  <2>4. (\A p \in PodsOf(name, h) : UsedCores(p, h) <= RequestCores(p)) => P = R /\ U <= R
      BY PodsPay
  <2>5. IdleCost(n, h) = A * Hour - most
    <3>1. Greatest({R, U, 0}) = most
        BY <2>3, GreatestOfThree
    <3> QED
        BY <3>1 DEF IdleCost
  <2>6. SystemCost(n, h) = T * (C - A)
      BY DEF SystemCost
  <2> HIDE DEF A, C, T, R, U, P
  <2>7. most \in Int /\ 0 <= most /\ most <= P
      BY <2>3 DEF Upper
  <2>8. /\ A * Hour \in Int /\ T * (C - A) \in Int /\ T * C \in Int /\ T * A \in Int
        /\ T * (C - A) = (T * C) - (T * A)
        /\ T * A <= A * Hour
    <3>1. T * A <= Hour * A
        BY <2>1, <2>2, TimesMonotonic
    <3>2. Hour * A = A * Hour
        BY <2>1
    <3>3. A * Hour \in Int /\ T * C \in Int /\ T * A \in Int /\ T * (C - A) \in Int
        BY <2>1, <2>2
    <3>4. T * (C - A) = (T * C) - (T * A)
        BY <2>1, <2>2
    <3> QED
        BY <3>1, <3>2, <3>3, <3>4
  <2> DEFINE paid == [m \in NodesOf(name, h) |-> IdleCost(m, h) + SystemCost(m, h)]
  <2>9. paid[n] = IdleCost(n, h) + SystemCost(n, h)
      OBVIOUS
  <2>10. CostOf(name, h) = P + SumFunctionOnSet(paid, {n})
      BY DEF CostOf, PodCosts, SumFunction, P
  <2> HIDE DEF paid, most
  <2>11. SumFunctionOnSet(paid, {n}) = paid[n]
    <3>1. paid[n] \in Int
        BY <2>5, <2>6, <2>7, <2>8, <2>9
    <3> QED
        BY <3>1, SumSingle
  <2>12. CostOf(name, h) = P + (((A * Hour) - most) + ((T * C) - (T * A)))
      BY <2>5, <2>6, <2>8, <2>9, <2>10, <2>11
  <2>13. CostOf(name, h) >= T * C
      BY <2>3, <2>7, <2>8, <2>12
  <2>14. ASSUME T = Hour, \A p \in PodsOf(name, h) : UsedCores(p, h) <= RequestCores(p)
         PROVE  CostOf(name, h) = Hour * C
    <3>1. most = P
        BY <2>3, <2>4, <2>14 DEF most, Upper
    <3>2. T * A = A * Hour
        BY <2>1, <2>14
    <3>3. CostOf(name, h) = T * C
        BY <2>3, <2>7, <2>8, <2>12, <3>1, <3>2
    <3> QED
        BY <2>14, <3>3
  <2> QED
      BY <2>13, <2>14 DEF T, C
<1> QED
    BY <1>1, Inductive, PTL

--------------------------------------------------------------------------------
(* The past.                                                                  *)

\* Once the clock has passed the end of an hour it no longer bounds a row.
LEMMA PastEnd ==
    ASSUME NEW h \in Int, NEW t \in Int, NEW d \in Int \union {Null}, h + Hour <= t
    PROVE  Least({h + Hour, d, t}) = IF d = Null THEN h + Hour ELSE Lower(h + Hour, d)
<1>1. h + Hour \in Int
    BY CostViewsAssumption
<1> QED
    BY <1>1, LeastOfThree DEF Lower

\* Nothing but what is stored changes, for a row of a past hour: the clock goes on
\* and a deletion comes after the hour.
LEMMA PastInputs ==
    ASSUME Inv, [Next]_vars, NEW h \in HourStarts, h + Hour <= now
    PROVE  /\ now' \in Int /\ h + Hour <= now' /\ now <= now'
           /\ \A n \in Nodes : /\ created'[n] \in Nat \union {Null}
                               /\ created[n] # Null => created'[n] = created[n]
           /\ \A o \in Nodes \union Pods :
                 /\ deleted'[o] \in Int \union {Null}
                 /\ \/ deleted'[o] = deleted[o]
                    \/ /\ deleted[o] = Null /\ deleted'[o] # Null
                       /\ h + Hour <= deleted'[o]
<1>1. /\ now \in Nat /\ now \in Int /\ h \in Nat /\ Hour \in Nat /\ Hour > 0
      /\ \A o \in Nodes \union Pods : deleted[o] \in Int \union {Null}
      /\ \A n \in Nodes : created[n] \in Nat \union {Null}
    BY HourStart, CostViewsAssumption DEF Inv, TypeOK, Time
<1>2. CASE UNCHANGED vars
    BY <1>1, <1>2 DEF vars
<1>3. CASE Tick
    BY <1>1, <1>3 DEF Tick
<1>4. ASSUME NEW n \in Nodes, NEW s \in Sizes, StoreNode(n, s)
      PROVE  /\ UNCHANGED <<now, deleted>>
             /\ \A m \in Nodes : /\ created'[m] \in Nat \union {Null}
                                 /\ created[m] # Null => created'[m] = created[m]
  <2>1. ASSUME NEW m \in Nodes
        PROVE  /\ created'[m] \in Nat \union {Null}
               /\ created[m] # Null => created'[m] = created[m]
      BY <1>1, <1>4, StoreNodeChanges
  <2> QED
      BY <1>4, <2>1 DEF StoreNode
<1>5. CASE \E p \in Pods, s \in Specs : StorePod(p, s)
    BY <1>1, <1>5 DEF StorePod
<1>6. CASE \E o \in Nodes \union Pods : MarkDeleted(o)
  <2>1. PICK o \in Nodes \union Pods : MarkDeleted(o)
      BY <1>6
  <2>2. /\ deleted[o] = Null /\ deleted'[o] = now
        /\ \A x \in Nodes \union Pods : x # o => deleted'[x] = deleted[x]
        /\ UNCHANGED <<now, created>>
      BY <2>1 DEF MarkDeleted, Inv, TypeOK
  <2>3. now # Null
      BY <1>1, CostViewsAssumption
  <2> QED
      BY <1>1, <2>2, <2>3
<1>7. CASE \E p \in Pods : Leave(p)
    BY <1>1, <1>7 DEF Leave
<1>8. CASE \E p \in Pods, average \in Averages : Record(p, average)
    BY <1>1, <1>8 DEF Record
<1> QED
    BY <1>1, <1>2, <1>3, <1>4, <1>5, <1>6, <1>7, <1>8 DEF Next

\* The least of more numbers is not greater.
LEMMA MinOfMore ==
    ASSUME NEW S \in SUBSET Nat, NEW T \in SUBSET Nat, S # {}, S \subseteq T
    PROVE  Min(S) \in Nat /\ Min(T) \in Nat /\ Min(T) <= Min(S)
<1>1. PICK x \in S : \A y \in S : x <= y
    BY LeastNatural
<1>2. PICK z \in T : \A y \in T : z <= y
    BY LeastNatural
<1>3. Min(S) = x /\ Min(T) = z
    BY <1>1, <1>2, MinIs
<1> QED
    BY <1>1, <1>2, <1>3

\* Hours that node_hourly has are not taken away by older nodes.
LEMMA FirstHourFalls ==
    ASSUME Inv, [Next]_vars, NEW h \in HourStarts, h + Hour <= now, Node # {}
    PROVE  FirstHour \in Nat /\ FirstHour' \in Nat /\ FirstHour' <= FirstHour
<1> DEFINE S == {created[m] : m \in Node}
           T == {created'[m] : m \in Node'}
<1>1. \A n \in Nodes : /\ created'[n] \in Nat \union {Null}
                       /\ created[n] # Null => created'[n] = created[n]
    BY PastInputs
<1>2. S \in SUBSET Nat /\ S # {}
    BY NodeLife
<1>3. T \in SUBSET Nat /\ S \subseteq T
    BY <1>1 DEF Node
<1> HIDE DEF S, T
<1>4. Min(S) \in Nat /\ Min(T) \in Nat /\ Min(T) <= Min(S)
    BY <1>2, <1>3, MinOfMore
<1>5. FirstHour = Trunc(Min(S)) /\ FirstHour' = Trunc(Min(T))
    BY DEF FirstHour, S, T, Trunc
<1>6. Trunc(Min(S)) \in Nat /\ Trunc(Min(T)) \in Nat
    BY <1>4, TruncOf
<1> QED
    BY <1>4, <1>5, <1>6, TruncMonotonic

LEMMA PastRows ==
    ASSUME Inv, [Next]_vars, NEW h \in HourStarts, h + Hour <= now, NEW name,
           NEW one \in Node, HasHour(one, h), ~ Touched(name, h)
    PROVE  /\ NodesOf(name, h)' = NodesOf(name, h)
           /\ \A n \in NodesOf(name, h) : /\ NodeTicks(n, h)' = NodeTicks(n, h)
                                          /\ n \in Nodes /\ size'[n] = size[n]
                                          /\ NameOf[n] = name
           /\ \A p \in Pods : PodTicks(p, h)' = PodTicks(p, h)
<1>1. /\ h \in Int /\ Hour \in Nat /\ Hour > 0 /\ now \in Int
      /\ \A o \in Nodes \union Pods : deleted[o] \in Int \union {Null}
    BY HourStart, CostViewsAssumption DEF Inv, TypeOK, Time
<1>2. /\ now' \in Int /\ h + Hour <= now' /\ now <= now'
      /\ \A o \in Nodes \union Pods :
            /\ deleted'[o] \in Int \union {Null}
            /\ \/ deleted'[o] = deleted[o]
               \/ /\ deleted[o] = Null /\ deleted'[o] # Null
                  /\ h + Hour <= deleted'[o]
    BY PastInputs
<1>3. ASSUME NEW o \in Nodes \union Pods
      PROVE  Least({h + Hour, deleted'[o], now'}) = Least({h + Hour, deleted[o], now})
  <2>1. Least({h + Hour, deleted'[o], now'})
            = IF deleted'[o] = Null THEN h + Hour ELSE Lower(h + Hour, deleted'[o])
      BY <1>1, <1>2, PastEnd
  <2>2. Least({h + Hour, deleted[o], now})
            = IF deleted[o] = Null THEN h + Hour ELSE Lower(h + Hour, deleted[o])
      BY <1>1, PastEnd
  <2> QED
      BY <1>1, <1>2, <2>1, <2>2 DEF Lower
<1>4. h >= FirstHour /\ h >= FirstHour'
  <2>1. h >= FirstHour
      BY DEF HasHour, FirstHour
  <2>2. FirstHour \in Nat /\ FirstHour' \in Nat /\ FirstHour' <= FirstHour
      BY FirstHourFalls
  <2> QED
      BY <1>1, <2>1, <2>2
<1>5. ASSUME NEW n \in Nodes, NameOf[n] = name
      PROVE  created'[n] = created[n] /\ size'[n] = size[n]
    BY <1>5 DEF Touched
<1>6. ASSUME NEW n \in Nodes, NameOf[n] = name
      PROVE  HasHour(n, h)' <=> HasHour(n, h)
  <2>1. n \in Node' <=> n \in Node
      BY <1>5, <1>6 DEF Node
  <2>2. h <= now /\ h <= now'
      BY <1>1, <1>2
  <2>3. (deleted'[n] # Null => h < deleted'[n]) <=> (deleted[n] # Null => h < deleted[n])
      BY <1>1, <1>2
  <2>4. HasHour(n, h) <=> n \in Node /\ (deleted[n] # Null => h < deleted[n])
      BY <1>4, <2>2 DEF HasHour, FirstHour
  <2>5. HasHour(n, h)' <=> n \in Node' /\ (deleted'[n] # Null => h < deleted'[n])
      BY <1>4, <2>2 DEF HasHour, FirstHour
  <2> QED
      BY <2>1, <2>3, <2>4, <2>5
<1>7. NodesOf(name, h)' = NodesOf(name, h)
  <2>1. \A n \in Nodes : n \in NodesOf(name, h)' <=> n \in NodesOf(name, h)
      BY <1>5, <1>6 DEF NodesOf, Node
  <2> QED
      BY <2>1 DEF NodesOf, Node
<1>8. ASSUME NEW n \in NodesOf(name, h)
      PROVE  /\ NodeTicks(n, h)' = NodeTicks(n, h)
             /\ n \in Nodes /\ size'[n] = size[n] /\ NameOf[n] = name
  <2>1. n \in Nodes /\ NameOf[n] = name
      BY DEF NodesOf, Node
  <2> QED
      BY <1>3, <1>5, <2>1 DEF NodeTicks
<1>9. ASSUME NEW p \in Pods PROVE PodTicks(p, h)' = PodTicks(p, h)
    BY <1>3 DEF PodTicks
<1> QED
    BY <1>7, <1>8, <1>9

LEMMA PastCost ==
    ASSUME Inv, [Next]_vars, NEW h \in HourStarts, h + Hour <= now, NEW name,
           NEW one \in Node, HasHour(one, h), ~ Touched(name, h)
    PROVE  CostOf(name, h)' = CostOf(name, h)
<1>1. /\ NodesOf(name, h)' = NodesOf(name, h)
      /\ \A n \in NodesOf(name, h) : /\ NodeTicks(n, h)' = NodeTicks(n, h)
                                     /\ size'[n] = size[n] /\ NameOf[n] = name
      /\ \A p \in Pods : PodTicks(p, h)' = PodTicks(p, h)
    BY PastRows
<1>2. \A p \in Pods :
          /\ usage'[p][h] = usage[p][h]
          /\ usage[p][h] # Null =>
                \/ spec'[p] = spec[p]
                \/ /\ spec[p] # Null => spec[p].nodeName # name
                   /\ spec'[p] # Null => spec'[p].nodeName # name
    BY DEF Touched
<1>3. /\ PodsOf(name, h)' = PodsOf(name, h)
      /\ \A p \in PodsOf(name, h) : p \in Pods /\ spec'[p] = spec[p]
  <2>1. \A p \in Pods : p \in PodsOf(name, h)' <=> p \in PodsOf(name, h)
      BY <1>2 DEF PodsOf, Pod
  <2>2. \A p \in PodsOf(name, h) : p \in Pods /\ spec'[p] = spec[p]
      BY <1>2 DEF PodsOf, Pod
  <2> QED
      BY <2>1, <2>2 DEF PodsOf, Pod
<1>4. \A p \in PodsOf(name, h) :
          /\ RequestCores(p)' = RequestCores(p)
          /\ UsedCores(p, h)' = UsedCores(p, h)
          /\ PodTicks(p, h)' = PodTicks(p, h)
    BY <1>1, <1>2, <1>3 DEF RequestCores, UsedCores
<1>5. RequestSum(name, h)' = RequestSum(name, h) /\ UsedSum(name, h)' = UsedSum(name, h)
  <2>1. [p \in PodsOf(name, h)' |-> RequestCores(p)' * PodTicks(p, h)']
            = [p \in PodsOf(name, h) |-> RequestCores(p) * PodTicks(p, h)]
      BY <1>3, <1>4
  <2>2. [p \in PodsOf(name, h)' |-> UsedCores(p, h)' * PodTicks(p, h)']
            = [p \in PodsOf(name, h) |-> UsedCores(p, h) * PodTicks(p, h)]
      BY <1>3, <1>4
  <2> QED
      BY <2>1, <2>2 DEF RequestSum, UsedSum
<1>6. \A n \in NodesOf(name, h) : /\ IdleCost(n, h)' = IdleCost(n, h)
                                  /\ SystemCost(n, h)' = SystemCost(n, h)
    BY <1>1, <1>5 DEF IdleCost, SystemCost
<1>7. \A p \in PodsOf(name, h) : PodCost(p, h)' = PodCost(p, h)
    BY <1>4 DEF PodCost
<1>8. [p \in PodsOf(name, h)' |-> PodCost(p, h)'] = [p \in PodsOf(name, h) |-> PodCost(p, h)]
    BY <1>3, <1>7
<1>9. [n \in NodesOf(name, h)' |-> IdleCost(n, h)' + SystemCost(n, h)']
          = [n \in NodesOf(name, h) |-> IdleCost(n, h) + SystemCost(n, h)]
    BY <1>1, <1>6
<1> QED
    BY <1>8, <1>9 DEF CostOf

\* What is billed for an hour that is over stays what it is in every step but one
\* that stores data of its nodes or pods, or usage in the hour.
THEOREM PastFollowsData == Spec => PastHoursFollowData
<1>1. Inv /\ [Next]_vars =>
          [\A h \in HourStarts : h + Hour <= now =>
              \A name \in {NameOf[n] : n \in {m \in Node : HasHour(m, h)}} :
                  \/ Touched(name, h)
                  \/ NodesOf(name, h)' = NodesOf(name, h) /\ CostOf(name, h)' = CostOf(name, h)]_vars
  <2> SUFFICES ASSUME Inv, [Next]_vars, NEW h \in HourStarts, h + Hour <= now,
                      NEW n \in Node, HasHour(n, h), ~ Touched(NameOf[n], h)
               PROVE  /\ NodesOf(NameOf[n], h)' = NodesOf(NameOf[n], h)
                      /\ CostOf(NameOf[n], h)' = CostOf(NameOf[n], h)
      OBVIOUS
  <2> QED
      BY PastRows, PastCost
<1> QED
    BY <1>1, Inductive, PTL DEF Spec, PastHoursFollowData
================================================================================
