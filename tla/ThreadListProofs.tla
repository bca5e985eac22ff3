--------------------------- MODULE ThreadListProofs ---------------------------
(***************************************************************************)
(* Proofs about module ThreadList, for every number of phones, page size,  *)
(* number of pages and of requests on their way.                           *)
(***************************************************************************)
EXTENDS ThreadList, FiniteSetTheorems, SequenceTheorems, WellFoundedInduction, TLAPS

RequestType ==
  [kind : Kinds, gen : 0 .. MaxLoads, query : Terms, before : Stamps, left : 1 .. OlderPages,
   todo : Seq(Sources), got : [Phones -> Stamps], full : BOOLEAN,
   rows : [Phones -> Stamps], next : Stamps, more : BOOLEAN, done : BOOLEAN]

ListTypes ==
  /\ stamp \in [Sources -> [Entries -> Stamps]] /\ owners \in [Stamps -> SUBSET Phones]
  /\ query \in Terms
  /\ generation \in 1 .. MaxLoads /\ base \in 0 .. generation
  /\ threads \in [Phones -> Stamps] /\ pollKey \in [Phones -> Stamps] /\ cursor \in Stamps
  /\ hasMore \in BOOLEAN /\ older \in BOOLEAN /\ crossed \in BOOLEAN
  /\ auto \in 0 .. AutoPages /\ active \subseteq Phones
  /\ requests \subseteq RequestType

Live(r) == r.gen = generation

\* Every request is for a load that has begun, and the first page of the load
\* that is running comes before anything else of it.
LoadsInOrder ==
  /\ \A r \in requests : /\ r.gen <= generation
                         /\ Live(r) => r.query = query
                         /\ r.kind \in {"auto", "older"} => r.gen <= base
                         /\ r.kind = "refresh" => r.gen = 0
                         /\ r.kind = "first" => r.before = 0
  /\ \A r \in requests : r.kind = "first" /\ Live(r) =>
       /\ base # generation
       /\ \A q \in requests : q.kind = "first" /\ Live(q) => q = r
  /\ auto > 0 => base = generation

\* The automatic load asks for a page at a time.
AutoInTurn ==
  \A r \in requests : r.kind = "auto" /\ Live(r) =>
    /\ auto \in 1 .. AutoPages - 1
    /\ \A q \in requests : q.kind = "auto" /\ Live(q) => q = r

Descends ==
  \A r \in requests :
    /\ r.kind \in {"auto", "older"} => r.before > 0
    /\ r.before > 0 => r.next < r.before /\ \A p \in Phones : r.got[p] < r.before

ToRead(r) == {r.todo[i] : i \in 1 .. Len(r.todo)}

\* The owners of a stamp are the phones of all that was stored with it.
OwnersKnown ==
  /\ \A s \in Sources, e \in Entries : PhonesOf[e] \subseteq owners[stamp[s][e]]
  /\ \A r \in requests, p \in Phones : r.got[p] > 0 => p \in owners[r.got[p]]

Searched == {SourcesOf(query)[i] : i \in 1 .. Len(SourcesOf(query))}

\* The rows that no other phone's are tied with, of the phones at rest, those
\* that were not active since the load began.
AtRest(s, e, p) ==
  Matches(s, e, p) /\ p \in Phones \ active /\ owners[stamp[s][e]] = {p}

Later(at, n) == {q \in Phones : at[q] > n}

Gathers(r) ==
  \A s \in Searched \ ToRead(r), e \in Entries, p \in Phones :
    AtRest(s, e, p) /\ (r.before > 0 => stamp[s][e] < r.before) =>
      \/ r.got[p] >= stamp[s][e]
      \/ r.full /\ Cardinality(Later(r.got, stamp[s][e])) >= Limit

Answers(r) ==
  \A s \in Searched, e \in Entries, p \in Phones :
    AtRest(s, e, p) /\ (r.before > 0 => stamp[s][e] < r.before) =>
      \/ r.rows[p] > 0
      \/ r.more /\ (r.next > 0 => stamp[s][e] < r.next)

Listed(n) ==
  \A s \in Searched, e \in Entries, p \in Phones :
    AtRest(s, e, p) /\ stamp[s][e] >= n => threads[p] > 0

Covered ==
  /\ \A r \in requests : Live(r) => /\ ~r.done => Gathers(r)
                                    /\ r.done => Answers(r)
  /\ base = generation /\ ~crossed =>
       /\ ~hasMore => Listed(0)
       /\ cursor > 0 => Listed(cursor)
       /\ \A r \in requests : r.kind \in {"auto", "older"} /\ Live(r) => Listed(r.before)

ListInv == ListTypes /\ LoadsInOrder /\ AutoInTurn /\ Descends /\ OwnersKnown /\ Covered

-----------------------------------------------------------------------------
(* Greatest, least and newest                                              *)

\* A bounded set of numbers has a greatest one: of the sets of what is no less
\* than one of them, take the smallest.
LEMMA MaxOfNumbers ==
  ASSUME NEW S \in SUBSET Nat, S # {}, NEW n \in Nat, \A x \in S : x <= n
  PROVE  Max(S) \in S /\ \A x \in S : x <= Max(S)
<1> DEFINE Above(x) == {y \in S : x <= y}
           Aboves == {Above(x) : x \in S}
<1>1. Aboves \subseteq FiniteSubsetsOf(S) /\ Aboves # {}
  <2>1. IsFiniteSet(S)
    BY FS_BoundedSetOfNaturals
  <2>2. ASSUME NEW x \in S PROVE IsFiniteSet(Above(x))
    BY <2>1, FS_Subset
  <2>3. QED
    BY <2>2 DEF FiniteSubsetsOf
<1>2. PICK U \in Aboves : \A V \in Aboves : ~ (<<V, U>> \in StrictSubsetOrdering(S))
  <2> HIDE DEF Aboves
  <2>1. QED
    BY <1>1, FS_StrictSubsetOrderingWellFounded, WFMin
<1>3. PICK x \in S : U = Above(x)
  OBVIOUS
<1>4. ASSUME NEW y \in S PROVE x >= y
  <2>1. SUFFICES ASSUME x < y PROVE FALSE
    OBVIOUS
  <2>2. Above(y) \subseteq Above(x) /\ x \in Above(x) /\ x \notin Above(y)
    <3>1. x \in Nat /\ y \in Nat /\ \A z \in S : z \in Nat
      OBVIOUS
    <3>2. x <= x /\ ~ (y <= x)
      BY <2>1, <3>1
    <3>3. \A z \in S : y <= z => x <= z
      BY <2>1, <3>1
    <3>4. QED
      BY <3>2, <3>3
  <2>3. <<Above(y), Above(x)>> \in StrictSubsetOrdering(S)
    BY <2>2 DEF StrictSubsetOrdering
  <2>4. QED
    BY <1>2, <1>3, <2>3
<1>5. \E z \in S : \A y \in S : z >= y
  BY <1>4
<1>6. QED
  BY <1>5 DEF Max

\* Dually, and without a bound.
LEMMA MinOfNumbers ==
  ASSUME NEW S \in SUBSET Nat, S # {}
  PROVE  Min(S) \in S /\ \A x \in S : Min(S) <= x
<1> DEFINE Below(x) == {y \in S : y <= x}
           Belows == {Below(x) : x \in S}
<1>1. Belows \subseteq FiniteSubsetsOf(S) /\ Belows # {}
  <2>1. ASSUME NEW x \in S PROVE IsFiniteSet(Below(x))
    <3>1. Below(x) \in SUBSET Nat /\ x \in Nat /\ \A y \in Below(x) : y <= x
      OBVIOUS
    <3>2. QED
      BY <3>1, FS_BoundedSetOfNaturals
  <2>2. QED
    BY <2>1 DEF FiniteSubsetsOf
<1>2. PICK U \in Belows : \A V \in Belows : ~ (<<V, U>> \in StrictSubsetOrdering(S))
  <2> HIDE DEF Belows
  <2>1. QED
    BY <1>1, FS_StrictSubsetOrderingWellFounded, WFMin
<1>3. PICK x \in S : U = Below(x)
  OBVIOUS
<1>4. ASSUME NEW y \in S PROVE x <= y
  <2>1. SUFFICES ASSUME y < x PROVE FALSE
    OBVIOUS
  <2>2. Below(y) \subseteq Below(x) /\ x \in Below(x) /\ x \notin Below(y)
    <3>1. x \in Nat /\ y \in Nat /\ \A z \in S : z \in Nat
      OBVIOUS
    <3>2. x <= x /\ ~ (x <= y)
      BY <2>1, <3>1
    <3>3. \A z \in S : z <= y => z <= x
      BY <2>1, <3>1
    <3>4. QED
      BY <3>2, <3>3
  <2>3. <<Below(y), Below(x)>> \in StrictSubsetOrdering(S)
    BY <2>2 DEF StrictSubsetOrdering
  <2>4. QED
    BY <1>2, <1>3, <2>3
<1>5. \E z \in S : \A y \in S : z <= y
  BY <1>4
<1>6. QED
  BY <1>5 DEF Min

LEMMA MaxOfTwo ==
  ASSUME NEW a \in Nat, NEW b \in Nat
  PROVE  Max({a, b}) \in {a, b} /\ Max({a, b}) >= a /\ Max({a, b}) >= b
<1>1. \E x \in {a, b} : \A y \in {a, b} : x >= y
  <2>1. CASE a >= b
    BY <2>1
  <2>2. CASE b >= a
    BY <2>2
  <2>3. QED
    BY <2>1, <2>2
<1>2. QED
  BY <1>1 DEF Max

\* What is cut from the newest has a page of others before it.
LEMMA NewestCovers ==
  ASSUME NEW at, NEW found \in Newest(at)
  PROVE  /\ found \subseteq Given(at) /\ Given(at) \subseteq Phones
         /\ IsFiniteSet(found) /\ Cardinality(found) \in Nat /\ Cardinality(found) <= Limit
         /\ \A p \in Given(at) \ found : /\ Cardinality(found) = Limit
                                          /\ \A q \in found : at[q] >= at[p]
<1>1. found \subseteq Given(at) /\ Given(at) \subseteq Phones
  BY DEF Newest, Given
<1>2. IsFiniteSet(found) /\ Cardinality(found) \in Nat
  BY <1>1, FS_Subset, FS_CardinalityType, ThreadListAssumption DEF ThreadListAssumption
<1>3. QED
  BY <1>1, <1>2 DEF Newest

-----------------------------------------------------------------------------
(* The types                                                               *)

\* The stamp a phone is found by in a source.
LEMMA LatestOfRows ==
  ASSUME ListTypes, NEW s \in Sources, NEW S \in SUBSET Entries
  PROVE  /\ LatestOf(s, S) \in [Phones -> Stamps]
         /\ \A p \in Phones, e \in S : p \in PhonesOf[e] => LatestOf(s, S)[p] >= stamp[s][e]
         /\ \A p \in Phones : LatestOf(s, S)[p] > 0 =>
              \E e \in S : p \in PhonesOf[e] /\ LatestOf(s, S)[p] = stamp[s][e]
<1> DEFINE mine(p) == {stamp[s][e] : e \in {f \in S : p \in PhonesOf[f]}}
<1>1. MaxStamp \in Nat
  BY ThreadListAssumption DEF ThreadListAssumption
<1>2. ASSUME NEW p \in Phones
      PROVE  /\ LatestOf(s, S)[p] \in {0} \cup mine(p) /\ LatestOf(s, S)[p] \in Stamps
             /\ \A x \in mine(p) : LatestOf(s, S)[p] >= x
  <2> DEFINE all == {0} \cup mine(p)
  <2>1. all \in SUBSET Nat /\ all # {} /\ \A x \in all : x <= MaxStamp /\ x \in Stamps
    BY <1>1 DEF ListTypes, Stamps
  <2>2. Max(all) \in all /\ \A x \in all : x <= Max(all)
    <3> HIDE DEF all
    <3>1. QED
      BY <1>1, <2>1, MaxOfNumbers
  <2>3. LatestOf(s, S)[p] = Max(all)
    BY DEF LatestOf
  <2>4. \A x \in all : x \in Nat
    BY <2>1
  <2> HIDE DEF mine
  <2>5. QED
    BY <2>1, <2>2, <2>3, <2>4
<1>3. LatestOf(s, S) = [p \in Phones |-> LatestOf(s, S)[p]]
  BY DEF LatestOf
<1>4. QED
  BY <1>2, <1>3

\* The bound of the runs names sources and entries.
LEMMA BusyIsKnown ==
  ASSUME NEW b \in Busy
  PROVE  b[1] \in Sources /\ b[2] \in Entries
BY ThreadListAssumption DEF ThreadListAssumption

\* A new row has one stamp, and its phones own that.
LEMMA ActivityStamps ==
  ASSUME ListTypes, NEW s \in Sources, NEW e \in Entries, Activity(s, e)
  PROVE  \E n \in Stamps : /\ stamp' = [stamp EXCEPT ![s][e] = n]
                           /\ owners' = [owners EXCEPT ![n] = @ \cup PhonesOf[e]]
<1>1. \A n \in stamp[s][e] + 1 .. MaxStamp : n \in Stamps
  BY ThreadListAssumption DEF ListTypes, ThreadListAssumption, Stamps
<1>2. QED
  BY <1>1 DEF Activity

LEMMA SourcesOfType ==
  ASSUME NEW term
  PROVE  SourcesOf(term) \in Seq(Sources)
<1>1. Activities \in Seq(Sources) /\ "orders" \in Sources
  BY DEF Activities, Sources
<1>2. Append(Activities, "orders") \in Seq(Sources)
  BY <1>1
<1>3. QED
  BY <1>1, <1>2 DEF SourcesOf

\* A request as it leaves the browser.
LEMMA RequestIsNew ==
  ASSUME query' \in Terms, NEW kind \in Kinds, NEW gen \in 0 .. MaxLoads, NEW before \in Stamps,
         NEW left \in 1 .. OlderPages
  PROVE  /\ Request(kind, gen, before, left) \in RequestType
         /\ Request(kind, gen, before, left).kind = kind
         /\ Request(kind, gen, before, left).gen = gen
         /\ Request(kind, gen, before, left).before = before
         /\ Request(kind, gen, before, left).query = query'
         /\ Request(kind, gen, before, left).todo = SourcesOf(query')
         /\ Request(kind, gen, before, left).got = Nothing
         /\ Request(kind, gen, before, left).next = 0
         /\ ~ Request(kind, gen, before, left).done
<1>1. Nothing \in [Phones -> Stamps] /\ 0 \in Stamps
  BY ThreadListAssumption DEF ThreadListAssumption, Nothing, Stamps
<1>2. SourcesOf(query') \in Seq(Sources)
  BY SourcesOfType
<1>3. Request(kind, gen, before, left) \in RequestType
  BY <1>1, <1>2 DEF Request, RequestType
<1>4. QED
  BY <1>3 DEF Request

\* What one source's statement does to a request.
Reads(r, s, q, at, found) ==
  /\ at = LatestOf(s, Pageable(s, r.query, r.before)) /\ found \in Newest(at)
  /\ requests' = (requests \ {r}) \cup {q}
  /\ r.todo # <<>> /\ s = Head(r.todo)
  /\ q.kind = r.kind /\ q.gen = r.gen /\ q.query = r.query /\ q.before = r.before
  /\ q.left = r.left /\ q.todo = Tail(r.todo) /\ q.rows = r.rows /\ q.next = r.next
  /\ q.more = r.more /\ q.done = r.done
  /\ q.full = (r.full \/ Cardinality(found) >= Limit)
  /\ \A p \in Phones : q.got[p] = IF p \in found THEN Max({r.got[p], at[p]}) ELSE r.got[p]

LEMMA ReadSourceDoes ==
  ASSUME ListTypes, NEW r \in requests, ReadSource(r)
  PROVE  \E s \in Sources, q \in RequestType, at \in [Phones -> Stamps], found \in SUBSET Phones :
           Reads(r, s, q, at, found)
<1>0. r \in RequestType
  BY DEF ListTypes
<1> DEFINE s == Head(r.todo)
           at == LatestOf(s, Pageable(s, r.query, r.before))
           got(found) == [p \in Phones |-> IF p \in found THEN Max({r.got[p], at[p]}) ELSE r.got[p]]
<1>1. r.todo \in Seq(Sources) /\ r.todo # <<>>
  BY <1>0 DEF ReadSource, RequestType
<1>2. s \in Sources /\ Tail(r.todo) \in Seq(Sources)
  BY <1>1
<1>3. PICK found \in Newest(at) :
        requests' = (requests \ {r}) \cup
          {[r EXCEPT !.todo = Tail(@), !.full = @ \/ Cardinality(found) >= Limit,
                     !.got = [p \in Phones |-> IF p \in found THEN Max({@[p], at[p]}) ELSE @[p]]]}
  BY DEF ReadSource
<1>a. at \in [Phones -> Stamps]
  <2>1. Pageable(s, r.query, r.before) \subseteq Entries
    BY <1>0, <1>2, ThreadListAssumption DEF Pageable, RequestType, ThreadListAssumption
  <2> HIDE DEF s
  <2>2. QED
    BY <1>2, <2>1, LatestOfRows
<1>4. got(found) \in [Phones -> Stamps]
  <2> HIDE DEF at
  <2>1. ASSUME NEW p \in Phones PROVE Max({r.got[p], at[p]}) \in Stamps
    <3>1. r.got[p] \in Stamps /\ at[p] \in Stamps
      BY <1>0, <1>a DEF RequestType
    <3>2. QED
      BY <3>1, MaxOfTwo DEF Stamps
  <2>2. \A p \in Phones : r.got[p] \in Stamps
    BY <1>0 DEF RequestType
  <2>3. QED
    BY <2>1, <2>2
<1> DEFINE q == [r EXCEPT !.todo = Tail(r.todo), !.full = r.full \/ Cardinality(found) >= Limit,
                          !.got = got(found)]
<1>5. requests' = (requests \ {r}) \cup {q}
  <2> HIDE DEF at
  <2>1. QED
    BY <1>0, <1>3 DEF RequestType
<1> HIDE DEF at, got
<1>6. q \in RequestType
  BY <1>0, <1>2, <1>4 DEF RequestType
<1>7. /\ q.kind = r.kind /\ q.gen = r.gen /\ q.query = r.query /\ q.before = r.before
      /\ q.left = r.left /\ q.todo = Tail(r.todo) /\ q.rows = r.rows /\ q.next = r.next
      /\ q.more = r.more /\ q.done = r.done /\ q.got = got(found)
      /\ q.full = (r.full \/ Cardinality(found) >= Limit)
  BY <1>0 DEF RequestType
<1>8. found \in SUBSET Phones
  BY NewestCovers
<1> HIDE DEF q, s
<1>9. Reads(r, s, q, at, found)
  <2>1. at = LatestOf(s, Pageable(s, r.query, r.before))
    BY DEF at
  <2>2. QED
    BY <1>1, <1>3, <1>5, <1>7, <2>1 DEF got, s, Reads
<1>10. QED
  BY <1>2, <1>a, <1>6, <1>8, <1>9

\* The page's last stamp.
LEMMA BoundaryIsLast ==
  ASSUME NEW r \in RequestType, NEW some, some \subseteq Phones, some # {}
  PROVE  /\ Boundary(r, some) \in Stamps
         /\ \E p \in some : Boundary(r, some) = r.got[p]
<1> DEFINE S == {r.got[p] : p \in some}
<1>1. S \in SUBSET Nat /\ S # {} /\ S \subseteq Stamps
  BY DEF RequestType, Stamps
<1>2. Min(S) \in S
  <2> HIDE DEF S
  <2>1. QED
    BY <1>1, MinOfNumbers
<1>3. QED
  BY <1>1, <1>2 DEF Boundary

\* What the assembling of a page does to a request.
LEMMA AssemblePageDoes ==
  ASSUME ListTypes, NEW r \in requests, AssemblePage(r)
  PROVE  \E q \in RequestType, page \in Newest(r.got) :
           /\ requests' = (requests \ {r}) \cup {q}
           /\ r.todo = <<>> /\ ~r.done /\ q.done
           /\ q.kind = r.kind /\ q.gen = r.gen /\ q.query = r.query /\ q.before = r.before
           /\ q.left = r.left /\ q.got = Nothing
           /\ q.more = (Cardinality(Given(r.got)) > Limit \/ r.full)
           /\ \A p \in page : q.rows[p] > 0
           /\ \/ q.next = 0
              \/ q.more /\ \E p \in page : q.next = r.got[p]
<1>0. r \in RequestType
  BY DEF ListTypes
<1> DEFINE more == Cardinality(Given(r.got)) > Limit \/ r.full
           rows(page) == [p \in Phones |->
                           IF p \notin page THEN 0 ELSE
                           IF stamp["messages"][p] > 0 THEN stamp["messages"][p] ELSE r.got[p]]
           next(page) == IF page # {} /\ more THEN Boundary(r, page) ELSE 0
<1>a. PICK page \in Newest(r.got) :
        requests' = (requests \ {r}) \cup
          {[r EXCEPT !.done = TRUE, !.got = Nothing, !.full = FALSE, !.more = more,
                     !.rows = rows(page), !.next = next(page)]}
  BY DEF AssemblePage
<1> DEFINE q == [r EXCEPT !.done = TRUE, !.got = Nothing, !.full = FALSE, !.more = more,
                          !.rows = rows(page), !.next = next(page)]
<1>1. page \subseteq Given(r.got) /\ page \subseteq Phones
  BY NewestCovers
<1>2. 0 \in Stamps /\ Nothing \in [Phones -> Stamps]
  BY ThreadListAssumption DEF ThreadListAssumption, Nothing, Stamps
<1>3. rows(page) \in [Phones -> Stamps] /\ \A p \in page : rows(page)[p] > 0
  <2>1. "messages" \in Sources /\ Phones \subseteq Entries
    BY ThreadListAssumption DEF Sources, ThreadListAssumption
  <2>2. \A p \in Phones : stamp["messages"][p] \in Stamps /\ r.got[p] \in Stamps
    BY <1>0, <2>1 DEF ListTypes, RequestType
  <2>3. \A p \in page : r.got[p] > 0
    BY <1>1 DEF Given
  <2>4. QED
    BY <1>1, <1>2, <2>2, <2>3
<1>4. next(page) \in Stamps /\ (next(page) = 0 \/ (more /\ \E p \in page : next(page) = r.got[p]))
  <2>1. CASE page # {} /\ more
    <3> HIDE DEF more
    <3>1. QED
      BY <1>0, <1>1, <2>1, BoundaryIsLast
  <2>2. CASE ~(page # {} /\ more)
    <3>1. next(page) = 0
      BY <2>2
    <3> HIDE DEF next
    <3>2. QED
      BY <1>2, <3>1
  <2>3. QED
    BY <2>1, <2>2
<1>5. more \in BOOLEAN
  BY <1>0 DEF RequestType
<1>6. q \in RequestType
  <2> HIDE DEF more, rows, next
  <2>1. QED
    BY <1>0, <1>2, <1>3, <1>4, <1>5 DEF RequestType
<1>7. requests' = (requests \ {r}) \cup {q} /\ r.todo = <<>> /\ ~r.done
  BY <1>a DEF AssemblePage
<1>8. /\ q.kind = r.kind /\ q.gen = r.gen /\ q.query = r.query /\ q.before = r.before /\ q.done
      /\ q.left = r.left /\ q.got = Nothing /\ q.more = more /\ q.rows = rows(page)
      /\ q.next = next(page)
  <2> HIDE DEF more, rows, next
  <2>1. QED
    BY <1>0 DEF RequestType
<1>9. /\ \A p \in page : q.rows[p] > 0
      /\ q.next = 0 \/ (q.more /\ \E p \in page : q.next = r.got[p])
  <2> HIDE DEF q, more, next, rows
  <2>1. QED
    BY <1>3, <1>4, <1>8
<1>10. QED
  <2> HIDE DEF q, next, rows
  <2>1. QED
    BY <1>6, <1>7, <1>8, <1>9

LEMMA MergedType ==
  ASSUME NEW old \in [Phones -> Stamps], NEW new \in [Phones -> Stamps]
  PROVE  /\ Merged(old, new) \in [Phones -> Stamps]
         /\ \A p \in Phones : Merged(old, new)[p] > 0 <=> old[p] > 0 \/ new[p] > 0
<1>1. \A p \in Phones : old[p] \in Nat /\ new[p] \in Nat
  BY DEF Stamps
<1>2. QED
  BY <1>1 DEF Merged

\* The requests that a step adds are of their type, and it counts the pages of
\* the automatic load to AutoPages.
LEMMA NextTypes ==
  ASSUME ListTypes, LoadsInOrder, AutoInTurn, Next
  PROVE  ListTypes'
<1> USE DEF ListTypes, stored
<1>a. /\ generation \in 0 .. MaxLoads /\ base \in 0 .. MaxLoads /\ 0 \in Stamps /\ 0 \in 0 .. MaxLoads
      /\ 1 \in 1 .. OlderPages /\ OlderPages \in 1 .. OlderPages /\ 1 \in 0 .. AutoPages
      /\ 0 \in 0 .. AutoPages /\ AutoPages \in Nat /\ MaxLoads \in Nat /\ MaxStamp \in Nat
  BY ThreadListAssumption DEF ThreadListAssumption, Stamps
<1>b. Kinds = {"first", "auto", "older", "refresh"}
  BY DEF Kinds
<1>1. ASSUME NEW r \in requests, Serve(r)
      PROVE  ListTypes'
  <2>1. requests' \subseteq RequestType
    <3>1. CASE ReadSource(r)
      <4>1. PICK s \in Sources, q \in RequestType, at \in [Phones -> Stamps],
                 found \in SUBSET Phones : Reads(r, s, q, at, found)
        BY <3>1, ReadSourceDoes
      <4>2. QED
        BY <4>1 DEF Reads
    <3>2. CASE AssemblePage(r)
      <4>1. PICK q \in RequestType : requests' = (requests \ {r}) \cup {q}
        BY <3>2, AssemblePageDoes
      <4>2. QED
        BY <4>1
    <3>3. QED
      BY <1>1, <3>1, <3>2 DEF Serve
  <2>2. QED
    BY <1>1, <2>1 DEF Serve, ReadSource, AssemblePage, list, loading
<1>2. ASSUME NEW s \in Sources, NEW e \in Entries, Activity(s, e)
      PROVE  ListTypes'
  <2>1. PICK n \in Stamps : /\ stamp' = [stamp EXCEPT ![s][e] = n]
                            /\ owners' = [owners EXCEPT ![n] = @ \cup PhonesOf[e]]
    BY <1>2, ActivityStamps
  <2>2. PhonesOf[e] \subseteq Phones
    BY ThreadListAssumption DEF ThreadListAssumption
  <2>3. stamp' \in [Sources -> [Entries -> Stamps]]
    BY <2>1, <2>2
  <2>4. owners' \in [Stamps -> SUBSET Phones] /\ active' \subseteq Phones
    BY <1>2, <2>1, <2>2 DEF Activity
  <2>5. QED
    BY <1>2, <2>3, <2>4 DEF Activity, list
<1>3. ASSUME NEW term \in Terms, LoadThreadList(term)
      PROVE  ListTypes'
  <2>1. generation' \in 1 .. MaxLoads /\ generation' \in 0 .. MaxLoads /\ base \in 0 .. generation'
    BY <1>a, <1>3 DEF LoadThreadList
  <2>2. Request("first", generation', 0, 1) \in RequestType
    BY <1>a, <1>b, <1>3, <2>1, RequestIsNew DEF LoadThreadList
  <2>3. QED
    BY <1>a, <1>3, <2>1, <2>2 DEF LoadThreadList, list
<1>4. ASSUME NEW r \in requests, ShowFirstPage(r)
      PROVE  ListTypes'
  <2>1. /\ r.rows \in [Phones -> Stamps] /\ r.next \in Stamps /\ r.more \in BOOLEAN
    BY DEF RequestType
  <2>2. CASE r.gen = generation
    <3>1. base' \in 0 .. generation'
      BY <1>a, <1>4, <2>2 DEF ShowFirstPage
    <3>2. auto' \in 0 .. AutoPages /\ older' \in BOOLEAN
      BY <1>a, <1>4, <2>2 DEF ShowFirstPage
    <3>3. QED
      BY <1>4, <2>1, <2>2, <3>1, <3>2 DEF ShowFirstPage
  <2>3. CASE r.gen # generation
    BY <1>4, <2>3 DEF ShowFirstPage, list, loading
  <2>4. QED
    BY <2>2, <2>3
<1>5. ASSUME NEW r \in requests, MergeOlder(r)
      PROVE  /\ threads' \in [Phones -> Stamps] /\ cursor' \in Stamps /\ hasMore' \in BOOLEAN
             /\ crossed' \in BOOLEAN /\ pollKey' = pollKey /\ base' = base
  <2>1. r.rows \in [Phones -> Stamps] /\ r.next \in Stamps /\ r.more \in BOOLEAN
    BY DEF RequestType
  <2>2. QED
    BY <1>5, <2>1, MergedType DEF MergeOlder
<1>6. ASSUME NEW r \in requests, FetchNextPage(r)
      PROVE  ListTypes'
  <2>1. CASE r.gen = generation
    <3>1. auto' \in 0 .. AutoPages
      BY <1>a, <1>6, <2>1 DEF FetchNextPage, AutoInTurn, Live
    <3>2. QED
      BY <1>5, <1>6, <2>1, <3>1 DEF FetchNextPage
  <2>2. CASE r.gen # generation
    BY <1>6, <2>2 DEF FetchNextPage, list, loading
  <2>3. QED
    BY <2>1, <2>2
<1>7. ASSUME NEW r \in requests, FetchOlderPage(r)
      PROVE  ListTypes'
  <2>1. r.next \in Stamps /\ r.left \in 1 .. OlderPages
    BY DEF RequestType
  <2>2. r.left > 1 => Request("older", base, r.next, r.left - 1) \in RequestType
    <3>1. r.left > 1 => r.left - 1 \in 1 .. OlderPages
      BY <2>1, ThreadListAssumption DEF ThreadListAssumption
    <3>2. query' \in Terms
      BY <1>7 DEF FetchOlderPage, Same
    <3>3. QED
      BY <1>a, <1>b, <2>1, <3>1, <3>2, RequestIsNew
  <2>3. requests' \subseteq RequestType /\ older' \in BOOLEAN
    BY <1>7, <2>2 DEF FetchOlderPage
  <2>4. QED
    BY <1>5, <1>7, <2>3 DEF FetchOlderPage, Same
<1>8. ASSUME NEW r \in requests, ShowRefreshed(r)
      PROVE  ListTypes'
  <2>1. r.rows \in [Phones -> Stamps]
    BY DEF RequestType
  <2>2. threads' \in [Phones -> Stamps]
    BY <1>8, <2>1, MergedType DEF ShowRefreshed
  <2>3. QED
    BY <1>8, <2>1, <2>2 DEF ShowRefreshed, loading
<1>9. ASSUME NEW r \in requests, RequestFails(r)
      PROVE  ListTypes'
  BY <1>a, <1>9 DEF RequestFails, list
<1>10. CASE AutoLoadNext \/ LoadOlderThreads \/ RefreshFirstPage
  <2>1. query' = query
    BY <1>10 DEF AutoLoadNext, LoadOlderThreads, RefreshFirstPage, Same
  <2>2. /\ Request("auto", generation, cursor, 1) \in RequestType
        /\ Request("older", base, cursor, OlderPages) \in RequestType
        /\ Request("refresh", 0, 0, 1) \in RequestType
    BY <1>a, <1>b, <2>1, RequestIsNew
  <2>3. QED
    BY <1>10, <2>1, <2>2 DEF AutoLoadNext, LoadOlderThreads, RefreshFirstPage, list, stored
<1>11. CASE AutoLoadEnd
  BY <1>a, <1>11 DEF AutoLoadEnd, list
<1>12. ASSUME NEW b \in Busy, Activity(b[1], b[2])
      PROVE  ListTypes'
  BY <1>2, <1>12, BusyIsKnown
<1>13. QED
  BY <1>1, <1>3, <1>4, <1>6, <1>7, <1>8, <1>9, <1>10, <1>11, <1>12 DEF Next, Answer

-----------------------------------------------------------------------------
(* The order of the loads                                                  *)

\* A request that the server works on stays what it was for the browser.
LEMMA ServeSwaps ==
  ASSUME ListTypes, NEW r \in requests, Serve(r)
  PROVE  \E q \in RequestType :
           /\ requests' = (requests \ {r}) \cup {q}
           /\ q.kind = r.kind /\ q.gen = r.gen /\ q.query = r.query /\ q.before = r.before
<1>1. CASE ReadSource(r)
  <2>1. PICK s \in Sources, q \in RequestType, at \in [Phones -> Stamps],
             found \in SUBSET Phones : Reads(r, s, q, at, found)
    BY <1>1, ReadSourceDoes
  <2>2. QED
    BY <2>1 DEF Reads
<1>2. CASE AssemblePage(r)
  <2>1. PICK q \in RequestType :
          /\ requests' = (requests \ {r}) \cup {q}
          /\ q.kind = r.kind /\ q.gen = r.gen /\ q.query = r.query /\ q.before = r.before
    BY <1>2, AssemblePageDoes
  <2>2. QED
    BY <2>1
<1>3. QED
  BY <1>1, <1>2 DEF Serve

LEMMA NextOrder ==
  ASSUME ListTypes, LoadsInOrder, AutoInTurn, [Next]_vars
  PROVE  LoadsInOrder' /\ AutoInTurn'
<1> USE DEF Live
<1>0. /\ generation \in Nat /\ base \in Nat /\ base <= generation /\ auto \in Nat /\ generation > 0
      /\ \A r \in requests : r.gen \in Nat /\ r \in RequestType
  BY ThreadListAssumption DEF ListTypes, RequestType, ThreadListAssumption
<1>1. ASSUME requests' \subseteq requests, UNCHANGED <<query, generation, base, auto>>
      PROVE  LoadsInOrder' /\ AutoInTurn'
  BY <1>1 DEF LoadsInOrder, AutoInTurn
<1>2. ASSUME NEW r \in requests, Serve(r)
      PROVE  LoadsInOrder' /\ AutoInTurn'
  <2>1. PICK q : /\ requests' = (requests \ {r}) \cup {q} /\ q.before = r.before
                 /\ q.kind = r.kind /\ q.gen = r.gen /\ q.query = r.query
    BY <1>2, ServeSwaps
  <2>2. UNCHANGED <<query, generation, base, auto>>
    BY <1>2 DEF Serve, ReadSource, AssemblePage, list, loading
  <2>3. LoadsInOrder'
    BY <2>1, <2>2 DEF LoadsInOrder
  <2>4. AutoInTurn'
    BY <2>1, <2>2 DEF AutoInTurn
  <2>5. QED
    BY <2>3, <2>4
<1>3. ASSUME NEW term \in Terms, LoadThreadList(term)
      PROVE  LoadsInOrder' /\ AutoInTurn'
  <2> DEFINE q == Request("first", generation + 1, 0, 1)
  <2>1. /\ requests' = requests \cup {q} /\ generation' = generation + 1 /\ auto' = 0
        /\ UNCHANGED base
    BY <1>3 DEF LoadThreadList, list
  <2>2. q.kind = "first" /\ q.gen = generation' /\ q.query = query' /\ q.before = 0
    BY <2>1 DEF Request
  <2>3. \A r \in requests : r.gen < generation'
    BY <1>0, <2>1 DEF LoadsInOrder
  <2>4. base # generation'
    BY <1>0, <2>1
  <2> HIDE DEF q
  <2>5. LoadsInOrder'
    BY <1>0, <2>1, <2>2, <2>3, <2>4 DEF LoadsInOrder
  <2>6. AutoInTurn'
    BY <1>0, <2>1, <2>2, <2>3 DEF AutoInTurn
  <2>7. QED
    BY <2>5, <2>6
<1>4. ASSUME NEW r \in requests, ShowFirstPage(r)
      PROVE  LoadsInOrder' /\ AutoInTurn'
  <2>1. CASE Live(r)
    <3>1. /\ r.kind = "first" /\ requests' = requests \ {r} /\ base' = generation
          /\ UNCHANGED <<query, generation>> /\ auto' \in {0, 1}
      BY <1>4, <2>1 DEF ShowFirstPage
    <3>2. base # generation /\ auto = 0
      BY <1>0, <2>1, <3>1 DEF LoadsInOrder
    <3>3. \A q \in requests' : q.kind = "first" => ~Live(q)
      BY <2>1, <3>1 DEF LoadsInOrder
    <3>4. \A q \in requests : q.kind = "auto" => ~Live(q)
      BY <3>2 DEF AutoInTurn
    <3>5. LoadsInOrder'
      BY <1>0, <3>1, <3>3 DEF LoadsInOrder
    <3>6. AutoInTurn'
      BY <3>1, <3>4 DEF AutoInTurn
    <3>7. QED
      BY <3>5, <3>6
  <2>2. CASE ~Live(r)
    BY <1>1, <1>4, <2>2 DEF ShowFirstPage, list, loading
  <2>3. QED
    BY <2>1, <2>2
<1>5. ASSUME NEW r \in requests, FetchNextPage(r)
      PROVE  LoadsInOrder' /\ AutoInTurn'
  <2>1. CASE Live(r)
    <3>1. /\ r.kind = "auto" /\ requests' = requests \ {r} /\ auto' = auto + 1
          /\ UNCHANGED <<query, generation, base>>
      BY <1>5, <2>1 DEF FetchNextPage, MergeOlder
    <3>2. auto > 0 /\ \A q \in requests' : q.kind = "auto" => ~Live(q)
      BY <1>0, <2>1, <3>1 DEF AutoInTurn
    <3>3. LoadsInOrder'
      BY <3>1, <3>2 DEF LoadsInOrder
    <3>4. AutoInTurn'
      BY <3>1, <3>2 DEF AutoInTurn
    <3>5. QED
      BY <3>3, <3>4
  <2>2. CASE ~Live(r)
    BY <1>1, <1>5, <2>2 DEF FetchNextPage, list, loading
  <2>3. QED
    BY <2>1, <2>2
<1>6. ASSUME NEW q, q.kind = "older", q.gen = base, q.query = query,
             requests' \subseteq requests \cup {q}, UNCHANGED <<query, generation, base, auto>>
      PROVE  LoadsInOrder' /\ AutoInTurn'
  <2>1. LoadsInOrder'
    BY <1>0, <1>6 DEF LoadsInOrder
  <2>2. AutoInTurn'
    BY <1>6 DEF AutoInTurn
  <2>3. QED
    BY <2>1, <2>2
<1>7. ASSUME NEW r \in requests, FetchOlderPage(r)
      PROVE  LoadsInOrder' /\ AutoInTurn'
  <2>1. /\ UNCHANGED <<query, generation, base, auto>>
        /\ requests' \subseteq requests \cup {Request("older", base, r.next, r.left - 1)}
    BY <1>7 DEF FetchOlderPage, MergeOlder, Same
  <2>2. QED
    BY <1>6, <2>1 DEF Request
<1>8. CASE LoadOlderThreads
  <2>1. /\ UNCHANGED <<query, generation, base, auto>>
        /\ requests' \subseteq requests \cup {Request("older", base, cursor, OlderPages)}
    BY <1>8 DEF LoadOlderThreads, Same, list
  <2>2. QED
    BY <1>6, <2>1 DEF Request
<1>9. CASE AutoLoadNext
  <2> DEFINE q == Request("auto", generation, cursor, 1)
  <2>1. /\ UNCHANGED <<query, generation, base, auto>> /\ requests' = requests \cup {q}
        /\ auto \in 1 .. AutoPages - 1 /\ \A r \in requests : r.kind = "auto" => ~Live(r)
    BY <1>9 DEF AutoLoadNext, AutoWaits, Same, list
  <2>2. q.kind = "auto" /\ q.gen = generation /\ q.query = query
    BY <2>1 DEF Request
  <2> HIDE DEF q
  <2>3. base = generation
    BY <1>0, <2>1 DEF LoadsInOrder
  <2>4. LoadsInOrder'
    BY <1>0, <2>1, <2>2, <2>3 DEF LoadsInOrder
  <2>5. AutoInTurn'
    BY <2>1, <2>2 DEF AutoInTurn
  <2>6. QED
    BY <2>4, <2>5
<1>10. ASSUME UNCHANGED <<query, generation, base, auto>>,
              requests' = requests \cup {Request("refresh", 0, 0, 1)}
       PROVE  LoadsInOrder' /\ AutoInTurn'
  <2> DEFINE q == Request("refresh", 0, 0, 1)
  <2>1. UNCHANGED <<query, generation, base, auto>> /\ requests' = requests \cup {q}
    BY <1>10
  <2>2. q.kind = "refresh" /\ q.gen = 0
    BY DEF Request
  <2> HIDE DEF q
  <2>3. LoadsInOrder'
    BY <1>0, <2>1, <2>2 DEF LoadsInOrder
  <2>4. AutoInTurn'
    BY <1>0, <2>1, <2>2 DEF AutoInTurn
  <2>5. QED
    BY <2>3, <2>4
<1>11. ASSUME NEW r \in requests, RequestFails(r)
      PROVE  LoadsInOrder' /\ AutoInTurn'
  <2>1. /\ requests' = requests \ {r} /\ UNCHANGED <<query, generation, base>>
        /\ auto' = IF r.kind = "auto" /\ Live(r) THEN 0 ELSE auto
    BY <1>11 DEF RequestFails, list
  <2>2. LoadsInOrder'
    BY <1>0, <2>1 DEF LoadsInOrder
  <2>3. AutoInTurn'
    BY <2>1 DEF AutoInTurn
  <2>4. QED
    BY <2>2, <2>3
<1>12. CASE AutoLoadEnd
  <2>1. /\ UNCHANGED <<requests, query, generation, base>> /\ auto' = 0
        /\ \A r \in requests : r.kind = "auto" => ~Live(r)
    BY <1>12 DEF AutoLoadEnd, AutoWaits, list
  <2>2. LoadsInOrder'
    BY <2>1 DEF LoadsInOrder
  <2>3. AutoInTurn'
    BY <2>1 DEF AutoInTurn
  <2>4. QED
    BY <2>2, <2>3
<1>13. CASE UNCHANGED vars
  BY <1>1, <1>13 DEF vars, list, loading
<1>14. ASSUME NEW b \in Busy, Activity(b[1], b[2])
       PROVE  LoadsInOrder' /\ AutoInTurn'
  BY <1>1, <1>14 DEF Activity, list
<1>15. ASSUME NEW r \in requests, ShowRefreshed(r)
       PROVE  LoadsInOrder' /\ AutoInTurn'
  BY <1>1, <1>15 DEF ShowRefreshed, loading
<1>16. CASE RefreshFirstPage
  <2>1. UNCHANGED <<query, generation, base, auto>>
    BY <1>16 DEF RefreshFirstPage, Same, list
  <2>2. requests' = requests \cup {Request("refresh", 0, 0, 1)}
    BY <1>16 DEF RefreshFirstPage
  <2>3. QED
    BY <1>10, <2>1, <2>2
<1>17. QED
  BY <1>2, <1>3, <1>4, <1>5, <1>7, <1>8, <1>9, <1>11, <1>12, <1>13, <1>14, <1>15, <1>16
  DEF Next, Answer

-----------------------------------------------------------------------------
(* The cursor                                                              *)

\* A page is gathered from rows older than its cursor.
LEMMA ReadSourceDescends ==
  ASSUME ListTypes, Descends, NEW r \in requests, ReadSource(r)
  PROVE  Descends'
<1>1. PICK s \in Sources, q \in RequestType, at \in [Phones -> Stamps], found \in SUBSET Phones :
        Reads(r, s, q, at, found)
  BY ReadSourceDoes
<1> DEFINE rows == Pageable(s, r.query, r.before)
<1>0. r \in RequestType /\ rows \subseteq Entries
  BY ThreadListAssumption DEF ListTypes, RequestType, Pageable, ThreadListAssumption
<1>2. ASSUME r.before > 0, NEW p \in Phones
      PROVE  q.got[p] < r.before
  <2>1. r.got[p] \in Nat /\ r.before \in Nat /\ r.got[p] < r.before
    <3>1. r.got[p] \in Stamps /\ r.before \in Stamps
      BY <1>0 DEF RequestType
    <3>2. QED
      BY <1>2, <3>1 DEF Stamps, Descends
  <2>2. at \in [Phones -> Stamps] /\ \A x \in Phones : at[x] > 0 =>
          \E e \in rows : at[x] = stamp[s][e]
    <3>1. at = LatestOf(s, rows)
      BY <1>1 DEF Reads
    <3> HIDE DEF rows
    <3>2. QED
      BY <1>0, <3>1, LatestOfRows
  <2>3. at[p] \in Nat /\ at[p] < r.before
    <3>1. \A e \in rows : stamp[s][e] < r.before
      BY <1>2 DEF Pageable
    <3>2. at[p] \in Nat
      BY <2>2 DEF Stamps
    <3> HIDE DEF rows
    <3>3. QED
      BY <2>1, <2>2, <3>1, <3>2
  <2>4. q.got[p] = IF p \in found THEN Max({r.got[p], at[p]}) ELSE r.got[p]
    BY <1>1 DEF Reads
  <2>5. Max({r.got[p], at[p]}) \in {r.got[p], at[p]}
    BY <2>1, <2>3, MaxOfTwo
  <2>6. QED
    BY <2>1, <2>3, <2>4, <2>5
<1>3. QED
  BY <1>1, <1>2 DEF Descends, Reads

LEMMA AssemblePageDescends ==
  ASSUME ListTypes, Descends, NEW r \in requests, AssemblePage(r)
  PROVE  Descends'
<1>1. PICK q \in RequestType, page \in Newest(r.got) :
        /\ requests' = (requests \ {r}) \cup {q}
        /\ q.kind = r.kind /\ q.before = r.before /\ q.got = Nothing
        /\ \/ q.next = 0
           \/ \E p \in page : q.next = r.got[p]
  BY AssemblePageDoes
<1>2. r.before > 0 => q.next < r.before /\ \A p \in Phones : q.got[p] < r.before
  <2>1. \A p \in Phones : q.got[p] = 0
    BY <1>1 DEF Nothing
  <2>2. page \subseteq Phones
    BY NewestCovers
  <2>3. QED
    BY <1>1, <2>1, <2>2 DEF Descends
<1>3. QED
  BY <1>1, <1>2 DEF Descends

LEMMA NextDescends ==
  ASSUME ListTypes, LoadsInOrder, Descends, [Next]_vars
  PROVE  Descends'
<1>1. CASE requests' \subseteq requests
  BY <1>1 DEF Descends
<1>2. ASSUME NEW kind, NEW gen, NEW before \in Stamps, NEW left,
             kind \in {"auto", "older"} => before > 0,
             requests' \subseteq requests \cup {Request(kind, gen, before, left)}
      PROVE  Descends'
  <2> DEFINE q == Request(kind, gen, before, left)
  <2>1. q.kind = kind /\ q.before = before /\ q.next = 0 /\ \A p \in Phones : q.got[p] = 0
    BY DEF Request, Nothing
  <2>2. requests' \subseteq requests \cup {q}
    BY <1>2
  <2> HIDE DEF q
  <2>3. QED
    BY <1>2, <2>1, <2>2 DEF Descends
<1>3. \A r \in requests : r.next \in Stamps
  BY DEF ListTypes, RequestType
<1>4. cursor \in Nat /\ cursor \in Stamps /\ 0 \in Stamps
  BY ThreadListAssumption DEF ListTypes, Stamps, ThreadListAssumption
<1>5. ASSUME NEW r \in requests, Serve(r)
      PROVE  Descends'
  BY <1>5, ReadSourceDescends, AssemblePageDescends DEF Serve
<1>6. ASSUME NEW r \in requests, FetchOlderPage(r)
      PROVE  Descends'
  <2>1. CASE r.next # 0
    <3>1. r.next > 0
      BY <1>3, <2>1 DEF Stamps
    <3>2. requests' \subseteq requests \cup {Request("older", base, r.next, r.left - 1)}
      BY <1>6 DEF FetchOlderPage
    <3>3. QED
      BY <1>2, <1>3, <3>1, <3>2
  <2>2. CASE r.next = 0
    BY <1>1, <1>6, <2>2 DEF FetchOlderPage
  <2>3. QED
    BY <2>1, <2>2
<1>7. CASE LoadOlderThreads
  <2>1. cursor > 0 /\ requests' \subseteq requests \cup {Request("older", base, cursor, OlderPages)}
    BY <1>4, <1>7 DEF LoadOlderThreads
  <2>2. QED
    BY <1>2, <1>4, <2>1
<1>8. CASE AutoLoadNext
  <2>1. cursor > 0 /\ requests' \subseteq requests \cup {Request("auto", generation, cursor, 1)}
    BY <1>4, <1>8 DEF AutoLoadNext
  <2>2. QED
    BY <1>2, <1>4, <2>1
<1>9. CASE RefreshFirstPage
  <2>1. requests' \subseteq requests \cup {Request("refresh", 0, 0, 1)}
    BY <1>9 DEF RefreshFirstPage
  <2>2. QED
    BY <1>2, <1>4, <2>1
<1>10. ASSUME NEW term \in Terms, LoadThreadList(term)
       PROVE  Descends'
  <2>1. requests' \subseteq requests \cup {Request("first", generation', 0, 1)}
    BY <1>10 DEF LoadThreadList
  <2>2. QED
    BY <1>2, <1>4, <2>1
<1>11. QED
  BY <1>1, <1>5, <1>6, <1>7, <1>8, <1>9, <1>10
  DEF Next, Answer, ShowFirstPage, FetchNextPage, ShowRefreshed, RequestFails, Activity, AutoLoadEnd,
      vars

-----------------------------------------------------------------------------
(* The owners of the stamps                                                *)

LEMMA ReadSourceKnown ==
  ASSUME ListTypes, OwnersKnown, NEW r \in requests, ReadSource(r)
  PROVE  OwnersKnown'
<1>1. PICK s \in Sources, q \in RequestType, at \in [Phones -> Stamps], found \in SUBSET Phones :
        Reads(r, s, q, at, found)
  BY ReadSourceDoes
<1> DEFINE rows == Pageable(s, r.query, r.before)
<1>0. r \in RequestType /\ rows \subseteq Entries
  BY ThreadListAssumption DEF ListTypes, RequestType, Pageable, ThreadListAssumption
<1>2. ASSUME NEW p \in Phones, q.got[p] > 0
      PROVE  p \in owners[q.got[p]]
  <2>1. at \in [Phones -> Stamps] /\ \A x \in Phones : at[x] > 0 =>
          \E e \in rows : x \in PhonesOf[e] /\ at[x] = stamp[s][e]
    <3>1. at = LatestOf(s, rows)
      BY <1>1 DEF Reads
    <3> HIDE DEF rows
    <3>2. QED
      BY <1>0, <3>1, LatestOfRows
  <2> HIDE DEF rows
  <2>2. at[p] > 0 => p \in owners[at[p]]
    BY <1>0, <2>1 DEF OwnersKnown
  <2>3. r.got[p] > 0 => p \in owners[r.got[p]]
    BY DEF OwnersKnown
  <2>4. r.got[p] \in Nat /\ at[p] \in Nat
    BY <1>0, <2>1 DEF RequestType, Stamps
  <2>5. q.got[p] = IF p \in found THEN Max({r.got[p], at[p]}) ELSE r.got[p]
    BY <1>1 DEF Reads
  <2>6. Max({r.got[p], at[p]}) \in {r.got[p], at[p]}
    BY <2>4, MaxOfTwo
  <2>7. QED
    BY <1>2, <2>2, <2>3, <2>5, <2>6
<1>3. UNCHANGED stored
  BY DEF ReadSource
<1>4. QED
  BY <1>1, <1>2, <1>3 DEF OwnersKnown, stored, Reads

LEMMA ActivityKnown ==
  ASSUME ListTypes, OwnersKnown, NEW s \in Sources, NEW e \in Entries, Activity(s, e)
  PROVE  OwnersKnown' /\ \A n \in Stamps : owners[n] \subseteq owners'[n]
<1>1. PICK n \in Stamps : /\ stamp' = [stamp EXCEPT ![s][e] = n]
                          /\ owners' = [owners EXCEPT ![n] = @ \cup PhonesOf[e]]
  BY ActivityStamps
<1>2. \A m \in Stamps : owners[m] \subseteq owners'[m]
  BY <1>1 DEF ListTypes
<1>3. ASSUME NEW t \in Sources, NEW f \in Entries
      PROVE  PhonesOf[f] \subseteq owners'[stamp'[t][f]]
  <2>1. CASE t = s /\ f = e
    <3>1. stamp'[t][f] = n /\ owners'[n] = owners[n] \cup PhonesOf[e]
      BY <1>1, <2>1 DEF ListTypes
    <3>2. QED
      BY <2>1, <3>1
  <2>2. CASE ~(t = s /\ f = e)
    <3>1. stamp'[t][f] = stamp[t][f] /\ stamp[t][f] \in Stamps
      BY <1>1, <2>2 DEF ListTypes
    <3>2. QED
      BY <1>2, <3>1 DEF OwnersKnown
  <2>3. QED
    BY <2>1, <2>2
<1>4. ASSUME NEW r \in requests', NEW p \in Phones, r.got[p] > 0
      PROVE  p \in owners'[r.got[p]]
  <2>1. r \in requests /\ r.got[p] \in Stamps
    BY <1>4 DEF Activity, ListTypes, RequestType
  <2>2. QED
    BY <1>2, <1>4, <2>1 DEF OwnersKnown
<1>5. QED
  BY <1>2, <1>3, <1>4 DEF OwnersKnown

LEMMA NextKnown ==
  ASSUME ListTypes, OwnersKnown, [Next]_vars
  PROVE  OwnersKnown'
<1>1. ASSUME UNCHANGED stored,
             \A q \in requests' \ requests : \A p \in Phones : q.got[p] = 0
      PROVE  OwnersKnown'
  BY <1>1 DEF OwnersKnown, stored
<1>2. ASSUME NEW r \in requests, AssemblePage(r)
      PROVE  OwnersKnown'
  <2>1. PICK q \in RequestType : requests' = (requests \ {r}) \cup {q} /\ q.got = Nothing
    BY <1>2, AssemblePageDoes
  <2>2. UNCHANGED stored
    BY <1>2 DEF AssemblePage
  <2>3. QED
    BY <1>1, <2>1, <2>2 DEF Nothing
<1>3. ASSUME NEW kind, NEW gen, NEW before, NEW left, UNCHANGED stored,
             requests' \subseteq requests \cup {Request(kind, gen, before, left)}
      PROVE  OwnersKnown'
  <2> DEFINE q == Request(kind, gen, before, left)
  <2>1. \A p \in Phones : q.got[p] = 0
    BY DEF Request, Nothing
  <2>2. requests' \subseteq requests \cup {q}
    BY <1>3
  <2> HIDE DEF q
  <2>3. QED
    BY <1>1, <1>3, <2>1, <2>2
<1>4. ASSUME NEW term \in Terms, LoadThreadList(term)
      PROVE  OwnersKnown'
  BY <1>3, <1>4 DEF LoadThreadList
<1>5. ASSUME NEW r \in requests, FetchOlderPage(r)
      PROVE  OwnersKnown'
  <2>1. requests' \subseteq requests \cup {Request("older", base, r.next, r.left - 1)}
        /\ UNCHANGED stored
    BY <1>5 DEF FetchOlderPage
  <2>2. QED
    BY <1>3, <2>1
<1>6. CASE AutoLoadNext
  BY <1>3, <1>6 DEF AutoLoadNext
<1>7. CASE LoadOlderThreads
  BY <1>3, <1>7 DEF LoadOlderThreads
<1>8. CASE RefreshFirstPage
  BY <1>3, <1>8 DEF RefreshFirstPage
<1>10. ASSUME NEW r \in requests,
              ShowFirstPage(r) \/ FetchNextPage(r) \/ ShowRefreshed(r) \/ RequestFails(r)
       PROVE  OwnersKnown'
  <2>1. requests' \subseteq requests /\ UNCHANGED stored
    BY <1>10 DEF ShowFirstPage, FetchNextPage, ShowRefreshed, RequestFails
  <2>2. QED
    BY <1>1, <2>1
<1>11. CASE AutoLoadEnd \/ UNCHANGED vars
  BY <1>1, <1>11 DEF AutoLoadEnd, vars
<1>12. QED
  BY <1>2, <1>4, <1>5, <1>6, <1>7, <1>8, <1>10, <1>11, BusyIsKnown, ReadSourceKnown, ActivityKnown
  DEF Next, Serve, Answer

-----------------------------------------------------------------------------
(* The pages                                                               *)

LEMMA LaterCounts ==
  ASSUME NEW at, NEW n, NEW S, S \subseteq Later(at, n), Cardinality(S) >= Limit
  PROVE  Cardinality(Later(at, n)) >= Limit
<1>1. IsFiniteSet(Later(at, n)) /\ Limit \in Nat
  BY FS_Subset, ThreadListAssumption DEF ThreadListAssumption, Later
<1>2. Cardinality(S) <= Cardinality(Later(at, n))
  BY <1>1, FS_Subset
<1>3. Cardinality(S) \in Nat /\ Cardinality(Later(at, n)) \in Nat
  BY <1>1, FS_Subset, FS_CardinalityType
<1>4. QED
  BY <1>1, <1>2, <1>3

LEMMA RowAtRest ==
  ASSUME ListTypes, OwnersKnown, NEW s \in Searched, NEW e \in Entries, NEW p \in Phones,
         AtRest(s, e, p)
  PROVE  /\ s \in Sources /\ stamp[s][e] \in Nat /\ stamp[s][e] > 0
         /\ \A r \in requests : \A x \in Phones : x # p => r.got[x] # stamp[s][e]
<1>1. s \in Sources
  BY SourcesOfType DEF Searched
<1>2. stamp[s][e] \in Nat /\ stamp[s][e] > 0 /\ owners[stamp[s][e]] = {p}
  BY <1>1 DEF ListTypes, Stamps, AtRest, Matches
<1>3. QED
  BY <1>1, <1>2 DEF OwnersKnown

\* After a source's statement, each of its rows at rest is in the union or has
\* a page of newer ones before it there.
LEMMA ReadSourceGathers ==
  ASSUME ListTypes, OwnersKnown, NEW r \in requests, ReadSource(r), r.query = query, Gathers(r)
  PROVE  \E q : /\ requests' = (requests \ {r}) \cup {q}
                /\ q.kind = r.kind /\ q.gen = r.gen /\ q.query = r.query /\ q.before = r.before
                /\ q.rows = r.rows /\ q.next = r.next /\ q.more = r.more /\ q.done = r.done
                /\ Gathers(q)
<1>1. PICK s \in Sources, q \in RequestType, at \in [Phones -> Stamps], found \in SUBSET Phones :
        Reads(r, s, q, at, found)
  BY ReadSourceDoes
<1> DEFINE all == Pageable(s, r.query, r.before)
<1>0. /\ r \in RequestType /\ r.todo \in Seq(Sources) /\ query \in Terms /\ Limit \in Nat
      /\ all \subseteq Entries
  BY ThreadListAssumption DEF ListTypes, RequestType, Pageable, ThreadListAssumption
<1>2. ToRead(r) \subseteq ToRead(q) \cup {s}
  <2>1. ASSUME NEW i \in 1 .. Len(r.todo), i # 1
        PROVE  i - 1 \in 1 .. Len(Tail(r.todo)) /\ r.todo[i] = Tail(r.todo)[i - 1]
    <3>1. r.todo # <<>>
      BY <1>1 DEF Reads
    <3>2. QED
      BY <1>0, <2>1, <3>1
  <2>2. QED
    <3>1. q.todo = Tail(r.todo) /\ s = r.todo[1]
      BY <1>0, <1>1 DEF Reads
    <3>2. SUFFICES ASSUME NEW i \in 1 .. Len(r.todo), i # 1 PROVE r.todo[i] \in ToRead(q)
      BY <3>1 DEF ToRead
    <3>3. QED
      BY <2>1, <3>1, <3>2 DEF ToRead
<1>3. /\ at \in [Phones -> Stamps]
      /\ \A p \in Phones, e \in all : p \in PhonesOf[e] => at[p] >= stamp[s][e]
      /\ \A p \in Phones : at[p] > 0 => \E e \in all : p \in PhonesOf[e] /\ at[p] = stamp[s][e]
  <2>1. at = LatestOf(s, all)
    BY <1>1 DEF Reads
  <2> HIDE DEF all
  <2>2. QED
    BY <1>0, <2>1, LatestOfRows
<1>4. ASSUME NEW p \in Phones
      PROVE  /\ r.got[p] \in Nat /\ q.got[p] \in Nat /\ q.got[p] >= r.got[p] /\ at[p] \in Nat
             /\ p \in found => q.got[p] >= at[p]
  <2>1. r.got[p] \in Nat /\ at[p] \in Nat
    BY <1>0, <1>3 DEF RequestType, Stamps
  <2>2. q.got[p] = IF p \in found THEN Max({r.got[p], at[p]}) ELSE r.got[p]
    BY <1>1 DEF Reads
  <2>3. Max({r.got[p], at[p]}) \in Nat /\ Max({r.got[p], at[p]}) >= r.got[p]
        /\ Max({r.got[p], at[p]}) >= at[p]
    BY <2>1, MaxOfTwo
  <2>4. QED
    BY <2>1, <2>2, <2>3
<1>5. ASSUME NEW n \in Nat, Cardinality(Later(r.got, n)) >= Limit
      PROVE  Cardinality(Later(q.got, n)) >= Limit
  <2>1. Later(r.got, n) \subseteq Later(q.got, n)
    BY <1>4 DEF Later
  <2>2. QED
    BY <1>5, <2>1, LaterCounts
<1>6. ASSUME s \in Searched, NEW e \in Entries, NEW p \in Phones, AtRest(s, e, p),
             r.before > 0 => stamp[s][e] < r.before
      PROVE  \/ q.got[p] >= stamp[s][e]
             \/ q.full /\ Cardinality(Later(q.got, stamp[s][e])) >= Limit
  <2>1. stamp[s][e] \in Nat /\ stamp[s][e] > 0 /\ owners[stamp[s][e]] = {p} /\ p \in PhonesOf[e]
    BY <1>6, RowAtRest DEF AtRest, Matches
  <2>2. e \in all
    BY <1>6, <2>1 DEF AtRest, Matches, Pageable
  <2>3. at[p] >= stamp[s][e]
    BY <1>3, <2>1, <2>2
  <2>4. CASE p \in found
    BY <1>4, <2>1, <2>3, <2>4
  <2>5. CASE p \notin found
    <3>1. p \in Given(at)
      BY <1>4, <2>1, <2>3 DEF Given
    <3>2. /\ Cardinality(found) = Limit /\ \A x \in found : at[x] >= at[p]
      <4>1. found \in Newest(at)
        BY <1>1 DEF Reads
      <4>2. QED
        BY <2>5, <3>1, <4>1, NewestCovers
    <3>3. ASSUME NEW x \in found
          PROVE  q.got[x] > stamp[s][e]
      <4>1. x # p /\ x \in Phones /\ at[x] >= at[p]
        BY <2>5, <3>2
      <4>2. at[x] > 0 => x \in owners[at[x]]
        BY <1>0, <1>3, <4>1 DEF OwnersKnown
      <4>3. at[x] # stamp[s][e]
        BY <2>1, <4>1, <4>2
      <4>4. QED
        BY <1>4, <2>1, <2>3, <4>1, <4>3
    <3>4. found \subseteq Later(q.got, stamp[s][e])
      BY <3>3 DEF Later
    <3>5. Cardinality(Later(q.got, stamp[s][e])) >= Limit
      BY <1>0, <3>2, <3>4, LaterCounts
    <3>6. q.full
      <4>1. q.full = (r.full \/ Cardinality(found) >= Limit)
        BY <1>1 DEF Reads
      <4>2. Cardinality(found) >= Limit
        BY <1>0, <3>2
      <4>3. QED
        BY <4>1, <4>2
    <3>7. QED
      BY <3>5, <3>6
  <2>6. QED
    BY <2>4, <2>5
<1>7. Gathers(q)
  <2>1. SUFFICES ASSUME NEW t \in Searched \ ToRead(q), NEW e \in Entries, NEW p \in Phones,
                        AtRest(t, e, p), q.before > 0 => stamp[t][e] < q.before
                 PROVE  \/ q.got[p] >= stamp[t][e]
                        \/ q.full /\ Cardinality(Later(q.got, stamp[t][e])) >= Limit
    BY DEF Gathers
  <2>2. CASE t = s
    BY <1>1, <1>6, <2>1, <2>2 DEF Reads
  <2>3. CASE t # s
    <3>1. t \in Searched \ ToRead(r) /\ stamp[t][e] \in Nat
      BY <1>2, <2>1, <2>3, RowAtRest
    <3>2. \/ r.got[p] >= stamp[t][e]
          \/ r.full /\ Cardinality(Later(r.got, stamp[t][e])) >= Limit
      BY <1>1, <2>1, <3>1 DEF Gathers, Reads
    <3>3. CASE r.got[p] >= stamp[t][e]
      BY <1>4, <3>1, <3>3
    <3>4. CASE r.full /\ Cardinality(Later(r.got, stamp[t][e])) >= Limit
      <4>1. q.full
        BY <1>1, <3>4 DEF Reads
      <4>2. QED
        BY <1>5, <3>1, <3>4, <4>1
    <3>5. QED
      BY <3>2, <3>3, <3>4
  <2>4. QED
    BY <2>2, <2>3
<1>8. QED
  BY <1>1, <1>7 DEF Reads

\* A page, once cut, is followed by all that it leaves out.
LEMMA AssemblePageAnswers ==
  ASSUME ListTypes, OwnersKnown, NEW r \in requests, AssemblePage(r), r.query = query, Gathers(r)
  PROVE  \E q : /\ requests' = (requests \ {r}) \cup {q}
                /\ q.kind = r.kind /\ q.gen = r.gen /\ q.query = r.query /\ q.before = r.before
                /\ q.done /\ Answers(q)
<1>1. PICK q \in RequestType, page \in Newest(r.got) :
        /\ requests' = (requests \ {r}) \cup {q}
        /\ r.todo = <<>> /\ q.done
        /\ q.kind = r.kind /\ q.gen = r.gen /\ q.query = r.query /\ q.before = r.before
        /\ q.more = (Cardinality(Given(r.got)) > Limit \/ r.full)
        /\ \A p \in page : q.rows[p] > 0
        /\ \/ q.next = 0
           \/ q.more /\ \E p \in page : q.next = r.got[p]
  BY AssemblePageDoes
<1>0. /\ r \in RequestType /\ Limit \in Nat /\ \A p \in Phones : r.got[p] \in Nat
      /\ IsFiniteSet(Given(r.got)) /\ Cardinality(Given(r.got)) \in Nat
  <2>1. r \in RequestType
    BY DEF ListTypes
  <2>2. Given(r.got) \subseteq Phones
    BY DEF Given
  <2>3. IsFiniteSet(Given(r.got))
    BY <2>2, FS_Subset, ThreadListAssumption DEF ThreadListAssumption
  <2>4. Cardinality(Given(r.got)) \in Nat
    BY <2>3, FS_CardinalityType
  <2>5. QED
    BY <2>1, <2>3, <2>4, ThreadListAssumption DEF RequestType, Stamps, ThreadListAssumption
<1>2. ToRead(r) = {}
  BY <1>1 DEF ToRead
<1>3. /\ page \subseteq Given(r.got) /\ page \subseteq Phones
      /\ IsFiniteSet(page) /\ Cardinality(page) \in Nat /\ Cardinality(page) <= Limit
      /\ \A p \in Given(r.got) \ page : /\ Cardinality(page) = Limit
                                        /\ \A x \in page : r.got[x] >= r.got[p]
  BY NewestCovers
<1>4. ASSUME NEW n \in Nat, Cardinality(Later(r.got, n)) >= Limit
      PROVE  \A p \in page : r.got[p] > n
  <2>1. SUFFICES ASSUME NEW p \in page, r.got[p] <= n PROVE FALSE
    BY <1>0, <1>3
  <2>2. Later(r.got, n) \subseteq Given(r.got) /\ p \notin Later(r.got, n)
    BY <1>0, <1>3, <1>4, <2>1 DEF Later, Given
  <2>3. Later(r.got, n) \subseteq page
    <3>1. SUFFICES ASSUME NEW x \in Later(r.got, n), x \notin page PROVE FALSE
      OBVIOUS
    <3>2. r.got[p] >= r.got[x] /\ r.got[x] > n /\ x \in Phones
      BY <1>3, <2>2, <3>1 DEF Later
    <3>3. QED
      BY <1>0, <1>3, <2>1, <3>2
  <2> DEFINE late == Later(r.got, n)
  <2>4. IsFiniteSet(late) /\ Cardinality(late) \in Nat
    BY <1>3, <2>3, FS_Subset, FS_CardinalityType
  <2>5. Cardinality(late \cup {p}) = Cardinality(late) + 1
    BY <2>2, <2>4, FS_AddElement
  <2>6. Cardinality(late \cup {p}) <= Cardinality(page)
    BY <1>3, <2>3, FS_Subset
  <2>7. QED
    BY <1>0, <1>3, <1>4, <2>4, <2>5, <2>6
<1>5. ASSUME NEW n \in Nat, \A p \in page : r.got[p] > n
      PROVE  q.next > 0 => n < q.next
  <2>1. SUFFICES ASSUME q.next > 0 PROVE n < q.next
    OBVIOUS
  <2>2. PICK p \in page : q.next = r.got[p]
    BY <1>1, <2>1
  <2>3. QED
    BY <1>0, <1>3, <1>5, <2>2
<1>6. ASSUME NEW s \in Searched, NEW e \in Entries, NEW p \in Phones, AtRest(s, e, p),
             r.before > 0 => stamp[s][e] < r.before
      PROVE  \/ q.rows[p] > 0
             \/ q.more /\ (q.next > 0 => stamp[s][e] < q.next)
  <2>1. stamp[s][e] \in Nat /\ stamp[s][e] > 0 /\ \A x \in Phones : x # p => r.got[x] # stamp[s][e]
    BY <1>6, RowAtRest
  <2>2. \/ r.got[p] >= stamp[s][e]
        \/ r.full /\ Cardinality(Later(r.got, stamp[s][e])) >= Limit
    BY <1>2, <1>6 DEF Gathers
  <2>3. CASE p \in page
    BY <1>1, <2>3
  <2>4. CASE r.full /\ Cardinality(Later(r.got, stamp[s][e])) >= Limit
    <3>1. q.more
      BY <1>1, <2>4
    <3>2. \A x \in page : r.got[x] > stamp[s][e]
      BY <1>4, <2>1, <2>4
    <3>3. QED
      BY <1>5, <2>1, <3>1, <3>2
  <2>5. CASE p \notin page /\ r.got[p] >= stamp[s][e]
    <3>1. p \in Given(r.got) \ page /\ r.got[p] \in Nat
      BY <1>0, <2>1, <2>5 DEF Given
    <3>2. Cardinality(page) = Limit /\ \A x \in page : r.got[x] >= r.got[p]
      BY <1>3, <3>1
    <3>3. \A x \in page : r.got[x] > stamp[s][e]
      BY <1>0, <1>3, <2>1, <2>5, <3>1, <3>2
    <3>4. q.more
      <4>1. page \cup {p} \subseteq Given(r.got)
        BY <1>3, <3>1
      <4>2. Cardinality(page \cup {p}) = Cardinality(page) + 1
        BY <1>3, <3>1, FS_AddElement
      <4>3. Cardinality(page \cup {p}) <= Cardinality(Given(r.got))
        BY <1>0, <4>1, FS_Subset
      <4>4. Cardinality(Given(r.got)) > Limit
        BY <1>0, <3>2, <4>2, <4>3
      <4>5. QED
        BY <1>1, <4>4
    <3>5. QED
      BY <1>5, <2>1, <3>3, <3>4
  <2>6. QED
    BY <2>2, <2>3, <2>4, <2>5
<1>7. Answers(q)
  BY <1>1, <1>6 DEF Answers
<1>8. QED
  BY <1>1, <1>7

LEMMA ServeCovers ==
  ASSUME ListTypes, LoadsInOrder, OwnersKnown, Covered, NEW r \in requests, Serve(r)
  PROVE  Covered'
<1>0. UNCHANGED <<stamp, owners, query, active, generation, threads, cursor, hasMore, base, crossed>>
  BY DEF Serve, ReadSource, AssemblePage, stored, list, loading
<1>1. \E q : /\ requests' = (requests \ {r}) \cup {q}
             /\ q.kind = r.kind /\ q.gen = r.gen /\ q.before = r.before
             /\ Live(r) => (~q.done => Gathers(q)) /\ (q.done => Answers(q))
  <2>1. CASE ~Live(r)
    <3>1. PICK q : /\ requests' = (requests \ {r}) \cup {q}
                   /\ q.kind = r.kind /\ q.gen = r.gen /\ q.before = r.before
      BY ServeSwaps
    <3>2. QED
      BY <2>1, <3>1
  <2>2. CASE Live(r) /\ r.done
    <3>1. ReadSource(r)
      BY <2>2 DEF Serve, AssemblePage
    <3>2. PICK s \in Sources, q \in RequestType, at \in [Phones -> Stamps],
               found \in SUBSET Phones : Reads(r, s, q, at, found)
      BY <3>1, ReadSourceDoes
    <3>3. Answers(q)
      BY <2>2, <3>2 DEF Covered, Answers, Reads
    <3>4. QED
      BY <2>2, <3>2, <3>3 DEF Reads
  <2>3. CASE Live(r) /\ ~r.done
    <3>0. r.query = query /\ Gathers(r)
      BY <2>3 DEF LoadsInOrder, Covered
    <3>1. CASE ReadSource(r)
      <4>1. PICK q : /\ requests' = (requests \ {r}) \cup {q}
                     /\ q.kind = r.kind /\ q.gen = r.gen /\ q.before = r.before
                     /\ q.done = r.done /\ Gathers(q)
        BY <3>0, <3>1, ReadSourceGathers
      <4>2. QED
        BY <2>3, <4>1
    <3>2. CASE AssemblePage(r)
      <4>1. PICK q : /\ requests' = (requests \ {r}) \cup {q}
                     /\ q.kind = r.kind /\ q.gen = r.gen /\ q.before = r.before
                     /\ q.done /\ Answers(q)
        BY <3>0, <3>2, AssemblePageAnswers
      <4>2. QED
        BY <4>1
    <3>3. QED
      BY <3>1, <3>2 DEF Serve
  <2>4. QED
    BY <2>1, <2>2, <2>3
<1>2. PICK q : /\ requests' = (requests \ {r}) \cup {q}
               /\ q.kind = r.kind /\ q.gen = r.gen /\ q.before = r.before
               /\ Live(r) => (~q.done => Gathers(q)) /\ (q.done => Answers(q))
  BY <1>1
<1>3. ASSUME NEW x, Gathers(x) PROVE Gathers(x)'
  BY <1>0, <1>3 DEF Gathers, AtRest, Matches, Searched, stored
<1>4. ASSUME NEW x, Answers(x) PROVE Answers(x)'
  BY <1>0, <1>4 DEF Answers, AtRest, Matches, Searched, stored
<1>5. ASSUME NEW n, Listed(n) PROVE Listed(n)'
  BY <1>0, <1>5 DEF Listed, AtRest, Matches, Searched
<1>6. ASSUME NEW x \in requests', Live(x)'
      PROVE  (~x.done => Gathers(x)') /\ (x.done => Answers(x)')
  <2>1. CASE x = q
    BY <1>0, <1>2, <1>3, <1>4, <1>6, <2>1 DEF Live
  <2>2. CASE x # q
    BY <1>0, <1>2, <1>3, <1>4, <1>6, <2>2 DEF Live, Covered
  <2>3. QED
    BY <2>1, <2>2
<1>7. ASSUME base' = generation', ~crossed'
      PROVE  /\ ~hasMore' => Listed(0)'
             /\ cursor' > 0 => Listed(cursor)'
             /\ \A x \in requests' : x.kind \in {"auto", "older"} /\ Live(x)' => Listed(x.before)'
  BY <1>0, <1>2, <1>5, <1>7 DEF Live, Covered
<1>8. QED
  BY <1>6, <1>7 DEF Covered

\* What is stored from here on is of a phone that is active.
LEMMA ActivityCovers ==
  ASSUME ListTypes, OwnersKnown, Covered, NEW s \in Sources, NEW e \in Entries, Activity(s, e)
  PROVE  Covered'
<1>0. UNCHANGED <<requests, query, generation, threads, cursor, hasMore, base, crossed>>
      /\ active' = active \cup PhonesOf[e]
  BY DEF Activity, list
<1>1. PICK n \in Stamps : /\ stamp' = [stamp EXCEPT ![s][e] = n]
                          /\ owners' = [owners EXCEPT ![n] = @ \cup PhonesOf[e]]
  BY ActivityStamps
<1>2. ASSUME NEW t \in Searched, NEW f \in Entries, NEW p \in Phones, AtRest(t, f, p)'
      PROVE  AtRest(t, f, p) /\ stamp'[t][f] = stamp[t][f]
  <2>1. t \in Sources
    BY SourcesOfType DEF Searched
  <2>2. ~(t = s /\ f = e) /\ p \notin active
    BY <1>0, <1>2 DEF AtRest, Matches
  <2>3. stamp'[t][f] = stamp[t][f] /\ stamp[t][f] \in Stamps
    BY <1>1, <2>1, <2>2 DEF ListTypes
  <2>4. Matches(t, f, p)
    BY <1>0, <1>2, <2>3 DEF AtRest, Matches
  <2>5. owners[stamp[t][f]] = {p}
    <3>1. PhonesOf[f] \subseteq owners[stamp[t][f]]
      BY <2>1 DEF OwnersKnown
    <3>2. owners[stamp[t][f]] \subseteq owners'[stamp[t][f]] /\ owners'[stamp[t][f]] = {p}
      BY <1>2, <2>3, ActivityKnown DEF AtRest
    <3>3. QED
      BY <2>4, <3>1, <3>2 DEF Matches
  <2>6. QED
    BY <2>2, <2>3, <2>4, <2>5 DEF AtRest
<1>3. Searched' = Searched
  BY <1>0 DEF Searched
<1>4. ASSUME NEW r, Gathers(r) PROVE Gathers(r)'
  BY <1>2, <1>3, <1>4 DEF Gathers, ToRead, Later
<1>5. ASSUME NEW r, Answers(r) PROVE Answers(r)'
  BY <1>2, <1>3, <1>5 DEF Answers
<1>6. ASSUME NEW m, Listed(m) PROVE Listed(m)'
  BY <1>0, <1>2, <1>3, <1>6 DEF Listed
<1>7. QED
  BY <1>0, <1>4, <1>5, <1>6 DEF Covered, Live

\* A request that has read no source yet.
LEMMA NewGathers ==
  ASSUME NEW kind, NEW gen, NEW before, NEW left, NEW q, q = Request(kind, gen, before, left)
  PROVE  q.kind = kind /\ q.gen = gen /\ q.before = before /\ ~q.done /\ Gathers(q)'
<1>1. q.todo = SourcesOf(query')
  BY DEF Request
<1>2. Searched' = ToRead(q)
  BY <1>1 DEF ToRead, Searched
<1>3. ToRead(q)' = ToRead(q)
  BY DEF ToRead
<1>4. Gathers(q)'
  BY <1>2, <1>3 DEF Gathers
<1>5. QED
  BY <1>4 DEF Request

\* A load begins with everything still to be read.
LEMMA LoadThreadListCovers ==
  ASSUME ListTypes, LoadsInOrder, NEW term \in Terms, LoadThreadList(term)
  PROVE  Covered'
<1>1. PICK q : /\ requests' = requests \cup {q}
               /\ q = Request("first", generation', 0, 1)
  BY DEF LoadThreadList
<1>2. ~q.done /\ Gathers(q)'
  BY <1>1, NewGathers
<1>3. generation' = generation + 1 /\ UNCHANGED base /\ generation \in Nat /\ base \in Nat
      /\ base <= generation
  BY ThreadListAssumption DEF LoadThreadList, list, ListTypes, ThreadListAssumption
<1>4. \A r \in requests : ~Live(r)'
  <2>1. \A r \in requests : r.gen \in Nat /\ r.gen <= generation
    BY DEF ListTypes, LoadsInOrder, RequestType
  <2>2. QED
    BY <1>3, <2>1 DEF Live
<1>5. QED
  BY <1>1, <1>2, <1>3, <1>4 DEF Covered

\* Steps that change neither the rows nor the load, keep the requests they do
\* not add, and lose no thread: what they add and what they show is left to see.
LEMMA FrameCovers ==
  ASSUME Covered, UNCHANGED <<stored, query, active, generation>>,
         \A q \in requests' \ requests : q.gen = generation => ~q.done /\ Gathers(q)',
         base' = generation /\ ~crossed' =>
           /\ ~hasMore' => Listed(0)'
           /\ cursor' > 0 => Listed(cursor)'
           /\ \A r \in requests' : r.kind \in {"auto", "older"} /\ Live(r) => Listed(r.before)'
  PROVE  Covered'
<1>1. ASSUME NEW r, Gathers(r) PROVE Gathers(r)'
  BY <1>1 DEF Gathers, AtRest, Matches, Searched, stored
<1>2. ASSUME NEW r, Answers(r) PROVE Answers(r)'
  BY <1>2 DEF Answers, AtRest, Matches, Searched, stored
<1>3. ASSUME NEW r \in requests', Live(r)'
      PROVE  (~r.done => Gathers(r)') /\ (r.done => Answers(r)')
  BY <1>1, <1>2, <1>3 DEF Live, Covered
<1>4. QED
  BY <1>3 DEF Covered, Live

LEMMA ListedStays ==
  ASSUME ListTypes, UNCHANGED <<stored, query, active>>,
         \A p \in Phones : threads[p] > 0 => threads'[p] > 0,
         NEW n, Listed(n)
  PROVE  Listed(n)'
BY DEF Listed, AtRest, Matches, Searched, stored

\* The list loses nothing while its load runs, and asks for what lies beyond.
LEMMA QuietCovers ==
  ASSUME ListTypes, Covered,
         UNCHANGED <<stored, query, active, generation, cursor, hasMore, base, crossed>>,
         \A p \in Phones : threads[p] > 0 => threads'[p] > 0,
         \A q \in requests' \ requests : q.gen = generation => ~q.done /\ Gathers(q)',
         \A q \in requests' \ requests :
           q.kind \in {"auto", "older"} => q.before = cursor /\ cursor > 0
  PROVE  Covered'
<1>1. ASSUME base' = generation, ~crossed'
      PROVE  /\ ~hasMore' => Listed(0)'
             /\ cursor' > 0 => Listed(cursor)'
             /\ \A r \in requests' : r.kind \in {"auto", "older"} /\ Live(r) => Listed(r.before)'
  <2>1. /\ ~hasMore => Listed(0)
        /\ cursor > 0 => Listed(cursor)
        /\ \A r \in requests' : r.kind \in {"auto", "older"} /\ Live(r) => Listed(r.before)
    BY <1>1 DEF Covered
  <2>2. QED
    BY <2>1, ListedStays
<1>2. QED
  BY <1>1, FrameCovers

\* An older page closes the gap between what was listed and its own cursor.
LEMMA MergeOlderCovers ==
  ASSUME ListTypes, OwnersKnown, Covered, NEW r \in requests, r.kind \in {"auto", "older"}, r.done,
         MergeOlder(r), UNCHANGED <<stored, query, active, generation>>,
         \A q \in requests' \ requests : q.gen = generation => ~q.done /\ Gathers(q)',
         \A q \in requests' \ requests : q.before = r.next /\ r.next > 0
  PROVE  Covered'
<1>0. /\ cursor' = r.next /\ hasMore' = r.more /\ base' = base
      /\ ~crossed' => ~crossed /\ r.gen = base
      /\ r \in RequestType /\ r.next \in Nat /\ r.before \in Nat
  BY DEF MergeOlder, ListTypes, RequestType, Stamps
<1>1. \A p \in Phones : threads'[p] > 0 <=> threads[p] > 0 \/ r.rows[p] > 0
  BY <1>0, MergedType DEF MergeOlder, ListTypes, RequestType
<1>2. ASSUME base' = generation, ~crossed'
      PROVE  /\ ~hasMore' => Listed(0)'
             /\ cursor' > 0 => Listed(cursor)'
             /\ \A q \in requests' : q.kind \in {"auto", "older"} /\ Live(q) => Listed(q.before)'
  <2>1. Live(r) /\ base = generation /\ ~crossed
    BY <1>0, <1>2 DEF Live
  <2>2. Answers(r) /\ Listed(r.before)
    BY <2>1 DEF Covered
  <2>3. ASSUME NEW s \in Searched, NEW e \in Entries, NEW p \in Phones, AtRest(s, e, p),
               ~(threads'[p] > 0)
        PROVE  stamp[s][e] \in Nat /\ r.more /\ (r.next > 0 => stamp[s][e] < r.next)
    <3>1. stamp[s][e] \in Nat
      BY <2>3, RowAtRest
    <3>2. ~(threads[p] > 0) /\ ~(r.rows[p] > 0)
      BY <1>1, <2>3
    <3>3. stamp[s][e] < r.before
      BY <1>0, <2>2, <2>3, <3>1, <3>2 DEF Listed
    <3>4. QED
      BY <2>2, <2>3, <3>1, <3>2, <3>3 DEF Answers
  <2>a. ASSUME NEW s, NEW e, NEW p PROVE AtRest(s, e, p)' <=> AtRest(s, e, p)
    BY DEF AtRest, Matches, stored
  <2>b. Searched' = Searched /\ stamp' = stamp
    BY DEF Searched, stored
  <2>4. ~r.more => Listed(0)'
    BY <2>3, <2>a, <2>b DEF Listed
  <2>5. ASSUME r.next > 0 PROVE Listed(r.next)'
    <3>1. \A s \in Searched, e \in Entries, p \in Phones :
            AtRest(s, e, p) /\ stamp[s][e] >= r.next => threads'[p] > 0
      BY <1>0, <2>3, <2>5
    <3>2. QED
      BY <2>a, <2>b, <3>1 DEF Listed
  <2>6. ASSUME NEW q \in requests', q.kind \in {"auto", "older"}, Live(q)
        PROVE  Listed(q.before)'
    <3>1. CASE q \in requests
      <4>1. Listed(q.before)
        BY <2>1, <2>6, <3>1 DEF Covered
      <4>2. QED
        BY <1>1, <4>1, ListedStays
    <3>2. CASE q \notin requests
      <4>1. q.before = r.next /\ r.next > 0
        BY <3>2
      <4>2. QED
        BY <2>5, <4>1
    <3>3. QED
      BY <3>1, <3>2
  <2>7. QED
    BY <1>0, <2>4, <2>5, <2>6
<1>3. QED
  BY <1>2, FrameCovers

LEMMA ShowFirstPageCovers ==
  ASSUME ListTypes, LoadsInOrder, OwnersKnown, Covered, NEW r \in requests, ShowFirstPage(r), Live(r)
  PROVE  Covered'
<1>1. /\ requests' = requests \ {r} /\ UNCHANGED <<stored, query, active, generation>>
      /\ threads' = r.rows /\ cursor' = r.next /\ hasMore' = r.more /\ r.kind = "first" /\ r.done
  BY DEF ShowFirstPage, Live
<1>2. r.before = 0 /\ base # generation /\ Answers(r)
  BY <1>1 DEF LoadsInOrder, Covered
<1>3. \A q \in requests : q.kind \in {"auto", "older"} => ~Live(q)
  <2>1. \A q \in requests : q.gen \in Nat
    BY DEF ListTypes, RequestType
  <2>2. base \in Nat /\ generation \in Nat /\ base <= generation
    BY ThreadListAssumption DEF ListTypes, ThreadListAssumption
  <2>3. QED
    BY <1>2, <2>1, <2>2 DEF LoadsInOrder, Live
<1>4. \A s \in Searched, e \in Entries, p \in Phones : AtRest(s, e, p) => stamp[s][e] \in Nat
  BY RowAtRest
<1>5. \A s \in Searched, e \in Entries, p \in Phones : AtRest(s, e, p) =>
        threads'[p] > 0 \/ (r.more /\ (r.next > 0 => stamp[s][e] < r.next))
  BY <1>1, <1>2 DEF Answers
<1>a. ASSUME NEW s, NEW e, NEW p PROVE AtRest(s, e, p)' <=> AtRest(s, e, p)
  BY <1>1 DEF AtRest, Matches, stored
<1>b. Searched' = Searched /\ stamp' = stamp
  BY <1>1 DEF Searched, stored
<1>6. ~hasMore' => Listed(0)'
  BY <1>1, <1>5, <1>a, <1>b DEF Listed
<1>7. ASSUME cursor' > 0 PROVE Listed(cursor)'
  <2>1. r.next \in Nat
    BY DEF ListTypes, RequestType, Stamps
  <2>2. \A s \in Searched, e \in Entries, p \in Phones :
          AtRest(s, e, p) /\ stamp[s][e] >= r.next => threads'[p] > 0
    BY <1>1, <1>4, <1>5, <1>7, <2>1
  <2>3. QED
    BY <1>1, <2>2, <1>a, <1>b DEF Listed
<1>8. /\ requests' \ requests = {}
      /\ \A q \in requests' : q.kind \in {"auto", "older"} /\ Live(q) => Listed(q.before)'
  BY <1>1, <1>3
<1>9. QED
  BY <1>1, <1>6, <1>7, <1>8, FrameCovers

LEMMA NextCovers ==
  ASSUME ListTypes, LoadsInOrder, AutoInTurn, OwnersKnown, Covered, [Next]_vars
  PROVE  Covered'
<1>1. ASSUME requests' \subseteq requests, UNCHANGED <<stored, query, active, generation>>,
             UNCHANGED <<cursor, hasMore, base, crossed>>,
             \A p \in Phones : threads[p] > 0 => threads'[p] > 0
      PROVE  Covered'
  <2>1. requests' \ requests = {}
    BY <1>1
  <2>2. QED
    BY <1>1, <2>1, QuietCovers
<1>2. ASSUME NEW kind, NEW gen, NEW left, NEW before, NEW q,
             q = Request(kind, gen, before, left), requests' \subseteq requests \cup {q},
             kind \in {"auto", "older"} => before = cursor /\ cursor > 0,
             UNCHANGED <<stored, query, active, generation, threads>>,
             UNCHANGED <<cursor, hasMore, base, crossed>>
      PROVE  Covered'
  <2>1. q.kind = kind /\ q.before = before /\ ~q.done /\ Gathers(q)'
    BY <1>2, NewGathers
  <2>2. /\ \A x \in requests' \ requests : x.gen = generation => ~x.done /\ Gathers(x)'
        /\ \A x \in requests' \ requests : x.kind \in {"auto", "older"} => x.before = cursor /\ cursor > 0
    BY <1>2, <2>1
  <2>3. QED
    BY <1>2, <2>2, QuietCovers
<1>3. cursor \in Nat
  BY DEF ListTypes, Stamps
<1>4. ASSUME NEW r \in requests, ShowFirstPage(r)
      PROVE  Covered'
  <2>1. CASE Live(r)
    BY <1>4, <2>1, ShowFirstPageCovers
  <2>2. CASE ~Live(r)
    BY <1>1, <1>4, <2>2 DEF ShowFirstPage, Live, list, loading
  <2>3. QED
    BY <2>1, <2>2
<1>5. ASSUME NEW r \in requests, FetchNextPage(r)
      PROVE  Covered'
  <2>1. CASE Live(r)
    <3>1. /\ requests' \ requests = {} /\ MergeOlder(r) /\ r.kind = "auto" /\ r.done
          /\ UNCHANGED <<stored, query, active, generation>>
      BY <1>5, <2>1 DEF FetchNextPage, Live
    <3>2. QED
      BY <3>1, MergeOlderCovers
  <2>2. CASE ~Live(r)
    BY <1>1, <1>5, <2>2 DEF FetchNextPage, Live, list, loading
  <2>3. QED
    BY <2>1, <2>2
<1>6. ASSUME NEW r \in requests, FetchOlderPage(r)
      PROVE  Covered'
  <2>1. /\ MergeOlder(r) /\ r.kind = "older" /\ r.done
        /\ UNCHANGED <<stored, query, active, generation>>
    BY <1>6 DEF FetchOlderPage, Same
  <2>2. CASE requests' \subseteq requests
    <3>1. requests' \ requests = {}
      BY <2>2
    <3>2. QED
      BY <2>1, <3>1, MergeOlderCovers
  <2>3. CASE ~(requests' \subseteq requests)
    <3>1. PICK q : /\ requests' \subseteq requests \cup {q} /\ r.next # 0
                   /\ q = Request("older", base, r.next, r.left - 1)
      BY <1>6, <2>3 DEF FetchOlderPage
    <3>2. q.before = r.next /\ ~q.done /\ Gathers(q)'
      BY <3>1, NewGathers
    <3>3. r.next > 0
      BY <3>1 DEF ListTypes, RequestType, Stamps
    <3>4. /\ \A x \in requests' \ requests : x.gen = generation => ~x.done /\ Gathers(x)'
          /\ \A x \in requests' \ requests : x.before = r.next /\ r.next > 0
      BY <3>1, <3>2, <3>3
    <3>5. QED
      BY <2>1, <3>1, <3>4, MergeOlderCovers
  <2>4. QED
    BY <2>2, <2>3
<1>7. ASSUME NEW r \in requests, ShowRefreshed(r)
      PROVE  Covered'
  <2>1. threads \in [Phones -> Stamps] /\ r.rows \in [Phones -> Stamps]
    BY DEF ListTypes, RequestType
  <2>2. \A p \in Phones : threads[p] > 0 => threads'[p] > 0
    BY <1>7, <2>1, MergedType DEF ShowRefreshed
  <2>3. QED
    BY <1>1, <1>7, <2>2 DEF ShowRefreshed, loading
<1>8. ASSUME NEW r \in requests, RequestFails(r)
      PROVE  Covered'
  BY <1>1, <1>8 DEF RequestFails, list
<1>9. CASE AutoLoadEnd \/ UNCHANGED vars
  BY <1>1, <1>9 DEF AutoLoadEnd, vars, list, loading
<1>10. CASE AutoLoadNext
  BY <1>2, <1>3, <1>10 DEF AutoLoadNext, Same, list
<1>11. CASE LoadOlderThreads
  BY <1>2, <1>3, <1>11 DEF LoadOlderThreads, Same, list
<1>12. CASE RefreshFirstPage
  BY <1>2, <1>12 DEF RefreshFirstPage, Same, list
<1>13. QED
  BY BusyIsKnown, <1>4, <1>5, <1>6, <1>7, <1>8, <1>9, <1>10, <1>11, <1>12, ServeCovers, ActivityCovers,
     LoadThreadListCovers
  DEF Next, Answer

-----------------------------------------------------------------------------
(* The theorems                                                            *)

LEMMA ListInvInit == Init => ListInv
<1>1. SUFFICES ASSUME Init PROVE ListInv
  OBVIOUS
<1>2. /\ 0 \in Stamps /\ Nothing \in [Phones -> Stamps] /\ 1 \in 1 .. MaxLoads
      /\ 1 \in 0 .. MaxLoads /\ 1 \in 1 .. OlderPages /\ 0 \in 0 .. AutoPages /\ 0 \in 0 .. 1
      /\ Browse \in Terms
  BY ThreadListAssumption DEF ThreadListAssumption, Nothing, Stamps
<1>3. SourcesOf(Browse) = Activities
  BY DEF SourcesOf
<1>4. PICK r : /\ requests = {r}
               /\ r = [kind |-> "first", gen |-> 1, query |-> Browse, before |-> 0,
                       left |-> 1, todo |-> Activities, got |-> Nothing, full |-> FALSE,
                       rows |-> Nothing, next |-> 0, more |-> FALSE, done |-> FALSE]
  BY <1>1 DEF Init
<1>5. ListTypes
  <2>1. Activities \in Seq(Sources)
    BY <1>3, SourcesOfType
  <2>2. r \in RequestType
    BY <1>2, <1>4, <2>1 DEF RequestType, Kinds
  <2>3. stamp \in [Sources -> [Entries -> Stamps]]
    BY <1>1, ThreadListAssumption DEF Init, ThreadListAssumption
  <2>4. owners \in [Stamps -> SUBSET Phones]
    BY <1>1, ThreadListAssumption DEF Init, ThreadListAssumption
  <2>5. QED
    BY <1>1, <1>2, <1>4, <2>2, <2>3, <2>4 DEF Init, ListTypes
<1>6. r.kind = "first" /\ r.gen = 1 /\ r.query = Browse /\ r.before = 0 /\ ~r.done
      /\ r.todo = Activities
  BY <1>4
<1>7. LoadsInOrder /\ AutoInTurn /\ Descends
  BY <1>1, <1>4, <1>6 DEF Init, LoadsInOrder, AutoInTurn, Descends, Live
<1>8. Gathers(r)
  <2>1. Searched \ ToRead(r) = {}
    BY <1>1, <1>3, <1>6 DEF ToRead, Searched, Init
  <2>2. QED
    BY <2>1 DEF Gathers
<1>9. Covered
  BY <1>1, <1>4, <1>6, <1>8 DEF Init, Covered
<1>10. OwnersKnown
  <2>1. \A p \in Phones : r.got[p] = 0
    BY <1>4 DEF Nothing
  <2>2. ASSUME NEW s \in Sources, NEW e \in Entries
        PROVE  PhonesOf[e] \subseteq owners[stamp[s][e]]
    <3>1. stamp[s][e] \in Stamps /\ stamp[s][e] = Stored[s][e]
      BY <1>1, <1>5 DEF Init, ListTypes
    <3>2. e \in {f \in Entries : \E t \in Sources : Stored[t][f] = stamp[s][e]}
      BY <3>1
    <3>3. owners[stamp[s][e]] = UNION {PhonesOf[x] : x \in {f \in Entries :
                                  \E t \in Sources : Stored[t][f] = stamp[s][e]}}
      BY <1>1, <3>1 DEF Init
    <3>4. QED
      BY <3>2, <3>3
  <2>3. QED
    BY <1>4, <2>1, <2>2 DEF OwnersKnown
<1>11. QED
  BY <1>5, <1>7, <1>9, <1>10 DEF ListInv

LEMMA ListInvNext == ListInv /\ [Next]_vars => ListInv'
<1>1. SUFFICES ASSUME ListInv, [Next]_vars PROVE ListInv'
  OBVIOUS
<1>2. ListTypes'
  <2>1. CASE Next
    BY <1>1, <2>1, NextTypes DEF ListInv
  <2>2. CASE UNCHANGED vars
    BY <1>1, <2>2 DEF ListInv, ListTypes, vars, stored, list, loading
  <2>3. QED
    BY <1>1, <2>1, <2>2
<1>3. QED
  BY <1>1, <1>2, NextOrder, NextDescends, NextKnown, NextCovers DEF ListInv

LEMMA ListInvAlways == Spec => []ListInv
BY ListInvInit, ListInvNext, PTL DEF Spec

\* Every variable of the list keeps its range; the automatic load stays within
\* AUTO_LOAD_MAX_PAGES (autoLoadRemainingThreads in chats.js).
THEOREM ListTyped == Spec => []TypeOK
<1>1. ASSUME ListInv PROVE TypeOK
  <2>1. \A r \in requests : r.kind \in Kinds /\ r.left \in 1 .. OlderPages
    BY <1>1 DEF ListInv, ListTypes, RequestType
  <2>2. {hasMore, older, crossed} \subseteq BOOLEAN
    BY <1>1 DEF ListInv, ListTypes
  <2>3. QED
    BY <1>1, <2>1, <2>2 DEF ListInv, ListTypes, TypeOK
<1>2. QED
  BY <1>1, ListInvAlways, PTL

\* Paging loses no row whose stamp is its phone's own, in any source that the
\* search goes over: when the list says there is no more, the phone of every
\* such row is on it, unless one of its rows was stored since the load began
\* (the boundary of list_conversations in router.py, fetchNextPage in chats.js).
THEOREM NothingLostBetweenPages == Spec => []WholeHistoryListed
<1>1. ASSUME ListInv PROVE WholeHistoryListed
  <2>1. SUFFICES ASSUME base = generation, ~crossed, ~hasMore,
                        NEW s \in ToSet(SourcesOf(query)), NEW e \in Entries,
                        NEW p \in Phones \ active, Matches(s, e, p), owners[stamp[s][e]] = {p}
                 PROVE  threads[p] > 0
    BY DEF WholeHistoryListed
  <2>2. Listed(0)
    BY <1>1, <2>1 DEF ListInv, Covered
  <2>3. s \in Searched
    <3>1. DOMAIN SourcesOf(query) = 1 .. Len(SourcesOf(query))
      BY SourcesOfType
    <3>2. QED
      BY <3>1 DEF ToSet, Searched
  <2>4. AtRest(s, e, p)
    BY <2>1 DEF AtRest
  <2>5. stamp[s][e] >= 0
    BY <1>1, <2>3, <2>4, RowAtRest DEF ListInv
  <2>6. QED
    BY <2>2, <2>3, <2>4, <2>5 DEF Listed
<1>2. QED
  BY <1>1, ListInvAlways, PTL

\* Every older page has a cursor below the one it was asked with, which is what
\* ends the browser's loops (loadOlderThreads in chats.js).
THEOREM PagesDescend == Spec => CursorDescends
<1>1. ListInv =>
        \A r \in requests : r.kind \in {"auto", "older"} => r.next < r.before
  BY DEF ListInv, Descends
<1>2. ListInv /\ [Next]_vars =>
        [\A r \in requests \ requests' :
           r.kind \in {"auto", "older"} /\ r.done /\ r.next > 0 => r.next < r.before]_vars
  BY <1>1
<1>3. QED
  BY <1>2, ListInvAlways, PTL DEF Spec, CursorDescends
=============================================================================
