----------------------------- MODULE ThreadList -----------------------------
(***************************************************************************)
(* The thread list of the admin page.  A page of the list is the most      *)
(* recent Limit phones of the union of several sources, each read with a   *)
(* statement of its own; the cursor of the next page is the stamp of the   *)
(* last phone.  The browser loads page after page by itself, and meanwhile *)
(* polls the first page, lets the operator ask for older chats, and starts *)
(* over when the search term changes: several answers are on their way at  *)
(* once, for lists that may no longer be the one on the screen.            *)
(***************************************************************************)
EXTENDS Naturals, Sequences, SequencesExt, FiniteSets, FiniteSetsExt

CONSTANTS
  Phones,
  Entries,       \* what a source's statement goes over: a phone, a mirrored order
  PhonesOf,      \* the phones of an entry: a phone's own, an order's two
  Terms,         \* search terms; Browse is the empty one
  Browse,
  Hits,          \* the entries that a term matches in each source
  Stored,        \* the stamps of the entries at first, by source
  Limit,         \* threads on a page
  AutoPages,     \* AUTO_LOAD_MAX_PAGES
  OlderPages,    \* pages of one click on "Load older chats"
  Busy,          \* bound: the sources, and entries of them, that get new rows
  MaxStamp,      \* bound: the latest stamp of an activity
  MaxRequests,   \* bound: requests on their way
  MaxLoads       \* bound: loads of the list, one per search

Activities == <<"messages", "outbound", "taps">>
Sources == {"messages", "outbound", "taps", "orders"}
Stamps == 0 .. MaxStamp           \* 0: no row, no cursor

ASSUME ThreadListAssumption ==
  /\ IsFiniteSet(Phones) /\ Phones \subseteq Entries
  /\ PhonesOf \in [Entries -> SUBSET Phones] /\ \A p \in Phones : PhonesOf[p] = {p}
  /\ Browse \in Terms /\ Hits \in [Terms -> [Sources -> SUBSET Entries]]
  /\ Stored \in [Sources -> [Entries -> Stamps]] /\ Busy \subseteq Sources \X Entries
  /\ {Limit, AutoPages, OlderPages, MaxLoads} \subseteq Nat \ {0}
  /\ {MaxStamp, MaxRequests} \subseteq Nat

VARIABLES
  stamp,       \* the latest row of an entry in each source
  requests,    \* list requests on their way
  query, generation,
  threads,     \* the loaded threads: the stamp each is shown with
  cursor, hasMore,
  older,       \* loadingOlder
  auto,        \* pages the automatic load has fetched; 0 when it is not running
  pollKey,     \* the first page a poll or refresh saw last
  (* Observers: the load whose first page is on the screen, whether an answer *)
  (* for another list was merged into it, the phones active since the load    *)
  (* began, the phones of all the rows that a stamp ever was on.              *)
  base, crossed, active, owners

list == <<threads, cursor, hasMore, pollKey, base, crossed>>
loading == <<query, generation, older, auto, active>>
stored == <<stamp, owners>>
vars == <<stored, requests, list, loading>>

Kinds == {"first", "auto", "older", "refresh"}
Nothing == [p \in Phones |-> 0]
Clock == Max({stamp[s][e] : s \in Sources, e \in Entries})

SourcesOf(term) == IF term = Browse THEN Activities ELSE Append(Activities, "orders")

Request(kind, gen, before, left) ==
  [kind |-> kind, gen |-> gen, query |-> query', before |-> before, left |-> left,
   todo |-> SourcesOf(query'),
   got |-> Nothing, full |-> FALSE, rows |-> Nothing, next |-> 0, more |-> FALSE,
   done |-> FALSE]

Init ==
  /\ stamp = Stored
  /\ owners = [n \in Stamps |-> UNION {PhonesOf[e] : e \in {f \in Entries :
                                          \E s \in Sources : Stored[s][f] = n}}]
  /\ query = Browse /\ generation = 1
  /\ threads = Nothing /\ cursor = 0 /\ hasMore = FALSE /\ pollKey = Nothing
  /\ base = 0 /\ crossed = FALSE /\ active = {} /\ older = FALSE /\ auto = 0
  /\ requests = {[kind |-> "first", gen |-> 1, query |-> Browse, before |-> 0,
                  left |-> 1, todo |-> Activities, got |-> Nothing, full |-> FALSE,
                  rows |-> Nothing, next |-> 0, more |-> FALSE, done |-> FALSE]}
-----------------------------------------------------------------------------
(* The server. *)

BrokenPageable(s, term, before) ==
  {e \in Hits[term][s] : stamp[s][e] > 0 /\ (before > 0 => stamp[s][e] <= before)}
Pageable(s, term, before) ==
  {e \in Hits[term][s] : stamp[s][e] > 0 /\ (before > 0 => stamp[s][e] < before)}

(* The phones of some entries, each with its latest; the ORDER BY and LIMIT *)
(* of a statement, or of the union, which leave the order of equals open.   *)
LatestOf(s, entries) ==
  [p \in Phones |-> Max({0} \cup {stamp[s][e] : e \in {f \in entries : p \in PhonesOf[f]}})]
Given(at) == {p \in Phones : at[p] > 0}
Newest(at) ==
  {S \in SUBSET Given(at) :
     /\ Cardinality(S) <= Limit /\ (S = Given(at) \/ Cardinality(S) = Limit)
     /\ \A p \in S, q \in Given(at) \ S : at[p] >= at[q]}

(* One source's statement: at most Limit phones, merged into the union by  *)
(* their latest stamp.                                                     *)
ReadSource(r) ==
  /\ r \in requests /\ r.todo # <<>>
  /\ LET s == Head(r.todo)
         at == LatestOf(s, Pageable(s, r.query, r.before))
     IN \E found \in Newest(at) : requests' = (requests \ {r}) \cup
          {[r EXCEPT !.todo = Tail(@), !.full = @ \/ Cardinality(found) >= Limit,
                     !.got = [p \in Phones |-> IF p \in found THEN Max({@[p], at[p]})
                                                             ELSE @[p]]]}
  /\ UNCHANGED <<stored, list, loading>>

BrokenBoundary(r, page) == Min({r.got[p] : p \in Given(r.got)})
Boundary(r, page) == Min({r.got[p] : p \in page})

(* The union is cut to a page.  A thread is shown with its latest message, *)
(* read now, or with the stamp it was found by.                            *)
AssemblePage(r) ==
  /\ r \in requests /\ r.todo = <<>> /\ ~r.done
  /\ LET more == Cardinality(Given(r.got)) > Limit \/ r.full
     IN \E page \in Newest(r.got) : requests' = (requests \ {r}) \cup
          {[r EXCEPT !.done = TRUE, !.got = Nothing, !.full = FALSE, !.more = more,
                     !.rows = [p \in Phones |->
                       IF p \notin page THEN 0 ELSE
                       IF stamp["messages"][p] > 0 THEN stamp["messages"][p] ELSE r.got[p]],
                     !.next = IF page # {} /\ more THEN Boundary(r, page) ELSE 0]}
  /\ UNCHANGED <<stored, list, loading>>

(* A customer writes (touch), a notification or a tap is stored; or an     *)
(* order is mirrored, with the stamp that Shopify gave it.                 *)
Activity(s, e) ==
  /\ s = "orders" <=> e \notin Phones
  /\ \E n \in IF s = "orders" THEN stamp[s][e] + 1 .. MaxStamp ELSE {Clock + 1} \cap Stamps :
       /\ stamp' = [stamp EXCEPT ![s][e] = n]
       /\ owners' = [owners EXCEPT ![n] = @ \cup PhonesOf[e]]
  /\ active' = active \cup PhonesOf[e]
  /\ UNCHANGED <<requests, list, query, generation, older, auto>>
-----------------------------------------------------------------------------
(* The page. *)

Merged(old, new) == [p \in Phones |-> IF new[p] > 0 THEN new[p] ELSE old[p]]
Same == query' = query
Room == Cardinality(requests) < MaxRequests

(* A search, also for the same term: the list from its first page. *)
BrokenLoadThreadList(term) ==
  /\ Room /\ generation < MaxLoads
  /\ query' = term /\ generation' = generation + 1
  /\ auto' = 0 /\ active' = {}
  /\ requests' = requests \cup {Request("first", generation', 0, 1)}
  /\ UNCHANGED <<stored, list, older>>
LoadThreadList(term) ==
  /\ Room /\ generation < MaxLoads
  /\ query' = term /\ generation' = generation + 1
  /\ older' = FALSE /\ auto' = 0 /\ active' = {}
  /\ requests' = requests \cup {Request("first", generation', 0, 1)}
  /\ UNCHANGED <<stored, list>>

ShowFirstPage(r) ==
  /\ r \in requests /\ r.kind = "first" /\ r.done
  /\ requests' = requests \ {r}
  /\ IF r.gen = generation
     THEN /\ threads' = r.rows /\ cursor' = r.next /\ hasMore' = r.more
          /\ pollKey' = r.rows /\ base' = r.gen /\ crossed' = FALSE
          /\ auto' = IF r.more THEN 1 ELSE 0
          /\ older' = (older \/ r.more)
          /\ UNCHANGED <<query, generation, active>>
     ELSE UNCHANGED <<list, loading>>
  /\ UNCHANGED stored

AutoWaits == \E r \in requests : r.kind = "auto" /\ r.gen = generation

BrokenAutoLoadNext ==
  /\ auto > 0 /\ ~AutoWaits /\ hasMore /\ cursor # 0 /\ Room
  /\ Same /\ requests' = requests \cup {Request("auto", generation, cursor, 1)}
  /\ UNCHANGED <<stored, list, generation, older, auto, active>>
AutoLoadNext ==
  /\ auto \in 1 .. AutoPages - 1 /\ ~AutoWaits /\ hasMore /\ cursor # 0 /\ Room
  /\ Same /\ requests' = requests \cup {Request("auto", generation, cursor, 1)}
  /\ UNCHANGED <<stored, list, generation, older, auto, active>>

(* The history or the allowance is exhausted, or the tab is hidden. *)
AutoLoadEnd ==
  /\ auto > 0 /\ ~AutoWaits /\ auto' = 0 /\ older' = FALSE
  /\ UNCHANGED <<stored, requests, list, query, generation, active>>

MergeOlder(r) ==
  /\ threads' = Merged(threads, r.rows) /\ cursor' = r.next /\ hasMore' = r.more
  /\ crossed' = (crossed \/ r.gen # base)
  /\ UNCHANGED <<pollKey, base>>

FetchNextPage(r) ==
  /\ r \in requests /\ r.kind = "auto" /\ r.done /\ requests' = requests \ {r}
  /\ IF r.gen = generation
     THEN /\ MergeOlder(r) /\ auto' = auto + 1
          /\ UNCHANGED <<query, generation, older, active>>
     ELSE UNCHANGED <<list, loading>>
  /\ UNCHANGED stored

LoadOlderThreads ==
  /\ Room /\ hasMore /\ ~older /\ cursor # 0 /\ older' = TRUE
  /\ Same /\ requests' = requests \cup {Request("older", base, cursor, OlderPages)}
  /\ UNCHANGED <<stored, list, generation, auto, active>>

(* A page that adds no thread is followed by another, up to OlderPages. *)
FetchOlderPage(r) ==
  /\ r \in requests /\ r.kind = "older" /\ r.done
  /\ MergeOlder(r) /\ Same
  /\ LET added == \E p \in Phones : r.rows[p] > 0 /\ threads[p] = 0
         again == ~added /\ r.more /\ r.next # 0 /\ r.left > 1
     IN /\ requests' = (requests \ {r}) \cup
             (IF again THEN {Request("older", base, r.next, r.left - 1)} ELSE {})
        /\ older' = IF again THEN older ELSE FALSE
  /\ UNCHANGED <<stored, generation, auto, active>>

(* The first page again.  The timer waits for its own last, the Refresh     *)
(* button for nothing, so any number may be on their way.                  *)
RefreshFirstPage ==
  /\ Room /\ Same /\ requests' = requests \cup {Request("refresh", 0, 0, 1)}
  /\ UNCHANGED <<stored, list, generation, older, auto, active>>

(* Merged; the timer leaves the list alone when the page is the last seen. *)
ShowRefreshed(r) ==
  /\ r \in requests /\ r.kind = "refresh" /\ r.done
  /\ requests' = requests \ {r} /\ pollKey' = r.rows
  /\ \/ threads' = Merged(threads, r.rows)
     \/ r.rows = pollKey /\ threads' = threads
  /\ UNCHANGED <<stored, cursor, hasMore, base, crossed, loading>>

(* A request fails; what waited for it gives up. *)
RequestFails(r) ==
  /\ r \in requests /\ requests' = requests \ {r}
  /\ LET mine == r.kind = "auto" /\ r.gen = generation
     IN /\ older' = IF mine \/ r.kind = "older" THEN FALSE ELSE older
        /\ auto' = IF mine THEN 0 ELSE auto
  /\ UNCHANGED <<stored, list, query, generation, active>>

Serve(r) == ReadSource(r) \/ AssemblePage(r)
Answer(r) ==
  ShowFirstPage(r) \/ FetchNextPage(r) \/ FetchOlderPage(r) \/ ShowRefreshed(r)

Next ==
  \/ \E r \in requests : Serve(r) \/ Answer(r) \/ RequestFails(r)
  \/ \E b \in Busy : Activity(b[1], b[2])
  \/ \E term \in Terms : LoadThreadList(term)
  \/ AutoLoadNext \/ AutoLoadEnd \/ LoadOlderThreads \/ RefreshFirstPage

Spec == Init /\ [][Next]_vars

(* What a load that holds the button asks is answered, and the loop runs on. *)
FairSpec ==
  /\ Spec
  /\ WF_vars(\E r \in requests : r.kind \in {"auto", "older"} /\ (Serve(r) \/ Answer(r)))
  /\ WF_vars(AutoLoadNext \/ AutoLoadEnd)
-----------------------------------------------------------------------------
TypeOK ==
  /\ stamp \in [Sources -> [Entries -> Stamps]] /\ owners \in [Stamps -> SUBSET Phones]
  /\ query \in Terms
  /\ generation \in 1 .. MaxLoads /\ base \in 0 .. generation
  /\ threads \in [Phones -> Stamps] /\ pollKey \in [Phones -> Stamps] /\ cursor \in Stamps
  /\ {hasMore, older, crossed} \subseteq BOOLEAN
  /\ auto \in 0 .. AutoPages /\ active \subseteq Phones
  /\ \A r \in requests : r.kind \in Kinds /\ r.left \in 1 .. OlderPages

(* "The whole history is reachable page by page" (router.py): when the list *)
(* says there is no more, every thread that matches in any source, an       *)
(* order's included, is on it.  Save those with a row stored since the load *)
(* began, a list that an answer for another search was merged into (the     *)
(* "Load older" button does not guard against it), and the rows whose stamp *)
(* another phone has or had too: those a page boundary can lose, since the  *)
(* next page is "STRICTLY older", and an order gives both its phones one.   *)
Matches(s, e, p) == e \in Hits[query][s] /\ stamp[s][e] > 0 /\ p \in PhonesOf[e]
WholeHistoryListed ==
  base = generation /\ ~crossed /\ ~hasMore =>
    \A s \in ToSet(SourcesOf(query)), e \in Entries, p \in Phones \ active :
      Matches(s, e, p) /\ owners[stamp[s][e]] = {p} => threads[p] > 0

(* The cursor strictly decreases with every older page, which is what makes *)
(* the browser's loops end (chats.js, loadOlderThreads).                    *)
CursorDescends ==
  [][\A r \in requests \ requests' :
       r.kind \in {"auto", "older"} /\ r.done /\ r.next > 0 => r.next < r.before]_vars

(* The "Load older" button, disabled while a load runs, comes back, also   *)
(* when the load that disabled it was superseded or failed.                *)
ButtonComesBack == older ~> ~older
=============================================================================
