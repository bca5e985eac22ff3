--------------------------- MODULE ThreadViewProofs ---------------------------
(***************************************************************************)
(* Proofs about module ThreadView, for every set of threads and any number *)
(* of entries and of reads on their way.                                   *)
(***************************************************************************)
EXTENDS ThreadView, FiniteSetTheorems, WellFoundedInduction, TLAPS

FetchRecord == [why : Purposes, thread : Threads, at : {"sent", "read", "done"},
                log : Stamps, panel : Stamps, ticks : 0 .. MaxTicks]

PageTypes ==
  /\ log \in [Threads -> Stamps] /\ panel \in [Threads -> Stamps]
  /\ ticks \in [Threads -> 0 .. MaxTicks]
  /\ unread \subseteq Threads /\ lost \subseteq Threads /\ overdrawn \in BOOLEAN
  /\ fetches \subseteq FetchRecord
  /\ current \in Threads \cup {NoThread}
  /\ key \in [log : Stamps, ticks : 0 .. MaxTicks] /\ pane \in Versions
  /\ signature \in [thread : Threads \cup {NoThread}, latest : Stamps]
  /\ current = NoThread => fetches = {}

\* pollInFlight: from the signature's read to the last one it leads to.
OnePoll == \A f, g \in fetches : f.why \in Polls /\ g.why \in Polls => f = g

\* What was remembered is not newer than what is stored.
Known(n) == n = 0 \/ \E t \in Threads : n <= Latest(t)

\* A stamp tells the thread it was read from.
StampsUnique ==
  /\ \A s, t \in Threads : log[s] = log[t] => s = t
  /\ \A f \in fetches, t \in Threads :
       f.why # "activity" /\ f.at # "sent" /\ f.log = log[t] => t = f.thread
  /\ \A f \in fetches : f.log <= log[f.thread] /\ f.panel <= panel[f.thread]
  /\ Known(key.log) /\ Known(pane.log) /\ Known(signature.latest)

\* The thread's last entry is on the screen, or there is the excuse that
\* NothingMissed admits.
Drawn(t) == pane.thread = t /\ pane.log = log[t]
Settled(t) == Drawn(t) \/ t \in lost \/ overdrawn

\* A read that is done and still up to date has marked its thread as read, and
\* so has whatever was drawn from it.
ReadIsRead ==
  /\ \A f \in fetches :
       f.why # "activity" /\ f.at = "done" /\ f.log = log[f.thread]
         => f.thread \notin unread \ lost
  /\ \A t \in Threads : Drawn(t) => t \notin unread \ lost

\* A read of the thread is on its way that returns the latest entry.
Fresh(t, whys) ==
  \E f \in fetches :
    f.why \in whys /\ f.thread = t /\ (f.at = "sent" \/ f.log = log[t])

\* The poll's two comparisons each leave a read on its way, unless the open
\* thread was drawn as it is.
DrawnOrAsked ==
  \A t \in Threads : current = t /\ key.log = log[t] =>
    Settled(t) \/ Fresh(t, {"open", "silent"})
SeenOrAsked ==
  \A t \in Threads : current = t /\ signature.thread = t /\ signature.latest = Latest(t) =>
    Settled(t) \/ Fresh(t, {"open", "poll", "silent"})

\* What the reads on their way and the page's memory of them add up to.
ReadOrder == OnePoll /\ StampsUnique /\ ReadIsRead /\ DrawnOrAsked /\ SeenOrAsked

PageInv == PageTypes /\ ReadOrder

-----------------------------------------------------------------------------
(* The clock of the stamps                                                 *)

\* A bounded set of numbers has a greatest one: of the sets of what is no less
\* than one of them, take the smallest.
LEMMA MaxOfStamps ==
  ASSUME NEW S \in SUBSET Nat, S # {}, NEW n \in Nat, \A x \in S : x <= n
  PROVE  Max(S) \in S /\ \A x \in S : x <= Max(S)
<1> DEFINE Above(x) == {y \in S : x <= y}
           Aboves == {Above(x) : x \in S}
<1>1. Aboves \subseteq FiniteSubsetsOf(S) /\ Aboves # {}
  <2>1. IsFiniteSet(S)
    BY FS_BoundedSetOfNaturals
  <2>2. ASSUME NEW x \in S PROVE IsFiniteSet(Above(x))
    BY <2>1, FS_Subset
  <2>3. QED
    BY <2>2 DEF FiniteSubsetsOf
<1>2. PICK U \in Aboves : \A V \in Aboves : ~ (<<V, U>> \in StrictSubsetOrdering(S))
  <2> HIDE DEF Aboves
  <2>1. QED
    BY <1>1, FS_StrictSubsetOrderingWellFounded, WFMin
<1>3. PICK x \in S : U = Above(x)
  OBVIOUS
<1>4. ASSUME NEW y \in S PROVE x >= y
  <2>1. SUFFICES ASSUME x < y PROVE FALSE
    OBVIOUS
  <2>2. Above(y) \subseteq Above(x) /\ x \in Above(x) /\ x \notin Above(y)
    <3>1. x \in Nat /\ y \in Nat /\ \A z \in S : z \in Nat
      OBVIOUS
    <3>2. x <= x /\ ~ (y <= x)
      BY <2>1, <3>1
    <3>3. \A z \in S : y <= z => x <= z
      BY <2>1, <3>1
    <3>4. QED
      BY <3>2, <3>3
  <2>3. <<Above(y), Above(x)>> \in StrictSubsetOrdering(S)
    BY <2>2 DEF StrictSubsetOrdering
  <2>4. QED
    BY <1>2, <1>3, <2>3
<1>5. \E z \in S : \A y \in S : z >= y
  BY <1>4
<1>6. QED
  BY <1>5 DEF Max

LEMMA LatestIs ==
  ASSUME PageTypes, NEW t \in Threads
  PROVE  /\ Latest(t) \in Stamps /\ log[t] \in Nat /\ panel[t] \in Nat
         /\ log[t] <= Latest(t) /\ panel[t] <= Latest(t)
<1>1. log[t] \in Stamps /\ panel[t] \in Stamps
  BY DEF PageTypes
<1>2. log[t] \in Nat /\ panel[t] \in Nat
  BY <1>1 DEF Stamps
<1>3. \/ Latest(t) = log[t] /\ panel[t] <= log[t]
      \/ Latest(t) = panel[t] /\ log[t] <= panel[t]
  BY <1>2 DEF Latest, Later
<1>4. QED
  BY <1>1, <1>2, <1>3

LEMMA NowIsLast ==
  ASSUME PageTypes, Threads # {}
  PROVE  Now \in Stamps /\ \A t \in Threads : Latest(t) <= Now
<1>0. \A t \in Threads : Latest(t) \in Stamps
  BY LatestIs
<1>1. {Latest(t) : t \in Threads} \in SUBSET Nat /\ {Latest(t) : t \in Threads} # {}
  BY <1>0 DEF Stamps
<1>2. \A x \in {Latest(t) : t \in Threads} : x <= MaxStamp
  BY <1>0, ThreadViewAssumption DEF Stamps, ThreadViewAssumption
<1>3. Now \in {Latest(t) : t \in Threads} /\ \A x \in {Latest(t) : t \in Threads} : x <= Now
  BY <1>1, <1>2, MaxOfStamps, ThreadViewAssumption DEF Now, ThreadViewAssumption
<1>4. QED
  BY <1>0, <1>3

-----------------------------------------------------------------------------
(* The types                                                               *)

LEMMA FetchType ==
  ASSUME NEW why \in Purposes, NEW t \in Threads
  PROVE  Fetch(why, t) \in FetchRecord
<1>1. 0 \in Stamps /\ 0 \in 0 .. MaxTicks
  BY ThreadViewAssumption DEF ThreadViewAssumption, Stamps
<1>2. QED
  BY <1>1 DEF Fetch, FetchRecord

LEMMA StampTypes ==
  ASSUME PageTypes, NEW t \in Threads, NewEntry(t) \/ PanelChanges(t)
  PROVE  PageTypes'
<1>1. Now + 1 \in Stamps
  BY NowIsLast, ThreadViewAssumption DEF NewEntry, PanelChanges, Stamps, ThreadViewAssumption
<1>2. CASE NewEntry(t)
  BY <1>1, <1>2 DEF NewEntry, page, PageTypes
<1>3. CASE PanelChanges(t)
  BY <1>1, <1>3 DEF PanelChanges, page, observed, PageTypes
<1>4. QED
  BY <1>2, <1>3

LEMMA TickTypes ==
  ASSUME PageTypes, NEW t \in Threads, StatusChanges(t)
  PROVE  ticks' \in [Threads -> 0 .. MaxTicks]
<1>1. ticks[t] + 1 \in 0 .. MaxTicks
  BY ThreadViewAssumption DEF StatusChanges, PageTypes, ThreadViewAssumption
<1>2. QED
  BY <1>1 DEF StatusChanges, PageTypes

LEMMA ServeTypes ==
  ASSUME PageTypes, NEW f \in fetches, Serve(f) \/ MarkReadFails(f)
  PROVE  PageTypes'
<1>0. f \in FetchRecord /\ f.thread \in Threads
  BY DEF PageTypes, FetchRecord
<1>1. log[f.thread] \in Stamps /\ panel[f.thread] \in Stamps /\ ticks[f.thread] \in 0 .. MaxTicks
  BY <1>0 DEF PageTypes
<1>2. fetches' \subseteq FetchRecord
  <2>1. [f EXCEPT !.at = "done"] \in FetchRecord
    BY <1>0 DEF FetchRecord
  <2>2. /\ [Stamped(f) EXCEPT !.at = "done"] \in FetchRecord
        /\ [Stamped(f) EXCEPT !.at = "read", !.ticks = ticks[f.thread]] \in FetchRecord
    BY <1>0, <1>1 DEF FetchRecord, Stamped
  <2>3. QED
    BY <2>1, <2>2
    DEF PageTypes, Serve, ReadActivity, ReadEntries, MarkRead, MarkReadFails, Advance
<1>3. QED
  BY <1>0, <1>2
  DEF PageTypes, Serve, ReadActivity, ReadEntries, MarkRead, MarkReadFails, server, page, observed

LEMMA AnswerTypes ==
  ASSUME PageTypes, NEW f \in fetches, Answer(f) \/ FetchFails(f)
  PROVE  PageTypes'
<1>0. f \in FetchRecord /\ f.thread \in Threads
  BY DEF PageTypes, FetchRecord
<1>1. CASE ShowThread(f)
  <2>1. key' \in [log : Stamps, ticks : 0 .. MaxTicks] /\ pane' \in Versions
    BY <1>0, <1>1 DEF ShowThread, Versions, FetchRecord
  <2>2. overdrawn' \in BOOLEAN
    BY <1>1 DEF ShowThread
  <2>3. QED
    BY <1>0, <1>1, <2>1, <2>2 DEF ShowThread, PageTypes, server
<1>2. CASE CompareActivity(f)
  <2>1. signature' \in [thread : Threads \cup {NoThread}, latest : Stamps]
    BY <1>0, <1>2 DEF CompareActivity, PageTypes, FetchRecord, Later
  <2>2. fetches' \subseteq FetchRecord
    <3>1. Fetch("poll", current) \in FetchRecord
      BY FetchType DEF PageTypes, Purposes
    <3>2. QED
      BY <1>2, <3>1 DEF CompareActivity, Ask, PageTypes
  <2>3. QED
    BY <1>2, <2>1, <2>2 DEF CompareActivity, PageTypes, server, observed
<1>3. CASE CompareEntries(f)
  <2>1. key' \in [log : Stamps, ticks : 0 .. MaxTicks]
    BY <1>0, <1>3 DEF CompareEntries, FetchRecord
  <2>2. fetches' \subseteq FetchRecord
    <3>1. Fetch("silent", current) \in FetchRecord
      BY FetchType DEF PageTypes, Purposes
    <3>2. QED
      BY <1>3, <3>1 DEF CompareEntries, Ask, PageTypes
  <2>3. QED
    BY <1>3, <2>1, <2>2 DEF CompareEntries, PageTypes, server, observed
<1>4. CASE FetchFails(f)
  BY <1>0, <1>4 DEF FetchFails, PageTypes, server, page
<1>5. QED
  BY <1>1, <1>2, <1>3, <1>4 DEF Answer

LEMMA NextTypes ==
  ASSUME PageTypes, [Next]_vars
  PROVE  PageTypes'
<1>1. CASE UNCHANGED vars
  BY <1>1 DEF vars, server, page, observed, PageTypes
<1>2. ASSUME NEW t \in Busy, NewEntry(t) \/ PanelChanges(t) \/ StatusChanges(t)
      PROVE  PageTypes'
  <2>1. t \in Threads
    BY ThreadViewAssumption DEF ThreadViewAssumption
  <2>2. CASE StatusChanges(t)
    BY <2>1, <2>2, TickTypes DEF StatusChanges, PageTypes, page, observed
  <2>3. QED
    BY <1>2, <2>1, <2>2, StampTypes
<1>3. ASSUME NEW t \in Threads, LoadThread(t)
      PROVE  PageTypes'
  <2>1. Fetch("open", t) \in FetchRecord
    BY FetchType DEF Purposes
  <2>2. QED
    BY <1>3, <2>1, ThreadViewAssumption
    DEF LoadThread, Ask, PageTypes, server, observed, ThreadViewAssumption
<1>4. CASE PollTick
  <2>1. Fetch("activity", current) \in FetchRecord
    BY <1>4, FetchType DEF PollTick, Purposes, PageTypes
  <2>2. QED
    BY <1>4, <2>1 DEF PollTick, Ask, PageTypes, server, page, observed
<1>5. QED
  BY <1>1, <1>2, <1>3, <1>4, ServeTypes, AnswerTypes DEF Next, Reliable

-----------------------------------------------------------------------------
(* The reads                                                               *)

\* What is known before a stamp is given is older than it, and known after.
LEMMA StampIsNew ==
  ASSUME PageTypes, NEW t \in Threads,
         \/ log' = [log EXCEPT ![t] = Now + 1] /\ panel' = panel
         \/ panel' = [panel EXCEPT ![t] = Now + 1] /\ log' = log
  PROVE  /\ Latest(t)' = Now + 1 /\ Now \in Nat
         /\ \A s \in Threads : log[s] <= Now /\ panel[s] <= Now
         /\ \A s \in Threads \ {t} : Latest(s)' = Latest(s)
         /\ \A n \in Nat : Known(n) => n <= Now /\ Known(n)'
<1>1. Now \in Nat /\ \A s \in Threads : Latest(s) \in Nat /\ Latest(s) <= Now
  BY NowIsLast, LatestIs DEF Stamps
<1>2. \A s \in Threads : /\ log[s] \in Nat /\ panel[s] \in Nat
                         /\ log[s] <= Now /\ panel[s] <= Now
  <2>1. SUFFICES ASSUME NEW s \in Threads
                 PROVE  log[s] \in Nat /\ panel[s] \in Nat /\ log[s] <= Now /\ panel[s] <= Now
    OBVIOUS
  <2>2. log[s] \in Nat /\ panel[s] \in Nat /\ log[s] <= Latest(s) /\ panel[s] <= Latest(s)
    BY LatestIs
  <2>3. QED
    BY <1>1, <2>2
<1>3. Latest(t)' = Now + 1
  <2>1. \/ log'[t] = Now + 1 /\ panel'[t] = panel[t]
        \/ panel'[t] = Now + 1 /\ log'[t] = log[t]
    BY DEF PageTypes
  <2>2. QED
    BY <1>1, <1>2, <2>1 DEF Latest, Later
<1>4. \A s \in Threads \ {t} : Latest(s)' = Latest(s)
  BY DEF PageTypes, Latest, Later
<1>5. ASSUME NEW n \in Nat, Known(n)
      PROVE  n <= Now /\ Known(n)'
  BY <1>1, <1>3, <1>4, <1>5 DEF Known
<1>6. QED
  BY <1>1, <1>2, <1>3, <1>4, <1>5

LEMMA MemoryTypes ==
  ASSUME PageTypes
  PROVE  /\ {key.log, pane.log, signature.latest} \subseteq Nat
         /\ \A f \in fetches : f.log \in Nat /\ f.panel \in Nat /\ f.thread \in Threads
BY DEF PageTypes, FetchRecord, Versions, Stamps

\* A new entry is newer than whatever was read or is remembered.
LEMMA NewEntryKeeps ==
  ASSUME PageTypes, ReadOrder, NEW t \in Threads, NewEntry(t)
  PROVE  ReadOrder'
<1>1. /\ UNCHANGED <<panel, fetches, current, key, signature, pane, overdrawn>>
      /\ lost' = lost \ {t} /\ log' = [log EXCEPT ![t] = Now + 1]
      /\ unread' \subseteq unread \cup {t}
  BY DEF NewEntry, page
<1>2. log'[t] = Now + 1 /\ \A s \in Threads \ {t} : log'[s] = log[s]
  BY <1>1 DEF PageTypes
<1>3. /\ Latest(t)' = Now + 1 /\ Now \in Nat
      /\ \A s \in Threads : log[s] <= Now
      /\ \A s \in Threads \ {t} : Latest(s)' = Latest(s)
      /\ \A n \in Nat : Known(n) => n <= Now /\ Known(n)'
  BY <1>1, StampIsNew
<1>4. /\ {key.log, pane.log, signature.latest} \subseteq Nat
      /\ \A f \in fetches : f.log \in Nat /\ f.panel \in Nat /\ f.thread \in Threads
      /\ \A s \in Threads : log[s] \in Nat
  BY MemoryTypes, LatestIs
<1>5. ASSUME NEW f \in fetches
      PROVE  f.log <= Now /\ f.log <= log'[f.thread]
  <2>1. f.log <= log[f.thread] /\ f.thread \in Threads /\ f.log \in Nat /\ log[f.thread] \in Nat
    BY <1>4 DEF ReadOrder, StampsUnique
  <2>2. QED
    BY <1>2, <1>3, <2>1
<1>6. key.log <= Now /\ pane.log <= Now /\ signature.latest <= Now
  BY <1>3, <1>4 DEF ReadOrder, StampsUnique
<1>7. OnePoll'
  BY <1>1 DEF ReadOrder, OnePoll
<1>8. StampsUnique'
  <2>1. \A r, s \in Threads : log'[r] = log'[s] => r = s
    BY <1>2, <1>3, <1>4 DEF ReadOrder, StampsUnique
  <2>2. ASSUME NEW f \in fetches', NEW s \in Threads,
               f.why # "activity", f.at # "sent", f.log = log'[s]
        PROVE  s = f.thread
    BY <1>1, <1>2, <1>3, <1>4, <1>5, <2>2 DEF ReadOrder, StampsUnique
  <2>3. \A f \in fetches' : f.log <= log'[f.thread] /\ f.panel <= panel'[f.thread]
    BY <1>1, <1>5 DEF ReadOrder, StampsUnique
  <2>4. Known(key.log)' /\ Known(pane.log)' /\ Known(signature.latest)'
    BY <1>1, <1>3, <1>4 DEF ReadOrder, StampsUnique, Known
  <2>5. QED
    BY <2>1, <2>2, <2>3, <2>4 DEF StampsUnique
<1>9. \A s \in Threads : Drawn(s)' <=> s # t /\ Drawn(s)
  BY <1>1, <1>2, <1>3, <1>4, <1>6 DEF Drawn
<1>10. ReadIsRead'
  <2>1. ASSUME NEW f \in fetches', f.log = log'[f.thread]
        PROVE  f.thread # t /\ f.log = log[f.thread]
    BY <1>1, <1>2, <1>3, <1>4, <1>5, <2>1
  <2>2. QED
    BY <1>1, <1>9, <2>1 DEF ReadOrder, ReadIsRead
<1>11. ASSUME NEW s \in Threads \ {t}, NEW whys, Fresh(s, whys)
      PROVE  Fresh(s, whys)'
  BY <1>1, <1>2, <1>11 DEF Fresh
<1>12. \A s \in Threads \ {t} : Settled(s) => Settled(s)'
  BY <1>1, <1>9 DEF Settled
<1>13. DrawnOrAsked'
  BY <1>1, <1>2, <1>3, <1>4, <1>6, <1>11, <1>12 DEF ReadOrder, DrawnOrAsked
<1>14. SeenOrAsked'
  BY <1>1, <1>3, <1>4, <1>6, <1>11, <1>12 DEF ReadOrder, SeenOrAsked
<1>15. QED
  BY <1>7, <1>8, <1>10, <1>13, <1>14 DEF ReadOrder

\* A change of the panel moves the signature and touches nothing else.
LEMMA PanelKeeps ==
  ASSUME PageTypes, ReadOrder, NEW t \in Threads, PanelChanges(t)
  PROVE  ReadOrder'
<1>1. /\ UNCHANGED <<log, unread, lost, fetches, current, key, signature, pane, overdrawn>>
      /\ panel' = [panel EXCEPT ![t] = Now + 1]
  BY DEF PanelChanges, page, observed
<1>2. /\ Latest(t)' = Now + 1 /\ Now \in Nat
      /\ \A s \in Threads : panel[s] <= Now
      /\ \A s \in Threads \ {t} : Latest(s)' = Latest(s)
      /\ \A n \in Nat : Known(n) => n <= Now /\ Known(n)'
  BY <1>1, StampIsNew
<1>3. /\ {key.log, pane.log, signature.latest} \subseteq Nat
      /\ \A f \in fetches : f.log \in Nat /\ f.panel \in Nat /\ f.thread \in Threads
      /\ \A s \in Threads : panel[s] \in Nat
  BY MemoryTypes, LatestIs
<1>4. OnePoll' /\ ReadIsRead'
  BY <1>1 DEF ReadOrder, OnePoll, ReadIsRead, Drawn
<1>5. StampsUnique'
  <2>1. \A f \in fetches' : f.panel <= panel'[f.thread]
    <3>1. SUFFICES ASSUME NEW f \in fetches PROVE f.panel <= panel'[f.thread]
      BY <1>1
    <3>2. /\ f.panel <= panel[f.thread] /\ f.thread \in Threads /\ f.panel \in Nat
          /\ panel[f.thread] \in Nat /\ panel[f.thread] <= Now
      BY <1>2, <1>3 DEF ReadOrder, StampsUnique
    <3>3. panel'[f.thread] = panel[f.thread] \/ panel'[f.thread] = Now + 1
      BY <1>1, <3>2 DEF PageTypes
    <3>4. QED
      BY <1>2, <3>2, <3>3
  <2>2. Known(key.log)' /\ Known(pane.log)' /\ Known(signature.latest)'
    BY <1>1, <1>2, <1>3 DEF ReadOrder, StampsUnique, Known
  <2>3. QED
    BY <1>1, <2>1, <2>2 DEF ReadOrder, StampsUnique
<1>6. DrawnOrAsked'
  BY <1>1 DEF ReadOrder, DrawnOrAsked, Settled, Drawn, Fresh
<1>7. SeenOrAsked'
  <2>1. signature.latest <= Now
    BY <1>2, <1>3 DEF ReadOrder, StampsUnique
  <2>2. \A s \in Threads : signature'.latest = Latest(s)' => s # t /\ signature.latest = Latest(s)
    BY <1>1, <1>2, <1>3, <2>1
  <2>3. QED
    BY <1>1, <2>2 DEF ReadOrder, SeenOrAsked, Settled, Drawn, Fresh
<1>8. QED
  BY <1>4, <1>5, <1>6, <1>7 DEF ReadOrder

\* A read is begun, by the operator or by the timer when no poll is on its way.
LEMMA AskKeeps ==
  ASSUME PageTypes, ReadOrder, NEW why \in {"open", "activity"},
         NEW t \in Threads, current' = t, t # current => why = "open",
         why = "activity" => \A f \in fetches : f.why \notin Polls,
         fetches' = fetches \cup {Fetch(why, t)},
         UNCHANGED <<server, key, signature, pane, observed>>
  PROVE  ReadOrder'
<1>0. UNCHANGED <<log, panel, unread, lost, overdrawn>>
  BY DEF server, observed
<1>1. /\ Fetch(why, t).why = why /\ Fetch(why, t).thread = t /\ Fetch(why, t).at = "sent"
      /\ Fetch(why, t).log = 0 /\ Fetch(why, t).panel = 0
  BY DEF Fetch
<1>2. OnePoll'
  BY <1>1 DEF ReadOrder, OnePoll, Polls
<1>3. StampsUnique'
  <2>1. log[t] \in Nat /\ panel[t] \in Nat
    BY LatestIs
  <2>2. QED
    BY <1>0, <1>1, <2>1 DEF ReadOrder, StampsUnique, Known, Latest
<1>4. ReadIsRead'
  BY <1>0, <1>1 DEF ReadOrder, ReadIsRead, Drawn
<1>5. ASSUME NEW s \in Threads, NEW whys, Fresh(s, whys)
      PROVE  Fresh(s, whys)'
  BY <1>0, <1>5 DEF Fresh
<1>6. why = "open" => Fresh(t, {"open", "silent"})' /\ Fresh(t, {"open", "poll", "silent"})'
  BY <1>1 DEF Fresh
<1>7. DrawnOrAsked' /\ SeenOrAsked'
  BY <1>0, <1>5, <1>6 DEF ReadOrder, DrawnOrAsked, SeenOrAsked, Settled, Drawn, Latest
<1>8. QED
  BY <1>2, <1>3, <1>4, <1>7 DEF ReadOrder

\* The server's part of a read.
LEMMA ServeKeeps ==
  ASSUME PageTypes, ReadOrder, NEW f \in fetches, Serve(f) \/ MarkReadFails(f)
  PROVE  ReadOrder'
<1>0. f \in FetchRecord /\ f.thread \in Threads
  BY DEF PageTypes, FetchRecord
<1>1. PICK g : /\ fetches' = (fetches \ {f}) \cup {g}
               /\ g.why = f.why /\ g.thread = f.thread
               /\ g.at \in {"read", "done"}
               /\ \/ g.log = log[f.thread] /\ g.panel = panel[f.thread]
                  \/ g.log = f.log /\ g.panel = f.panel /\ f.at = "read"
               /\ g.at = "done" /\ g.why # "activity" => f.thread \notin unread' \ lost'
  <2>1. CASE ReadActivity(f)
    <3>1. WITNESS [Stamped(f) EXCEPT !.at = "done"]
    <3>2. QED
      BY <1>0, <2>1 DEF ReadActivity, Advance, FetchRecord, Stamped
  <2>2. CASE ReadEntries(f)
    <3>1. WITNESS [Stamped(f) EXCEPT !.at = "read", !.ticks = ticks[f.thread]]
    <3>2. QED
      BY <1>0, <2>2 DEF ReadEntries, Advance, FetchRecord, Stamped
  <2>3. CASE MarkRead(f) \/ MarkReadFails(f)
    <3>1. WITNESS [f EXCEPT !.at = "done"]
    <3>2. QED
      BY <1>0, <2>3 DEF MarkRead, MarkReadFails, Advance, FetchRecord
  <2>4. QED
    BY <2>1, <2>2, <2>3 DEF Serve
<1>2. /\ UNCHANGED <<log, panel, current, key, signature, pane, overdrawn>>
      /\ unread' \subseteq unread /\ lost \subseteq lost'
  BY DEF Serve, ReadActivity, ReadEntries, MarkRead, MarkReadFails, server, page, observed
<1>3. OnePoll'
  BY <1>1 DEF ReadOrder, OnePoll
<1>4. StampsUnique'
  <2>1. log[f.thread] \in Nat /\ panel[f.thread] \in Nat
    BY <1>0, LatestIs
  <2>2. \A s, t \in Threads : log'[s] = log'[t] => s = t
    BY <1>2 DEF ReadOrder, StampsUnique
  <2>3. ASSUME NEW e \in fetches', NEW t \in Threads,
               e.why # "activity", e.at # "sent", e.log = log'[t]
        PROVE  t = e.thread
    BY <1>0, <1>1, <1>2, <2>3 DEF ReadOrder, StampsUnique
  <2>4. \A e \in fetches' : e.log <= log'[e.thread] /\ e.panel <= panel'[e.thread]
    BY <1>0, <1>1, <1>2, <2>1 DEF ReadOrder, StampsUnique
  <2>5. Known(key.log)' /\ Known(pane.log)' /\ Known(signature.latest)'
    BY <1>2 DEF ReadOrder, StampsUnique, Known, Latest
  <2>6. QED
    BY <2>2, <2>3, <2>4, <2>5 DEF StampsUnique
<1>5. ReadIsRead'
  BY <1>1, <1>2 DEF ReadOrder, ReadIsRead, Drawn
<1>6. ASSUME NEW t \in Threads, NEW whys, Fresh(t, whys)
      PROVE  Fresh(t, whys)'
  BY <1>1, <1>2, <1>6 DEF Fresh
<1>7. DrawnOrAsked' /\ SeenOrAsked'
  BY <1>2, <1>6 DEF ReadOrder, DrawnOrAsked, SeenOrAsked, Settled, Drawn, Latest
<1>8. QED
  BY <1>3, <1>4, <1>5, <1>7 DEF ReadOrder

\* A thread is drawn: the open one as it is, or it is drawn out of turn, or
\* what was drawn before was not up to date either.
LEMMA ShowThreadKeeps ==
  ASSUME PageTypes, ReadOrder, NEW f \in fetches, ShowThread(f)
  PROVE  ReadOrder'
<1>1. /\ f.why \in {"open", "silent"} /\ f.at = "done" /\ fetches' = fetches \ {f}
      /\ key'.log = f.log /\ pane'.thread = f.thread /\ pane'.log = f.log
      /\ UNCHANGED <<log, panel, unread, current, signature, lost>>
      /\ overdrawn' = (\/ f.thread # current
                       \/ pane.thread = current /\ f.log < pane.log
                       \/ overdrawn /\ f.log # log[current])
  BY DEF ShowThread, server
<1>2. f.thread \in Threads /\ f.log \in Nat /\ log[f.thread] \in Nat /\ f.log <= log[f.thread]
  BY MemoryTypes, LatestIs DEF ReadOrder, StampsUnique
<1>3. OnePoll'
  BY <1>1 DEF ReadOrder, OnePoll
<1>4. StampsUnique'
  <2>1. Known(f.log)
    <3>1. log[f.thread] <= Latest(f.thread) /\ Latest(f.thread) \in Nat
      BY <1>2, LatestIs DEF Stamps
    <3>2. f.log <= Latest(f.thread)
      BY <1>2, <3>1
    <3>3. QED
      BY <1>2, <3>2 DEF Known
  <2>2. QED
    BY <1>1, <2>1 DEF ReadOrder, StampsUnique, Known, Latest
<1>5. ReadIsRead'
  BY <1>1, <1>2 DEF ReadOrder, ReadIsRead, Drawn
<1>6. DrawnOrAsked'
  BY <1>1, <1>2 DEF ReadOrder, DrawnOrAsked, StampsUnique, Settled, Drawn
<1>7. SeenOrAsked'
  <2>1. SUFFICES ASSUME NEW t \in Threads, current = t, signature.thread = t,
                        signature.latest = Latest(t), ~Settled(t)'
                 PROVE  Fresh(t, {"open", "poll", "silent"})'
    BY <1>1 DEF SeenOrAsked, Latest
  <2>2. f.thread = t /\ f.log # log[t] /\ t \notin lost /\ ~overdrawn
    BY <1>1, <2>1 DEF Settled, Drawn
  <2>3. ~Drawn(t)
    BY <1>1, <1>2, <2>1, <2>2 DEF Settled, Drawn
  <2>4. PICK g \in fetches : /\ g.why \in {"open", "poll", "silent"} /\ g.thread = t
                             /\ g.at = "sent" \/ g.log = log[t]
    BY <2>1, <2>2, <2>3 DEF ReadOrder, SeenOrAsked, Settled, Fresh
  <2>5. g # f
    BY <1>1, <2>2, <2>4
  <2>6. QED
    BY <1>1, <2>4, <2>5 DEF Fresh
<1>8. QED
  BY <1>3, <1>4, <1>5, <1>6, <1>7 DEF ReadOrder

\* The signature moved, and the thread is read; or it did not, and what was so
\* of it is so still.
LEMMA CompareActivityKeeps ==
  ASSUME PageTypes, ReadOrder, NEW f \in fetches, CompareActivity(f)
  PROVE  ReadOrder'
<1>1. /\ f.why = "activity"
      /\ UNCHANGED <<log, panel, unread, lost, overdrawn, current, key, pane>>
      /\ signature'.latest = Later(f.log, f.panel)
      /\ \/ fetches' = fetches \ {f} /\ signature' = signature
         \/ fetches' = (fetches \ {f}) \cup {Fetch("poll", current)}
  BY DEF CompareActivity, Ask, server, observed
<1>2. /\ Fetch("poll", current).why = "poll" /\ Fetch("poll", current).thread = current
      /\ Fetch("poll", current).at = "sent" /\ Fetch("poll", current).log = 0
      /\ Fetch("poll", current).panel = 0
  BY DEF Fetch
<1>3. OnePoll'
  BY <1>1, <1>2 DEF ReadOrder, OnePoll, Polls
<1>4. StampsUnique'
  <2>1. Known(Later(f.log, f.panel))
    <3>1. /\ f.thread \in Threads /\ f.log \in Nat /\ f.panel \in Nat
          /\ f.log <= log[f.thread] /\ f.panel <= panel[f.thread]
      BY MemoryTypes DEF ReadOrder, StampsUnique
    <3>2. /\ log[f.thread] \in Nat /\ panel[f.thread] \in Nat /\ Latest(f.thread) \in Nat
          /\ log[f.thread] <= Latest(f.thread) /\ panel[f.thread] <= Latest(f.thread)
      BY <3>1, LatestIs DEF Stamps
    <3>3. Later(f.log, f.panel) <= Latest(f.thread)
      BY <3>1, <3>2 DEF Later
    <3>4. QED
      BY <3>1, <3>3 DEF Known
  <2>2. Known(key.log)' /\ Known(pane.log)' /\ Known(signature.latest)'
    BY <1>1, <2>1 DEF ReadOrder, StampsUnique, Known, Latest
  <2>3. \A e \in fetches' : e.log <= log'[e.thread] /\ e.panel <= panel'[e.thread]
    <3>1. current \in Threads /\ log[current] \in Nat /\ panel[current] \in Nat
      BY LatestIs DEF PageTypes
    <3>2. QED
      BY <1>1, <1>2, <3>1 DEF ReadOrder, StampsUnique
  <2>4. QED
    BY <1>1, <1>2, <2>2, <2>3 DEF ReadOrder, StampsUnique
<1>5. ReadIsRead'
  BY <1>1, <1>2 DEF ReadOrder, ReadIsRead, Drawn
<1>6. ASSUME NEW t \in Threads, NEW whys, "activity" \notin whys, Fresh(t, whys)
      PROVE  Fresh(t, whys)'
  BY <1>1, <1>6 DEF Fresh
<1>7. DrawnOrAsked'
  BY <1>1, <1>6 DEF ReadOrder, DrawnOrAsked, Settled, Drawn
<1>8. SeenOrAsked'
  <2>1. CASE signature' = signature
    BY <1>1, <1>6, <2>1 DEF ReadOrder, SeenOrAsked, Settled, Drawn, Latest
  <2>2. CASE fetches' = (fetches \ {f}) \cup {Fetch("poll", current)}
    <3>1. \A t \in Threads : current' = t => Fresh(t, {"open", "poll", "silent"})'
      BY <1>1, <1>2, <2>2 DEF Fresh
    <3>2. QED
      BY <3>1 DEF SeenOrAsked
  <2>3. QED
    BY <1>1, <2>1, <2>2
<1>9. QED
  BY <1>3, <1>4, <1>5, <1>7, <1>8 DEF ReadOrder

\* The entries moved, and are read once more to be drawn; or they are those
\* that were compared last, and the read that followed then still counts.
LEMMA CompareEntriesKeeps ==
  ASSUME PageTypes, ReadOrder, NEW f \in fetches, CompareEntries(f)
  PROVE  ReadOrder'
<1>1. /\ f.why = "poll" /\ f.at = "done"
      /\ UNCHANGED <<log, panel, unread, lost, overdrawn, current, signature, pane>>
      /\ key'.log = f.log
      /\ \/ fetches' = fetches \ {f} /\ key' = key
         \/ fetches' = (fetches \ {f}) \cup {Fetch("silent", current)}
  BY DEF CompareEntries, Ask, server, observed
<1>2. /\ Fetch("silent", current).why = "silent" /\ Fetch("silent", current).thread = current
      /\ Fetch("silent", current).at = "sent" /\ Fetch("silent", current).log = 0
      /\ Fetch("silent", current).panel = 0
  BY DEF Fetch
<1>3. OnePoll'
  BY <1>1, <1>2 DEF ReadOrder, OnePoll, Polls
<1>4. StampsUnique'
  <2>1. Known(f.log)
    <3>1. f.thread \in Threads /\ f.log \in Nat /\ f.log <= log[f.thread]
      BY MemoryTypes DEF ReadOrder, StampsUnique
    <3>2. log[f.thread] \in Nat /\ Latest(f.thread) \in Nat /\ log[f.thread] <= Latest(f.thread)
      BY <3>1, LatestIs DEF Stamps
    <3>3. f.log <= Latest(f.thread)
      BY <3>1, <3>2
    <3>4. QED
      BY <3>1, <3>3 DEF Known
  <2>2. Known(key.log)' /\ Known(pane.log)' /\ Known(signature.latest)'
    BY <1>1, <2>1 DEF ReadOrder, StampsUnique, Known, Latest
  <2>3. \A e \in fetches' : e.log <= log'[e.thread] /\ e.panel <= panel'[e.thread]
    <3>1. current \in Threads /\ log[current] \in Nat /\ panel[current] \in Nat
      BY LatestIs DEF PageTypes
    <3>2. QED
      BY <1>1, <1>2, <3>1 DEF ReadOrder, StampsUnique
  <2>4. QED
    BY <1>1, <1>2, <2>2, <2>3 DEF ReadOrder, StampsUnique
<1>5. ReadIsRead'
  BY <1>1, <1>2 DEF ReadOrder, ReadIsRead, Drawn
<1>6. ASSUME NEW t \in Threads, Fresh(t, {"open", "silent"})
      PROVE  Fresh(t, {"open", "silent"})'
  BY <1>1, <1>6 DEF Fresh
<1>7. ASSUME fetches' = (fetches \ {f}) \cup {Fetch("silent", current)},
             NEW t \in Threads, current' = t
      PROVE  Fresh(t, {"open", "silent"})' /\ Fresh(t, {"open", "poll", "silent"})'
  BY <1>1, <1>2, <1>7 DEF Fresh
<1>8. DrawnOrAsked'
  BY <1>1, <1>6, <1>7 DEF ReadOrder, DrawnOrAsked, Settled, Drawn
<1>9. SeenOrAsked'
  <2>1. SUFFICES ASSUME key' = key, fetches' = fetches \ {f}, NEW t \in Threads, current = t,
                        signature.thread = t, signature.latest = Latest(t), ~Settled(t)
                 PROVE  Fresh(t, {"open", "poll", "silent"})'
    BY <1>1, <1>7 DEF SeenOrAsked, Settled, Drawn, Latest
  <2>2. PICK g \in fetches : /\ g.why \in {"open", "poll", "silent"} /\ g.thread = t
                             /\ g.at = "sent" \/ g.log = log[t]
    BY <2>1 DEF ReadOrder, SeenOrAsked, Fresh
  <2>3. CASE g # f
    BY <1>1, <2>1, <2>2, <2>3 DEF Fresh
  <2>4. CASE g = f
    <3>1. key.log = log[t]
      BY <1>1, <2>1, <2>2, <2>4
    <3>2. Fresh(t, {"open", "silent"})'
      BY <1>6, <2>1, <3>1 DEF ReadOrder, DrawnOrAsked
    <3>3. QED
      BY <3>2 DEF Fresh
  <2>5. QED
    BY <2>3, <2>4
<1>10. QED
  BY <1>3, <1>4, <1>5, <1>8, <1>9 DEF ReadOrder

LEMMA FetchFailsKeeps ==
  ASSUME PageTypes, ReadOrder, NEW f \in fetches, FetchFails(f)
  PROVE  ReadOrder'
<1>1. /\ fetches' = fetches \ {f}
      /\ UNCHANGED <<log, panel, unread, current, key, signature, pane, overdrawn>>
      /\ lost' = IF f.why = "activity" THEN lost ELSE lost \cup {f.thread}
  BY DEF FetchFails, server, page
<1>2. OnePoll' /\ StampsUnique' /\ ReadIsRead'
  BY <1>1 DEF ReadOrder, OnePoll, StampsUnique, Known, Latest, ReadIsRead, Drawn
<1>3. ASSUME NEW t \in Threads, NEW whys, "activity" \notin whys, Fresh(t, whys)
      PROVE  Fresh(t, whys)' \/ t \in lost'
  BY <1>1, <1>3 DEF Fresh
<1>4. DrawnOrAsked' /\ SeenOrAsked'
  BY <1>1, <1>3 DEF ReadOrder, DrawnOrAsked, SeenOrAsked, Settled, Drawn, Latest
<1>5. QED
  BY <1>2, <1>4 DEF ReadOrder

LEMMA NextReads ==
  ASSUME PageTypes, ReadOrder, [Next]_vars
  PROVE  ReadOrder'
<1>1. CASE UNCHANGED <<log, panel, unread, fetches, current, key, signature, pane, overdrawn, lost>>
  BY <1>1 DEF ReadOrder, OnePoll, StampsUnique, Known, Latest, ReadIsRead, DrawnOrAsked, SeenOrAsked,
              Settled, Drawn, Fresh
<1>2. ASSUME NEW t \in Busy, NewEntry(t) \/ PanelChanges(t)
      PROVE  ReadOrder'
  <2>1. t \in Threads
    BY ThreadViewAssumption DEF ThreadViewAssumption
  <2>2. QED
    BY <1>2, <2>1, NewEntryKeeps, PanelKeeps
<1>3. ASSUME NEW t \in Threads, LoadThread(t)
      PROVE  ReadOrder'
  BY <1>3, AskKeeps DEF LoadThread, Ask
<1>4. CASE PollTick
  <2>1. current \in Threads
    BY <1>4 DEF PollTick, PageTypes
  <2>2. QED
    BY <1>4, <2>1, AskKeeps DEF PollTick, Ask, page
<1>5. QED
  BY <1>1, <1>2, <1>3, <1>4, ServeKeeps, ShowThreadKeeps, CompareActivityKeeps,
     CompareEntriesKeeps, FetchFailsKeeps
  DEF Next, Reliable, Answer, StatusChanges, vars, server, page, observed

-----------------------------------------------------------------------------
(* The theorems                                                            *)

LEMMA PageInvInit == Init => PageInv
<1>1. SUFFICES ASSUME Init PROVE PageInv
  OBVIOUS
<1>2. 0 \in Stamps /\ 0 \in 0 .. MaxTicks
  BY ThreadViewAssumption DEF ThreadViewAssumption, Stamps
<1>3. PageTypes
  <2>1. /\ log \in [Threads -> Stamps] /\ panel \in [Threads -> Stamps]
        /\ ticks \in [Threads -> 0 .. MaxTicks]
    BY <1>1, <1>2, ThreadViewAssumption DEF Init, ThreadViewAssumption
  <2>2. /\ key \in [log : Stamps, ticks : 0 .. MaxTicks] /\ pane \in Versions
        /\ signature \in [thread : Threads \cup {NoThread}, latest : Stamps]
    BY <1>1, <1>2 DEF Init, Blank, Versions
  <2>3. QED
    BY <1>1, <2>1, <2>2 DEF Init, PageTypes
<1>4. NoThread \notin Threads /\ \A s, t \in Threads : log[s] = log[t] => s = t
  BY <1>1, ThreadViewAssumption DEF Init, ThreadViewAssumption
<1>5. OnePoll /\ ReadIsRead
  BY <1>1, <1>4 DEF Init, Blank, OnePoll, ReadIsRead, Drawn
<1>6. StampsUnique
  BY <1>1, <1>4 DEF Init, Blank, StampsUnique, Known
<1>7. DrawnOrAsked /\ SeenOrAsked
  BY <1>1, <1>4 DEF Init, DrawnOrAsked, SeenOrAsked
<1>8. QED
  BY <1>3, <1>5, <1>6, <1>7 DEF PageInv, ReadOrder

LEMMA PageInvNext == PageInv /\ [Next]_vars => PageInv'
BY NextTypes, NextReads DEF PageInv

LEMMA PageInvAlways == Spec => []PageInv
BY PageInvInit, PageInvNext, PTL DEF Spec

\* Every variable of the page keeps its range, and one poll at a time is on its
\* way (pollInFlight in chats.js).
THEOREM PageTyped == Spec => []TypeOK
<1>1. ASSUME PageInv PROVE TypeOK
  <2>1. \A f \in fetches : f.why \in Purposes /\ f.thread \in Threads
                           /\ f.at \in {"sent", "read", "done"}
    BY <1>1 DEF PageInv, PageTypes, FetchRecord
  <2>2. Cardinality({f \in fetches : f.why \in Polls}) <= 1
    <3>1. CASE {f \in fetches : f.why \in Polls} = {}
      BY <3>1, FS_EmptySet
    <3>2. CASE {f \in fetches : f.why \in Polls} # {}
      <4>1. PICK g \in fetches : g.why \in Polls
        BY <3>2
      <4>2. {f \in fetches : f.why \in Polls} = {g}
        BY <1>1, <4>1 DEF PageInv, ReadOrder, OnePoll
      <4>3. Cardinality({g}) = 1
        BY FS_Singleton
      <4>4. QED
        BY <4>2, <4>3
    <3>3. QED
      BY <3>1, <3>2
  <2>3. QED
    BY <1>1, <2>1, <2>2 DEF PageInv, PageTypes, TypeOK
<1>2. QED
  BY <1>1, PageInvAlways, PTL

\* Whatever the poll would pass over has its last entry on the screen and
\* counts as read, but for a read or mark that failed and an answer drawn out
\* of turn (pollTick and loadThread in chats.js, get_conversation_thread).
THEOREM PollMissesNothing == Spec => []NothingMissed
<1>1. ASSUME PageInv PROVE NothingMissed
  <2>1. SUFFICES ASSUME NEW t \in Threads, current = t, t \notin lost, ~overdrawn,
                        signature = [thread |-> t, latest |-> Latest(t)],
                        \A f \in fetches : f.thread # t \/ f.why = "activity"
                 PROVE  pane.thread = t /\ pane.log = log[t] /\ t \notin unread
    BY DEF NothingMissed
  <2>2. ~Fresh(t, {"open", "poll", "silent"})
    BY <2>1 DEF Fresh
  <2>3. Drawn(t)
    BY <1>1, <2>1, <2>2 DEF PageInv, ReadOrder, SeenOrAsked, Settled
  <2>4. QED
    BY <1>1, <2>1, <2>3 DEF PageInv, ReadOrder, ReadIsRead, Drawn
<1>2. QED
  BY <1>1, PageInvAlways, PTL
=============================================================================
