----------------------- MODULE DeliveryConfirmProofs -----------------------
(***************************************************************************)
(* Proofs about module DeliveryConfirm, for every set of shipments, sweeps *)
(* and turns.  What a sweep or a turn has read stays true while it carries *)
(* it: fates do not change, guesses are not taken back, and a notice only  *)
(* goes with its order.                                                    *)
(***************************************************************************)
EXTENDS DeliveryConfirm, TLAPS

\* Sweeps and turns carry what is so.
Believed(s, word) ==
  /\ word = "rto" => page[s] = "rto"
  /\ word = "delivered" => page[s] = "delivered" \/ s \in guessed

Carries(r) ==
  /\ r.pc \notin {"idle", "row"} => r.s \in Shipments
  /\ r.pc \in {"idle", "row"} => r.verdict = "none" /\ r.write = "null"
  /\ Believed(r.s, r.write)
  /\ r.verdict = "rto" => Believed(r.s, "rto")
  /\ r.verdict = "sent" => Believed(r.s, "delivered")
  /\ r.pc = "enqueue" => r.verdict = "sent"
  /\ r.pc = "mark" /\ r.verdict = "sent" => notice[r.s] \/ ~mirrored[r.s]

SweepsCarry == \A j \in Sweeps : Carries(sweep[j])

TurnsCarry ==
  \A t \in Turns :
    /\ turn[t].pc # "idle" => turn[t].s \in Shipments
    /\ turn[t].pc = "idle" => turn[t].write = "null"
    /\ Believed(turn[t].s, turn[t].write)

HooksCarry == \A h \in Hooks : hook[h].pc # "idle" => hook[h].s \in Shipments

\* What is parked has its order.
ParkedMirrored == \A s \in Shipments : parked[s] # "none" => mirrored[s]

DInv ==
  /\ TypeOK /\ VerdictsTruthful /\ SentIsDurable
  /\ SweepsCarry /\ TurnsCarry /\ HooksCarry /\ ParkedMirrored

-----------------------------------------------------------------------------
(* How a sweep's record changes                                            *)

LEMMA IdleTyped ==
  /\ SweepIdle \in SweepRecord /\ TurnIdle \in TurnRecord /\ HookIdle \in HookRecord
  BY DEF SweepIdle, TurnIdle, HookIdle, SweepRecord, TurnRecord, HookRecord, Statuses

LEMMA NextRowIs ==
  ASSUME sweep \in [Sweeps -> SweepRecord], NEW j \in Sweeps, NextRow(j)
  PROVE  /\ sweep' \in [Sweeps -> SweepRecord]
         /\ sweep'[j].pc \in {"idle", "row"}
         /\ sweep'[j].verdict = "none" /\ sweep'[j].write = "null"
         /\ \A i \in Sweeps \ {j} : sweep'[i] = sweep[i]
<1> DEFINE r == IF sweep[j].todo = {} THEN SweepIdle
                ELSE [SweepIdle EXCEPT !.pc = "row", !.todo = sweep[j].todo,
                                       !.late = sweep[j].late]
<1>1. sweep' = [sweep EXCEPT ![j] = r]
  BY DEF NextRow
<1>2. sweep[j] \in SweepRecord
  OBVIOUS
<1>3. /\ r \in SweepRecord /\ r.pc \in {"idle", "row"}
      /\ r.verdict = "none" /\ r.write = "null"
  BY <1>2 DEF SweepIdle, SweepRecord, Statuses
<1> HIDE DEF r
<1>4. QED
  BY <1>1, <1>3

LEMMA GoesIs ==
  ASSUME sweep \in [Sweeps -> SweepRecord], NEW j \in Sweeps,
         NEW pc \in {"idle", "row", "fetch", "store", "shopify", "enqueue", "mark"},
         NEW verdict \in {"none", "sent", "rto", "abandoned"}, NEW write \in Statuses,
         Goes(j, pc, verdict, write)
  PROVE  /\ sweep' \in [Sweeps -> SweepRecord]
         /\ sweep'[j].pc = pc /\ sweep'[j].verdict = verdict /\ sweep'[j].write = write
         /\ sweep'[j].s = sweep[j].s
         /\ \A i \in Sweeps \ {j} : sweep'[i] = sweep[i]
<1> DEFINE r == [sweep[j] EXCEPT !.pc = pc, !.verdict = verdict, !.write = write]
<1>1. sweep' = [sweep EXCEPT ![j] = r]
  BY DEF Goes
<1>2. sweep[j] \in SweepRecord
  OBVIOUS
<1>3. /\ r \in SweepRecord /\ r.pc = pc /\ r.verdict = verdict /\ r.write = write
      /\ r.s = sweep[j].s
  BY <1>2 DEF SweepRecord
<1> HIDE DEF r
<1>4. QED
  BY <1>1, <1>3

\* Nothing a sweep or a turn relies on is taken away by a step that keeps the
\* fates, the guesses, and the notices of the orders that stay.
Keeps ==
  /\ guessed \subseteq guessed'
  /\ \A s \in Shipments : page[s] \in Terminal => page'[s] = page[s]
  /\ \A s \in Shipments : notice[s] \/ ~mirrored[s] => notice'[s] \/ ~mirrored'[s]

LEMMA OthersCarry ==
  ASSUME SweepsCarry, NEW i \in Sweeps, sweep'[i] = sweep[i], Keeps
  PROVE  Carries(sweep[i])'
  BY DEF SweepsCarry, Carries, Believed, Keeps, Terminal

LEMMA TurnsStillCarry ==
  ASSUME TurnsCarry, turn' = turn, Keeps
  PROVE  TurnsCarry'
  BY DEF TurnsCarry, Believed, Keeps, Terminal

\* A step of sweep j that leaves it with a record that carries what is so.
LEMMA SweepStep ==
  ASSUME DInv, NEW j \in Sweeps, sweep' \in [Sweeps -> SweepRecord],
         \A i \in Sweeps \ {j} : sweep'[i] = sweep[i],
         Carries(sweep[j])', turn' = turn, hook' = hook, Keeps
  PROVE  /\ SweepsCarry' /\ TurnsCarry' /\ HooksCarry'
         /\ turn' \in [Turns -> TurnRecord] /\ hook' \in [Hooks -> HookRecord]
<1>1. SweepsCarry'
  <2> SUFFICES ASSUME NEW i \in Sweeps PROVE Carries(sweep[i])'
    BY DEF SweepsCarry
  <2>1. CASE i = j
    BY <2>1
  <2>2. CASE i # j
    BY <2>2, OthersCarry DEF DInv
  <2>3. QED
    BY <2>1, <2>2
<1>2. TurnsCarry'
  BY TurnsStillCarry DEF DInv
<1>3. HooksCarry'
  BY DEF DInv, HooksCarry
<1>4. QED
  BY <1>1, <1>2, <1>3 DEF DInv, TypeOK

\* The shared state a sweep has not written.
Untouched == UNCHANGED <<page, store, old, guessed>>

LEMMA NothingWritten ==
  ASSUME DInv, Untouched
  PROVE  /\ Keeps /\ VerdictsTruthful' /\ SentIsDurable' /\ ParkedMirrored'
         /\ page' \in [Shipments -> {"moving"} \cup Terminal]
         /\ mirrored' \in [Shipments -> BOOLEAN] /\ parked' \in [Shipments -> ParkStates]
         /\ status' \in [Shipments -> Statuses] /\ shipped' \in [Shipments -> BOOLEAN]
         /\ notice' \in [Shipments -> BOOLEAN] /\ old' \in [Shipments -> BOOLEAN]
         /\ guessed' \subseteq Shipments
  BY DEF DInv, Untouched, store, Keeps, VerdictsTruthful, SentIsDurable, ParkedMirrored, TypeOK

-----------------------------------------------------------------------------
(* The steps of a sweep                                                    *)

LEMMA NextRowKeeps ==
  ASSUME DInv, NEW j \in Sweeps, NextRow(j), Untouched, turn' = turn, hook' = hook
  PROVE  DInv'
<1>1. /\ sweep' \in [Sweeps -> SweepRecord] /\ sweep'[j].pc \in {"idle", "row"}
      /\ sweep'[j].verdict = "none" /\ sweep'[j].write = "null"
      /\ \A i \in Sweeps \ {j} : sweep'[i] = sweep[i]
  BY NextRowIs DEF DInv, TypeOK
<1>2. Carries(sweep[j])'
  BY <1>1 DEF Carries, Believed
<1>3. QED
  BY <1>1, <1>2, NothingWritten, SweepStep DEF DInv, TypeOK

LEMMA StartSweepKeeps ==
  ASSUME DInv, NEW j \in Sweeps, StartSweep(j)
  PROVE  DInv'
<1> DEFINE r == [SweepIdle EXCEPT !.pc = "row", !.todo = DueConfirmations,
                                  !.late = {s \in DueConfirmations : old[s]}]
<1>1. sweep' = [sweep EXCEPT ![j] = r] /\ Untouched /\ turn' = turn /\ hook' = hook
  BY DEF StartSweep, Untouched
<1>2. DueConfirmations \subseteq Shipments
  BY DEF DueConfirmations, DueRows
<1>3. r \in SweepRecord /\ r.pc = "row" /\ r.verdict = "none" /\ r.write = "null"
  BY <1>2 DEF SweepIdle, SweepRecord, Statuses
<1> HIDE DEF r
<1>4. sweep' \in [Sweeps -> SweepRecord] /\ sweep'[j] = r
      /\ \A i \in Sweeps \ {j} : sweep'[i] = sweep[i]
  BY <1>1, <1>3 DEF DInv, TypeOK
<1>5. Carries(sweep[j])'
  BY <1>3, <1>4 DEF Carries, Believed
<1>6. QED
  BY <1>1, <1>4, <1>5, NothingWritten, SweepStep DEF DInv, TypeOK

LEMMA ReadRowKeeps ==
  ASSUME DInv, NEW j \in Sweeps, NEW s \in Shipments, ReadRow(j, s)
  PROVE  DInv'
<1> DEFINE v == OwnVerdict(j, s)
           rest == sweep[j].todo \ {s}
           outcome(found) ==
             IF s \in sweep[j].late \/ found
               THEN [sweep[j] EXCEPT !.todo = rest, !.s = s, !.pc = After(v), !.verdict = v]
             ELSE IF rest = {} THEN SweepIdle
             ELSE [sweep[j] EXCEPT !.todo = rest]
<1>0. PICK found \in {mirrored[s], FALSE} : sweep' = [sweep EXCEPT ![j] = outcome(found)]
  BY DEF ReadRow
<1> DEFINE r == outcome(found)
<1>1. sweep' = [sweep EXCEPT ![j] = r] /\ Untouched /\ turn' = turn /\ hook' = hook
  BY <1>0 DEF ReadRow, Untouched
<1>2. sweep[j] \in SweepRecord /\ Carries(sweep[j]) /\ sweep[j].pc = "row"
  BY DEF DInv, TypeOK, SweepsCarry, ReadRow
<1>3. /\ v \in {"none", "sent", "rto", "abandoned"}
      /\ After(v) \in {"fetch", "enqueue", "mark"}
      /\ (After(v) = "enqueue" => v = "sent") /\ (After(v) = "mark" => v # "sent")
      /\ (v = "rto" => status[s] = "rto") /\ (v = "sent" => status[s] = "delivered")
  BY DEF OwnVerdict, After
<1>4. (v = "rto" => Believed(s, "rto")) /\ (v = "sent" => Believed(s, "delivered"))
  BY <1>3 DEF DInv, VerdictsTruthful, Believed
<1> HIDE DEF v, rest
<1>5. /\ r \in SweepRecord
      /\ \/ /\ r.s = s /\ r.pc = After(v) /\ r.verdict = v /\ r.write = "null"
         \/ r.pc \in {"idle", "row"} /\ r.verdict = "none" /\ r.write = "null"
  <2>1. rest \in SUBSET Shipments
    BY <1>2 DEF SweepRecord, rest
  <2>2. QED
    BY <1>2, <1>3, <2>1 DEF SweepRecord, SweepIdle, Statuses, Carries
<1> HIDE DEF r
<1>6. sweep' \in [Sweeps -> SweepRecord] /\ sweep'[j] = r
      /\ \A i \in Sweeps \ {j} : sweep'[i] = sweep[i]
  BY <1>1, <1>5 DEF DInv, TypeOK
<1>7. page' = page /\ guessed' = guessed
  BY <1>1 DEF Untouched
<1>8. Carries(sweep[j])'
  BY <1>3, <1>4, <1>5, <1>6, <1>7 DEF Carries, Believed
<1>9. QED
  BY <1>1, <1>6, <1>8, NothingWritten, SweepStep DEF DInv, TypeOK

LEMMA FetchTrackingKeeps ==
  ASSUME DInv, NEW j \in Sweeps, FetchTracking(j)
  PROVE  DInv'
<1>1. Untouched /\ turn' = turn /\ hook' = hook /\ sweep[j].pc = "fetch"
  BY DEF FetchTracking, Untouched
<1>2. sweep[j].s \in Shipments
  BY <1>1 DEF DInv, SweepsCarry, Carries
<1>3. PICK a \in Tracking(sweep[j].s) :
        /\ a = "delivered" => Goes(j, "enqueue", "sent", "delivered")
        /\ a = "rto" => Goes(j, "mark", "rto", "rto")
        /\ a = "moving" => Goes(j, "store", "none", "moving")
        /\ a = "none" => Goes(j, "shopify", "none", "null")
  BY DEF FetchTracking
<1>4. a \in {"none", page[sweep[j].s]} /\ a \in {"none", "moving", "delivered", "rto"}
  BY <1>2 DEF Tracking, DInv, TypeOK, Terminal
<1>5. \E pc \in {"enqueue", "mark", "store", "shopify"},
         verdict \in {"none", "sent", "rto"}, write \in Statuses :
        /\ Goes(j, pc, verdict, write)
        /\ (pc = "enqueue" => verdict = "sent") /\ (pc = "mark" => verdict = "rto")
        /\ (write = "rto" \/ verdict = "rto" => page[sweep[j].s] = "rto")
        /\ (write = "delivered" \/ verdict = "sent" => page[sweep[j].s] = "delivered")
  <2>1. CASE a = "delivered"
    BY <1>3, <1>4, <2>1 DEF Statuses, Terminal
  <2>2. CASE a = "rto"
    BY <1>3, <1>4, <2>2 DEF Statuses, Terminal
  <2>3. CASE a = "moving"
    BY <1>3, <1>4, <2>3 DEF Statuses, Terminal
  <2>4. CASE a = "none"
    BY <1>3, <1>4, <2>4 DEF Statuses, Terminal
  <2>5. QED
    BY <1>4, <2>1, <2>2, <2>3, <2>4
<1>6. PICK pc \in {"enqueue", "mark", "store", "shopify"},
         verdict \in {"none", "sent", "rto"}, write \in Statuses :
        /\ Goes(j, pc, verdict, write)
        /\ (pc = "enqueue" => verdict = "sent") /\ (pc = "mark" => verdict = "rto")
        /\ (write = "rto" \/ verdict = "rto" => page[sweep[j].s] = "rto")
        /\ (write = "delivered" \/ verdict = "sent" => page[sweep[j].s] = "delivered")
  BY <1>5
<1>7. /\ sweep' \in [Sweeps -> SweepRecord]
      /\ sweep'[j].pc = pc /\ sweep'[j].verdict = verdict /\ sweep'[j].write = write
      /\ sweep'[j].s = sweep[j].s /\ \A i \in Sweeps \ {j} : sweep'[i] = sweep[i]
  BY <1>6, GoesIs DEF DInv, TypeOK
<1>8. page' = page
  BY <1>1 DEF Untouched
<1>9. Carries(sweep[j])'
  BY <1>2, <1>6, <1>7, <1>8 DEF Carries, Believed
<1>10. QED
  BY <1>1, <1>7, <1>9, NothingWritten, SweepStep DEF DInv, TypeOK

LEMMA AskShopifyKeeps ==
  ASSUME DInv, NEW j \in Sweeps, AskShopify(j)
  PROVE  DInv'
<1>1. /\ UNCHANGED <<page, mirrored, parked, status, shipped, notice, old, turn, hook>>
      /\ sweep[j].pc = "shopify"
  BY DEF AskShopify, store
<1>2. sweep[j].s \in Shipments
  BY <1>1 DEF DInv, SweepsCarry, Carries
<1>3. CASE NextRow(j) /\ UNCHANGED guessed
  BY <1>1, <1>3, NextRowKeeps DEF Untouched, store
<1>4. CASE Goes(j, "enqueue", "sent", "delivered") /\ guessed' = guessed \cup {sweep[j].s}
  <2>1. /\ sweep' \in [Sweeps -> SweepRecord]
        /\ sweep'[j].pc = "enqueue" /\ sweep'[j].verdict = "sent"
        /\ sweep'[j].write = "delivered" /\ sweep'[j].s = sweep[j].s
        /\ \A i \in Sweeps \ {j} : sweep'[i] = sweep[i]
    <3>1. "delivered" \in Statuses
      BY DEF Statuses, Terminal
    <3>2. QED
      BY <1>4, <3>1, GoesIs DEF DInv, TypeOK
  <2>2. Carries(sweep[j])'
    BY <1>2, <1>4, <2>1 DEF Carries, Believed
  <2>3. Keeps
    BY <1>1, <1>4 DEF Keeps
  <2>4. VerdictsTruthful' /\ SentIsDurable' /\ ParkedMirrored'
    BY <1>1, <1>4 DEF DInv, VerdictsTruthful, SentIsDurable, ParkedMirrored
  <2>5. guessed' \subseteq Shipments
    BY <1>2, <1>4 DEF DInv, TypeOK
  <2>6. QED
    BY <1>1, <2>1, <2>2, <2>3, <2>4, <2>5, SweepStep DEF DInv, TypeOK
<1>5. QED
  BY <1>3, <1>4 DEF AskShopify

LEMMA EnqueueKeeps ==
  ASSUME DInv, NEW j \in Sweeps, Enqueue(j)
  PROVE  DInv'
<1>1. /\ UNCHANGED <<page, mirrored, parked, status, shipped, old, turn, hook, guessed>>
      /\ sweep[j].pc = "enqueue"
  BY DEF Enqueue
<1>2. /\ sweep[j].s \in Shipments /\ sweep[j].verdict = "sent" /\ sweep[j] \in SweepRecord
      /\ Believed(sweep[j].s, "delivered") /\ Believed(sweep[j].s, sweep[j].write)
  BY <1>1 DEF DInv, TypeOK, SweepsCarry, Carries
<1>3. CASE NextRow(j) /\ UNCHANGED notice
  BY <1>1, <1>3, NextRowKeeps DEF Untouched, store
<1>4. CASE /\ notice' = [notice EXCEPT ![sweep[j].s] = TRUE]
           /\ Goes(j, "mark", "sent", sweep[j].write)
  <2>1. /\ sweep' \in [Sweeps -> SweepRecord]
        /\ sweep'[j].pc = "mark" /\ sweep'[j].verdict = "sent"
        /\ sweep'[j].write = sweep[j].write /\ sweep'[j].s = sweep[j].s
        /\ \A i \in Sweeps \ {j} : sweep'[i] = sweep[i]
    <3>1. sweep[j].write \in Statuses
      BY <1>2 DEF SweepRecord
    <3>2. QED
      BY <1>4, <3>1, GoesIs DEF DInv, TypeOK
  <2>2. /\ notice' \in [Shipments -> BOOLEAN] /\ notice'[sweep[j].s]
        /\ \A s \in Shipments : notice'[s] <=> notice[s] \/ s = sweep[j].s
    BY <1>2, <1>4 DEF DInv, TypeOK
  <2>3. Keeps
    BY <1>1, <2>2 DEF Keeps
  <2>4. Carries(sweep[j])'
    BY <1>1, <1>2, <2>1, <2>2 DEF Carries, Believed
  <2>5. VerdictsTruthful' /\ SentIsDurable' /\ ParkedMirrored'
    BY <1>1, <1>2, <2>2 DEF DInv, VerdictsTruthful, SentIsDurable, ParkedMirrored, Believed
  <2>6. QED
    BY <1>1, <2>1, <2>2, <2>3, <2>4, <2>5, SweepStep DEF DInv, TypeOK
<1>5. QED
  BY <1>3, <1>4 DEF Enqueue

LEMMA MarkKeeps ==
  ASSUME DInv, NEW j \in Sweeps, Mark(j)
  PROVE  DInv'
<1> DEFINE s == sweep[j].s
<1>1. /\ UNCHANGED <<page, mirrored, status, shipped, notice, old, turn, hook, guessed>>
      /\ sweep[j].pc = "mark" /\ SetState(s, sweep[j].verdict)
  BY DEF Mark
<1>2. /\ s \in Shipments /\ sweep[j] \in SweepRecord /\ Believed(s, sweep[j].write)
      /\ (sweep[j].verdict = "rto" => Believed(s, "rto"))
      /\ (sweep[j].verdict = "sent" => Believed(s, "delivered"))
      /\ (sweep[j].verdict = "sent" => notice[s] \/ ~mirrored[s])
  BY <1>1 DEF DInv, TypeOK, SweepsCarry, Carries
<1>3. /\ sweep[j].verdict \in {"none", "sent", "rto", "abandoned"}
      /\ sweep[j].write \in Statuses
  BY <1>2 DEF SweepRecord
<1> HIDE DEF s
<1>4. /\ parked' \in [Shipments -> ParkStates]
      /\ \A x \in Shipments :
           \/ parked'[x] = parked[x]
           \/ parked[x] # "none" /\ x = s /\ parked'[x] = sweep[j].verdict
  BY <1>1, <1>2, <1>3 DEF SetState, ParkStates, DInv, TypeOK
<1>5. Keeps
  BY <1>1 DEF Keeps
<1>6. VerdictsTruthful' /\ SentIsDurable' /\ ParkedMirrored'
  <2>1. VerdictsTruthful'
    BY <1>1, <1>2, <1>4 DEF DInv, VerdictsTruthful, Believed
  <2>2. SentIsDurable'
    BY <1>1, <1>2, <1>4 DEF DInv, SentIsDurable, ParkedMirrored
  <2>3. ParkedMirrored'
    BY <1>1, <1>4 DEF DInv, ParkedMirrored
  <2>4. QED
    BY <2>1, <2>2, <2>3
<1>7. CASE NextRow(j)
  <2>1. /\ sweep' \in [Sweeps -> SweepRecord] /\ sweep'[j].pc \in {"idle", "row"}
        /\ sweep'[j].verdict = "none" /\ sweep'[j].write = "null"
        /\ \A i \in Sweeps \ {j} : sweep'[i] = sweep[i]
    BY <1>7, NextRowIs DEF DInv, TypeOK
  <2>2. Carries(sweep[j])'
    BY <2>1 DEF Carries, Believed
  <2>3. QED
    BY <1>1, <1>4, <1>5, <1>6, <2>1, <2>2, SweepStep DEF DInv, TypeOK
<1>8. CASE Goes(j, "store", sweep[j].verdict, sweep[j].write)
  <2>1. /\ sweep' \in [Sweeps -> SweepRecord]
        /\ sweep'[j].pc = "store" /\ sweep'[j].verdict = sweep[j].verdict
        /\ sweep'[j].write = sweep[j].write /\ sweep'[j].s = s
        /\ \A i \in Sweeps \ {j} : sweep'[i] = sweep[i]
    BY <1>3, <1>8, GoesIs DEF DInv, TypeOK, s
  <2>2. Carries(sweep[j])'
    BY <1>1, <1>2, <2>1 DEF Carries, Believed
  <2>3. QED
    BY <1>1, <1>4, <1>5, <1>6, <2>1, <2>2, SweepStep DEF DInv, TypeOK
<1>9. QED
  BY <1>7, <1>8 DEF Mark

\* A status that is so is stored: a terminal one stays.
LEMMA StatusStored ==
  ASSUME DInv, NEW s \in Shipments, NEW new \in Statuses, Believed(s, new),
         SetShipmentStatus(s, new),
         UNCHANGED <<page, mirrored, parked, shipped, notice, old, guessed>>
  PROVE  /\ status' \in [Shipments -> Statuses] /\ Keeps
         /\ VerdictsTruthful' /\ SentIsDurable' /\ ParkedMirrored'
<1>1. /\ status' \in [Shipments -> Statuses]
      /\ \A x \in Shipments :
           \/ status'[x] = status[x]
           \/ x = s /\ status'[x] = new
  BY DEF SetShipmentStatus, Stored, Statuses, DInv, TypeOK
<1>2. VerdictsTruthful'
  BY <1>1 DEF DInv, VerdictsTruthful, Believed
<1>3. QED
  BY <1>1, <1>2 DEF DInv, SentIsDurable, ParkedMirrored, Keeps

LEMMA StoreStatusKeeps ==
  ASSUME DInv, NEW j \in Sweeps, StoreStatus(j)
  PROVE  DInv'
<1>1. /\ UNCHANGED <<page, mirrored, parked, shipped, notice, old, turn, hook, guessed>>
      /\ sweep[j].pc = "store" /\ SetShipmentStatus(sweep[j].s, sweep[j].write)
  BY DEF StoreStatus
<1>2. /\ sweep[j].s \in Shipments /\ sweep[j].write \in Statuses
      /\ Believed(sweep[j].s, sweep[j].write)
  BY <1>1 DEF DInv, TypeOK, SweepsCarry, Carries, SweepRecord
<1>3. /\ status' \in [Shipments -> Statuses] /\ Keeps
      /\ VerdictsTruthful' /\ SentIsDurable' /\ ParkedMirrored'
  BY <1>1, <1>2, StatusStored
<1>4. /\ sweep' \in [Sweeps -> SweepRecord] /\ Carries(sweep[j])'
      /\ \A i \in Sweeps \ {j} : sweep'[i] = sweep[i]
  <2>1. CASE NextRow(j)
    <3>1. /\ sweep' \in [Sweeps -> SweepRecord] /\ sweep'[j].pc \in {"idle", "row"}
          /\ sweep'[j].verdict = "none" /\ sweep'[j].write = "null"
          /\ \A i \in Sweeps \ {j} : sweep'[i] = sweep[i]
      BY <2>1, NextRowIs DEF DInv, TypeOK
    <3>2. QED
      BY <3>1 DEF Carries, Believed
  <2>2. CASE Goes(j, "shopify", "none", "null")
    <3>1. /\ sweep' \in [Sweeps -> SweepRecord]
          /\ sweep'[j].pc = "shopify" /\ sweep'[j].verdict = "none"
          /\ sweep'[j].write = "null" /\ sweep'[j].s = sweep[j].s
          /\ \A i \in Sweeps \ {j} : sweep'[i] = sweep[i]
      <4>1. "null" \in Statuses
        BY DEF Statuses
      <4>2. QED
        BY <2>2, <4>1, GoesIs DEF DInv, TypeOK
    <3>2. QED
      BY <1>2, <3>1 DEF Carries, Believed
  <2>3. QED
    BY <2>1, <2>2 DEF StoreStatus
<1>5. QED
  BY <1>1, <1>3, <1>4, SweepStep DEF DInv, TypeOK

LEMMA RowFailsKeeps ==
  ASSUME DInv, NEW j \in Sweeps, RowFails(j)
  PROVE  DInv'
  BY NextRowKeeps DEF RowFails, Untouched

-----------------------------------------------------------------------------
(* The world, the webhook, the assistant                                   *)

\* A step that leaves every sweep, turn and hook alone.
LEMMA WorldStep ==
  ASSUME DInv, UNCHANGED <<sweep, turn, hook>>, Keeps
  PROVE  /\ SweepsCarry' /\ TurnsCarry' /\ HooksCarry'
         /\ sweep' \in [Sweeps -> SweepRecord] /\ turn' \in [Turns -> TurnRecord]
         /\ hook' \in [Hooks -> HookRecord]
<1>1. ASSUME NEW i \in Sweeps PROVE Carries(sweep[i])'
  BY OthersCarry DEF DInv
<1>2. SweepsCarry' /\ TurnsCarry' /\ HooksCarry'
  BY <1>1, TurnsStillCarry DEF DInv, SweepsCarry, HooksCarry
<1>3. QED
  BY <1>2 DEF DInv, TypeOK

LEMMA ResolveKeeps ==
  ASSUME DInv, NEW s \in Shipments, Resolve(s)
  PROVE  DInv'
<1>1. /\ page' \in [Shipments -> {"moving"} \cup Terminal]
      /\ \A x \in Shipments : page[x] \in Terminal => page'[x] = page[x]
  BY DEF Resolve, DInv, TypeOK, Terminal
<1>2. UNCHANGED <<mirrored, parked, status, shipped, notice, old, sweep, turn, hook, guessed>>
  BY DEF Resolve, store
<1>3. Keeps /\ SentIsDurable' /\ ParkedMirrored' /\ VerdictsTruthful'
  BY <1>1, <1>2
     DEF DInv, Keeps, SentIsDurable, ParkedMirrored, VerdictsTruthful, Terminal
<1>4. QED
  BY <1>1, <1>2, <1>3, WorldStep DEF DInv, TypeOK

LEMMA AgesKeeps ==
  ASSUME DInv, NEW s \in Shipments, Ages(s)
  PROVE  DInv'
<1>1. UNCHANGED <<page, mirrored, parked, status, shipped, notice, sweep, turn, hook, guessed>>
  BY DEF Ages, store
<1>2. old' \in [Shipments -> BOOLEAN]
  BY DEF Ages, DInv, TypeOK
<1>3. Keeps /\ SentIsDurable' /\ ParkedMirrored' /\ VerdictsTruthful'
  BY <1>1 DEF DInv, Keeps, SentIsDurable, ParkedMirrored, VerdictsTruthful
<1>4. QED
  BY <1>1, <1>2, <1>3, WorldStep DEF DInv, TypeOK

LEMMA EraseKeeps ==
  ASSUME DInv, NEW s \in Shipments, Erase(s)
  PROVE  DInv'
<1>1. UNCHANGED <<page, old, sweep, turn, hook, guessed>>
  BY DEF Erase
<1>2. /\ mirrored' \in [Shipments -> BOOLEAN] /\ parked' \in [Shipments -> ParkStates]
      /\ status' \in [Shipments -> Statuses] /\ shipped' \in [Shipments -> BOOLEAN]
      /\ notice' \in [Shipments -> BOOLEAN]
      /\ ~mirrored'[s] /\ parked'[s] = "none" /\ status'[s] = "null" /\ ~notice'[s]
      /\ \A x \in Shipments \ {s} :
           /\ mirrored'[x] = mirrored[x] /\ parked'[x] = parked[x]
           /\ status'[x] = status[x] /\ notice'[x] = notice[x]
  BY DEF Erase, DInv, TypeOK, ParkStates, Statuses
<1>3. Keeps /\ SentIsDurable' /\ ParkedMirrored' /\ VerdictsTruthful'
  <2>1. Keeps
    BY <1>1, <1>2 DEF Keeps
  <2>2. SentIsDurable' /\ ParkedMirrored'
    BY <1>2 DEF DInv, SentIsDurable, ParkedMirrored
  <2>3. VerdictsTruthful'
    BY <1>1, <1>2 DEF DInv, VerdictsTruthful
  <2>4. QED
    BY <2>1, <2>2, <2>3
<1>4. QED
  BY <1>1, <1>2, <1>3, WorldStep DEF DInv, TypeOK

\* A step of the webhook: of the store it only parks what is mirrored.
LEMMA HookStep ==
  ASSUME DInv, UNCHANGED <<page, mirrored, status, notice, sweep, turn, guessed>>,
         parked' \in [Shipments -> ParkStates], shipped' \in [Shipments -> BOOLEAN],
         old' \in [Shipments -> BOOLEAN], hook' \in [Hooks -> HookRecord], HooksCarry',
         \A s \in Shipments : parked'[s] = parked[s] \/ (parked'[s] = "pending" /\ mirrored[s])
  PROVE  DInv'
<1>1. Keeps /\ SentIsDurable' /\ ParkedMirrored' /\ VerdictsTruthful'
  BY DEF DInv, Keeps, SentIsDurable, ParkedMirrored, VerdictsTruthful
<1>2. ASSUME NEW i \in Sweeps PROVE Carries(sweep[i])'
  BY <1>1, OthersCarry DEF DInv
<1>3. SweepsCarry' /\ TurnsCarry'
  BY <1>1, <1>2, TurnsStillCarry DEF DInv, SweepsCarry
<1>4. QED
  BY <1>1, <1>3 DEF DInv, TypeOK

LEMMA HookLeavesParked ==
  ASSUME DInv, UNCHANGED <<page, mirrored, parked, status, notice, old, sweep, turn, guessed>>,
         shipped' \in [Shipments -> BOOLEAN], hook' \in [Hooks -> HookRecord], HooksCarry'
  PROVE  DInv'
<1>1. /\ parked' \in [Shipments -> ParkStates] /\ old' \in [Shipments -> BOOLEAN]
      /\ \A s \in Shipments : parked'[s] = parked[s] \/ (parked'[s] = "pending" /\ mirrored[s])
  BY DEF DInv, TypeOK
<1>2. QED
  BY <1>1, HookStep

LEMMA ReadEventKeeps ==
  ASSUME DInv, NEW h \in Hooks, NEW s \in Shipments, ReadEvent(h, s)
  PROVE  DInv'
<1>1. hook' \in [Hooks -> HookRecord] /\ HooksCarry'
  BY DEF ReadEvent, DInv, TypeOK, HooksCarry, HookRecord
<1>2. /\ UNCHANGED <<page, mirrored, parked, status, notice, old, sweep, turn, guessed>>
      /\ shipped' \in [Shipments -> BOOLEAN]
  BY DEF ReadEvent, store, DInv, TypeOK
<1>3. QED
  BY <1>1, <1>2, HookLeavesParked

LEMMA EnqueueShippedKeeps ==
  ASSUME DInv, NEW h \in Hooks, EnqueueShipped(h)
  PROVE  DInv'
<1>1. hook[h] \in HookRecord /\ hook[h].pc = "shipped" /\ hook[h].s \in Shipments
  BY DEF EnqueueShipped, DInv, TypeOK, HooksCarry
<1>2. shipped' \in [Shipments -> BOOLEAN]
  BY <1>1 DEF EnqueueShipped, DInv, TypeOK
<1>3. hook' \in [Hooks -> HookRecord] /\ HooksCarry'
  <2>1. CASE HookAt(h, "delivered")
    BY <1>1, <2>1 DEF HookAt, DInv, TypeOK, HooksCarry, HookRecord
  <2>2. CASE hook' = [hook EXCEPT ![h] = HookIdle]
    BY <2>2, IdleTyped DEF DInv, TypeOK, HooksCarry, HookIdle
  <2>3. QED
    BY <2>1, <2>2 DEF EnqueueShipped
<1>4. UNCHANGED <<page, mirrored, parked, status, notice, old, sweep, turn, guessed>>
  BY DEF EnqueueShipped
<1>5. QED
  BY <1>2, <1>3, <1>4, HookLeavesParked

LEMMA ParkKeeps ==
  ASSUME DInv, NEW h \in Hooks, Park(h)
  PROVE  DInv'
<1>1. hook' \in [Hooks -> HookRecord] /\ HooksCarry'
  BY IdleTyped DEF Park, DInv, TypeOK, HooksCarry, HookIdle
<1>2. hook[h].s \in Shipments
  BY DEF Park, DInv, HooksCarry
<1>3. /\ parked' \in [Shipments -> ParkStates] /\ old' \in [Shipments -> BOOLEAN]
      /\ \A s \in Shipments : parked'[s] = parked[s] \/ (parked'[s] = "pending" /\ mirrored[s])
  <2> DEFINE s == hook[h].s
  <2>1. CASE mirrored[s] /\ parked[s] = "none"
    <3>1. parked' = [parked EXCEPT ![s] = "pending"] /\ old' = [old EXCEPT ![s] = FALSE]
      BY <2>1 DEF Park
    <3> HIDE DEF s
    <3>2. QED
      BY <2>1, <3>1 DEF DInv, TypeOK, ParkStates
  <2>2. CASE ~(mirrored[s] /\ parked[s] = "none")
    <3>1. parked' = parked /\ old' = old
      BY <2>2 DEF Park
    <3>2. QED
      BY <3>1 DEF DInv, TypeOK
  <2>3. QED
    BY <2>1, <2>2
<1>4. /\ UNCHANGED <<page, mirrored, status, notice, sweep, turn, guessed>>
      /\ shipped' \in [Shipments -> BOOLEAN]
  BY DEF Park, DInv, TypeOK
<1>5. QED
  BY <1>1, <1>3, <1>4, HookStep

\* A step of one turn.
LEMMA TurnStep ==
  ASSUME DInv, NEW t \in Turns, NEW r \in TurnRecord, turn' = [turn EXCEPT ![t] = r],
         r.pc # "idle" => r.s \in Shipments, r.pc = "idle" => r.write = "null",
         Believed(r.s, r.write),
         UNCHANGED <<page, mirrored, parked, shipped, notice, old, sweep, hook, guessed>>,
         status' \in [Shipments -> Statuses], VerdictsTruthful'
  PROVE  DInv'
<1>1. /\ turn' \in [Turns -> TurnRecord] /\ turn'[t] = r
      /\ \A x \in Turns \ {t} : turn'[x] = turn[x]
  BY DEF DInv, TypeOK
<1>2. TurnsCarry'
  BY <1>1 DEF DInv, TurnsCarry, Believed
<1>3. Keeps /\ SentIsDurable' /\ ParkedMirrored'
  BY DEF DInv, Keeps, SentIsDurable, ParkedMirrored
<1>4. ASSUME NEW i \in Sweeps PROVE Carries(sweep[i])'
  BY <1>3, OthersCarry DEF DInv
<1>5. SweepsCarry' /\ HooksCarry'
  BY <1>4 DEF DInv, SweepsCarry, HooksCarry
<1>6. QED
  BY <1>1, <1>2, <1>3, <1>5 DEF DInv, TypeOK

LEMMA LookKeeps ==
  ASSUME DInv, NEW t \in Turns, NEW s \in Shipments, Look(t, s)
  PROVE  DInv'
<1> DEFINE r == [TurnIdle EXCEPT !.pc = "fetch", !.s = s]
<1>1. /\ r \in TurnRecord /\ r.pc = "fetch" /\ r.s = s /\ r.write = "null"
      /\ turn' = [turn EXCEPT ![t] = r]
  BY DEF TurnIdle, TurnRecord, Statuses, Look
<1>2. UNCHANGED <<page, mirrored, parked, shipped, notice, old, sweep, hook, guessed, status>>
  BY DEF Look, store
<1> HIDE DEF r
<1>3. Believed(r.s, r.write) /\ status' \in [Shipments -> Statuses] /\ VerdictsTruthful'
  BY <1>1, <1>2 DEF Believed, DInv, TypeOK, VerdictsTruthful
<1>4. QED
  BY <1>1, <1>2, <1>3, TurnStep

LEMMA LiveTrackingKeeps ==
  ASSUME DInv, NEW t \in Turns, LiveTracking(t)
  PROVE  DInv'
<1>1. turn[t] \in TurnRecord /\ turn[t].pc = "fetch" /\ turn[t].s \in Shipments
  BY DEF DInv, TypeOK, TurnsCarry, LiveTracking
<1>2. PICK a \in Tracking(turn[t].s) :
        turn' = [turn EXCEPT ![t] =
                   IF a = "none" THEN TurnIdle ELSE [turn[t] EXCEPT !.pc = "store", !.write = a]]
  BY DEF LiveTracking
<1>3. a \in {"none", page[turn[t].s]} /\ a \in {"none"} \cup Statuses
  BY <1>1 DEF Tracking, DInv, TypeOK, Terminal, Statuses
<1> DEFINE r == IF a = "none" THEN TurnIdle ELSE [turn[t] EXCEPT !.pc = "store", !.write = a]
<1>4. /\ r \in TurnRecord
      /\ \/ r.pc = "idle" /\ r.write = "null"
         \/ r.pc = "store" /\ r.s = turn[t].s /\ r.write = page[turn[t].s]
  BY <1>1, <1>3 DEF TurnIdle, TurnRecord, Statuses
<1>5. turn' = [turn EXCEPT ![t] = r]
  BY <1>2
<1> HIDE DEF r
<1>6. UNCHANGED <<page, mirrored, parked, shipped, notice, old, sweep, hook, guessed, status>>
  BY DEF LiveTracking, store
<1>7. Believed(r.s, r.write) /\ status' \in [Shipments -> Statuses] /\ VerdictsTruthful'
  BY <1>4, <1>6 DEF Believed, DInv, TypeOK, VerdictsTruthful
<1>8. (r.pc # "idle" => r.s \in Shipments) /\ (r.pc = "idle" => r.write = "null")
  BY <1>1, <1>4
<1>9. QED
  BY <1>4, <1>5, <1>6, <1>7, <1>8, TurnStep

LEMMA PersistKeeps ==
  ASSUME DInv, NEW t \in Turns, Persist(t)
  PROVE  DInv'
<1>1. /\ turn[t].s \in Shipments /\ turn[t].write \in Statuses
      /\ Believed(turn[t].s, turn[t].write)
  BY DEF DInv, TypeOK, TurnsCarry, TurnRecord, Persist
<1>2. /\ status' \in [Shipments -> Statuses] /\ VerdictsTruthful'
  BY <1>1, StatusStored DEF Persist
<1>3. /\ TurnIdle \in TurnRecord /\ TurnIdle.pc = "idle" /\ TurnIdle.write = "null"
      /\ Believed(TurnIdle.s, TurnIdle.write)
  BY IdleTyped DEF TurnIdle, Believed
<1>4. QED
  BY <1>2, <1>3, TurnStep DEF Persist

LEMMA CutOffKeeps ==
  ASSUME DInv, CutOff
  PROVE  DInv'
<1>1. Untouched
  BY DEF CutOff, Untouched
<1>2. ASSUME NEW j \in Sweeps, sweep' = [sweep EXCEPT ![j] = SweepIdle],
             turn' = turn, hook' = hook
      PROVE  DInv'
  <2>1. /\ sweep' \in [Sweeps -> SweepRecord] /\ sweep'[j] = SweepIdle
        /\ \A i \in Sweeps \ {j} : sweep'[i] = sweep[i]
    BY <1>2, IdleTyped DEF DInv, TypeOK
  <2>2. Carries(sweep[j])'
    BY <2>1 DEF Carries, Believed, SweepIdle
  <2>3. QED
    BY <1>1, <1>2, <2>1, <2>2, NothingWritten, SweepStep DEF DInv, TypeOK
<1>3. ASSUME NEW t \in Turns, turn' = [turn EXCEPT ![t] = TurnIdle],
             sweep' = sweep, hook' = hook
      PROVE  DInv'
  <2>1. /\ TurnIdle \in TurnRecord /\ TurnIdle.pc = "idle" /\ TurnIdle.write = "null"
        /\ Believed(TurnIdle.s, TurnIdle.write)
    BY IdleTyped DEF TurnIdle, Believed
  <2>2. QED
    BY <1>1, <1>3, <2>1, NothingWritten, TurnStep DEF Untouched, store
<1>4. ASSUME NEW h \in Hooks, hook' = [hook EXCEPT ![h] = HookIdle],
             sweep' = sweep, turn' = turn
      PROVE  DInv'
  <2>1. hook' \in [Hooks -> HookRecord] /\ HooksCarry'
    BY <1>4, IdleTyped DEF DInv, TypeOK, HooksCarry, HookIdle
  <2>2. /\ UNCHANGED <<page, mirrored, parked, status, notice, old, sweep, turn, guessed>>
        /\ shipped' \in [Shipments -> BOOLEAN]
    BY <1>1, <1>4 DEF Untouched, store, DInv, TypeOK
  <2>3. QED
    BY <2>1, <2>2, HookLeavesParked
<1>5. QED
  BY <1>2, <1>3, <1>4 DEF CutOff

-----------------------------------------------------------------------------
(* The theorems                                                            *)

LEMMA Initially == Init => DInv
<1> SUFFICES ASSUME Init PROVE DInv
  OBVIOUS
<1>1. TypeOK
  BY IdleTyped DEF Init, TypeOK, ParkStates, Statuses
<1>2. VerdictsTruthful /\ SentIsDurable /\ ParkedMirrored
  BY DEF Init, VerdictsTruthful, SentIsDurable, ParkedMirrored
<1>3. SweepsCarry /\ TurnsCarry /\ HooksCarry
  BY DEF Init, SweepsCarry, TurnsCarry, HooksCarry, Carries, Believed,
         SweepIdle, TurnIdle, HookIdle
<1>4. QED
  BY <1>1, <1>2, <1>3 DEF DInv

LEMMA Inductive == DInv /\ [Next]_vars => DInv'
<1> SUFFICES ASSUME DInv, [Next]_vars PROVE DInv'
  OBVIOUS
<1>1. ASSUME NEW s \in Shipments, Resolve(s) \/ Ages(s) \/ Erase(s) PROVE DInv'
  BY <1>1, ResolveKeeps, AgesKeeps, EraseKeeps
<1>2. ASSUME NEW h \in Hooks,
             EnqueueShipped(h) \/ Park(h) \/ \E s \in Shipments : ReadEvent(h, s)
      PROVE  DInv'
  BY <1>2, EnqueueShippedKeeps, ParkKeeps, ReadEventKeeps
<1>3. ASSUME NEW t \in Turns,
             LiveTracking(t) \/ Persist(t) \/ \E s \in Shipments : Look(t, s)
      PROVE  DInv'
  BY <1>3, LiveTrackingKeeps, PersistKeeps, LookKeeps
<1>4. ASSUME NEW j \in Sweeps, StartSweep(j) \/ Decides(j) \/ RowFails(j) PROVE DInv'
  BY <1>4, StartSweepKeeps, ReadRowKeeps, FetchTrackingKeeps, AskShopifyKeeps,
     EnqueueKeeps, MarkKeeps, StoreStatusKeeps, RowFailsKeeps DEF Decides
<1>5. CASE UNCHANGED vars
  <2>1. Untouched /\ UNCHANGED <<sweep, turn, hook>>
    BY <1>5 DEF vars, Untouched
  <2>2. QED
    BY <2>1, NothingWritten, WorldStep DEF DInv, TypeOK
<1>6. QED
  BY <1>1, <1>2, <1>3, <1>4, <1>5, CutOffKeeps DEF Next

LEMMA Always == Spec => []DInv
  BY Initially, Inductive, PTL DEF Spec

\* The types of every table and of what sweeps, turns and webhooks hold.
THEOREM TypeCorrect == Spec => []TypeOK
  BY Always, PTL DEF DInv

\* Whatever overlaps, only Shopify's word makes a returned shipment a
\* delivered one, and nothing makes a delivered one a returned one.
THEOREM ConcludesTruly == Spec => []VerdictsTruthful
  BY Always, PTL DEF DInv

\* A row is marked sent only with its notice in the outbox.
THEOREM LosesNoConfirmation == Spec => []SentIsDurable
  BY Always, PTL DEF DInv

LEMMA StoredStays ==
  ASSUME DInv, NEW x \in Shipments, NEW new, SetShipmentStatus(x, new),
         NEW s \in Shipments, status[s] \in Terminal
  PROVE  status'[s] = status[s]
  BY DEF DInv, TypeOK, SetShipmentStatus, Stored

\* A terminal shipment status is not taken back.
THEOREM TerminalStatusStays == Spec => TerminalStays
<1> DEFINE Stays == \A s \in Shipments :
                      status[s] \in Terminal /\ mirrored'[s] => status'[s] = status[s]
<1>1. DInv /\ [Next]_vars => Stays
  <2> SUFFICES ASSUME DInv, [Next]_vars, NEW s \in Shipments,
                      status[s] \in Terminal, mirrored'[s]
               PROVE  status'[s] = status[s]
    OBVIOUS
  <2>1. CASE status' = status
    BY <2>1
  <2>2. ASSUME NEW x \in Shipments, Erase(x) PROVE status'[s] = status[s]
    BY <2>2 DEF Erase, DInv, TypeOK
  <2>3. ASSUME NEW t \in Turns, Persist(t) PROVE status'[s] = status[s]
    BY <2>3, StoredStays DEF Persist, DInv, TurnsCarry
  <2>4. ASSUME NEW j \in Sweeps, StoreStatus(j) PROVE status'[s] = status[s]
    BY <2>4, StoredStays DEF StoreStatus, DInv, SweepsCarry, Carries
  <2>5. \/ status' = status
        \/ \E x \in Shipments : Erase(x)
        \/ \E t \in Turns : Persist(t)
        \/ \E j \in Sweeps : StoreStatus(j)
    BY DEF Next, vars, store, Decides, Resolve, Ages, EnqueueShipped, Park, ReadEvent,
           LiveTracking, Look, StartSweep, ReadRow, FetchTracking, AskShopify, Enqueue,
           Mark, RowFails, CutOff
  <2>6. QED
    BY <2>1, <2>2, <2>3, <2>4, <2>5
<1>2. QED
  BY <1>1, Always, PTL DEF Spec, TerminalStays
=============================================================================
