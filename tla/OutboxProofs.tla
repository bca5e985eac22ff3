---------------------------- MODULE OutboxProofs ----------------------------
(***************************************************************************)
(* Proofs about module Outbox, for every set of rows and workers and every *)
(* value of the limits.                                                    *)
(***************************************************************************)
EXTENDS Outbox, FiniteSetTheorems, TLAPS

\* Where an invocation stands fixes what it can hold.
WorkerShape ==
  \A w \in Workers :
    /\ pc[w] \in {"idle", "inline", "ready"} => batch[w] = {}
    /\ pc[w] \in {"sending", "replied"} => cur[w] \in batch[w]
    /\ pc[w] = "mapping" => cur[w] \in Confirmation
    /\ pc[w] = "mapping" => cur[w] \notin batch[w]

-----------------------------------------------------------------------------
\* born counts rows, so it is a number.
LEMMA CardinalityOfRows ==
  ASSUME NEW S, S \subseteq Rows
  PROVE  Cardinality(S) \in Nat
BY OutboxAssumption, FS_Subset, FS_CardinalityType DEF OutboxAssumption

\* Every column, local and counter of the outbox keeps its type: no worker
\* writes a state the schema does not know, whichever step it is at.
THEOREM TypeCorrect == Spec => []TypeOK
<1>1. Init => TypeOK
  BY OutboxAssumption
     DEF Init, TypeOK, RowStates, MappingStatus, PCs, SendModes, Replies, OutboxAssumption
<1>2. TypeOK /\ [Next]_vars => TypeOK'
  <2> SUFFICES ASSUME TypeOK, [Next]_vars PROVE TypeOK'
    OBVIOUS
  <2> USE OutboxAssumption
  <2> USE DEF TypeOK, OutboxAssumption, RowStates, MappingStatus, PCs, SendModes,
              Replies, tableVars, workerVars, ghostVars
  <2>1. CASE UNCHANGED vars
    BY <2>1 DEF vars
  <2>2. ASSUME NEW k \in Rows, Insert(k)
        PROVE  /\ state' \in [Rows -> RowStates] /\ born' \in [Rows -> Nat]
               /\ attempts' \in [Rows -> Nat] /\ stale' \subseteq Rows
    <3>1. Cardinality({j \in Rows : state[j] # "absent"}) \in Nat
      BY CardinalityOfRows
    <3>2. QED
      BY <2>2, <3>1 DEF Insert
  <2>3. ASSUME NEW w \in Workers, NEW k \in Rows, Ingest(w, k)
        PROVE  TypeOK'
    <3>1. status' \in [Orders -> MappingStatus]
      BY <2>3 DEF Ingest, UpsertMapping
    <3>2. pc' \in [Workers -> PCs] /\ cur' \in [Workers -> Rows \cup {NoRow}]
      BY <2>3 DEF Ingest
    <3>3. Insert(k)
      BY <2>3 DEF Ingest
    <3>4. QED
      BY <2>2, <2>3, <3>1, <3>2, <3>3 DEF Ingest
  <2>4. ASSUME NEW k \in Rows, Enqueue(k)
        PROVE  TypeOK'
    BY <2>2, <2>4 DEF Enqueue
  <2>5. ASSUME NEW w \in Workers, StartDrain(w)
        PROVE  TypeOK'
    BY <2>5 DEF StartDrain
  <2>6. ASSUME NEW w \in Workers, StartInline(w)
        PROVE  TypeOK'
    BY <2>6 DEF StartInline
  <2>7. ASSUME NEW w \in Workers, NEW B \in SUBSET Rows, Take(w, B)
        PROVE  TypeOK'
    BY <2>7 DEF Take, Goes
  <2>8. ASSUME NEW w \in Workers, ClaimQueuedOutbound(w)
        PROVE  TypeOK'
    BY <2>7, <2>8 DEF ClaimQueuedOutbound, Oldest, Claimable
  <2>9. ASSUME NEW w \in Workers, ClaimOutboundById(w)
        PROVE  TypeOK'
    BY <2>7, <2>9 DEF ClaimOutboundById
  <2>10. ASSUME NEW w \in Workers, NEW k, Done(w, k)
         PROVE  /\ pc' \in [Workers -> PCs] /\ mode' \in [Workers -> SendModes]
                /\ batch' \in [Workers -> SUBSET Rows]
                /\ cur' \in [Workers -> Rows \cup {NoRow}]
                /\ reply' \in [Workers -> Replies]
                /\ imageless' \in [Workers -> BOOLEAN]
    BY <2>10 DEF Done, Goes
  <2>11. ASSUME NEW k, NEW s \in RowStates, SetState(k, s)
         PROVE  /\ state' \in [Rows -> RowStates] /\ born' \in [Rows -> Nat]
                /\ stale' \subseteq Rows
    BY <2>11 DEF SetState
  <2>12. ASSUME NEW k, NEW max \in Nat, BumpOutboundAttempt(k, max)
         PROVE  /\ state' \in [Rows -> RowStates] /\ born' \in [Rows -> Nat]
                /\ stale' \subseteq Rows /\ attempts' \in [Rows -> Nat]
    <3>1. attempts' \in [Rows -> Nat]
      <4>1. CASE k \in Rows
        BY <2>12, <4>1 DEF BumpOutboundAttempt
      <4>2. CASE k \notin Rows
        BY <2>12, <4>2 DEF BumpOutboundAttempt
      <4>3. QED
        BY <4>1, <4>2
    <3>2. \E s \in RowStates : SetState(k, s)
      BY <2>12 DEF BumpOutboundAttempt
    <3>3. QED
      BY <2>11, <3>1, <3>2
  <2>13. ASSUME NEW w \in Workers, NEW k \in Rows, HandleRow(w, k)
         PROVE  TypeOK'
    <3>1. CASE RejectKey(w, k)
      BY <2>10, <2>12, <3>1 DEF RejectKey
    <3>2. CASE MarkSuppressed(w, k)
      BY <2>10, <2>11, <3>2 DEF MarkSuppressed
    <3>3. CASE RejectPayload(w, k)
      BY <2>10, <2>11, <3>3 DEF RejectPayload
    <3>4. CASE StartSend(w, k)
      BY <3>4 DEF StartSend, Goes
    <3>5. QED
      BY <2>13, <3>1, <3>2, <3>3, <3>4 DEF HandleRow
  <2>14. ASSUME NEW w \in Workers, NEW v \in Replies \ {"none"}, Provider(w, v)
         PROVE  TypeOK'
    <3>1. accepted' \in [Rows -> Nat]
      <4>1. CASE cur[w] \in Rows
        BY <2>14, <4>1 DEF Provider
      <4>2. CASE cur[w] \notin Rows
        BY <2>14, <4>2 DEF Provider
      <4>3. QED
        BY <4>1, <4>2
    <3>2. QED
      BY <2>14, <3>1 DEF Provider, Goes
  <2>15. ASSUME NEW w \in Workers, WriteOffCopy(w)
         PROVE  lost' \in [Rows -> Nat]
    BY <2>15 DEF WriteOffCopy
  <2>16. ASSUME NEW w \in Workers, HandleReply(w)
         PROVE  TypeOK'
    <3>1. CASE RetryImageless(w)
      BY <3>1 DEF RetryImageless, Goes
    <3>2. CASE MarkSent(w)
      <4>1. CASE cur[w] \in Confirmation
        <5>1. SetState(cur[w], "sent")
          BY <3>2 DEF MarkSent
        <5>2. /\ state' \in [Rows -> RowStates] /\ born' \in [Rows -> Nat]
              /\ stale' \subseteq Rows
          BY <2>11, <5>1
        <5>3. /\ pc' \in [Workers -> PCs] /\ batch' \in [Workers -> SUBSET Rows]
              /\ reply' \in [Workers -> Replies]
              /\ imageless' \in [Workers -> BOOLEAN]
          <6>1. /\ pc' = [pc EXCEPT ![w] = "mapping"]
                /\ batch' = [batch EXCEPT ![w] = batch[w] \ {cur[w]}]
                /\ reply' = [reply EXCEPT ![w] = "none"]
                /\ imageless' = [imageless EXCEPT ![w] = FALSE]
            BY <3>2, <4>1, Zenon DEF MarkSent, Goes
          <6>2. QED
            BY <6>1
        <5>4. QED
          BY <3>2, <4>1, <5>2, <5>3 DEF MarkSent
      <4>2. CASE cur[w] \notin Confirmation
        BY <2>10, <2>11, <3>2, <4>2 DEF MarkSent
      <4>3. QED
        BY <4>1, <4>2
    <3>3. CASE MarkUndeliverable(w)
      BY <2>10, <2>11, <3>3 DEF MarkUndeliverable
    <3>4. CASE BumpRejected(w)
      BY <2>10, <2>12, <3>4 DEF BumpRejected
    <3>5. CASE TransportError(w)
      BY <2>10, <2>12, <2>15, <3>5 DEF TransportError
    <3>6. QED
      BY <2>16, <3>1, <3>2, <3>3, <3>4, <3>5 DEF HandleReply
  <2>17. ASSUME NEW w \in Workers, SetTemplateSent(w)
         PROVE  TypeOK'
    BY <2>10, <2>17 DEF SetTemplateSent
  <2>18. ASSUME NEW w \in Workers, Abort(w)
         PROVE  TypeOK'
    BY <2>15, <2>18 DEF Abort, Goes
  <2>19. ASSUME NEW k \in Rows, BecomeStale(k)
         PROVE  TypeOK'
    BY <2>19 DEF BecomeStale
  <2>20. ASSUME NEW m \in OwnerModes, SetSendMode(m)
         PROVE  TypeOK'
    BY <2>20 DEF SetSendMode
  <2>21. ASSUME NEW w \in Workers, Step(w)
         PROVE  TypeOK'
    BY <2>6, <2>8, <2>9, <2>13, <2>14, <2>16, <2>17, <2>21 DEF Step
  <2>22. QED
    BY <2>1, <2>3, <2>4, <2>5, <2>18, <2>19, <2>20, <2>21 DEF Next
<1>3. QED
  BY <1>1, <1>2, PTL DEF Spec

-----------------------------------------------------------------------------
\* What the two helpers every handler ends with leave behind.
LEMMA DoneEffect ==
  ASSUME TypeOK, NEW w \in Workers, NEW k, Done(w, k)
  PROVE  /\ batch'[w] = batch[w] \ {k}
         /\ pc'[w] \in {"idle", "pick"}
         /\ pc'[w] = "idle" => batch'[w] = {}
         /\ \A v \in Workers \ {w} :
              /\ batch'[v] = batch[v] /\ pc'[v] = pc[v] /\ cur'[v] = cur[v]
              /\ reply'[v] = reply[v]
BY DEF Done, Goes, TypeOK

LEMMA SetStateEffect ==
  ASSUME TypeOK, NEW k, NEW s \in RowStates, SetState(k, s)
  PROVE  /\ k \in Rows => state'[k] = s
         /\ \A j \in Rows \ {k} : state'[j] = state[j]
         /\ stale' = stale \ {k}
BY DEF SetState, TypeOK

LEMMA BumpEffect ==
  ASSUME NEW k, NEW max, BumpOutboundAttempt(k, max)
  PROVE  \E s \in {"failed", "queued"} : SetState(k, s)
BY DEF BumpOutboundAttempt

\* A worker that settles a row it holds keeps every claim exclusive.
LEMMA SettleKeepsClaims ==
  ASSUME TypeOK, WorkerShape, ExclusiveClaim,
         NEW w \in Workers, NEW k \in batch[w], NEW s \in RowStates,
         SetState(k, s), Done(w, k)
  PROVE  WorkerShape' /\ ExclusiveClaim'
<1>1. ExclusiveClaim'
  BY DoneEffect, SetStateEffect DEF ExclusiveClaim, TypeOK
<1>2. WorkerShape'
  BY DoneEffect DEF WorkerShape
<1>3. QED
  BY <1>1, <1>2

ClaimInv == TypeOK /\ WorkerShape /\ ExclusiveClaim

LEMMA ClaimInvInit == Init => ClaimInv
BY OutboxAssumption DEF Init, ClaimInv, WorkerShape, ExclusiveClaim, TypeOK,
   RowStates, MappingStatus, PCs, SendModes, Replies, OutboxAssumption

\* The claim discipline is inductive once the shape of a worker is known.
LEMMA ClaimInvStep ==
  ASSUME ClaimInv, [Next]_vars, TypeOK'
  PROVE  WorkerShape' /\ ExclusiveClaim'
<1> USE DEF ClaimInv
<1>1. CASE UNCHANGED vars
  BY <1>1 DEF WorkerShape, ExclusiveClaim, vars, tableVars, workerVars
<1>2. ASSUME NEW w \in Workers, NEW k \in Rows, Ingest(w, k)
      PROVE  WorkerShape' /\ ExclusiveClaim'
  <2>1. ExclusiveClaim'
    BY <1>2 DEF Ingest, Insert, FreshRow, ExclusiveClaim, TypeOK
  <2>2. WorkerShape'
    BY <1>2 DEF Ingest, WorkerShape, TypeOK
  <2>3. QED
    BY <2>1, <2>2
<1>3. ASSUME NEW k \in Rows, Enqueue(k)
      PROVE  WorkerShape' /\ ExclusiveClaim'
  BY <1>3 DEF Enqueue, Insert, FreshRow, ExclusiveClaim, WorkerShape, TypeOK, workerVars
<1>4. ASSUME NEW w \in Workers, StartDrain(w)
      PROVE  WorkerShape' /\ ExclusiveClaim'
  BY <1>4 DEF StartDrain, ExclusiveClaim, WorkerShape, TypeOK, tableVars
<1>5. ASSUME NEW w \in Workers, StartInline(w)
      PROVE  WorkerShape' /\ ExclusiveClaim'
  BY <1>5 DEF StartInline, ExclusiveClaim, WorkerShape, TypeOK, tableVars
<1>6. ASSUME NEW w \in Workers, NEW B \in SUBSET Claimable, Take(w, B), batch[w] = {}
      PROVE  WorkerShape' /\ ExclusiveClaim'
  <2>1. \A v \in Workers : B \cap batch[v] = {}
    BY DEF ExclusiveClaim, Claimable, TypeOK
  <2>2. /\ batch'[w] = B /\ ((pc'[w] = "idle" /\ B = {}) \/ pc'[w] = "pick")
        /\ \A v \in Workers \ {w} :
             batch'[v] = batch[v] /\ pc'[v] = pc[v] /\ cur'[v] = cur[v]
    BY <1>6 DEF Take, Goes, TypeOK
  <2>3. /\ \A k \in B : state'[k] = "processing" /\ k \notin stale'
        /\ \A k \in Rows \ B : state'[k] = state[k] /\ (k \in stale' <=> k \in stale)
    BY <1>6 DEF Take, Claimable
  <2>4. ExclusiveClaim'
    BY <2>1, <2>2, <2>3 DEF ExclusiveClaim
  <2>5. WorkerShape'
    BY <2>2 DEF WorkerShape
  <2>6. QED
    BY <2>4, <2>5
<1>7. ASSUME NEW w \in Workers, ClaimQueuedOutbound(w)
      PROVE  WorkerShape' /\ ExclusiveClaim'
  BY <1>6, <1>7 DEF ClaimQueuedOutbound, Oldest, WorkerShape
<1>8. ASSUME NEW w \in Workers, ClaimOutboundById(w)
      PROVE  WorkerShape' /\ ExclusiveClaim'
  BY <1>6, <1>8 DEF ClaimOutboundById, Claimable, WorkerShape
<1>9. ASSUME NEW w \in Workers, NEW k \in Rows, HandleRow(w, k)
      PROVE  WorkerShape' /\ ExclusiveClaim'
  <2>1. CASE RejectKey(w, k)
    BY <2>1, BumpEffect, SettleKeepsClaims DEF RejectKey, RowStates
  <2>2. CASE MarkSuppressed(w, k)
    BY <2>2, SettleKeepsClaims DEF MarkSuppressed, RowStates
  <2>3. CASE RejectPayload(w, k)
    BY <2>3, SettleKeepsClaims DEF RejectPayload, RowStates
  <2>4. CASE StartSend(w, k)
    BY <2>4 DEF StartSend, Goes, ExclusiveClaim, WorkerShape, TypeOK, tableVars
  <2>5. QED
    BY <1>9, <2>1, <2>2, <2>3, <2>4 DEF HandleRow
<1>10. ASSUME NEW w \in Workers, NEW v \in Replies, Provider(w, v)
       PROVE  WorkerShape' /\ ExclusiveClaim'
  BY <1>10 DEF Provider, Goes, ExclusiveClaim, WorkerShape, TypeOK, tableVars
<1>11. ASSUME NEW w \in Workers, HandleReply(w)
       PROVE  WorkerShape' /\ ExclusiveClaim'
  <2>1. CASE RetryImageless(w)
    BY <2>1 DEF RetryImageless, Goes, ExclusiveClaim, WorkerShape, TypeOK, tableVars
  <2>2. pc[w] = "replied" => cur[w] \in batch[w]
    BY DEF WorkerShape
  <2>3. CASE MarkSent(w)
    <3>1. CASE cur[w] \notin Confirmation
      BY <2>2, <2>3, <3>1, SettleKeepsClaims DEF MarkSent, RowStates
    <3>2. CASE cur[w] \in Confirmation
      <4>1. /\ SetState(cur[w], "sent") /\ cur' = cur
            /\ batch' = [batch EXCEPT ![w] = batch[w] \ {cur[w]}]
            /\ pc' = [pc EXCEPT ![w] = "mapping"]
        BY <2>3, <3>2, Zenon DEF MarkSent, Goes
      <4>2. /\ batch'[w] = batch[w] \ {cur[w]} /\ pc'[w] = "mapping"
            /\ \A v \in Workers \ {w} : batch'[v] = batch[v] /\ pc'[v] = pc[v]
        BY <4>1 DEF TypeOK
      <4>3. /\ \A j \in Rows \ {cur[w]} : state'[j] = state[j]
            /\ stale' = stale \ {cur[w]}
        BY <4>1, SetStateEffect DEF RowStates
      <4>4. ExclusiveClaim'
        BY <2>2, <2>3, <4>2, <4>3 DEF ExclusiveClaim, MarkSent
      <4>5. WorkerShape'
        BY <3>2, <4>1, <4>2 DEF WorkerShape
      <4>6. QED
        BY <4>4, <4>5
    <3>3. QED
      BY <3>1, <3>2
  <2>4. CASE MarkUndeliverable(w)
    BY <2>2, <2>4, SettleKeepsClaims DEF MarkUndeliverable, RowStates
  <2>5. CASE BumpRejected(w)
    BY <2>2, <2>5, BumpEffect, SettleKeepsClaims DEF BumpRejected, RowStates
  <2>6. CASE TransportError(w)
    BY <2>2, <2>6, BumpEffect, SettleKeepsClaims DEF TransportError, RowStates
  <2>7. QED
    BY <1>11, <2>1, <2>3, <2>4, <2>5, <2>6 DEF HandleReply
<1>12. ASSUME NEW w \in Workers, SetTemplateSent(w)
       PROVE  WorkerShape' /\ ExclusiveClaim'
  <2>1. Done(w, cur[w]) /\ pc[w] = "mapping" /\ UNCHANGED <<state, stale>>
    BY <1>12 DEF SetTemplateSent, tableVars
  <2>2. batch'[w] = batch[w] /\ state' = state /\ stale' = stale
    <3>1. cur[w] \notin batch[w]
      BY <2>1 DEF WorkerShape
    <3>2. batch'[w] = batch[w] \ {cur[w]}
      BY <2>1, DoneEffect
    <3>3. QED
      BY <2>1, <3>1, <3>2
  <2>3. ExclusiveClaim'
    <3>1. \A v \in Workers : batch'[v] = batch[v]
      BY <2>2, <2>1, DoneEffect
    <3>2. QED
      BY <2>2, <3>1 DEF ExclusiveClaim
  <2>4. WorkerShape'
    BY <2>1, DoneEffect DEF WorkerShape
  <2>5. QED
    BY <2>3, <2>4
<1>13. ASSUME NEW w \in Workers, Abort(w)
       PROVE  WorkerShape' /\ ExclusiveClaim'
  BY <1>13 DEF Abort, Goes, ExclusiveClaim, WorkerShape, TypeOK, tableVars
<1>14. ASSUME NEW k \in Rows, BecomeStale(k)
       PROVE  WorkerShape' /\ ExclusiveClaim'
  BY <1>14 DEF BecomeStale, ExclusiveClaim, WorkerShape, workerVars
<1>15. ASSUME NEW m \in OwnerModes, SetSendMode(m)
       PROVE  WorkerShape' /\ ExclusiveClaim'
  BY <1>15 DEF SetSendMode, ExclusiveClaim, WorkerShape, workerVars, tableVars
<1>16. ASSUME NEW w \in Workers, Step(w)
       PROVE  WorkerShape' /\ ExclusiveClaim'
  BY <1>5, <1>7, <1>8, <1>9, <1>10, <1>11, <1>12, <1>16 DEF Step
<1>17. QED
  BY <1>1, <1>2, <1>3, <1>4, <1>13, <1>14, <1>15, <1>16 DEF Next

\* No two invocations ever hold one row, whatever the interleaving of inline
\* sends, drain runs, crashes and reclaims.
THEOREM ClaimsAreExclusive == Spec => []ExclusiveClaim
<1>1. TypeOK' /\ ClaimInv /\ [Next]_vars => ClaimInv'
  BY ClaimInvStep DEF ClaimInv
<1>2. ClaimInv => ExclusiveClaim
  BY DEF ClaimInv
<1>3. QED
  BY <1>1, <1>2, ClaimInvInit, TypeCorrect, PTL DEF Spec

-----------------------------------------------------------------------------
\* A step that moves a row moves one that is not settled.
LEMMA TerminalStep ==
  ASSUME ClaimInv, [Next]_vars
  PROVE  \A k \in Rows : state[k] \in Terminal => state'[k] = state[k]
<1> SUFFICES ASSUME NEW k \in Rows, state[k] \in Terminal
             PROVE  state'[k] = state[k]
  OBVIOUS
<1> USE DEF ClaimInv
<1>1. \A w \in Workers : k \notin batch[w]
  BY DEF ExclusiveClaim, Terminal
<1>2. ASSUME NEW j \in Rows, Insert(j)
      PROVE  state'[k] = state[k]
  BY <1>2 DEF Insert, FreshRow, Terminal, TypeOK
<1>3. ASSUME NEW w \in Workers, NEW B \in SUBSET Claimable, Take(w, B)
      PROVE  state'[k] = state[k]
  BY <1>3 DEF Take, Claimable, Terminal
<1>4. ASSUME NEW w \in Workers, NEW j \in batch[w], NEW s \in RowStates, SetState(j, s)
      PROVE  state'[k] = state[k]
  BY <1>1, <1>4, SetStateEffect
<1>5. ASSUME NEW w \in Workers, pc[w] = "replied"
      PROVE  cur[w] \in batch[w]
  BY <1>5 DEF WorkerShape
<1>6. ASSUME NEW w \in Workers, NEW j \in Rows, HandleRow(w, j)
      PROVE  state'[k] = state[k]
  BY <1>4, <1>6, BumpEffect
     DEF HandleRow, RejectKey, MarkSuppressed, RejectPayload, StartSend, tableVars, RowStates
<1>7. ASSUME NEW w \in Workers, HandleReply(w)
      PROVE  state'[k] = state[k]
  BY <1>4, <1>5, <1>7, BumpEffect
     DEF HandleReply, RetryImageless, MarkSent, MarkUndeliverable, BumpRejected,
         TransportError, tableVars, RowStates
<1>8. ASSUME NEW w \in Workers, Step(w)
      PROVE  state'[k] = state[k]
  <2>1. CASE ClaimQueuedOutbound(w)
    BY <2>1, <1>3 DEF ClaimQueuedOutbound, Oldest
  <2>2. CASE ClaimOutboundById(w)
    BY <2>2, <1>3 DEF ClaimOutboundById, Claimable
  <2>3. QED
    BY <1>6, <1>7, <1>8, <2>1, <2>2
       DEF Step, StartInline, Provider, SetTemplateSent, tableVars
<1>9. QED
  BY <1>2, <1>8
     DEF Next, Ingest, Enqueue, StartDrain, Abort, BecomeStale, SetSendMode, tableVars, vars

\* A settled row is never moved again, by any invocation however late.
THEOREM SettledRowsStay == Spec => TerminalStays
<1>1. TypeOK' /\ ClaimInv /\ [Next]_vars => ClaimInv'
  BY ClaimInvStep DEF ClaimInv
<1>2. ClaimInv /\ [Next]_vars
        => [\A k \in Rows : state[k] \in Terminal => state'[k] = state[k]]_vars
  BY TerminalStep
<1>3. QED
  BY <1>1, <1>2, ClaimInvInit, TypeCorrect, PTL DEF Spec, TerminalStays

-----------------------------------------------------------------------------
\* A copy in one worker's hand is of a row in 'processing', in nobody else's.
LEMMA OneCopyAtHand ==
  ASSUME ClaimInv, NEW w \in Workers, NEW k \in Rows, Unrecorded(w, k)
  PROVE  /\ state[k] = "processing" /\ k \in batch[w]
         /\ \A v \in Workers \ {w} : ~Unrecorded(v, k)
BY DEF ClaimInv, WorkerShape, ExclusiveClaim, Unrecorded

\* Nothing is owed or paid: the account of every row stands.
LEMMA AccountStands ==
  ASSUME CopiesAccounted, accepted' = accepted, lost' = lost,
         \A k \in Rows : CopyAtHand(k)' <=> CopyAtHand(k)
  PROVE  CopiesAccounted'
BY DEF CopiesAccounted

\* A worker that settles row k with no copy of it in hand, other than as sent.
LEMMA SettleKeepsAccount ==
  ASSUME ClaimInv, CopiesAccounted, NEW w \in Workers, NEW k \in batch[w],
         NEW s \in RowStates \ {"sent"}, SetState(k, s), Done(w, k),
         \A j \in Rows : ~Unrecorded(w, j), accepted' = accepted, lost' = lost
  PROVE  CopiesAccounted'
<1>1. /\ \A j \in Rows : state'[j] = "sent" <=> state[j] = "sent"
      /\ pc'[w] # "replied"
      /\ \A v \in Workers \ {w} :
           pc'[v] = pc[v] /\ cur'[v] = cur[v] /\ reply'[v] = reply[v]
  BY SetStateEffect, DoneEffect DEF ClaimInv, ExclusiveClaim, TypeOK
<1>2. \A j \in Rows : CopyAtHand(j)' <=> CopyAtHand(j)
  BY <1>1 DEF CopyAtHand, Unrecorded
<1>3. QED
  BY <1>2, AccountStands

\* A worker whose answer is lost: the copy at hand becomes a copy written off.
LEMMA WriteOffKeepsAccount ==
  ASSUME ClaimInv, CopiesAccounted, NEW w \in Workers, WriteOffCopy(w),
         accepted' = accepted, pc'[w] # "replied",
         \A j \in Rows : state'[j] = "sent" <=> state[j] = "sent",
         \A v \in Workers \ {w} :
           pc'[v] = pc[v] /\ cur'[v] = cur[v] /\ reply'[v] = reply[v]
  PROVE  CopiesAccounted'
<1> SUFFICES ASSUME NEW k \in Rows
             PROVE  accepted'[k] = lost'[k] + (IF CopyAtHand(k)' THEN 1 ELSE 0)
  BY DEF CopiesAccounted
<1>1. accepted[k] \in Nat /\ lost[k] \in Nat
  BY DEF ClaimInv, TypeOK
<1>2. CASE Unrecorded(w, k)
  <2>1. lost'[k] = lost[k] + 1
    BY <1>2 DEF WriteOffCopy
  <2>2. ~CopyAtHand(k)'
    BY <1>2, OneCopyAtHand DEF CopyAtHand, Unrecorded
  <2>3. accepted[k] = lost[k] + 1
    BY <1>2 DEF CopiesAccounted, CopyAtHand
  <2>4. QED
    BY <1>1, <2>1, <2>2, <2>3
<1>3. CASE ~Unrecorded(w, k)
  <2>1. lost'[k] = lost[k]
    BY <1>3 DEF WriteOffCopy
  <2>2. CopyAtHand(k)' <=> CopyAtHand(k)
    BY <1>3 DEF CopyAtHand, Unrecorded
  <2>3. QED
    BY <2>1, <2>2 DEF CopiesAccounted
<1>4. QED
  BY <1>2, <1>3

LEMMA AccountInit == Init => CopiesAccounted
BY DEF Init, CopiesAccounted, CopyAtHand, Unrecorded

LEMMA AccountStep ==
  ASSUME ClaimInv, CopiesAccounted, [Next]_vars
  PROVE  CopiesAccounted'
<1> USE DEF ClaimInv
<1>1. ASSUME UNCHANGED <<state, pc, cur, reply, accepted, lost>>
      PROVE  CopiesAccounted'
  BY <1>1 DEF CopiesAccounted, CopyAtHand, Unrecorded
<1>2. ASSUME NEW k \in Rows, Insert(k), UNCHANGED <<reply, accepted, lost>>,
             \A w \in Workers : pc[w] = "replied" \/ pc'[w] = "replied"
                                  => pc'[w] = pc[w] /\ cur'[w] = cur[w]
      PROVE  CopiesAccounted'
  <2>1. \A j \in Rows : state'[j] = "sent" <=> state[j] = "sent"
    BY <1>2 DEF Insert, FreshRow, TypeOK
  <2>2. \A j \in Rows : CopyAtHand(j)' <=> CopyAtHand(j)
    BY <1>2, <2>1 DEF CopyAtHand, Unrecorded
  <2>3. QED
    BY <1>2, <2>2, AccountStands
<1>3. ASSUME NEW w \in Workers, NEW k \in Rows, Ingest(w, k)
      PROVE  CopiesAccounted'
  BY <1>2, <1>3 DEF Ingest, ghostVars, TypeOK
<1>4. ASSUME NEW w \in Workers, NEW B \in SUBSET Claimable, Take(w, B), pc[w] = "ready"
      PROVE  CopiesAccounted'
  <2>1. \A j \in Rows : state'[j] = "sent" <=> state[j] = "sent"
    BY <1>4 DEF Take, Claimable
  <2>2. /\ pc'[w] # "replied" /\ UNCHANGED <<reply, accepted, lost>>
        /\ \A v \in Workers \ {w} : pc'[v] = pc[v] /\ cur'[v] = cur[v]
    BY <1>4 DEF Take, Goes, TypeOK, ghostVars
  <2>3. \A j \in Rows : CopyAtHand(j)' <=> CopyAtHand(j)
    BY <1>4, <2>1, <2>2 DEF CopyAtHand, Unrecorded
  <2>4. QED
    BY <2>2, <2>3, AccountStands
<1>5. ASSUME NEW w \in Workers, NEW k \in Rows, HandleRow(w, k)
      PROVE  CopiesAccounted'
  <2>1. pc[w] = "pick"
    BY <1>5 DEF HandleRow, RejectKey, MarkSuppressed, RejectPayload, StartSend
  <2>2. \A j \in Rows : ~Unrecorded(w, j)
    BY <2>1 DEF Unrecorded
  <2>3. CASE RejectKey(w, k)
    BY <2>2, <2>3, BumpEffect, SettleKeepsAccount DEF RejectKey, RowStates, ghostVars
  <2>4. CASE MarkSuppressed(w, k)
    BY <2>2, <2>4, SettleKeepsAccount DEF MarkSuppressed, RowStates, ghostVars
  <2>5. CASE RejectPayload(w, k)
    BY <2>2, <2>5, SettleKeepsAccount DEF RejectPayload, RowStates, ghostVars
  <2>6. CASE StartSend(w, k)
    <3>1. /\ UNCHANGED <<state, reply, accepted, lost>> /\ pc'[w] # "replied"
          /\ \A v \in Workers \ {w} : pc'[v] = pc[v] /\ cur'[v] = cur[v]
      BY <2>6 DEF StartSend, Goes, tableVars, ghostVars, TypeOK
    <3>2. \A j \in Rows : CopyAtHand(j)' <=> CopyAtHand(j)
      BY <2>1, <3>1 DEF CopyAtHand, Unrecorded
    <3>3. QED
      BY <3>1, <3>2, AccountStands
  <2>7. QED
    BY <1>5, <2>3, <2>4, <2>5, <2>6 DEF HandleRow
<1>6. ASSUME NEW w \in Workers, NEW v \in Replies, Provider(w, v)
      PROVE  CopiesAccounted'
  <2>1. /\ UNCHANGED <<state, cur, lost>> /\ pc[w] = "sending"
        /\ pc'[w] = "replied" /\ reply'[w] = v /\ cur[w] \in batch[w]
        /\ \A u \in Workers \ {w} : pc'[u] = pc[u] /\ reply'[u] = reply[u]
    BY <1>6 DEF Provider, Goes, tableVars, TypeOK, WorkerShape
  <2>2. CASE v # "accepted"
    <3>1. \A j \in Rows : CopyAtHand(j)' <=> CopyAtHand(j)
      BY <2>1, <2>2 DEF CopyAtHand, Unrecorded
    <3>2. accepted' = accepted
      BY <1>6, <2>2 DEF Provider
    <3>3. QED
      BY <2>1, <3>1, <3>2, AccountStands
  <2>3. CASE v = "accepted"
    <3>1. ~CopyAtHand(cur[w]) /\ CopyAtHand(cur[w])'
      <4>1. state[cur[w]] = "processing"
        BY <2>1 DEF ExclusiveClaim, TypeOK
      <4>2. \A u \in Workers : ~Unrecorded(u, cur[w])
        BY <2>1, OneCopyAtHand DEF ExclusiveClaim, TypeOK, Unrecorded, WorkerShape
      <4>3. Unrecorded(w, cur[w])'
        BY <2>1, <2>3 DEF Unrecorded
      <4>4. QED
        BY <4>1, <4>2, <4>3 DEF CopyAtHand, Unrecorded
    <3>2. \A j \in Rows \ {cur[w]} : CopyAtHand(j)' <=> CopyAtHand(j)
      BY <2>1 DEF CopyAtHand, Unrecorded
    <3>3. accepted' = [accepted EXCEPT ![cur[w]] = accepted[cur[w]] + 1]
      BY <1>6, <2>3 DEF Provider
    <3>4. QED
      BY <2>1, <3>1, <3>2, <3>3 DEF CopiesAccounted, TypeOK
  <2>4. QED
    BY <2>2, <2>3
<1>7. ASSUME NEW w \in Workers, HandleReply(w)
      PROVE  CopiesAccounted'
  <2>1. pc[w] = "replied" /\ cur[w] \in batch[w] /\ cur[w] \in Rows
    BY <1>7 DEF HandleReply, RetryImageless, MarkSent, MarkUndeliverable, BumpRejected,
                TransportError, WorkerShape, TypeOK
  <2>2. CASE RetryImageless(w)
    <3>1. /\ UNCHANGED <<state, cur, accepted, lost>> /\ pc'[w] # "replied"
          /\ reply[w] # "accepted"
          /\ \A v \in Workers \ {w} : pc'[v] = pc[v] /\ reply'[v] = reply[v]
      BY <2>2 DEF RetryImageless, Goes, tableVars, ghostVars, TypeOK
    <3>2. \A j \in Rows : CopyAtHand(j)' <=> CopyAtHand(j)
      BY <3>1 DEF CopyAtHand, Unrecorded
    <3>3. QED
      BY <3>1, <3>2, AccountStands
  <2>3. CASE MarkSent(w)
    <3>1. SetState(cur[w], "sent") /\ reply[w] = "accepted"
          /\ UNCHANGED <<accepted, lost>>
      BY <2>3 DEF MarkSent, ghostVars
    <3>2. /\ pc'[w] # "replied"
          /\ \A v \in Workers \ {w} :
               pc'[v] = pc[v] /\ cur'[v] = cur[v] /\ reply'[v] = reply[v]
      <4>1. CASE cur[w] \notin Confirmation
        <5>1. Done(w, cur[w])
          BY <2>3, <4>1 DEF MarkSent
        <5>2. QED
          BY <5>1, DoneEffect
      <4>2. CASE cur[w] \in Confirmation
        <5>1. /\ pc' = [pc EXCEPT ![w] = "mapping"] /\ cur' = cur
              /\ reply' = [reply EXCEPT ![w] = "none"]
          BY <2>3, <4>2, Zenon DEF MarkSent, Goes
        <5>2. QED
          BY <5>1 DEF TypeOK
      <4>3. QED
        BY <4>1, <4>2
    <3>3. /\ state'[cur[w]] = "sent"
          /\ \A j \in Rows \ {cur[w]} : state'[j] = state[j]
      BY <2>1, <3>1, SetStateEffect DEF RowStates
    <3>4. \A j \in Rows : CopyAtHand(j)' <=> CopyAtHand(j)
      BY <2>1, <3>1, <3>2, <3>3 DEF CopyAtHand, Unrecorded
    <3>5. QED
      BY <3>1, <3>4, AccountStands
  <2>4. CASE MarkUndeliverable(w)
    <3>1. \A j \in Rows : ~Unrecorded(w, j)
      BY <2>4 DEF MarkUndeliverable, Unrecorded
    <3>2. QED
      BY <2>1, <2>4, <3>1, SettleKeepsAccount DEF MarkUndeliverable, RowStates, ghostVars
  <2>5. CASE BumpRejected(w)
    <3>1. \A j \in Rows : ~Unrecorded(w, j)
      BY <2>5 DEF BumpRejected, Unrecorded
    <3>2. QED
      BY <2>1, <2>5, <3>1, BumpEffect, SettleKeepsAccount
         DEF BumpRejected, RowStates, ghostVars
  <2>6. CASE TransportError(w)
    <3>1. PICK s \in {"failed", "queued"} : SetState(cur[w], s)
      BY <2>6, BumpEffect DEF TransportError
    <3>2. \A j \in Rows : state'[j] = "sent" <=> state[j] = "sent"
      BY <2>1, <3>1, SetStateEffect DEF RowStates, ExclusiveClaim
    <3>3. Done(w, cur[w]) /\ WriteOffCopy(w) /\ accepted' = accepted
      BY <2>6 DEF TransportError
    <3>4. QED
      BY <3>2, <3>3, DoneEffect, WriteOffKeepsAccount
  <2>7. QED
    BY <1>7, <2>2, <2>3, <2>4, <2>5, <2>6 DEF HandleReply
<1>8. ASSUME NEW w \in Workers, SetTemplateSent(w)
      PROVE  CopiesAccounted'
  <2>1. Done(w, cur[w]) /\ pc[w] = "mapping" /\ UNCHANGED <<state, accepted, lost>>
    BY <1>8 DEF SetTemplateSent, tableVars, ghostVars
  <2>2. \A j \in Rows : CopyAtHand(j)' <=> CopyAtHand(j)
    BY <2>1, DoneEffect DEF CopyAtHand, Unrecorded
  <2>3. QED
    BY <2>1, <2>2, AccountStands
<1>9. ASSUME NEW w \in Workers, Abort(w)
      PROVE  CopiesAccounted'
  BY <1>9, WriteOffKeepsAccount DEF Abort, Goes, tableVars, TypeOK
<1>10. ASSUME NEW w \in Workers, StartDrain(w) \/ StartInline(w)
       PROVE  CopiesAccounted'
  <2>1. /\ UNCHANGED <<state, reply, accepted, lost>>
        /\ pc[w] # "replied" /\ pc'[w] # "replied"
        /\ \A v \in Workers \ {w} : pc'[v] = pc[v] /\ cur'[v] = cur[v]
    BY <1>10 DEF StartDrain, StartInline, tableVars, ghostVars, TypeOK
  <2>2. \A j \in Rows : CopyAtHand(j)' <=> CopyAtHand(j)
    BY <2>1 DEF CopyAtHand, Unrecorded
  <2>3. QED
    BY <2>1, <2>2, AccountStands
<1>11. ASSUME NEW w \in Workers, Step(w)
       PROVE  CopiesAccounted'
  <2>1. CASE ClaimQueuedOutbound(w)
    BY <2>1, <1>4 DEF ClaimQueuedOutbound, Oldest
  <2>2. CASE ClaimOutboundById(w)
    BY <2>2, <1>4 DEF ClaimOutboundById, Claimable
  <2>3. QED
    BY <1>5, <1>6, <1>7, <1>8, <1>10, <1>11, <2>1, <2>2 DEF Step
<1>12. ASSUME NEW k \in Rows, Enqueue(k)
       PROVE  CopiesAccounted'
  BY <1>2, <1>12 DEF Enqueue, workerVars, ghostVars
<1>13. QED
  BY <1>1, <1>3, <1>9, <1>10, <1>11, <1>12
     DEF Next, BecomeStale, SetSendMode, tableVars, workerVars, ghostVars, vars

\* Every copy the provider took is the recorded send of its row, the answer a
\* worker has in hand, or a copy whose answer was lost: so a row is sent twice
\* only after an answer was lost.
THEOREM CopiesAreAccounted == Spec => []CopiesAccounted
<1>1. TypeOK' /\ ClaimInv /\ [Next]_vars => ClaimInv'
  BY ClaimInvStep DEF ClaimInv
<1>2. ClaimInv /\ CopiesAccounted /\ [Next]_vars => CopiesAccounted'
  BY AccountStep
<1>3. QED
  BY <1>1, <1>2, AccountInit, ClaimInvInit, TypeCorrect, PTL DEF Spec

-----------------------------------------------------------------------------
\* A row nobody has given up has an attempt left, from before it is queued.
AttemptLeft ==
  \A k \in Rows : state[k] \in {"absent", "queued", "processing"} => attempts[k] < MaxAttempts

GivenUp(k) == state[k] = "failed" => attempts[k] = MaxAttempts \/ k \in Corrupt

RetryInv == AttemptLeft /\ \A k \in Rows : GivenUp(k)

LEMMA RetryInvInit == Init => RetryInv
BY OutboxAssumption DEF Init, RetryInv, AttemptLeft, GivenUp, OutboxAssumption

\* A step that counts no attempt and fails no row.
LEMMA NoAttempt ==
  ASSUME RetryInv, UNCHANGED attempts,
         \A j \in Rows : \/ state'[j] = state[j]
                         \/ state'[j] \in RowStates \ {"absent", "failed", "queued", "processing"}
                         \/ /\ state[j] \in {"absent", "queued", "processing"}
                            /\ state'[j] \in {"queued", "processing"}
  PROVE  RetryInv'
BY DEF RetryInv, AttemptLeft, GivenUp

\* bump_outbound_attempt, on a row that somebody holds.
LEMMA BumpKeepsRetries ==
  ASSUME TypeOK, RetryInv, NEW k \in Rows, NEW max \in Nat, state[k] = "processing",
         BumpOutboundAttempt(k, max), max = MaxAttempts \/ (k \in Corrupt /\ max = 1)
  PROVE  RetryInv'
<1>1. /\ attempts[k] \in Nat /\ MaxAttempts \in Nat /\ attempts[k] < MaxAttempts
      /\ attempts'[k] = attempts[k] + 1
      /\ \A j \in Rows \ {k} : attempts'[j] = attempts[j] /\ state'[j] = state[j]
      /\ state'[k] = IF attempts[k] + 1 >= max THEN "failed" ELSE "queued"
  BY OutboxAssumption
     DEF OutboxAssumption, BumpOutboundAttempt, SetState, RetryInv, AttemptLeft, TypeOK
<1>2. AttemptLeft'
  BY <1>1 DEF RetryInv, AttemptLeft
<1>3. ASSUME NEW j \in Rows PROVE GivenUp(j)'
  BY <1>1 DEF RetryInv, GivenUp
<1>4. QED
  BY <1>2, <1>3 DEF RetryInv

\* Only a claimed row is bumped, and a claimed row is in 'processing'.
LEMMA RetryInvStep ==
  ASSUME ClaimInv, RetryInv, [Next]_vars
  PROVE  RetryInv'
<1> USE DEF ClaimInv
<1>1. ASSUME UNCHANGED <<state, attempts>> PROVE RetryInv'
  BY <1>1, NoAttempt
<1>2. ASSUME NEW k \in Rows, Insert(k) PROVE RetryInv'
  BY <1>2, NoAttempt DEF Insert, FreshRow, TypeOK
<1>3. ASSUME NEW w \in Workers, NEW B \in SUBSET Claimable, Take(w, B)
      PROVE  RetryInv'
  BY <1>3, NoAttempt DEF Take, Claimable
<1>4. ASSUME NEW w \in Workers, NEW k \in batch[w],
             NEW s \in RowStates \ {"absent", "failed", "queued", "processing"},
             SetState(k, s), UNCHANGED attempts
      PROVE  RetryInv'
  BY <1>4, NoAttempt, SetStateEffect DEF TypeOK
<1>5. ASSUME NEW w \in Workers, NEW k \in batch[w], NEW max \in Nat,
             BumpOutboundAttempt(k, max), max = MaxAttempts \/ (k \in Corrupt /\ max = 1)
      PROVE  RetryInv'
  BY <1>5, BumpKeepsRetries DEF ExclusiveClaim, TypeOK
<1>6. ASSUME NEW w \in Workers, NEW k \in Rows, HandleRow(w, k)
      PROVE  RetryInv'
  BY <1>1, <1>4, <1>5, <1>6
     DEF HandleRow, RejectKey, HasGid, MarkSuppressed, RejectPayload, StartSend,
         tableVars, RowStates
<1>7. ASSUME NEW w \in Workers, HandleReply(w)
      PROVE  RetryInv'
  <2>1. cur[w] \in batch[w]
    BY <1>7 DEF HandleReply, RetryImageless, MarkSent, MarkUndeliverable, BumpRejected,
                TransportError, WorkerShape
  <2>2. MaxAttempts \in Nat
    BY OutboxAssumption DEF OutboxAssumption
  <2>3. CASE RetryImageless(w)
    BY <1>1, <2>3 DEF RetryImageless, tableVars
  <2>4. CASE MarkSent(w) \/ MarkUndeliverable(w)
    BY <1>4, <2>1, <2>4 DEF MarkSent, MarkUndeliverable, RowStates
  <2>5. CASE BumpRejected(w) \/ TransportError(w)
    BY <1>5, <2>1, <2>2, <2>5 DEF BumpRejected, TransportError
  <2>6. QED
    BY <1>7, <2>3, <2>4, <2>5 DEF HandleReply
<1>8. ASSUME NEW w \in Workers, Step(w)
      PROVE  RetryInv'
  <2>1. CASE ClaimQueuedOutbound(w)
    BY <1>3, <2>1 DEF ClaimQueuedOutbound, Oldest
  <2>2. CASE ClaimOutboundById(w)
    BY <1>3, <2>2 DEF ClaimOutboundById, Claimable
  <2>3. QED
    BY <1>1, <1>6, <1>7, <1>8, <2>1, <2>2
       DEF Step, StartInline, Provider, SetTemplateSent, tableVars
<1>9. QED
  BY <1>1, <1>2, <1>8
     DEF Next, Ingest, Enqueue, StartDrain, Abort, BecomeStale, SetSendMode, tableVars, vars

\* A row is given up only with its attempts spent, or for its corrupt key, and
\* none is queued that has no attempt left.
THEOREM RetriesAreSpent == Spec => []RetriesSpent
<1>1. TypeOK' /\ ClaimInv /\ [Next]_vars => ClaimInv'
  BY ClaimInvStep DEF ClaimInv
<1>2. ClaimInv /\ RetryInv /\ [Next]_vars => RetryInv'
  BY RetryInvStep
<1>3. RetryInv => RetriesSpent
  BY DEF RetryInv, AttemptLeft, GivenUp, RetriesSpent, HasGid
<1>4. QED
  BY <1>1, <1>2, <1>3, RetryInvInit, ClaimInvInit, TypeCorrect, PTL DEF Spec

-----------------------------------------------------------------------------
(***************************************************************************)
(* Module Outbox implements module Notification: each step of an           *)
(* invocation is one of a notification's life, or changes nothing of it.   *)
(***************************************************************************)

\* The answer to an accepted copy of row k is still on its way to somebody.
Awaited(k) == \E w \in Workers : Unrecorded(w, k)

\* The four variables of Notification under the mapping.
outcomes == [k \in Rows |-> Outcome(k)]
awaited == [k \in Rows |-> \E w \in Workers : Unrecorded(w, k)]
mapped == <<outcomes, accepted, awaited, lost>>

\* A row a worker holds is pending; no answer to it is awaited but that worker's.
LEMMA HeldRow ==
  ASSUME ClaimInv, NEW w \in Workers, NEW k \in batch[w]
  PROVE  /\ k \in Rows /\ state[k] = "processing" /\ Outcome(k) = "pending"
         /\ Awaited(k) <=> Unrecorded(w, k)
BY OneCopyAtHand DEF ClaimInv, ExclusiveClaim, TypeOK, Awaited, Outcome

\* One row moves and the others stand: the mapped variables as updates.
LEMMA RowMoves ==
  ASSUME NEW k \in Rows,
         \A j \in Rows \ {k} : Outcome(j)' = Outcome(j) /\ (Awaited(j)' <=> Awaited(j))
  PROVE  /\ outcomes' = [outcomes EXCEPT ![k] = Outcome(k)']
         /\ awaited' = [awaited EXCEPT ![k] = Awaited(k)']
         /\ outcomes[k] = Outcome(k) /\ awaited[k] = Awaited(k)
<1>1. outcomes' = [outcomes EXCEPT ![k] = Outcome(k)'] /\ outcomes[k] = Outcome(k)
  BY DEF outcomes
<1>2. awaited' = [awaited EXCEPT ![k] = Awaited(k)'] /\ awaited[k] = Awaited(k)
  BY DEF awaited, Awaited
<1>3. QED
  BY <1>1, <1>2

\* The other workers, as far as the answers they await go.
OthersStand(w) ==
  \A v \in Workers \ {w} : pc'[v] = pc[v] /\ cur'[v] = cur[v] /\ reply'[v] = reply[v]

-----------------------------------------------------------------------------
\* A worker writes the state of a row it holds, and has no answer in hand then.
LEMMA SettleMoves ==
  ASSUME ClaimInv, NEW w \in Workers, NEW k \in batch[w],
         NEW s \in RowStates \ {"absent"}, SetState(k, s), OthersStand(w),
         pc'[w] # "replied", \A j \in Rows : Unrecorded(w, j) => j = k
  PROVE  /\ \A j \in Rows \ {k} : Outcome(j)' = Outcome(j) /\ (Awaited(j)' <=> Awaited(j))
         /\ ~Awaited(k)'
         /\ Outcome(k)' = IF s \in {"queued", "processing"} THEN "pending" ELSE s
<1>1. k \in Rows /\ (Awaited(k) <=> Unrecorded(w, k))
  BY HeldRow
<1>2. state'[k] = s /\ \A j \in Rows \ {k} : state'[j] = state[j]
  BY <1>1, SetStateEffect DEF ClaimInv
<1>3. \A j \in Rows : Unrecorded(w, j)' = FALSE
  BY DEF Unrecorded
<1>4. \A v \in Workers \ {w}, j \in Rows : Unrecorded(v, j)' <=> Unrecorded(v, j)
  BY DEF Unrecorded, OthersStand
<1>5. \A v \in Workers \ {w} : ~Unrecorded(v, k)
  BY <1>1 DEF ClaimInv, ExclusiveClaim, WorkerShape, Unrecorded
<1>6. ASSUME NEW j \in Rows \ {k}
      PROVE  Outcome(j)' = Outcome(j) /\ (Awaited(j)' <=> Awaited(j))
  <2>1. Outcome(j)' = Outcome(j)
    BY <1>2 DEF Outcome
  <2>2. QED
    BY <2>1, <1>3, <1>4 DEF Awaited
<1>7. ~Awaited(k)'
  BY <1>1, <1>3, <1>4, <1>5 DEF Awaited
<1>8. Outcome(k)' = IF s \in {"queued", "processing"} THEN "pending" ELSE s
  BY <1>2 DEF Outcome, RowStates
<1>9. QED
  BY <1>6, <1>7, <1>8

\* ... with no copy accepted: the row is given up, or still pending.
LEMMA SettleIsGiveUp ==
  ASSUME ClaimInv, NEW w \in Workers, NEW k \in batch[w],
         NEW s \in RowStates \ {"absent", "sent"}, SetState(k, s), OthersStand(w),
         pc'[w] # "replied", \A j \in Rows : ~Unrecorded(w, j),
         accepted' = accepted, lost' = lost
  PROVE  N!GiveUp(k) \/ UNCHANGED mapped
<1>1. k \in Rows /\ Outcome(k) = "pending" /\ ~Awaited(k)
  BY HeldRow
<1>2. /\ \A j \in Rows \ {k} : Outcome(j)' = Outcome(j) /\ (Awaited(j)' <=> Awaited(j))
      /\ ~Awaited(k)'
      /\ Outcome(k)' = IF s \in {"queued", "processing"} THEN "pending" ELSE s
  BY SettleMoves
<1>3. /\ outcomes' = [outcomes EXCEPT ![k] = Outcome(k)']
      /\ awaited' = [awaited EXCEPT ![k] = Awaited(k)']
      /\ outcomes[k] = Outcome(k) /\ awaited[k] = Awaited(k)
  BY <1>1, <1>2, RowMoves
<1>4. awaited' = awaited
  BY <1>1, <1>2 DEF awaited, Awaited
<1>5. CASE s \in {"queued", "processing"}
  <2>1. outcomes' = outcomes
    BY <1>1, <1>2, <1>5 DEF outcomes
  <2>2. QED
    BY <1>4, <2>1 DEF mapped
<1>6. CASE s \notin {"queued", "processing"}
  <2>1. s \in N!Settled \ {"sent"} /\ Outcome(k)' = s
    BY <1>2, <1>6 DEF N!Settled, RowStates
  <2>2. outcomes[k] = "pending" /\ ~awaited[k] /\ outcomes' = [outcomes EXCEPT ![k] = s]
    BY <1>1, <1>3, <2>1
  <2>3. QED
    BY <1>4, <2>1, <2>2 DEF N!GiveUp, outcomes, awaited
<1>7. QED
  BY <1>5, <1>6

\* A worker whose answer is lost: the copy, if there was one, is written off.
LEMMA LossIsWriteOff ==
  ASSUME ClaimInv, NEW w \in Workers, NEW k, k = cur[w], WriteOffCopy(w), OthersStand(w), accepted' = accepted,
         pc'[w] # "replied", pc[w] = "replied", NEW s \in {"processing", "failed", "queued"},
         s = "processing" \/ SetState(k, s), s = "processing" => state' = state
  PROVE  N!WriteOff(k) \/ N!GiveUp(k) \/ UNCHANGED mapped
<1>0. k \in Rows /\ k \in batch[w] /\ state[k] = "processing"
  BY HeldRow DEF ClaimInv, WorkerShape
<1> USE <1>0
<1>1. /\ state'[k] = s /\ \A j \in Rows \ {k} : state'[j] = state[j]
  BY SetStateEffect DEF ClaimInv, RowStates
<1>2. \A j \in Rows : Unrecorded(w, j)' = FALSE /\ (Unrecorded(w, j) => j = k)
  BY DEF Unrecorded
<1>3. \A v \in Workers \ {w}, j \in Rows : Unrecorded(v, j)' <=> Unrecorded(v, j)
  BY DEF Unrecorded, OthersStand
<1>4. \A v \in Workers \ {w} : ~Unrecorded(v, k)
  BY DEF ClaimInv, ExclusiveClaim, WorkerShape, Unrecorded
<1>5. ASSUME NEW j \in Rows \ {k}
      PROVE  Outcome(j)' = Outcome(j) /\ (Awaited(j)' <=> Awaited(j))
  <2>1. Outcome(j)' = Outcome(j)
    BY <1>1 DEF Outcome
  <2>2. QED
    BY <2>1, <1>2, <1>3 DEF Awaited
<1>6. /\ ~Awaited(k)' /\ (Awaited(k) <=> Unrecorded(w, k)) /\ Outcome(k) = "pending"
      /\ Outcome(k)' = IF s = "failed" THEN "failed" ELSE "pending"
  <2>1. ~Awaited(k)' /\ (Awaited(k) <=> Unrecorded(w, k))
    BY <1>2, <1>3, <1>4 DEF Awaited
  <2>2. QED
    BY <1>1, <2>1 DEF Outcome
<1>7. /\ outcomes' = [outcomes EXCEPT ![k] = Outcome(k)']
      /\ awaited' = [awaited EXCEPT ![k] = Awaited(k)']
      /\ outcomes[k] = Outcome(k) /\ awaited[k] = Awaited(k)
  BY <1>5, RowMoves
<1>8. CASE Unrecorded(w, k)
  <2>1. lost' = [lost EXCEPT ![k] = lost[k] + 1]
    BY <1>2, <1>8 DEF WriteOffCopy, ClaimInv, TypeOK
  <2>2. /\ outcomes[k] = "pending" /\ awaited[k]
        /\ \E o \in {"pending", "failed"} : outcomes' = [outcomes EXCEPT ![k] = o]
        /\ awaited' = [awaited EXCEPT ![k] = FALSE]
    BY <1>6, <1>7, <1>8 DEF Awaited
  <2>3. QED
    BY <2>1, <2>2 DEF N!WriteOff, outcomes, awaited
<1>9. CASE ~Unrecorded(w, k)
  <2>1. lost' = lost
    BY <1>2, <1>9 DEF WriteOffCopy, ClaimInv, TypeOK
  <2>2. awaited' = awaited
    BY <1>5, <1>6, <1>9 DEF awaited, Awaited
  <2>3. CASE s = "failed"
    <3>1. /\ outcomes[k] = "pending" /\ ~awaited[k] /\ "failed" \in N!Settled \ {"sent"}
          /\ outcomes' = [outcomes EXCEPT ![k] = "failed"]
      BY <1>6, <1>7, <1>9, <2>3 DEF N!Settled
    <3>2. QED
      BY <2>1, <2>2, <3>1 DEF N!GiveUp, outcomes, awaited
  <2>4. CASE s # "failed"
    <3>1. outcomes' = outcomes
      BY <1>5, <1>6, <2>4 DEF outcomes
    <3>2. QED
      BY <2>1, <2>2, <3>1 DEF mapped
  <2>5. QED
    BY <2>3, <2>4
<1>10. QED
  BY <1>8, <1>9

-----------------------------------------------------------------------------
\* The step is one of Notification's, or a stutter there.
Maps == N!Next \/ UNCHANGED mapped

LEMMA InsertMaps ==
  ASSUME ClaimInv, NEW k \in Rows, Insert(k), UNCHANGED ghostVars,
         \A j \in Rows : Awaited(j)' <=> Awaited(j)
  PROVE  Maps
<1>1. UNCHANGED <<accepted, lost>> /\ awaited' = awaited
  BY DEF ghostVars, awaited, Awaited
<1>2. CASE FreshRow(k)
  <2>1. state'[k] = "queued" /\ state[k] = "absent" /\ \A j \in Rows \ {k} : state'[j] = state[j]
    BY <1>2 DEF Insert, FreshRow, ClaimInv, TypeOK
  <2>2. /\ Outcome(k) = "none" /\ Outcome(k)' = "pending"
        /\ \A j \in Rows \ {k} : Outcome(j)' = Outcome(j)
    BY <2>1 DEF Outcome
  <2>3. outcomes[k] = "none" /\ outcomes' = [outcomes EXCEPT ![k] = "pending"]
    BY <2>2, RowMoves
  <2>4. N!Request(k)
    BY <1>1, <2>3 DEF N!Request, outcomes, awaited
  <2>5. QED
    BY <2>4 DEF N!Next, Maps
<1>3. CASE ~FreshRow(k)
  BY <1>1, <1>3 DEF Insert, outcomes, Outcome, mapped, Maps
<1>4. QED
  BY <1>2, <1>3

\* A claim: 'queued' and 'processing' are the same to the business.
LEMMA TakeMaps ==
  ASSUME ClaimInv, NEW w \in Workers, NEW B \in SUBSET Claimable, Take(w, B), pc[w] = "ready"
  PROVE  Maps
<1>1. \A j \in Rows : Outcome(j)' = Outcome(j)
  BY DEF Take, Claimable, Outcome
<1>2. \A v \in Workers, j \in Rows : Unrecorded(v, j)' <=> Unrecorded(v, j)
  BY DEF Take, Goes, Unrecorded, ClaimInv, TypeOK
<1>3. outcomes' = outcomes /\ awaited' = awaited
  BY <1>1, <1>2 DEF outcomes, awaited
<1>4. QED
  BY <1>3 DEF Take, ghostVars, mapped, Maps

LEMMA DoneStands ==
  ASSUME ClaimInv, NEW w \in Workers, NEW k, Done(w, k)
  PROVE  OthersStand(w) /\ pc'[w] # "replied"
BY DoneEffect DEF ClaimInv, OthersStand

LEMMA HandleRowMaps ==
  ASSUME ClaimInv, NEW w \in Workers, NEW k \in Rows, HandleRow(w, k)
  PROVE  Maps
<1>1. pc[w] = "pick" /\ k \in batch[w]
  BY DEF HandleRow, RejectKey, MarkSuppressed, RejectPayload, StartSend
<1>2. \A j \in Rows : ~Unrecorded(w, j)
  BY <1>1 DEF Unrecorded
<1>3. CASE StartSend(w, k)
  <2>1. /\ state' = state /\ accepted' = accepted /\ lost' = lost /\ reply' = reply
        /\ pc'[w] = "sending" /\ \A v \in Workers \ {w} : pc'[v] = pc[v] /\ cur'[v] = cur[v]
    BY <1>3 DEF StartSend, Goes, tableVars, ghostVars, ClaimInv, TypeOK
  <2>2. \A v \in Workers, j \in Rows : Unrecorded(v, j)' <=> Unrecorded(v, j)
    BY <1>1, <2>1 DEF Unrecorded
  <2>3. outcomes' = outcomes /\ awaited' = awaited
    BY <2>1, <2>2 DEF outcomes, Outcome, awaited
  <2>4. QED
    BY <2>1, <2>3 DEF mapped, Maps
<1>4. CASE ~StartSend(w, k)
  <2>1. Done(w, k) /\ UNCHANGED <<accepted, lost>>
    BY <1>4 DEF HandleRow, RejectKey, MarkSuppressed, RejectPayload, ghostVars
  <2>2. \E s \in RowStates \ {"absent", "sent"} : SetState(k, s)
    BY <1>4, BumpEffect DEF HandleRow, RejectKey, MarkSuppressed, RejectPayload, RowStates
  <2>3. N!GiveUp(k) \/ UNCHANGED mapped
    BY <1>1, <1>2, <2>1, <2>2, DoneStands, SettleIsGiveUp
  <2>4. QED
    BY <2>3 DEF N!Next, Maps
<1>5. QED
  BY <1>3, <1>4

LEMMA ProviderMaps ==
  ASSUME ClaimInv, NEW w \in Workers, NEW v \in Replies, Provider(w, v)
  PROVE  Maps
<1>1. PICK k : k = cur[w]
  OBVIOUS
<1>2. /\ pc[w] = "sending" /\ pc'[w] = "replied" /\ reply'[w] = v /\ cur' = cur
      /\ state' = state /\ lost' = lost
      /\ \A u \in Workers \ {w} : pc'[u] = pc[u] /\ reply'[u] = reply[u]
  BY DEF Provider, Goes, tableVars, ClaimInv, TypeOK
<1>3. k \in batch[w] /\ k \in Rows /\ Outcome(k) = "pending" /\ ~Awaited(k)
  BY <1>1, <1>2, HeldRow DEF ClaimInv, WorkerShape, Unrecorded
<1>4. \A u \in Workers \ {w}, j \in Rows : Unrecorded(u, j)' <=> Unrecorded(u, j)
  BY <1>2 DEF Unrecorded
<1>5. \A j \in Rows : /\ ~Unrecorded(w, j)
                      /\ Unrecorded(w, j)' <=> (v = "accepted" /\ j = k)
  BY <1>1, <1>2 DEF Unrecorded
<1>6. outcomes' = outcomes
  BY <1>2 DEF outcomes, Outcome
<1>7. CASE v # "accepted"
  <2>1. accepted' = accepted
    BY <1>7 DEF Provider
  <2>2. awaited' = awaited
    BY <1>4, <1>5, <1>7 DEF awaited
  <2>3. QED
    BY <1>2, <1>6, <2>1, <2>2 DEF mapped, Maps
<1>8. CASE v = "accepted"
  <2>1. accepted' = [accepted EXCEPT ![k] = accepted[k] + 1]
    BY <1>1, <1>8 DEF Provider
  <2>2. awaited' = [awaited EXCEPT ![k] = TRUE]
    BY <1>3, <1>4, <1>5, <1>8 DEF awaited
  <2>3. outcomes[k] = "pending" /\ ~awaited[k]
    BY <1>3 DEF outcomes, awaited, Awaited
  <2>4. N!Accept(k)
    BY <1>2, <1>6, <2>1, <2>2, <2>3 DEF N!Accept, outcomes, awaited
  <2>5. QED
    BY <1>3, <2>4 DEF N!Next, Maps
<1>9. QED
  BY <1>7, <1>8

LEMMA SentIsConfirm ==
  ASSUME ClaimInv, NEW w \in Workers, MarkSent(w)
  PROVE  Maps
<1>1. PICK k : k = cur[w]
  OBVIOUS
<1>2. /\ pc[w] = "replied" /\ reply[w] = "accepted" /\ SetState(k, "sent")
      /\ accepted' = accepted /\ lost' = lost
  BY <1>1 DEF MarkSent, ghostVars
<1>3. OthersStand(w) /\ pc'[w] # "replied"
  <2>1. CASE k \notin Confirmation
    BY <1>1, <2>1, DoneStands DEF MarkSent
  <2>2. CASE k \in Confirmation
    <3>1. /\ pc' = [pc EXCEPT ![w] = "mapping"] /\ cur' = cur
          /\ reply' = [reply EXCEPT ![w] = "none"]
      BY <1>1, <2>2, Zenon DEF MarkSent, Goes
    <3>2. QED
      BY <3>1 DEF OthersStand, ClaimInv, TypeOK
  <2>3. QED
    BY <2>1, <2>2
<1>4. /\ k \in batch[w] /\ k \in Rows /\ Outcome(k) = "pending" /\ Awaited(k)
  BY <1>1, <1>2, HeldRow DEF ClaimInv, WorkerShape, Unrecorded
<1>5. \A j \in Rows : Unrecorded(w, j) => j = k
  BY <1>1 DEF Unrecorded
<1>6. /\ \A j \in Rows \ {k} : Outcome(j)' = Outcome(j) /\ (Awaited(j)' <=> Awaited(j))
      /\ ~Awaited(k)' /\ Outcome(k)' = "sent"
  BY <1>2, <1>3, <1>4, <1>5, SettleMoves DEF RowStates
<1>7. /\ outcomes' = [outcomes EXCEPT ![k] = "sent"] /\ outcomes[k] = "pending"
      /\ awaited' = [awaited EXCEPT ![k] = FALSE] /\ awaited[k]
  BY <1>4, <1>6, RowMoves DEF Awaited
<1>8. N!Confirm(k)
  BY <1>2, <1>7 DEF N!Confirm, outcomes, awaited
<1>9. QED
  BY <1>4, <1>8 DEF N!Next, Maps

LEMMA HandleReplyMaps ==
  ASSUME ClaimInv, NEW w \in Workers, HandleReply(w)
  PROVE  Maps
<1>1. PICK k : k = cur[w]
  OBVIOUS
<1>2. pc[w] = "replied" /\ k \in batch[w] /\ k \in Rows
  BY <1>1 DEF HandleReply, RetryImageless, MarkSent, MarkUndeliverable, BumpRejected,
              TransportError, ClaimInv, WorkerShape, TypeOK
<1>3. CASE RetryImageless(w)
  <2>1. /\ state' = state /\ accepted' = accepted /\ lost' = lost /\ cur' = cur
        /\ reply[w] = "media" /\ pc'[w] = "sending"
        /\ \A v \in Workers \ {w} : pc'[v] = pc[v] /\ reply'[v] = reply[v]
    BY <1>3 DEF RetryImageless, Goes, tableVars, ghostVars, ClaimInv, TypeOK
  <2>2. \A v \in Workers, j \in Rows : Unrecorded(v, j)' <=> Unrecorded(v, j)
    BY <2>1 DEF Unrecorded
  <2>3. outcomes' = outcomes /\ awaited' = awaited
    BY <2>1, <2>2 DEF outcomes, Outcome, awaited
  <2>4. QED
    BY <2>1, <2>3 DEF mapped, Maps
<1>4. CASE MarkUndeliverable(w) \/ BumpRejected(w)
  <2>1. Done(w, k) /\ UNCHANGED <<accepted, lost>> /\ reply[w] # "accepted"
    BY <1>1, <1>4 DEF MarkUndeliverable, BumpRejected, ghostVars
  <2>2. \E s \in RowStates \ {"absent", "sent"} : SetState(k, s)
    BY <1>1, <1>4, BumpEffect DEF MarkUndeliverable, BumpRejected, RowStates
  <2>3. \A j \in Rows : ~Unrecorded(w, j)
    BY <2>1 DEF Unrecorded
  <2>4. N!GiveUp(k) \/ UNCHANGED mapped
    BY <1>2, <2>1, <2>2, <2>3, DoneStands, SettleIsGiveUp
  <2>5. QED
    BY <1>2, <2>4 DEF N!Next, Maps
<1>5. CASE TransportError(w)
  <2>1. \E s \in {"failed", "queued"} : SetState(k, s)
    BY <1>1, <1>5, BumpEffect DEF TransportError
  <2>2. Done(w, k) /\ WriteOffCopy(w) /\ accepted' = accepted
    BY <1>1, <1>5 DEF TransportError
  <2>3. N!WriteOff(k) \/ N!GiveUp(k) \/ UNCHANGED mapped
    BY <1>1, <1>2, <2>1, <2>2, DoneStands, LossIsWriteOff
  <2>4. QED
    BY <1>2, <2>3 DEF N!Next, Maps
<1>6. QED
  BY <1>3, <1>4, <1>5, SentIsConfirm DEF HandleReply

\* An invocation is cut off: what it awaited is lost, what it held stays.
LEMMA AbortMaps ==
  ASSUME ClaimInv, NEW w \in Workers, Abort(w)
  PROVE  Maps
<1>1. PICK k : k = cur[w]
  OBVIOUS
<1>2. /\ WriteOffCopy(w) /\ accepted' = accepted /\ state' = state
      /\ pc'[w] = "idle" /\ OthersStand(w)
  BY DEF Abort, Goes, tableVars, OthersStand, ClaimInv, TypeOK
<1>3. CASE pc[w] = "replied"
  <2>1. k \in Rows
    BY <1>1, <1>3 DEF ClaimInv, WorkerShape, TypeOK
  <2>2. N!WriteOff(k) \/ N!GiveUp(k) \/ UNCHANGED mapped
    BY <1>1, <1>2, <1>3, LossIsWriteOff
  <2>3. QED
    BY <2>1, <2>2 DEF N!Next, Maps
<1>4. CASE pc[w] # "replied"
  <2>1. \A v \in Workers, j \in Rows : Unrecorded(v, j)' <=> Unrecorded(v, j)
    BY <1>2, <1>4 DEF Unrecorded, OthersStand
  <2>2. lost' = lost
    BY <1>2, <1>4 DEF WriteOffCopy, Unrecorded, ClaimInv, TypeOK
  <2>3. outcomes' = outcomes /\ awaited' = awaited
    BY <1>2, <2>1 DEF outcomes, Outcome, awaited
  <2>4. QED
    BY <1>2, <2>2, <2>3 DEF mapped, Maps
<1>5. QED
  BY <1>3, <1>4

\* A step that touches no row and no answer.
LEMMA IdleMaps ==
  ASSUME ClaimInv, UNCHANGED <<state, accepted, lost>>,
         \A v \in Workers, j \in Rows : Unrecorded(v, j)' <=> Unrecorded(v, j)
  PROVE  Maps
BY DEF outcomes, Outcome, awaited, mapped, Maps

LEMMA StepMaps ==
  ASSUME ClaimInv, [Next]_vars
  PROVE  Maps
<1>1. CASE UNCHANGED vars
  BY <1>1, IdleMaps DEF vars, tableVars, workerVars, ghostVars, Unrecorded
<1>2. ASSUME NEW w \in Workers, NEW k \in Rows, Ingest(w, k) PROVE Maps
  <2>1. \A j \in Rows : Awaited(j)' <=> Awaited(j)
    BY <1>2 DEF Ingest, Awaited, Unrecorded, ClaimInv, TypeOK
  <2>2. QED
    BY <1>2, <2>1, InsertMaps DEF Ingest
<1>3. ASSUME NEW k \in Rows, Enqueue(k) PROVE Maps
  BY <1>3, InsertMaps DEF Enqueue, workerVars, Awaited, Unrecorded
<1>4. ASSUME NEW w \in Workers, StartDrain(w) \/ StartInline(w) \/ SetTemplateSent(w)
      PROVE  Maps
  <2>1. /\ UNCHANGED <<state, accepted, lost>> /\ pc[w] # "replied" /\ pc'[w] # "replied"
        /\ OthersStand(w)
    <3>1. CASE SetTemplateSent(w)
      BY <3>1, DoneStands DEF SetTemplateSent, tableVars, ghostVars
    <3>2. CASE StartDrain(w) \/ StartInline(w)
      BY <3>2 DEF StartDrain, StartInline, tableVars, ghostVars, OthersStand, ClaimInv, TypeOK
    <3>3. QED
      BY <1>4, <3>1, <3>2
  <2>2. QED
    BY <2>1, IdleMaps DEF Unrecorded, OthersStand
<1>5. ASSUME NEW w \in Workers, Step(w) PROVE Maps
  <2>1. CASE ClaimQueuedOutbound(w)
    BY <2>1, TakeMaps DEF ClaimQueuedOutbound, Oldest
  <2>2. CASE ClaimOutboundById(w)
    BY <2>2, TakeMaps DEF ClaimOutboundById, Claimable
  <2>3. QED
    BY <1>4, <1>5, <2>1, <2>2, HandleRowMaps, ProviderMaps, HandleReplyMaps DEF Step
<1>6. ASSUME NEW k \in Rows, BecomeStale(k) PROVE Maps
  BY <1>6, IdleMaps DEF BecomeStale, workerVars, ghostVars, Unrecorded
<1>7. ASSUME NEW m \in OwnerModes, SetSendMode(m) PROVE Maps
  BY <1>7, IdleMaps DEF SetSendMode, tableVars, workerVars, ghostVars, Unrecorded
<1>8. QED
  BY <1>1, <1>2, <1>3, <1>4, <1>5, <1>6, <1>7, AbortMaps DEF Next

\* The outbox implements the notification: whatever invocations interleave,
\* crash, reclaim and retry, each row is asked for once, settled once, and
\* every copy beyond the recorded one is excused by an answer that was lost.
THEOREM Refines == Spec => ImplementsNotification
<1>1. Init => N!Init
  BY DEF Init, N!Init, Outcome, Unrecorded
<1>2. ClaimInv /\ [Next]_vars => [N!Next]_(N!vars)
  BY StepMaps DEF Maps, mapped, outcomes, awaited, N!vars
<1>3. TypeOK' /\ ClaimInv /\ [Next]_vars => ClaimInv'
  BY ClaimInvStep DEF ClaimInv
<1>4. QED
  BY <1>1, <1>2, <1>3, ClaimInvInit, TypeCorrect, PTL
     DEF Spec, ImplementsNotification, N!Spec
=============================================================================
