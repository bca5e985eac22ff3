------------------------------- MODULE Outbox -------------------------------
(***************************************************************************)
(* The outbound queue: the outbound_messages table and the invocations     *)
(* that send its rows.  A WORKER is one invocation: a webhook handler that *)
(* queues a row and sends it inline (send_inline_outbound), or a run of    *)
(* the drain job (run_outbox_drain).  Its pc names the await it is at:     *)
(*                                                                         *)
(*   idle -> inline -> ready -> pick -> sending -> replied -> pick / idle  *)
(*   idle ----------->                                    `-> mapping -'   *)
(*                                                                         *)
(* Between any two of its steps other workers run, and it may be cut off.  *)
(* What the provider reports of a sent row later (delivered, failed) and   *)
(* the resends that follow are not the queue's.                            *)
(*                                                                         *)
(* A definition named Broken... is its neighbour with a bug; no action     *)
(* uses it.  It shows that a property would catch that bug.                *)
(***************************************************************************)
EXTENDS Naturals, FiniteSets

CONSTANTS
  Rows,          \* dedupe keys; UNIQUE, so a key is a row
  Orders,        \* order gids
  OrderOf,       \* the order a confirmation row is about
  Confirmation,  \* order_created: and order_reminder: rows
  Corrupt,       \* rows whose dedupe key yields no gid
  Unrenderable,  \* rows whose payload parse_payload rejects
  WithImage,     \* rows whose payload has a header image
  Backlog,       \* rows queued with no inline send behind them
  Allowlisted,   \* rows whose phone is on the allowlist
  Workers,
  NoRow,
  MaxAttempts,   \* bump_outbound_attempt's max_attempts: 5 in the code
  ClaimLimit,    \* _CLAIM_LIMIT: 5 in the code
  OwnerModes,    \* BOUND: the modes the owner switches between
  MaxAborts      \* BOUND: invocations cut off in a behaviour

ASSUME OutboxAssumption ==
  /\ IsFiniteSet(Rows)
  /\ NoRow \notin Rows
  /\ OrderOf \in [Confirmation -> Orders]
  /\ Confirmation \subseteq Rows
  /\ MaxAttempts \in Nat \ {0}
  /\ ClaimLimit \in Nat \ {0}
  /\ MaxAborts \in Nat
  /\ OwnerModes \subseteq {"off", "shadow", "allowlist", "live"}

VARIABLES
  (* outbound_messages, and order_mappings.status *)
  state, attempts, born, stale, status,
  (* the invocations *)
  pc, mode, batch, cur, reply, imageless,
  (* the owner's kill switch *)
  sendMode,
  (* observers: what the provider accepted, and what nobody was told of *)
  accepted, lost, aborts

tableVars == <<state, attempts, born, stale>>
workerVars == <<pc, mode, batch, cur, reply, imageless>>
ghostVars == <<accepted, lost, aborts>>
vars == <<tableVars, status, workerVars, sendMode, ghostVars>>

RowStates == {"absent", "queued", "processing",
              "sent", "suppressed", "failed", "undeliverable"}
Terminal == {"sent", "suppressed", "failed", "undeliverable"}
MappingStatus == {"none", "pending", "template_sent", "confirmed",
                  "cancel_requested", "cancel_reconciling", "cancelled"}
SendModes == {"off", "shadow", "allowlist", "live"}
Replies == {"none", "accepted", "media", "undeliverable", "rejected",
            "unreachable"}
PCs == {"idle", "inline", "ready", "pick", "sending", "replied", "mapping"}

Init ==
  /\ state = [k \in Rows |-> "absent"]
  /\ attempts = [k \in Rows |-> 0]
  /\ born = [k \in Rows |-> 0]
  /\ stale = {}
  /\ status = [o \in Orders |-> "none"]
  /\ pc = [w \in Workers |-> "idle"]
  /\ mode = [w \in Workers |-> "off"]
  /\ batch = [w \in Workers |-> {}]
  /\ cur = [w \in Workers |-> NoRow]
  /\ reply = [w \in Workers |-> "none"]
  /\ imageless = [w \in Workers |-> FALSE]
  /\ sendMode = "off"
  /\ accepted = [k \in Rows |-> 0]
  /\ lost = [k \in Rows |-> 0]
  /\ aborts = 0

-----------------------------------------------------------------------------
(* Enqueueing: INSERT ... ON CONFLICT (dedupe_key) DO NOTHING RETURNING id *)

\* Broken: the conflict on the key forgets rows that are no longer queued.
BrokenFreshRow(k) == state[k] # "queued"

FreshRow(k) == state[k] = "absent"

Insert(k) ==
  /\ state' = IF FreshRow(k) THEN [state EXCEPT ![k] = "queued"] ELSE state
  /\ born' = IF FreshRow(k)
             THEN [born EXCEPT ![k] = Cardinality({j \in Rows : state[j] # "absent"})]
             ELSE born
  /\ UNCHANGED <<attempts, stale>>

\* The orders/create handler upserts the mapping in the same transaction: the
\* insert defaults status to 'pending' and the conflict branch leaves it alone.
UpsertMapping(k) ==
  status' = IF k \in Confirmation /\ status[OrderOf[k]] = "none"
            THEN [status EXCEPT ![OrderOf[k]] = "pending"] ELSE status

\* A webhook handler queues a row and goes on to send it inline; without a
\* fresh row there is no id, and send_inline_outbound returns at once.
Ingest(w, k) ==
  /\ pc[w] = "idle" /\ k \notin Backlog
  /\ Insert(k) /\ UpsertMapping(k)
  /\ pc' = [pc EXCEPT ![w] = IF FreshRow(k) THEN "inline" ELSE "idle"]
  /\ cur' = [cur EXCEPT ![w] = IF FreshRow(k) THEN k ELSE NoRow]
  /\ UNCHANGED <<mode, batch, reply, imageless, sendMode, ghostVars>>

\* A row queued with no inline send to follow: a reminder, or a row an older
\* deployment left behind.
Enqueue(k) ==
  /\ k \in Backlog
  /\ Insert(k)
  /\ UNCHANGED <<status, workerVars, sendMode, ghostVars>>

-----------------------------------------------------------------------------
(* Claiming *)

\* load_controls: the run keeps this snapshot of the kill switch to its end.
\* sendMode = "off" also stands for a channel with no WhatsApp credentials.
StartDrain(w) ==
  /\ pc[w] = "idle" /\ sendMode # "off"
  /\ pc' = [pc EXCEPT ![w] = "ready"]
  /\ mode' = [mode EXCEPT ![w] = sendMode]
  /\ UNCHANGED <<tableVars, status, batch, cur, reply, imageless, sendMode, ghostVars>>

StartInline(w) ==
  /\ pc[w] = "inline"
  /\ IF sendMode = "off"
     THEN /\ pc' = [pc EXCEPT ![w] = "idle"]
          /\ cur' = [cur EXCEPT ![w] = NoRow]
          /\ UNCHANGED mode
     ELSE /\ pc' = [pc EXCEPT ![w] = "ready"]
          /\ mode' = [mode EXCEPT ![w] = sendMode]
          /\ UNCHANGED cur
  /\ UNCHANGED <<tableVars, status, batch, reply, imageless, sendMode, ghostVars>>

\* Broken: abandoned rows are not told from rows being sent.
BrokenClaimable == {k \in Rows : state[k] \in {"queued", "processing"}}

\* Broken: abandoned rows are never reclaimed.
BrokenReclaim == {k \in Rows : state[k] = "queued"}

Claimable == {k \in Rows : state[k] = "queued" \/ (state[k] = "processing" /\ k \in stale)}

\* ORDER BY created_at LIMIT n
Oldest(S) ==
  {B \in SUBSET S :
     /\ \/ Cardinality(B) = ClaimLimit
        \/ B = S /\ Cardinality(S) < ClaimLimit
     /\ \A b \in B, s \in S \ B : born[b] <= born[s]}

Goes(w, point) == pc' = [pc EXCEPT ![w] = point]

\* One statement flips the claimed rows to processing and renews updated_at.
Take(w, B) ==
  /\ state' = [k \in Rows |-> IF k \in B THEN "processing" ELSE state[k]]
  /\ stale' = stale \ B
  /\ batch' = [batch EXCEPT ![w] = B]
  /\ cur' = [cur EXCEPT ![w] = NoRow]
  /\ Goes(w, IF B = {} THEN "idle" ELSE "pick")
  /\ mode' = [mode EXCEPT ![w] = IF B = {} THEN "off" ELSE @]
  /\ UNCHANGED <<attempts, born, status, reply, imageless, sendMode, ghostVars>>

ClaimQueuedOutbound(w) ==
  /\ pc[w] = "ready" /\ cur[w] = NoRow
  /\ \E B \in Oldest(Claimable) : Take(w, B)

\* Broken: the claim by id does not ask whether the row is still queued.
BrokenClaimById(w) ==
  /\ pc[w] = "ready" /\ cur[w] # NoRow
  /\ Take(w, {cur[w]})

ClaimOutboundById(w) ==
  /\ pc[w] = "ready" /\ cur[w] # NoRow
  /\ Take(w, {cur[w]} \cap {k \in Rows : state[k] = "queued"})

-----------------------------------------------------------------------------
(* send_one_outbound, for one row k of the batch *)

SendDecision(m, k) ==
  IF m = "live" \/ (m = "allowlist" /\ k \in Allowlisted) THEN "send" ELSE "suppress"

\* The caller is done with row k: the drain's loop goes on, the rest returns.
Done(w, k) ==
  LET rest == batch[w] \ {k} IN
  /\ batch' = [batch EXCEPT ![w] = rest]
  /\ cur' = [cur EXCEPT ![w] = NoRow]
  /\ reply' = [reply EXCEPT ![w] = "none"]
  /\ imageless' = [imageless EXCEPT ![w] = FALSE]
  /\ Goes(w, IF rest = {} THEN "idle" ELSE "pick")
  /\ mode' = [mode EXCEPT ![w] = IF rest = {} THEN "off" ELSE @]

\* Every UPDATE is WHERE id = $1 alone and renews updated_at.
SetState(k, s) ==
  /\ state' = [state EXCEPT ![k] = s]
  /\ stale' = stale \ {k}
  /\ UNCHANGED born

\* Broken: the cap is compared with the attempts before this one.
BrokenBump(k, max) ==
  /\ attempts' = [attempts EXCEPT ![k] = @ + 1]
  /\ SetState(k, IF attempts[k] >= max THEN "failed" ELSE "queued")

BumpOutboundAttempt(k, max) ==
  /\ attempts' = [attempts EXCEPT ![k] = @ + 1]
  /\ SetState(k, IF attempts[k] + 1 >= max THEN "failed" ELSE "queued")

HasGid(k) == k \notin Corrupt
Renders(k) == k \notin Unrenderable

RejectKey(w, k) ==
  /\ pc[w] = "pick" /\ k \in batch[w] /\ ~HasGid(k)
  /\ BumpOutboundAttempt(k, 1) /\ Done(w, k)
  /\ UNCHANGED <<status, sendMode, ghostVars>>

MarkSuppressed(w, k) ==
  /\ pc[w] = "pick" /\ k \in batch[w] /\ HasGid(k)
  /\ SendDecision(mode[w], k) = "suppress"
  /\ SetState(k, "suppressed") /\ Done(w, k)
  /\ UNCHANGED <<attempts, status, sendMode, ghostVars>>

RejectPayload(w, k) ==
  /\ pc[w] = "pick" /\ k \in batch[w] /\ HasGid(k)
  /\ SendDecision(mode[w], k) = "send" /\ ~Renders(k)
  /\ SetState(k, "undeliverable") /\ Done(w, k)
  /\ UNCHANGED <<attempts, status, sendMode, ghostVars>>

StartSend(w, k) ==
  /\ pc[w] = "pick" /\ k \in batch[w] /\ HasGid(k) /\ Renders(k)
  /\ SendDecision(mode[w], k) = "send"
  /\ Goes(w, "sending")
  /\ cur' = [cur EXCEPT ![w] = k]
  /\ UNCHANGED <<tableVars, status, mode, batch, reply, imageless, sendMode, ghostVars>>

\* The provider's verdict on the POST.  It has not reached the worker yet.
Provider(w, verdict) ==
  /\ pc[w] = "sending"
  /\ reply' = [reply EXCEPT ![w] = verdict]
  /\ accepted' = IF verdict = "accepted"
                 THEN [accepted EXCEPT ![cur[w]] = @ + 1] ELSE accepted
  /\ Goes(w, "replied")
  /\ UNCHANGED <<tableVars, status, mode, batch, cur, imageless, sendMode, lost, aborts>>

\* A header image the provider could not fetch: the same row once more,
\* at once, without it.
RetryImageless(w) ==
  /\ pc[w] = "replied" /\ reply[w] = "media"
  /\ cur[w] \in WithImage /\ ~imageless[w]
  /\ imageless' = [imageless EXCEPT ![w] = TRUE]
  /\ reply' = [reply EXCEPT ![w] = "none"]
  /\ Goes(w, "sending")
  /\ UNCHANGED <<tableVars, status, mode, batch, cur, sendMode, ghostVars>>

MarkSent(w) ==
  /\ pc[w] = "replied" /\ reply[w] = "accepted"
  /\ SetState(cur[w], "sent")
  /\ IF cur[w] \in Confirmation
     THEN /\ batch' = [batch EXCEPT ![w] = @ \ {cur[w]}]
          /\ reply' = [reply EXCEPT ![w] = "none"]
          /\ imageless' = [imageless EXCEPT ![w] = FALSE]
          /\ Goes(w, "mapping")
          /\ UNCHANGED <<mode, cur>>
     ELSE Done(w, cur[w])
  /\ UNCHANGED <<attempts, status, sendMode, ghostVars>>

\* Broken: the mapping is given the row's state.
BrokenTemplateSent(w) ==
  /\ pc[w] = "mapping"
  /\ status' = [status EXCEPT ![OrderOf[cur[w]]] = "sent"]
  /\ Done(w, cur[w])
  /\ UNCHANGED <<tableVars, sendMode, ghostVars>>

\* A second statement of its own, after the row's: it asks nothing of the
\* status it overwrites.
SetTemplateSent(w) ==
  /\ pc[w] = "mapping"
  /\ status' = [status EXCEPT ![OrderOf[cur[w]]] = "template_sent"]
  /\ Done(w, cur[w])
  /\ UNCHANGED <<tableVars, sendMode, ghostVars>>

MarkUndeliverable(w) ==
  /\ pc[w] = "replied" /\ reply[w] = "undeliverable"
  /\ SetState(cur[w], "undeliverable") /\ Done(w, cur[w])
  /\ UNCHANGED <<attempts, status, sendMode, ghostVars>>

\* Broken: a success is bumped with the failures.
BrokenBumpRejected(w) ==
  /\ pc[w] = "replied" /\ reply[w] # "undeliverable"
  /\ BumpOutboundAttempt(cur[w], MaxAttempts) /\ Done(w, cur[w])
  /\ UNCHANGED <<status, sendMode, ghostVars>>

BumpRejected(w) ==
  /\ pc[w] = "replied"
  /\ \/ reply[w] = "rejected"
     \/ reply[w] = "media" /\ (imageless[w] \/ cur[w] \notin WithImage)
  /\ BumpOutboundAttempt(cur[w], MaxAttempts) /\ Done(w, cur[w])
  /\ UNCHANGED <<status, sendMode, ghostVars>>

\* The provider accepted the row's copy and the worker has not recorded it.
Unrecorded(w, k) == pc[w] = "replied" /\ reply[w] = "accepted" /\ cur[w] = k

WriteOffCopy(w) ==
  lost' = [k \in Rows |-> IF Unrecorded(w, k) THEN lost[k] + 1 ELSE lost[k]]

\* WhatsAppSendError: the POST never arrived, or its answer was lost on the
\* way back (a read timeout).
TransportError(w) ==
  /\ pc[w] = "replied"
  /\ BumpOutboundAttempt(cur[w], MaxAttempts) /\ Done(w, cur[w])
  /\ WriteOffCopy(w)
  /\ UNCHANGED <<status, sendMode, accepted, aborts>>

-----------------------------------------------------------------------------
(* The environment *)

\* asyncio.wait_for cancels an inline send, the platform kills the invocation,
\* or a database error ends the run: the rows it held stay 'processing'.
Abort(w) ==
  /\ pc[w] # "idle" /\ aborts < MaxAborts
  /\ aborts' = aborts + 1
  /\ WriteOffCopy(w)
  /\ Goes(w, "idle")
  /\ mode' = [mode EXCEPT ![w] = "off"]
  /\ batch' = [batch EXCEPT ![w] = {}]
  /\ cur' = [cur EXCEPT ![w] = NoRow]
  /\ reply' = [reply EXCEPT ![w] = "none"]
  /\ imageless' = [imageless EXCEPT ![w] = FALSE]
  /\ UNCHANGED <<tableVars, status, sendMode, accepted>>

\* Ten minutes pass over a row left in 'processing'.  A row a live worker
\* holds is never that old: a batch of five takes at most 5 * 2 * 20 seconds.
BecomeStale(k) ==
  /\ state[k] = "processing" /\ k \notin stale
  /\ \A w \in Workers : k \notin batch[w]
  /\ stale' = stale \cup {k}
  /\ UNCHANGED <<state, attempts, born, status, workerVars, sendMode, ghostVars>>

SetSendMode(m) ==
  /\ m # sendMode
  /\ sendMode' = m
  /\ UNCHANGED <<tableVars, status, workerVars, ghostVars>>

-----------------------------------------------------------------------------
HandleReply(w) ==
  \/ RetryImageless(w)
  \/ MarkSent(w)
  \/ MarkUndeliverable(w)
  \/ BumpRejected(w)
  \/ TransportError(w)

HandleRow(w, k) ==
  RejectKey(w, k) \/ MarkSuppressed(w, k) \/ RejectPayload(w, k) \/ StartSend(w, k)

\* What a live invocation does next, whatever it is at.
Step(w) ==
  \/ StartInline(w)
  \/ ClaimQueuedOutbound(w)
  \/ ClaimOutboundById(w)
  \/ \E k \in Rows : HandleRow(w, k)
  \/ \E v \in Replies \ {"none"} : Provider(w, v)
  \/ HandleReply(w)
  \/ SetTemplateSent(w)

Next ==
  \/ \E w \in Workers : StartDrain(w) \/ Step(w) \/ Abort(w)
  \/ \E w \in Workers, k \in Rows : Ingest(w, k)
  \/ \E k \in Rows : Enqueue(k) \/ BecomeStale(k)
  \/ \E m \in OwnerModes : SetSendMode(m)

Spec == Init /\ [][Next]_vars

\* An invocation that is not cut off goes on, and time passes.  That the drain
\* is invoked is no part of this: it "is currently WITHOUT a working scheduler",
\* "a manual backstop, not an automatic safety net" (outbox_drain.py).
Fairness ==
  /\ \A w \in Workers : WF_vars(Step(w))
  /\ \A k \in Rows : WF_vars(BecomeStale(k))

FairSpec == Spec /\ Fairness
-----------------------------------------------------------------------------
(* Properties *)

TypeOK ==
  /\ state \in [Rows -> RowStates]
  /\ attempts \in [Rows -> Nat]
  /\ born \in [Rows -> Nat]
  /\ stale \subseteq Rows
  /\ status \in [Orders -> MappingStatus]
  /\ pc \in [Workers -> PCs]
  /\ mode \in [Workers -> SendModes]
  /\ batch \in [Workers -> SUBSET Rows]
  /\ cur \in [Workers -> Rows \cup {NoRow}]
  /\ reply \in [Workers -> Replies]
  /\ imageless \in [Workers -> BOOLEAN]
  /\ sendMode \in SendModes
  /\ accepted \in [Rows -> Nat]
  /\ lost \in [Rows -> Nat]
  /\ aborts \in Nat

\* No row is ever in the hands of two invocations, and a row in the hands of
\* one is in 'processing' and not up for reclaim: the promise of the atomic
\* claim, across claims by id, claims in bulk and reclaims of abandoned rows.
ExclusiveClaim ==
  \A w \in Workers, k \in Rows :
    k \in batch[w] =>
      /\ state[k] = "processing" /\ k \notin stale
      /\ \A v \in Workers \ {w} : k \notin batch[v]

CopyAtHand(k) == state[k] = "sent" \/ \E w \in Workers : Unrecorded(w, k)

\* The provider holds exactly one copy of a row the table calls sent, none of
\* any other, beyond the copies whose answer was lost and the one whose answer
\* a worker has in hand: every duplicate is paid for by a lost answer.
CopiesAccounted ==
  \A k \in Rows : accepted[k] = lost[k] + (IF CopyAtHand(k) THEN 1 ELSE 0)

\* bump_outbound_attempt gives a row up only when its attempts are spent (or
\* its key is corrupt), and never queues a row with none left.
RetriesSpent ==
  \A k \in Rows :
    /\ state[k] = "failed" => attempts[k] = MaxAttempts \/ ~HasGid(k)
    /\ state[k] \in {"queued", "processing"} => attempts[k] < MaxAttempts

\* No step of a worker, however late, moves a row out of a terminal state,
\* although no UPDATE of the sender checks the state it overwrites.
TerminalStays ==
  [][\A k \in Rows : state[k] \in Terminal => state'[k] = state[k]]_vars

\* Each row and its copies go through the life module Notification allows.
Outcome(k) ==
  CASE state[k] = "absent" -> "none"
    [] state[k] \in {"queued", "processing"} -> "pending"
    [] OTHER -> state[k]

N == INSTANCE Notification WITH
       outcome <- [k \in Rows |-> Outcome(k)],
       copies <- accepted,
       unconfirmed <- [k \in Rows |-> \E w \in Workers : Unrecorded(w, k)],
       excused <- lost

\* The outbox implements the notification contract under that mapping.
ImplementsNotification == N!Spec

\* An operator, or a scheduler that works, goes on invoking the drain.
DrainIsInvoked == \A w \in Workers : WF_vars(StartDrain(w))

\* Once the kill switch is off 'off' for good, and if the drain is invoked again
\* and again, every queued row is settled: no crash, timeout, retry or
\* overlapping run strands one.  The if is needed: without it nothing sends
\* what the inline path has left behind.
EveryRowSettles ==
  <>[](sendMode # "off") /\ DrainIsInvoked =>
    \A k \in Rows : (state[k] = "queued") ~> (state[k] \in Terminal)
=============================================================================
