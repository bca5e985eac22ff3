-------------------------- MODULE ConversationProofs --------------------------
(***************************************************************************)
(* Proofs about module Conversation, for every set of texts and handlers   *)
(* and any number of erasures.                                             *)
(***************************************************************************)
EXTENDS Conversation, FiniteSetTheorems, TLAPS

\* The points of a turn that follow the look at the history.
Rooted == PastPause \cup {"pause", "aside"}

\* Ids come from a sequence, and an erasure is of the chat that stands.
IdsInOrder ==
  /\ conv # 0 => conv = lastId
  /\ conv = 0 => lastId <= MaxErasures /\ ~paused
  /\ erasure.open => conv # 0 /\ conv <= MaxErasures

\* What a turn or a manual reply carries is an id that was given out.
IdsCarried ==
  /\ \A h \in Handlers : turn[h].pc \in Rooted => turn[h].conv \in 1 .. lastId
  /\ staff.pc # "idle" => staff.conv \in 1 .. lastId
  /\ \A m \in Messages : answers[m].times # 0 => answers[m].conv \in 1 .. lastId

\* A text is in one turn at most, and in none before it is recorded.
OneTurn ==
  /\ \A h \in Handlers : turn[h].pc # "idle" => turn[h].m \in seen
  /\ \A g, h \in Handlers :
       turn[g].pc # "idle" /\ turn[h].pc # "idle" /\ turn[g].m = turn[h].m => g = h

RowsStand == \A r \in rows : r.conv = conv /\ conv # 0

\* A turn that hands the chat over has it held, or has lost it to an erasure.
HandoverHeld ==
  /\ promised \subseteq seen
  /\ \A h \in Handlers : turn[h].pc = "alert" => turn[h].handoff
  /\ \A h \in Handlers :
       turn[h].pc \in {"user", "reply", "send", "alert"} /\ turn[h].handoff =>
         \/ paused \/ turn[h].m \in ended
         \/ turn[h].pc = "user" /\ turn[h].conv # conv

\* A text is not answered before the last step of its turn.
Unanswered ==
  /\ \A m \in Messages \ seen : answers[m].times = 0
  /\ \A h \in Handlers : turn[h].pc \notin {"idle", "alert"} => answers[turn[h].m].times = 0

\* What a turn has stored by now, as long as its chat stands.
Stored ==
  \A h \in Handlers : turn[h].conv = conv =>
    /\ turn[h].pc \in {"reply", "send"} =>
         [conv |-> conv, role |-> "user", m |-> turn[h].m] \in rows
    /\ turn[h].pc = "send" =>
         [conv |-> conv, role |-> "assistant", m |-> turn[h].m] \in rows

\* Nobody but those ahead of the pause is past it, in the chat that is held.
HeldBack ==
  paused => \A h \in Handlers :
              turn[h].pc \in PastPause /\ turn[h].conv = conv => h \in ahead

OneRequest == \A r, s \in requests : r = s

ChatInv ==
  /\ TypeOK /\ IdsInOrder /\ IdsCarried /\ OneTurn /\ RowsStand /\ HandoverHeld
  /\ PromiseKept /\ Unanswered /\ Stored /\ AnsweredOnRecord /\ HeldBack /\ OneRequest

-----------------------------------------------------------------------------
\* The types.

LEMMA TypeInit == Init => TypeOK
<1>1. TurnIdle \in Turn /\ StaffIdle \in [pc : {"idle", "send", "pause"}, conv : Ids] /\ 0 \in Ids
  BY ConversationAssumption DEF ConversationAssumption, TurnIdle, Turn, StaffIdle, Ids
<1>2. [times |-> 0, conv |-> 0] \in Answer
  BY <1>1 DEF Answer
<1>3. SUFFICES ASSUME Init PROVE TypeOK
  OBVIOUS
<1>4. turn \in [Handlers -> Turn] /\ answers \in [Messages -> Answer]
  BY <1>1, <1>2, <1>3 DEF Init
<1>5. staff \in [pc : {"idle", "send", "pause"}, conv : Ids] /\ conv \in Ids /\ lastId \in Ids
  BY <1>1, <1>3 DEF Init
<1>6. erasure \in [open : BOOLEAN, gone : SUBSET Row]
  <2>1. {} \in SUBSET Row
    OBVIOUS
  <2>2. QED
    BY <1>3, <2>1 DEF Init
<1>7. conv <= lastId /\ paused \in BOOLEAN
  <2>1. conv = 0 /\ lastId = 0 /\ paused = FALSE
    BY <1>3 DEF Init
  <2>2. conv <= lastId
    BY <2>1
  <2>3. QED
    BY <2>1, <2>2
<1>8. QED
  BY <1>3, <1>4, <1>5, <1>6, <1>7 DEF Init, ExchangeInit, TypeOK

LEMMA NoIdsBeyond ==
  ASSUME TypeOK, IdsInOrder, conv = 0
  PROVE  lastId + 1 \in Ids
BY ConversationAssumption DEF ConversationAssumption, TypeOK, IdsInOrder, Ids

LEMMA TakesType ==
  ASSUME TypeOK, IdsInOrder, OneTurn, NEW h \in Handlers, Takes(h)
  PROVE  TypeOK'
<1>a. turn[h] \in Turn /\ TurnIdle \in Turn
  BY ConversationAssumption DEF TypeOK, TurnIdle, Turn, Ids, ConversationAssumption
<1>b. turn[h].pc # "idle" => turn[h].m \in Messages
  BY DEF OneTurn, TypeOK
<1>0. /\ turn[h] \in Turn /\ TurnIdle \in Turn
      /\ turn[h].pc # "idle" => turn[h].m \in Messages
  BY <1>a, <1>b
<1>1. CASE LoadControls(h)
  BY <1>0, <1>1 DEF LoadControls, Ends, TypeOK, Turn, chat, observed
<1>2. CASE LoadHistory(h)
  <2>1. conv' \in Ids /\ lastId' \in Ids /\ conv' <= lastId'
    BY <1>2, NoIdsBeyond DEF LoadHistory, TypeOK, Ids
  <2>2. turn' \in [Handlers -> Turn]
    BY <1>0, <1>2, <2>1 DEF LoadHistory, TypeOK, Turn
  <2>3. QED
    BY <1>2, <2>1, <2>2 DEF LoadHistory, TypeOK, observed
<1>3. CASE ReadPause(h)
  BY <1>0, <1>3 DEF ReadPause, Goes, TypeOK, Turn, chat, observed
<1>4. CASE ClassifyIntent(h)
  <2>1. PICK known \in BOOLEAN :
          turn' = [turn EXCEPT ![h].pc = "model", ![h].known = known]
    BY <1>4 DEF ClassifyIntent
  <2>2. turn' \in [Handlers -> Turn]
    BY <1>0, <2>1 DEF TypeOK, Turn
  <2>3. QED
    BY <1>4, <2>2 DEF ClassifyIntent, TypeOK, chat, observed
<1>5. CASE AskModel(h)
  <2>1. PICK handoff \in BOOLEAN, pc \in {"book", "hold", "user"} :
          turn' = [turn EXCEPT ![h].handoff = handoff, ![h].known = TRUE, ![h].pc = pc]
    BY <1>5 DEF AskModel, Held
  <2>2. turn' \in [Handlers -> Turn]
    BY <1>0, <2>1 DEF TypeOK, Turn
  <2>3. QED
    BY <1>5, <2>2 DEF AskModel, TypeOK, chat, observed
<1>6. CASE CreateExchange(h)
  <2>1. requests' \subseteq Request
    BY <1>0, <1>6 DEF CreateExchange, At, Book, Request, Statuses, TypeOK
  <2>2. turn' \in [Handlers -> Turn]
    BY <1>0, <1>6 DEF CreateExchange, Goes, Held, TypeOK, Turn
  <2>3. QED
    BY <1>6, <2>1, <2>2 DEF CreateExchange, TypeOK, chat, observed
<1>7. CASE PauseUntil(h)
  BY <1>0, <1>7 DEF PauseUntil, Hold, Goes, TypeOK, Turn
<1>8. CASE AppendUser(h)
  BY <1>0, <1>8 DEF AppendUser, Append, Ends, Goes, TypeOK, Turn, Row, observed
<1>9. CASE AppendReply(h)
  BY <1>0, <1>9 DEF AppendReply, Append, Ends, Goes, TypeOK, Turn, Row, observed
<1>10. CASE SendText(h)
  <2>1. answers' \in [Messages -> Answer] /\ promised' \subseteq Messages
    BY <1>0, <1>10 DEF SendText, At, Delivered, Answer, Turn, TypeOK
  <2>2. turn' \in [Handlers -> Turn]
    BY <1>0, <1>10 DEF SendText, Ends, Goes, TypeOK, Turn
  <2>3. QED
    BY <1>10, <2>1, <2>2 DEF SendText, TypeOK, chat
<1>11. CASE AlertOwner(h)
  BY <1>0, <1>11 DEF AlertOwner, At, Ends, TypeOK, chat
<1>12. CASE CutOff(h)
  BY <1>0, <1>12 DEF CutOff, Ends, TypeOK, chat, observed
<1>13. QED
  BY <1>1, <1>2, <1>3, <1>4, <1>5, <1>6, <1>7, <1>8, <1>9, <1>10, <1>11, <1>12 DEF Takes

LEMMA NextType ==
  ASSUME TypeOK, IdsInOrder, OneTurn, [Next]_vars
  PROVE  TypeOK'
<1> USE ConversationAssumption
<1>1. CASE UNCHANGED vars
  BY <1>1 DEF vars, chat, observed, TypeOK
<1>2. ASSUME NEW h \in Handlers, NEW m \in Messages, RecordIfNew(h, m)
      PROVE  TypeOK'
  <2>1. [TurnIdle EXCEPT !.pc = "controls", !.m = m] \in Turn
    <3>1. TurnIdle \in Turn
      BY DEF ConversationAssumption, TurnIdle, Turn, Ids
    <3>2. QED
      BY <3>1 DEF Turn
  <2>2. turn' \in [Handlers -> Turn]
    BY <1>2, <2>1 DEF RecordIfNew, TypeOK
  <2>3. QED
    BY <1>2, <2>2 DEF RecordIfNew, TypeOK, chat
<1>3. CASE StoreManualReply
  <2>1. [conv |-> conv, role |-> "admin", m |-> NoText] \in Row
    BY DEF TypeOK, Row
  <2>2. QED
    BY <1>3, <2>1 DEF StoreManualReply, Append, TypeOK, observed
<1>a. StaffIdle \in [pc : {"idle", "send", "pause"}, conv : Ids]
  BY DEF ConversationAssumption, StaffIdle, Ids
<1>4. CASE SendManualReply
  BY <1>a, <1>4 DEF SendManualReply, TypeOK, chat, observed
<1>5. CASE PauseAfterManualReply
  BY <1>a, <1>5 DEF PauseAfterManualReply, Hold, TypeOK
<1>6. CASE ResumeConversation
  BY <1>6 DEF ResumeConversation, Lapse, TypeOK
<1>7. CASE UpdateExchange
  BY <1>7 DEF UpdateExchange, SetStatus, Request, TypeOK, chat, observed
<1>8. CASE EraseMessages
  BY <1>8 DEF EraseMessages, TypeOK, chat, observed
<1>9. CASE EraseConversation
  <2>1. erasure' \in [open : BOOLEAN, gone : SUBSET Row]
    BY <1>9 DEF EraseConversation
  <2>2. conv' \in Ids /\ conv' <= lastId' /\ lastId' \in Ids
    BY <1>9 DEF EraseConversation, ConversationAssumption, Ids, TypeOK
  <2>3. /\ rows' \subseteq Row /\ paused' \in BOOLEAN
        /\ ended' \subseteq Messages /\ ahead' \subseteq Handlers
    BY <1>9 DEF EraseConversation, Lapse, TypeOK
  <2>4. QED
    BY <1>9, <2>1, <2>2, <2>3 DEF EraseConversation, TypeOK
<1>10. QED
  BY <1>1, <1>2, <1>3, <1>4, <1>5, <1>6, <1>7, <1>8, <1>9, TakesType DEF Next

-----------------------------------------------------------------------------
\* The invariant, but for the types.
ChatOrder ==
  /\ IdsInOrder /\ IdsCarried /\ OneTurn /\ RowsStand /\ HandoverHeld
  /\ PromiseKept /\ Unanswered /\ Stored /\ AnsweredOnRecord /\ HeldBack

\* A step of a turn that neither writes the chat nor reaches a point at which
\* something is known to be written.
LEMMA QuietKeeps ==
  ASSUME ChatOrder, NEW h \in Handlers,
         \A g \in Handlers \ {h} : turn'[g] = turn[g],
         UNCHANGED <<seen, chat, staff, erasure, observed>>,
         \/ turn'[h].pc = "idle"
         \/ /\ turn[h].pc \notin {"idle", "alert"}
            /\ turn'[h].m = turn[h].m /\ turn'[h].conv = turn[h].conv
            /\ turn'[h].pc \in Rooted => turn[h].pc \in Rooted
            /\ turn'[h].pc \notin {"reply", "send", "alert"}
            /\ turn'[h].pc = "user" => ~turn'[h].handoff
            /\ turn'[h].pc \in PastPause /\ turn[h].pc \notin PastPause
                 => ~(paused /\ turn[h].conv = conv)
  PROVE  ChatOrder'
<1>2. IdsInOrder' /\ RowsStand' /\ PromiseKept' /\ AnsweredOnRecord'
  BY DEF ChatOrder, IdsInOrder, RowsStand, PromiseKept, AnsweredOnRecord, chat, observed
<1>3. IdsCarried'
  BY DEF ChatOrder, IdsCarried, Rooted, PastPause, chat, observed
<1>4. OneTurn'
  BY DEF ChatOrder, OneTurn
<1>5. HandoverHeld'
  BY DEF ChatOrder, HandoverHeld, chat, observed
<1>6. Unanswered'
  BY DEF ChatOrder, Unanswered, observed
<1>7. Stored'
  BY DEF ChatOrder, Stored, chat
<1>8. HeldBack'
  BY DEF ChatOrder, HeldBack, PastPause, chat, observed
<1>9. QED
  BY <1>2, <1>3, <1>4, <1>5, <1>6, <1>7, <1>8 DEF ChatOrder

LEMMA QuietTakes ==
  ASSUME TypeOK, ChatOrder, NEW h \in Handlers,
         \/ LoadControls(h) \/ ReadPause(h) \/ ClassifyIntent(h) \/ AskModel(h)
         \/ CreateExchange(h) \/ CutOff(h)
  PROVE  ChatOrder'
<1>0. turn \in [Handlers -> Turn] /\ turn[h] \in Turn
  BY DEF TypeOK
<1>1. ASSUME Ends(h), UNCHANGED <<seen, chat, staff, erasure, observed>>
      PROVE  ChatOrder'
  <2>1. turn'[h].pc = "idle" /\ \A g \in Handlers \ {h} : turn'[g] = turn[g]
    BY <1>0, <1>1 DEF Ends, TurnIdle
  <2>2. QED
    BY <1>1, <2>1, QuietKeeps
<1>2. CASE LoadControls(h) /\ ~Ends(h)
  <2>1. PICK gated \in BOOLEAN :
          turn' = [turn EXCEPT ![h].pc = "history", ![h].gated = gated]
    BY <1>2 DEF LoadControls
  <2>2. /\ turn'[h].pc = "history" /\ turn'[h].m = turn[h].m /\ turn'[h].conv = turn[h].conv
        /\ turn[h].pc = "controls" /\ \A g \in Handlers \ {h} : turn'[g] = turn[g]
    BY <1>0, <1>2, <2>1 DEF LoadControls, At, Turn
  <2>3. QED
    BY <1>2, <2>2, QuietKeeps DEF LoadControls, Rooted, PastPause
<1>3. CASE ReadPause(h)
  <2>1. PICK pc \in {"aside", "ask"} :
          /\ turn' = [turn EXCEPT ![h].pc = pc]
          /\ pc = "ask" => ~(paused /\ turn[h].conv = conv)
    BY <1>3 DEF ReadPause, Goes
  <2>2. /\ turn'[h].pc = pc /\ turn'[h].m = turn[h].m /\ turn'[h].conv = turn[h].conv
        /\ turn[h].pc = "pause" /\ \A g \in Handlers \ {h} : turn'[g] = turn[g]
    BY <1>0, <1>3, <2>1 DEF ReadPause, At, Turn
  <2>3. QED
    BY <1>3, <2>1, <2>2, QuietKeeps DEF ReadPause, Rooted, PastPause
<1>4. CASE ClassifyIntent(h)
  <2>1. PICK known \in BOOLEAN :
          turn' = [turn EXCEPT ![h].pc = "model", ![h].known = known]
    BY <1>4 DEF ClassifyIntent
  <2>2. /\ turn'[h].pc = "model" /\ turn'[h].m = turn[h].m /\ turn'[h].conv = turn[h].conv
        /\ turn[h].pc = "ask" /\ \A g \in Handlers \ {h} : turn'[g] = turn[g]
    BY <1>0, <1>4, <2>1 DEF ClassifyIntent, At, Turn
  <2>3. QED
    BY <1>4, <2>2, QuietKeeps DEF ClassifyIntent, Rooted, PastPause
<1>5. CASE AskModel(h)
  <2>1. PICK handoff \in BOOLEAN, pc \in {"book", "hold", "user"} :
          /\ turn' = [turn EXCEPT ![h].handoff = handoff, ![h].known = TRUE, ![h].pc = pc]
          /\ pc = "user" => ~handoff
    BY <1>5 DEF AskModel, Held
  <2>2. /\ turn'[h].pc = pc /\ turn'[h].m = turn[h].m /\ turn'[h].conv = turn[h].conv
        /\ turn[h].pc = "model" /\ \A g \in Handlers \ {h} : turn'[g] = turn[g]
    BY <1>0, <1>5, <2>1 DEF AskModel, At, Turn
  <2>3. turn'[h].handoff = handoff
    BY <1>0, <2>1 DEF Turn
  <2>4. QED
    BY <1>5, <2>1, <2>2, <2>3, QuietKeeps DEF AskModel, Rooted, PastPause
<1>6. CASE CreateExchange(h)
  <2>1. PICK pc \in {"hold", "user"} :
          /\ turn' = [turn EXCEPT ![h].pc = pc]
          /\ pc = "user" => ~turn[h].handoff
    BY <1>6 DEF CreateExchange, Goes, Held
  <2>2. /\ turn'[h].pc = pc /\ turn'[h].m = turn[h].m /\ turn'[h].conv = turn[h].conv
        /\ turn[h].pc = "book" /\ \A g \in Handlers \ {h} : turn'[g] = turn[g]
    BY <1>0, <1>6, <2>1 DEF CreateExchange, At, Turn
  <2>3. turn'[h].handoff = turn[h].handoff
    BY <1>0, <2>1 DEF Turn
  <2>4. QED
    BY <1>6, <2>1, <2>2, <2>3, QuietKeeps DEF CreateExchange, Rooted, PastPause
<1>7. QED
  BY <1>1, <1>2, <1>3, <1>4, <1>5, <1>6 DEF LoadControls, CutOff

\* The conversation is opened, or stands.
LEMMA LoadHistoryKeeps ==
  ASSUME TypeOK, ChatOrder, NEW h \in Handlers, LoadHistory(h)
  PROVE  ChatOrder'
<1>1. /\ turn'[h].pc = "pause" /\ turn'[h].conv = conv' /\ turn'[h].m = turn[h].m
      /\ turn[h].pc = "history" /\ \A g \in Handlers \ {h} : turn'[g] = turn[g]
  BY DEF LoadHistory, At, TypeOK, Turn
<1>2. /\ conv' = lastId' /\ lastId' \in Nat /\ lastId' >= lastId /\ conv' # 0
      /\ conv' = conv \/ (conv = 0 /\ conv' = lastId + 1)
  BY ConversationAssumption DEF LoadHistory, ChatOrder, IdsInOrder, TypeOK, Ids, ConversationAssumption
<1>3. /\ UNCHANGED <<seen, rows, paused, staff, erasure, answers, promised, ended, ahead>>
      /\ conv \in Nat /\ lastId \in Nat
  BY ConversationAssumption DEF LoadHistory, observed, TypeOK, Ids, ConversationAssumption
<1>4. IdsInOrder'
  BY <1>2, <1>3 DEF ChatOrder, IdsInOrder
<1>5. IdsCarried'
  <2>1. conv' \in 1 .. lastId'
    BY <1>2
  <2>2. 1 .. lastId \subseteq 1 .. lastId'
    BY <1>2, <1>3
  <2>3. QED
    BY <1>1, <1>3, <2>1, <2>2 DEF ChatOrder, IdsCarried
<1>6. OneTurn'
  BY <1>1, <1>3 DEF ChatOrder, OneTurn
<1>7. RowsStand'
  BY <1>2, <1>3 DEF ChatOrder, RowsStand
<1>8. HandoverHeld'
  <2>1. ASSUME NEW g \in Handlers,
               turn[g].pc = "user", turn[g].conv # conv
        PROVE  turn[g].conv # conv'
    BY <1>2, <1>3, <2>1 DEF ChatOrder, IdsCarried, Rooted, PastPause
  <2>2. QED
    BY <1>1, <1>3, <2>1 DEF ChatOrder, HandoverHeld
<1>9. PromiseKept'
  BY <1>3 DEF ChatOrder, PromiseKept
<1>10. Unanswered'
  BY <1>1, <1>3 DEF ChatOrder, Unanswered
<1>11. \A g \in Handlers : turn[g].pc \in Rooted /\ turn[g].conv = conv' => conv' = conv
  BY <1>2, <1>3 DEF ChatOrder, IdsCarried
<1>12. Stored'
  BY <1>1, <1>3, <1>11 DEF ChatOrder, Stored, Rooted, PastPause
<1>13. AnsweredOnRecord'
  <2>1. ASSUME NEW m \in Messages, answers[m].times = 1, answers[m].conv = conv'
        PROVE  conv' = conv
    BY <1>2, <1>3, <2>1 DEF ChatOrder, IdsCarried
  <2>2. QED
    BY <1>3, <2>1 DEF ChatOrder, AnsweredOnRecord
<1>14. HeldBack'
  BY <1>1, <1>3, <1>11 DEF ChatOrder, HeldBack, Rooted, PastPause
<1>15. QED
  BY <1>4, <1>5, <1>6, <1>7, <1>8, <1>9, <1>10, <1>12, <1>13, <1>14 DEF ChatOrder

\* The pause is set, or the chat it was meant for is gone.
LEMMA PauseUntilKeeps ==
  ASSUME TypeOK, ChatOrder, NEW h \in Handlers, PauseUntil(h)
  PROVE  ChatOrder'
<1>1. /\ turn'[h].pc = "user" /\ turn'[h].conv = turn[h].conv /\ turn'[h].m = turn[h].m
      /\ turn[h].pc = "hold" /\ \A g \in Handlers \ {h} : turn'[g] = turn[g]
  BY DEF PauseUntil, Goes, At, TypeOK, Turn
<1>2. UNCHANGED <<seen, conv, lastId, rows, staff, erasure, answers, promised>>
  BY DEF PauseUntil
<1>3. turn[h].conv \in 1 .. lastId /\ lastId \in Nat
  BY <1>1, ConversationAssumption
  DEF ChatOrder, IdsCarried, Rooted, PastPause, TypeOK, Ids, ConversationAssumption
<1>4. \/ turn[h].conv # conv /\ UNCHANGED <<paused, ended, ahead>>
      \/ /\ conv # 0 /\ paused'
         /\ ahead' = IF paused THEN ahead ELSE {g \in Handlers : turn[g].pc \in PastPause}
  BY <1>3 DEF PauseUntil, Hold
<1>5. IdsInOrder'
  BY <1>2, <1>4 DEF ChatOrder, IdsInOrder
<1>6. IdsCarried'
  BY <1>1, <1>2, <1>3 DEF ChatOrder, IdsCarried
<1>7. OneTurn' /\ RowsStand'
  BY <1>1, <1>2 DEF ChatOrder, OneTurn, RowsStand
<1>8. HandoverHeld' /\ PromiseKept'
  BY <1>1, <1>2, <1>4 DEF ChatOrder, HandoverHeld, PromiseKept
<1>9. Unanswered' /\ Stored'
  BY <1>1, <1>2 DEF ChatOrder, Unanswered, Stored
<1>10. AnsweredOnRecord'
  BY <1>2 DEF ChatOrder, AnsweredOnRecord
<1>11. HeldBack'
  BY <1>1, <1>2, <1>4 DEF ChatOrder, HeldBack, PastPause
<1>12. QED
  BY <1>5, <1>6, <1>7, <1>8, <1>9, <1>10, <1>11 DEF ChatOrder

\* A row is added to the chat that stands.
LEMMA AppendKeeps ==
  ASSUME ChatOrder, NEW role, NEW m, conv # 0, Append(conv, role, m),
         UNCHANGED <<conv, answers>>
  PROVE  RowsStand' /\ AnsweredOnRecord'
BY DEF ChatOrder, Append, RowsStand, AnsweredOnRecord

LEMMA AppendUserKeeps ==
  ASSUME TypeOK, ChatOrder, NEW h \in Handlers, AppendUser(h)
  PROVE  ChatOrder'
<1>1. /\ \/ turn'[h].pc = "idle"
         \/ /\ turn[h].pc = "user" /\ turn'[h].pc = "reply" /\ turn'[h].conv = turn[h].conv
            /\ turn'[h].m = turn[h].m /\ turn'[h].handoff = turn[h].handoff
      /\ turn[h].pc \in {"user", "aside"} /\ \A g \in Handlers \ {h} : turn'[g] = turn[g]
  BY DEF AppendUser, Goes, Ends, At, TypeOK, Turn, TurnIdle
<1>2. /\ UNCHANGED <<seen, conv, lastId, paused, staff, erasure, answers, promised, ended, ahead>>
      /\ turn[h].conv = conv /\ Append(conv, "user", turn[h].m)
      /\ rows' = rows \cup {[conv |-> conv, role |-> "user", m |-> turn[h].m]}
  BY DEF AppendUser, Append, observed
<1>3. conv # 0
  BY <1>1, <1>2, ConversationAssumption
  DEF ChatOrder, IdsCarried, Rooted, PastPause, TypeOK, Ids, ConversationAssumption
<1>4. IdsInOrder'
  BY <1>2 DEF ChatOrder, IdsInOrder
<1>5. IdsCarried'
  BY <1>1, <1>2 DEF ChatOrder, IdsCarried, Rooted, PastPause
<1>6. OneTurn'
  BY <1>1, <1>2 DEF ChatOrder, OneTurn
<1>7. RowsStand' /\ AnsweredOnRecord'
  BY <1>2, <1>3, AppendKeeps
<1>8. HandoverHeld' /\ PromiseKept'
  BY <1>1, <1>2 DEF ChatOrder, HandoverHeld, PromiseKept
<1>9. Unanswered'
  BY <1>1, <1>2 DEF ChatOrder, Unanswered
<1>10. Stored'
  BY <1>1, <1>2 DEF ChatOrder, Stored
<1>11. HeldBack'
  BY <1>1, <1>2 DEF ChatOrder, HeldBack, PastPause
<1>12. QED
  BY <1>4, <1>5, <1>6, <1>7, <1>8, <1>9, <1>10, <1>11 DEF ChatOrder

LEMMA AppendReplyKeeps ==
  ASSUME TypeOK, ChatOrder, NEW h \in Handlers, AppendReply(h)
  PROVE  ChatOrder'
<1>1. /\ \/ turn'[h].pc = "idle"
         \/ /\ turn'[h].pc = "send" /\ turn'[h].conv = turn[h].conv
            /\ turn'[h].m = turn[h].m /\ turn'[h].handoff = turn[h].handoff
      /\ turn[h].pc = "reply" /\ \A g \in Handlers \ {h} : turn'[g] = turn[g]
  BY DEF AppendReply, Goes, Ends, At, TypeOK, Turn, TurnIdle
<1>2. /\ UNCHANGED <<seen, conv, lastId, paused, staff, erasure, answers, promised, ended, ahead>>
      /\ turn[h].conv = conv /\ Append(conv, "assistant", turn[h].m)
      /\ rows' = rows \cup {[conv |-> conv, role |-> "assistant", m |-> turn[h].m]}
  BY DEF AppendReply, Append, observed
<1>3. conv # 0
  BY <1>1, <1>2, ConversationAssumption
  DEF ChatOrder, IdsCarried, Rooted, PastPause, TypeOK, Ids, ConversationAssumption
<1>4. IdsInOrder'
  BY <1>2 DEF ChatOrder, IdsInOrder
<1>5. IdsCarried'
  BY <1>1, <1>2 DEF ChatOrder, IdsCarried, Rooted, PastPause
<1>6. OneTurn'
  BY <1>1, <1>2 DEF ChatOrder, OneTurn
<1>7. RowsStand' /\ AnsweredOnRecord'
  BY <1>2, <1>3, AppendKeeps
<1>8. HandoverHeld' /\ PromiseKept'
  BY <1>1, <1>2 DEF ChatOrder, HandoverHeld, PromiseKept
<1>9. Unanswered'
  BY <1>1, <1>2 DEF ChatOrder, Unanswered
<1>10. Stored'
  BY <1>1, <1>2 DEF ChatOrder, Stored
<1>11. HeldBack'
  BY <1>1, <1>2 DEF ChatOrder, HeldBack, PastPause
<1>12. QED
  BY <1>4, <1>5, <1>6, <1>7, <1>8, <1>9, <1>10, <1>11 DEF ChatOrder

\* The one step that answers a text: it was not answered, and both sides of the
\* exchange are on record.
LEMMA SendTextKeeps ==
  ASSUME TypeOK, ChatOrder, NEW h \in Handlers, SendText(h)
  PROVE  ChatOrder'
<1>1. /\ \/ turn'[h].pc = "idle"
         \/ /\ turn'[h].pc = "alert" /\ turn'[h].conv = turn[h].conv /\ turn'[h].m = turn[h].m
            /\ turn[h].handoff /\ turn'[h].handoff
      /\ turn[h].pc = "send" /\ \A g \in Handlers \ {h} : turn'[g] = turn[g]
  BY DEF SendText, Goes, Ends, At, TypeOK, Turn, TurnIdle
<1>2. /\ UNCHANGED <<seen, conv, lastId, rows, paused, staff, erasure, ended, ahead>>
      /\ turn[h].m \in Messages /\ turn[h].m \in seen /\ answers[turn[h].m].times = 0
  BY <1>1 DEF SendText, chat, ChatOrder, OneTurn, Unanswered, TypeOK
<1>3. /\ \/ answers'[turn[h].m] = answers[turn[h].m]
         \/ answers'[turn[h].m].times = 1 /\ answers'[turn[h].m].conv = turn[h].conv
      /\ \A m \in Messages \ {turn[h].m} : answers'[m] = answers[m]
  BY <1>2 DEF SendText, Delivered, TypeOK
<1>4. promised' = promised \/ (turn[h].handoff /\ promised' = promised \cup {turn[h].m})
  BY DEF SendText, Delivered
<1>5. IdsInOrder' /\ RowsStand'
  BY <1>2 DEF ChatOrder, IdsInOrder, RowsStand
<1>6. IdsCarried'
  BY <1>1, <1>2, <1>3 DEF ChatOrder, IdsCarried, Rooted, PastPause
<1>7. OneTurn'
  BY <1>1, <1>2 DEF ChatOrder, OneTurn
<1>8. HandoverHeld' /\ PromiseKept'
  BY <1>1, <1>2, <1>4 DEF ChatOrder, HandoverHeld, PromiseKept
<1>9. Unanswered'
  <2>1. \A m \in Messages \ seen' : answers'[m].times = 0
    BY <1>2, <1>3 DEF ChatOrder, Unanswered
  <2>2. ASSUME NEW g \in Handlers, turn'[g].pc \notin {"idle", "alert"}
        PROVE  answers'[turn'[g].m].times = 0
    <3>1. g # h /\ turn'[g] = turn[g]
      BY <1>1, <2>2
    <3>2. turn[g].m \in Messages \ {turn[h].m}
      BY <1>1, <2>2, <3>1 DEF ChatOrder, OneTurn, TypeOK
    <3>3. QED
      BY <1>3, <2>2, <3>1, <3>2 DEF ChatOrder, Unanswered
  <2>3. QED
    BY <2>1, <2>2 DEF Unanswered
<1>10. Stored'
  BY <1>1, <1>2 DEF ChatOrder, Stored
<1>11. AnsweredOnRecord'
  <2>1. turn[h].conv = conv => \A role \in {"user", "assistant"} :
          [conv |-> conv, role |-> role, m |-> turn[h].m] \in rows
    BY <1>1 DEF ChatOrder, Stored
  <2>2. QED
    BY <1>2, <1>3, <2>1 DEF ChatOrder, AnsweredOnRecord
<1>12. HeldBack'
  BY <1>1, <1>2 DEF ChatOrder, HeldBack, PastPause
<1>13. QED
  BY <1>5, <1>6, <1>7, <1>8, <1>9, <1>10, <1>11, <1>12 DEF ChatOrder

LEMMA AlertOwnerKeeps ==
  ASSUME TypeOK, ChatOrder, NEW h \in Handlers, AlertOwner(h)
  PROVE  ChatOrder'
<1>1. /\ turn'[h].pc = "idle" /\ \A g \in Handlers \ {h} : turn'[g] = turn[g]
      /\ turn[h].pc = "alert" /\ turn[h].handoff /\ turn[h].m \in seen
  BY DEF AlertOwner, Ends, At, TypeOK, TurnIdle, ChatOrder, HandoverHeld, OneTurn
<1>2. /\ UNCHANGED <<seen, conv, lastId, rows, paused, staff, erasure, answers, ended, ahead>>
      /\ promised' = promised \cup {turn[h].m}
  BY DEF AlertOwner, chat
<1>3. IdsInOrder' /\ IdsCarried' /\ OneTurn' /\ RowsStand'
  BY <1>1, <1>2
  DEF ChatOrder, IdsInOrder, IdsCarried, OneTurn, RowsStand, Rooted, PastPause
<1>4. HandoverHeld' /\ PromiseKept'
  BY <1>1, <1>2 DEF ChatOrder, HandoverHeld, PromiseKept
<1>5. Unanswered' /\ Stored' /\ AnsweredOnRecord' /\ HeldBack'
  BY <1>1, <1>2 DEF ChatOrder, Unanswered, Stored, AnsweredOnRecord, HeldBack, PastPause
<1>6. QED
  BY <1>3, <1>4, <1>5 DEF ChatOrder

LEMMA TakesKeeps ==
  ASSUME TypeOK, ChatOrder, NEW h \in Handlers, Takes(h)
  PROVE  ChatOrder'
BY QuietTakes, LoadHistoryKeeps, PauseUntilKeeps, AppendUserKeeps, AppendReplyKeeps,
   SendTextKeeps, AlertOwnerKeeps
DEF Takes

\* A text that is new is in no turn, unanswered, and promised to nobody.
LEMMA RecordIfNewKeeps ==
  ASSUME TypeOK, ChatOrder, NEW h \in Handlers, NEW m \in Messages, RecordIfNew(h, m)
  PROVE  ChatOrder'
<1>1. /\ \/ turn'[h].pc = "controls" /\ turn'[h].m = m
         \/ turn'[h] = turn[h]
      /\ turn[h].pc = "idle" /\ \A g \in Handlers \ {h} : turn'[g] = turn[g]
  <2>1. turn \in [Handlers -> Turn] /\ turn[h].pc = "idle"
    BY DEF RecordIfNew, At, TypeOK
  <2>2. CASE turn' = [turn EXCEPT ![h] = [TurnIdle EXCEPT !.pc = "controls", !.m = m]]
    <3>1. turn'[h] = [TurnIdle EXCEPT !.pc = "controls", !.m = m]
      BY <2>1, <2>2
    <3>2. turn'[h].pc = "controls" /\ turn'[h].m = m
      BY <3>1 DEF TurnIdle
    <3>3. QED
      BY <2>1, <2>2, <3>2
  <2>3. CASE UNCHANGED turn
    BY <2>1, <2>3
  <2>4. QED
    BY <2>2, <2>3 DEF RecordIfNew
<1>2. /\ UNCHANGED <<conv, lastId, rows, paused, staff, erasure, answers, promised>>
      /\ m \notin seen /\ seen' = seen \cup {m} /\ ended' = ended \ {m} /\ ahead' = ahead \ {h}
  BY DEF RecordIfNew, chat
<1>3. m \notin promised /\ answers[m].times = 0
      /\ \A g \in Handlers : turn[g].pc # "idle" => turn[g].m # m
  BY <1>2 DEF ChatOrder, HandoverHeld, Unanswered, OneTurn
<1>4. IdsInOrder' /\ RowsStand' /\ AnsweredOnRecord'
  BY <1>2 DEF ChatOrder, IdsInOrder, RowsStand, AnsweredOnRecord
<1>5. IdsCarried'
  BY <1>1, <1>2 DEF ChatOrder, IdsCarried, Rooted, PastPause
<1>6. OneTurn'
  <2>1. turn'[h].pc \in {"idle", "controls"}
    BY <1>1
  <2>2. QED
    BY <1>1, <1>2, <1>3, <2>1 DEF ChatOrder, OneTurn
<1>7. HandoverHeld' /\ PromiseKept'
  BY <1>1, <1>2, <1>3 DEF ChatOrder, HandoverHeld, PromiseKept
<1>8. Unanswered'
  BY <1>1, <1>2, <1>3 DEF ChatOrder, Unanswered
<1>9. Stored'
  BY <1>1, <1>2 DEF ChatOrder, Stored
<1>10. HeldBack'
  BY <1>1, <1>2 DEF ChatOrder, HeldBack, PastPause
<1>11. QED
  BY <1>4, <1>5, <1>6, <1>7, <1>8, <1>9, <1>10 DEF ChatOrder

LEMMA StaffKeeps ==
  ASSUME TypeOK, ChatOrder, StoreManualReply \/ SendManualReply \/ PauseAfterManualReply
  PROVE  ChatOrder'
<1>1. /\ UNCHANGED <<seen, conv, lastId, turn, erasure, answers, promised>>
      /\ staff'.pc # "idle" => staff'.conv \in 1 .. lastId
      /\ conv \in Nat /\ lastId \in Nat
  BY ConversationAssumption
  DEF StoreManualReply, SendManualReply, PauseAfterManualReply, StaffIdle, chat, observed,
      ChatOrder, IdsInOrder, IdsCarried, TypeOK, Ids, ConversationAssumption
<1>2. IdsCarried' /\ OneTurn' /\ Unanswered'
  BY <1>1 DEF ChatOrder, IdsCarried, OneTurn, Unanswered
<1>3. CASE StoreManualReply
  <2>1. /\ conv # 0 /\ Append(conv, "admin", NoText) /\ UNCHANGED <<paused, ended, ahead>>
        /\ rows \subseteq rows'
    BY <1>3 DEF StoreManualReply, Append, observed
  <2>2. RowsStand' /\ AnsweredOnRecord'
    BY <1>1, <2>1, AppendKeeps
  <2>3. IdsInOrder' /\ HandoverHeld' /\ PromiseKept' /\ Stored' /\ HeldBack'
    BY <1>1, <2>1 DEF ChatOrder, IdsInOrder, HandoverHeld, PromiseKept, Stored, HeldBack
  <2>4. QED
    BY <1>2, <2>2, <2>3 DEF ChatOrder
<1>4. CASE SendManualReply
  <2>1. UNCHANGED <<rows, paused, ended, ahead>>
    BY <1>4 DEF SendManualReply, chat, observed
  <2>2. QED
    BY <1>1, <1>2, <2>1 DEF ChatOrder, IdsInOrder, RowsStand, AnsweredOnRecord,
                            HandoverHeld, PromiseKept, Stored, HeldBack
<1>5. CASE PauseAfterManualReply
  <2>1. /\ UNCHANGED rows
        /\ \/ UNCHANGED <<paused, ended, ahead>>
           \/ /\ conv # 0 /\ paused'
              /\ ahead' = IF paused THEN ahead ELSE {g \in Handlers : turn[g].pc \in PastPause}
    BY <1>5, ConversationAssumption
    DEF PauseAfterManualReply, Hold, ChatOrder, IdsCarried, TypeOK, Ids, ConversationAssumption
  <2>2. IdsInOrder' /\ RowsStand' /\ AnsweredOnRecord' /\ Stored'
    BY <1>1, <2>1 DEF ChatOrder, IdsInOrder, RowsStand, AnsweredOnRecord, Stored
  <2>3. HandoverHeld' /\ PromiseKept' /\ HeldBack'
    BY <1>1, <2>1 DEF ChatOrder, HandoverHeld, PromiseKept, HeldBack
  <2>4. QED
    BY <1>2, <2>2, <2>3 DEF ChatOrder
<1>6. QED
  BY <1>3, <1>4, <1>5

LEMMA ResumeConversationKeeps ==
  ASSUME TypeOK, ChatOrder, ResumeConversation
  PROVE  ChatOrder'
<1>1. /\ UNCHANGED <<seen, conv, lastId, rows, turn, staff, erasure, answers, promised>>
      /\ ~paused' /\ ended' = Messages /\ promised \subseteq Messages
  BY DEF ResumeConversation, Lapse, TypeOK
<1>2. IdsInOrder' /\ IdsCarried' /\ OneTurn' /\ RowsStand' /\ Unanswered' /\ Stored'
      /\ AnsweredOnRecord' /\ HeldBack'
  BY <1>1 DEF ChatOrder, IdsInOrder, IdsCarried, OneTurn, RowsStand, Unanswered, Stored,
              AnsweredOnRecord, HeldBack
<1>3. \A h \in Handlers : turn[h].pc # "idle" => turn[h].m \in Messages
  BY DEF ChatOrder, OneTurn, TypeOK
<1>4. HandoverHeld' /\ PromiseKept'
  BY <1>1, <1>3 DEF ChatOrder, HandoverHeld, PromiseKept
<1>5. QED
  BY <1>2, <1>4 DEF ChatOrder

LEMMA EraseMessagesKeeps ==
  ASSUME TypeOK, ChatOrder, EraseMessages
  PROVE  ChatOrder'
<1>1. /\ UNCHANGED <<seen, conv, lastId, rows, paused, turn, staff, answers, promised, ended, ahead>>
      /\ conv # 0 /\ conv <= MaxErasures
  BY DEF EraseMessages, chat, observed
<1>2. QED
  BY <1>1 DEF ChatOrder, IdsInOrder, IdsCarried, OneTurn, RowsStand, HandoverHeld, PromiseKept,
              Unanswered, Stored, AnsweredOnRecord, HeldBack

\* The chat goes with all that was said in it, or stays as it was.
LEMMA EraseConversationKeeps ==
  ASSUME TypeOK, ChatOrder, EraseConversation
  PROVE  ChatOrder'
<1>1. /\ UNCHANGED <<seen, lastId, turn, staff, answers, promised>> /\ ~erasure'.open
      /\ conv # 0 /\ conv = lastId /\ lastId <= MaxErasures
  BY DEF EraseConversation, ChatOrder, IdsInOrder
<1>2. CASE UNCHANGED <<rows, conv, paused, ended, ahead>>
  BY <1>1, <1>2
  DEF ChatOrder, IdsInOrder, IdsCarried, OneTurn, RowsStand, HandoverHeld, PromiseKept,
      Unanswered, Stored, AnsweredOnRecord, HeldBack
<1>3. CASE rows' = {} /\ conv' = 0 /\ Lapse
  <2>1. ~paused' /\ ended' = Messages /\ promised \subseteq Messages
    BY <1>3 DEF Lapse, TypeOK
  <2>2. IdsInOrder' /\ IdsCarried' /\ OneTurn' /\ RowsStand' /\ Unanswered' /\ HeldBack'
    BY <1>1, <1>3, <2>1
    DEF ChatOrder, IdsInOrder, IdsCarried, OneTurn, RowsStand, Unanswered, HeldBack
  <2>3. \A h \in Handlers : turn[h].pc # "idle" => turn[h].m \in Messages
    BY DEF ChatOrder, OneTurn, TypeOK
  <2>4. HandoverHeld' /\ PromiseKept'
    BY <1>1, <2>1, <2>3 DEF ChatOrder, HandoverHeld, PromiseKept
  <2>5. Stored'
    BY <1>1, <1>3 DEF ChatOrder, IdsCarried, Stored, Rooted, PastPause
  <2>6. AnsweredOnRecord'
    <3>1. \A m \in Messages : answers[m].times = 1 => answers[m].conv # 0
      BY DEF ChatOrder, IdsCarried
    <3>2. QED
      BY <1>1, <1>3, <3>1 DEF ChatOrder, AnsweredOnRecord
  <2>7. QED
    BY <2>2, <2>4, <2>5, <2>6 DEF ChatOrder
<1>4. QED
  BY <1>2, <1>3 DEF EraseConversation

LEMMA NextKeeps ==
  ASSUME TypeOK, ChatOrder, [Next]_vars
  PROVE  ChatOrder'
<1>1. CASE UNCHANGED vars \/ UpdateExchange
  <2>1. UNCHANGED <<seen, conv, lastId, rows, paused, turn, staff, erasure,
                    answers, promised, ended, ahead>>
    BY <1>1 DEF vars, chat, observed, UpdateExchange
  <2>2. QED
    BY <2>1
    DEF ChatOrder, IdsInOrder, IdsCarried, OneTurn, RowsStand, HandoverHeld, PromiseKept,
        Unanswered, Stored, AnsweredOnRecord, HeldBack
<1>2. QED
  BY <1>1, TakesKeeps, RecordIfNewKeeps, StaffKeeps, ResumeConversationKeeps,
     EraseMessagesKeeps, EraseConversationKeeps
  DEF Next

-----------------------------------------------------------------------------
(* The requests of an exchange                                             *)

LEMMA NextOneRequest ==
  ASSUME TypeOK, OneRequest, [Next]_vars
  PROVE  OneRequest'
<1>1. CASE UNCHANGED requests
  BY <1>1 DEF OneRequest
<1>2. ASSUME NEW h \in Handlers, CreateExchange(h)
      PROVE  OneRequest'
  BY <1>2 DEF CreateExchange, Book, OneRequest
<1>3. CASE UpdateExchange
  BY <1>3 DEF UpdateExchange, SetStatus, OneRequest
<1>4. QED
  BY <1>1, <1>2, <1>3
  DEF Next, Takes, vars, LoadControls, LoadHistory, ReadPause, ClassifyIntent, AskModel,
      PauseUntil, AppendUser, AppendReply, SendText, AlertOwner, CutOff, RecordIfNew,
      StoreManualReply, SendManualReply, PauseAfterManualReply, ResumeConversation,
      EraseMessages, EraseConversation

-----------------------------------------------------------------------------
(* The theorems                                                            *)

LEMMA ChatInvInit == Init => ChatInv
<1>1. SUFFICES ASSUME Init PROVE ChatInv
  OBVIOUS
<1>2. TypeOK
  BY <1>1, TypeInit
<1>3. \A h \in Handlers : turn[h].pc = "idle"
  BY <1>1 DEF Init, TurnIdle
<1>4. \A m \in Messages : answers[m].times = 0
  BY <1>1 DEF Init
<1>5. /\ conv = 0 /\ lastId = 0 /\ ~paused /\ staff.pc = "idle" /\ ~erasure.open
      /\ rows = {} /\ promised = {} /\ requests = {}
  BY <1>1 DEF Init, ExchangeInit, StaffIdle
<1>6. IdsInOrder
  BY <1>5, ConversationAssumption DEF IdsInOrder, ConversationAssumption
<1>7. IdsCarried /\ OneTurn /\ RowsStand /\ HandoverHeld
  BY <1>3, <1>4, <1>5 DEF IdsCarried, OneTurn, RowsStand, HandoverHeld, Rooted, PastPause
<1>8. PromiseKept /\ Unanswered /\ Stored /\ HeldBack /\ OneRequest
  BY <1>3, <1>4, <1>5 DEF PromiseKept, Unanswered, Stored, HeldBack, OneRequest, PastPause
<1>9. AnsweredOnRecord
  BY <1>4 DEF AnsweredOnRecord
<1>10. QED
  BY <1>2, <1>6, <1>7, <1>8, <1>9 DEF ChatInv

LEMMA ChatInvNext == ChatInv /\ [Next]_vars => ChatInv'
<1>1. SUFFICES ASSUME ChatInv, [Next]_vars PROVE ChatInv'
  OBVIOUS
<1>2. TypeOK /\ ChatOrder /\ OneRequest /\ IdsInOrder /\ OneTurn
  BY <1>1 DEF ChatInv, ChatOrder
<1>3. TypeOK' /\ ChatOrder' /\ OneRequest'
  BY <1>1, <1>2, NextType, NextKeeps, NextOneRequest
<1>4. QED
  BY <1>3 DEF ChatInv, ChatOrder

LEMMA ChatInvAlways == Spec => []ChatInv
BY ChatInvInit, ChatInvNext, PTL DEF Spec

\* Every variable of the chat keeps its range.
THEOREM ChatTypes == Spec => []TypeOK
<1>1. ChatInv => TypeOK
  BY DEF ChatInv
<1>2. QED
  BY <1>1, ChatInvAlways, PTL

\* Whoever was told that a person takes over is in a chat the assistant leaves
\* alone, until the pause is lifted, runs out or goes with the chat's erasure
\* (_run_turn in core/conversation.py, pause_until in store/postgres.py).
THEOREM HandoffSilences == Spec => []PromiseKept
<1>1. ChatInv => PromiseKept
  BY DEF ChatInv
<1>2. QED
  BY <1>1, ChatInvAlways, PTL

\* A text is answered once at most, whatever is delivered again and whichever
\* turns overlap, and the answer has both sides of the exchange on record
\* (record_if_new, append_message).
THEOREM OneAnswerOnRecord == Spec => []AnsweredOnRecord
<1>1. ChatInv => AnsweredOnRecord
  BY DEF ChatInv
<1>2. QED
  BY <1>1, ChatInvAlways, PTL

\* No turn and no manual reply writes into a chat that an erasure has ended
\* (delete_by_phone, and the foreign key of messages).
THEOREM ErasureHolds == Spec => []ErasedStaysErased
<1>1. ChatInv => ErasedStaysErased
  BY DEF ChatInv, RowsStand, ErasedStaysErased
<1>2. QED
  BY <1>1, ChatInvAlways, PTL

\* One request per order, whichever turns book it at once and whatever becomes
\* of it (the unique index of exchange_requests).
THEOREM OneCourier == Spec => []ExchangeOnce
<1>1. ASSUME ChatInv PROVE ExchangeOnce
  <2>1. CASE requests = {}
    BY <2>1, FS_EmptySet DEF ExchangeOnce
  <2>2. CASE requests # {}
    <3>1. PICK r \in requests : TRUE
      BY <2>2
    <3>2. requests = {r}
      BY <1>1, <3>1 DEF ChatInv, OneRequest
    <3>3. Cardinality({r}) = 1
      BY FS_Singleton
    <3>4. QED
      BY <3>2, <3>3 DEF ExchangeOnce
  <2>3. QED
    BY <2>1, <2>2
<1>2. QED
  BY <1>1, ChatInvAlways, PTL

\* Once a chat is held, whoever still answers in it had looked before.
THEOREM HeldChatIsLeft == Spec => OnlyTurnsInFlightTalkOver
<1>1. ChatInv =>
        \A h \in Handlers :
          paused /\ turn[h].conv = conv /\ turn[h].pc = "send" => h \in ahead
  BY DEF ChatInv, HeldBack, PastPause
<1>2. ChatInv /\ [Next]_vars =>
        [\A h \in Handlers :
           /\ paused /\ turn[h].conv = conv /\ turn[h].pc = "send"
           /\ answers'[turn[h].m] # answers[turn[h].m]
           => h \in ahead]_vars
  BY <1>1
<1>3. QED
  BY <1>2, ChatInvAlways, PTL DEF Spec, OnlyTurnsInFlightTalkOver

-----------------------------------------------------------------------------
(***************************************************************************)
(* Module Conversation implements module Helpdesk: each step of a turn, of *)
(* the staff or of an erasure is one of the contract's, or only ends a     *)
(* turn.                                                                   *)
(***************************************************************************)

\* A turn that goes on, or ends, adds no text to those in flight.
LEMMA NoneTakesOff ==
  ASSUME TypeOK, NEW h \in Handlers, \A g \in Handlers \ {h} : turn'[g] = turn[g],
         turn'[h].pc = "idle" \/ (turn[h].pc # "idle" /\ turn'[h].m = turn[h].m),
         ahead' \subseteq ahead
  PROVE  InFlight' \subseteq InFlight
<1>1. ahead \subseteq Handlers
  BY DEF TypeOK
<1>2. ASSUME NEW g \in ahead', turn'[g].pc # "idle"
      PROVE  turn[g].pc # "idle" /\ turn'[g].m = turn[g].m /\ g \in ahead
  BY <1>1, <1>2
<1>3. QED
  BY <1>2 DEF InFlight, At

\* Nothing that the contract speaks of changes but the turn at work.
LEMMA QuietIsGiveUp ==
  ASSUME TypeOK, NEW h \in Handlers, \A g \in Handlers \ {h} : turn'[g] = turn[g],
         turn'[h].pc = "idle" \/ (turn[h].pc # "idle" /\ turn'[h].m = turn[h].m),
         UNCHANGED <<seen, chat, observed>>
  PROVE  Desk!Next
<1>1. InFlight' \subseteq InFlight
  BY NoneTakesOff DEF observed
<1>2. Desk!GiveUp
  BY <1>1 DEF Desk!GiveUp, Desk!TurnsEnd, Desk!record, Desk!hold, Said, chat, observed
<1>3. QED
  BY <1>2 DEF Desk!Next

\* How the steps of a turn leave its record.
LEMMA TurnGoesOn ==
  ASSUME TypeOK, NEW h \in Handlers, Takes(h)
  PROVE  /\ \A g \in Handlers \ {h} : turn'[g] = turn[g]
         /\ turn'[h].pc = "idle" \/ (turn[h].pc # "idle" /\ turn'[h].m = turn[h].m)
<1>0. turn \in [Handlers -> Turn] /\ turn[h] \in Turn
  BY DEF TypeOK
<1>1. CASE Ends(h)
  BY <1>0, <1>1 DEF Ends, TurnIdle
<1>2. ASSUME NEW pc, Goes(h, pc), turn[h].pc # "idle"
      PROVE  /\ \A g \in Handlers \ {h} : turn'[g] = turn[g]
             /\ turn'[h].pc = "idle" \/ (turn[h].pc # "idle" /\ turn'[h].m = turn[h].m)
  BY <1>0, <1>2 DEF Goes, Turn
<1>3. CASE LoadControls(h)
  BY <1>0, <1>1, <1>3 DEF LoadControls, At, Turn
<1>4. CASE LoadHistory(h)
  BY <1>0, <1>4 DEF LoadHistory, At, Turn
<1>5. CASE ClassifyIntent(h)
  BY <1>0, <1>5 DEF ClassifyIntent, At, Turn
<1>6. CASE AskModel(h)
  BY <1>0, <1>6 DEF AskModel, At, Turn
<1>7. CASE ReadPause(h) \/ CreateExchange(h) \/ PauseUntil(h)
  BY <1>2, <1>7 DEF ReadPause, CreateExchange, PauseUntil, At
<1>8. CASE AppendUser(h) \/ AppendReply(h)
  BY <1>1, <1>2, <1>8 DEF AppendUser, AppendReply, At
<1>9. CASE SendText(h)
  BY <1>1, <1>2, <1>9 DEF SendText, At
<1>10. CASE AlertOwner(h) \/ CutOff(h)
  BY <1>1, <1>10 DEF AlertOwner, CutOff
<1>11. QED
  BY <1>3, <1>4, <1>5, <1>6, <1>7, <1>8, <1>9, <1>10 DEF Takes

LEMMA LoadHistoryMaps ==
  ASSUME ChatInv, NEW h \in Handlers, LoadHistory(h)
  PROVE  Desk!Next
<1>1. InFlight' \subseteq InFlight
  BY TurnGoesOn, NoneTakesOff DEF ChatInv, Takes, LoadHistory, observed
<1>2. UNCHANGED <<seen, rows, paused, answers, promised, ended, ahead>>
  BY DEF LoadHistory, observed
<1>3. CASE conv = 0
  <2>1. conv' = lastId + 1 /\ lastId \in Nat /\ conv' \in Ids
    BY <1>3, NoIdsBeyond, ConversationAssumption
    DEF LoadHistory, ChatInv, TypeOK, Ids, ConversationAssumption
  <2>2. \A m \in Messages : answers[m].times > 0 => answers[m].conv # conv'
    <3>1. \A m \in Messages : answers[m].times # 0 => answers[m].conv \in 1 .. lastId
      BY DEF ChatInv, IdsCarried
    <3>2. \A m \in Messages : answers[m].times \in Nat
      BY DEF ChatInv, TypeOK, Answer
    <3>3. QED
      BY <2>1, <3>1, <3>2
  <2>3. conv' # 0
    BY <2>1
  <2>4. Desk!Open
    BY <1>1, <1>2, <1>3, <2>1, <2>2, <2>3 DEF Desk!Open, Desk!TurnsEnd, Desk!hold, Said
  <2>5. QED
    BY <2>4 DEF Desk!Next
<1>4. CASE conv # 0
  <2>1. UNCHANGED <<seen, chat, observed>>
    BY <1>4 DEF LoadHistory, chat, observed
  <2>2. QED
    BY <2>1, TurnGoesOn, QuietIsGiveUp DEF ChatInv, Takes
<1>5. QED
  BY <1>3, <1>4

\* Whoever is past the pause when the chat is taken over is in a turn of a text
\* on record.
LEMMA HoldMaps ==
  ASSUME ChatInv, NEW m \in Messages \cup {NoText}, NEW id, id # 0, id = conv, Hold(id, m),
         UNCHANGED <<seen, conv, rows, answers, promised>>,
         InFlight' \subseteq {turn[h].m : h \in {g \in ahead' : turn[g].pc # "idle"}}
  PROVE  Desk!Next
<1>1. ahead' = IF paused THEN ahead ELSE {h \in Handlers : turn[h].pc \in PastPause}
  BY DEF Hold
<1>2. InFlight' \subseteq IF paused THEN InFlight ELSE seen
  <2>1. CASE paused
    BY <1>1, <2>1 DEF InFlight, At
  <2>2. CASE ~paused
    BY <1>1, <2>2 DEF ChatInv, OneTurn, PastPause
  <2>3. QED
    BY <2>1, <2>2
<1>3. Desk!Hold(m)
  BY <1>2 DEF Hold, Desk!Hold, Desk!record, Said
<1>4. QED
  BY <1>3 DEF Desk!Next

LEMMA PauseUntilMaps ==
  ASSUME ChatInv, NEW h \in Handlers, PauseUntil(h)
  PROVE  Desk!Next
<1>1. /\ \A g \in Handlers \ {h} : turn'[g] = turn[g]
      /\ turn'[h].pc = "user" /\ turn[h].pc = "hold" /\ turn'[h].m = turn[h].m
      /\ ahead' \subseteq Handlers
  BY DEF PauseUntil, Hold, Goes, At, ChatInv, TypeOK, Turn
<1>2. turn[h].conv # 0 /\ turn[h].m \in Messages
  BY <1>1, ConversationAssumption
  DEF ChatInv, IdsCarried, OneTurn, Rooted, PastPause, TypeOK, Ids, ConversationAssumption
<1>3. CASE turn[h].conv = conv
  <2>1. InFlight' \subseteq {turn[f].m : f \in {g \in ahead' : turn[g].pc # "idle"}}
    BY <1>1 DEF InFlight, At
  <2>2. QED
    BY <1>2, <1>3, <2>1, HoldMaps DEF PauseUntil
<1>4. CASE turn[h].conv # conv
  <2>1. UNCHANGED <<seen, chat, observed>>
    BY <1>4 DEF PauseUntil, Hold, chat, observed
  <2>2. QED
    BY <1>1, <2>1, QuietIsGiveUp DEF ChatInv
<1>5. QED
  BY <1>3, <1>4

\* A row that is stored is something said in the chat that stands.
LEMMA AppendSays ==
  ASSUME NEW role, NEW m, Append(conv, role, m)
  PROVE  Said' = Said \cup {<<role, m>>}
<1>1. rows' = rows \cup {[conv |-> conv, role |-> role, m |-> m]}
  BY DEF Append
<1>2. <<role, m>> \in Said' /\ Said \subseteq Said'
  <2> DEFINE row == [conv |-> conv, role |-> role, m |-> m]
  <2>1. row \in rows' /\ row.role = role /\ row.m = m
    BY <1>1
  <2>2. <<role, m>> \in Said'
    <3> HIDE DEF row
    <3>1. QED
      BY <2>1 DEF Said
  <2>3. Said \subseteq Said'
    BY <1>1 DEF Said
  <2>4. QED
    BY <2>2, <2>3
<1>3. ASSUME NEW x \in Said' PROVE x \in Said \cup {<<role, m>>}
  <2>1. PICK r \in rows' : x = <<r.role, r.m>>
    BY <1>3 DEF Said
  <2>2. QED
    BY <1>1, <2>1 DEF Said
<1>4. QED
  BY <1>2, <1>3

LEMMA AppendMaps ==
  ASSUME ChatInv, NEW h \in Handlers, AppendUser(h) \/ AppendReply(h)
  PROVE  Desk!Next
<1>1. /\ InFlight' \subseteq InFlight
      /\ UNCHANGED <<seen, conv, paused, answers, promised, ended>>
  BY TurnGoesOn, NoneTakesOff DEF ChatInv, Takes, AppendUser, AppendReply, observed
<1>2. /\ turn[h].pc \in {"user", "aside", "reply"} /\ turn[h].conv = conv
      /\ turn[h].m \in seen /\ turn[h].m \in Messages
  BY DEF AppendUser, AppendReply, Append, At, ChatInv, OneTurn, TypeOK
<1>3. conv # 0
  BY <1>2, ConversationAssumption
  DEF ChatInv, IdsCarried, Rooted, PastPause, TypeOK, Ids, ConversationAssumption
<1>4. CASE AppendUser(h)
  <2>1. Said' = Said \cup {<<"user", turn[h].m>>}
    BY <1>2, <1>4, AppendSays DEF AppendUser
  <2>2. Desk!Say("user", turn[h].m)
    BY <1>1, <1>2, <1>3, <2>1 DEF Desk!Say, Desk!TurnsEnd, Desk!hold
  <2>3. QED
    BY <1>2, <2>2 DEF Desk!Next
<1>5. CASE AppendReply(h)
  <2>1. Said' = Said \cup {<<"assistant", turn[h].m>>}
    BY <1>2, <1>5, AppendSays DEF AppendReply
  <2>2. [conv |-> conv, role |-> "user", m |-> turn[h].m] \in rows
    BY <1>2, <1>5 DEF AppendReply, At, ChatInv, Stored
  <2>3. <<"user", turn[h].m>> \in Said
    BY <2>2 DEF Said
  <2>4. Desk!Say("assistant", turn[h].m)
    BY <1>1, <1>3, <2>1, <2>3 DEF Desk!Say, Desk!TurnsEnd, Desk!hold
  <2>5. QED
    BY <1>2, <2>4 DEF Desk!Next
<1>6. QED
  BY <1>4, <1>5

\* The answer goes out with both sides on record, or to an erased chat, and in a
\* chat that is held only from a turn that was ahead of the pause.
LEMMA SendTextMaps ==
  ASSUME ChatInv, NEW h \in Handlers, SendText(h)
  PROVE  Desk!Next
<1>1. turn[h].pc = "send" /\ turn[h].m \in seen /\ turn[h].m \in Messages
  BY DEF SendText, At, ChatInv, OneTurn, TypeOK
<1>2. InFlight' \subseteq InFlight /\ UNCHANGED <<seen, chat, ended>>
  BY TurnGoesOn, NoneTakesOff DEF ChatInv, Takes, SendText
<1>3. CASE UNCHANGED <<answers, promised>>
  <2>1. UNCHANGED <<seen, chat, observed>>
    BY <1>3 DEF SendText, observed
  <2>2. QED
    BY <2>1, TurnGoesOn, QuietIsGiveUp DEF ChatInv, Takes
<1>4. CASE Delivered(h)
  <2>1. answers[turn[h].m].times = 0
    BY <1>1 DEF ChatInv, Unanswered
  <2>2. answers' = [answers EXCEPT ![turn[h].m] = [times |-> 1, conv |-> turn[h].conv]]
    BY <1>1, <1>4, <2>1 DEF Delivered, ChatInv, TypeOK
  <2>3. turn[h].conv \in Ids /\ turn[h].conv # 0
    BY <1>1, ConversationAssumption
    DEF ChatInv, IdsCarried, Rooted, PastPause, TypeOK, Turn, Ids, ConversationAssumption
  <2>4. turn[h].conv = conv =>
          {<<"user", turn[h].m>>, <<"assistant", turn[h].m>>} \subseteq Said
    <3>1. SUFFICES ASSUME turn[h].conv = conv
                   PROVE  {<<"user", turn[h].m>>, <<"assistant", turn[h].m>>} \subseteq Said
      OBVIOUS
    <3>2. /\ [conv |-> conv, role |-> "user", m |-> turn[h].m] \in rows
          /\ [conv |-> conv, role |-> "assistant", m |-> turn[h].m] \in rows
      BY <1>1, <3>1 DEF ChatInv, Stored
    <3>3. QED
      BY <3>2 DEF Said
  <2>5. turn[h].conv = conv /\ paused => turn[h].m \in InFlight
    BY <1>1 DEF ChatInv, HeldBack, PastPause, InFlight, At
  <2>6. \/ promised' = promised
        \/ (paused \/ turn[h].m \in ended) /\ promised' = promised \cup {turn[h].m}
    BY <1>1, <1>4 DEF Delivered, ChatInv, HandoverHeld
  <2>7. Desk!Answer(turn[h].m, turn[h].conv)
    BY <1>1, <1>2, <2>1, <2>2, <2>3, <2>4, <2>5, <2>6
    DEF Desk!Answer, Desk!Backed, Desk!TurnsEnd, Desk!record, Desk!hold, Said, chat
  <2>8. QED
    BY <1>1, <2>3, <2>7 DEF Desk!Next
<1>5. QED
  BY <1>3, <1>4 DEF SendText

LEMMA AlertOwnerMaps ==
  ASSUME ChatInv, NEW h \in Handlers, AlertOwner(h)
  PROVE  Desk!Next
<1>1. /\ turn[h].m \in seen /\ turn[h].m \in Messages
      /\ paused \/ turn[h].m \in ended
  BY DEF AlertOwner, At, ChatInv, OneTurn, TypeOK, HandoverHeld
<1>2. InFlight' \subseteq InFlight
  BY TurnGoesOn, NoneTakesOff DEF ChatInv, Takes, AlertOwner
<1>3. Desk!Tell(turn[h].m)
  BY <1>1, <1>2
  DEF AlertOwner, Desk!Tell, Desk!Backed, Desk!TurnsEnd, Desk!record, Desk!hold, Said, chat
<1>4. QED
  BY <1>1, <1>3 DEF Desk!Next

LEMMA TakesMaps ==
  ASSUME ChatInv, NEW h \in Handlers, Takes(h)
  PROVE  Desk!Next
<1>1. CASE \/ LoadControls(h) \/ ReadPause(h) \/ ClassifyIntent(h) \/ AskModel(h)
           \/ CreateExchange(h) \/ CutOff(h)
  <2>1. UNCHANGED <<seen, chat, observed>>
    BY <1>1 DEF LoadControls, ReadPause, ClassifyIntent, AskModel, CreateExchange, CutOff
  <2>2. QED
    BY <2>1, TurnGoesOn, QuietIsGiveUp DEF ChatInv
<1>2. QED
  BY <1>1, LoadHistoryMaps, PauseUntilMaps, AppendMaps, SendTextMaps, AlertOwnerMaps DEF Takes

LEMMA RecordIfNewMaps ==
  ASSUME ChatInv, NEW h \in Handlers, NEW m \in Messages, RecordIfNew(h, m)
  PROVE  Desk!Next
<1>1. \A g \in Handlers \ {h} : turn'[g] = turn[g]
  BY DEF RecordIfNew, ChatInv, TypeOK
<1>2. ahead' = ahead \ {h} /\ ahead \subseteq Handlers
  BY DEF RecordIfNew, ChatInv, TypeOK
<1>3. InFlight' \subseteq InFlight
  BY <1>1, <1>2 DEF InFlight, At
<1>4. Desk!Take(m)
  BY <1>3 DEF RecordIfNew, Desk!Take, Desk!TurnsEnd, Desk!record, Said, chat
<1>5. QED
  BY <1>4 DEF Desk!Next

LEMMA StaffMaps ==
  ASSUME ChatInv, StoreManualReply \/ SendManualReply \/ PauseAfterManualReply
  PROVE  Desk!Next
<1>1. UNCHANGED <<seen, conv, turn, answers, promised>>
  BY DEF StoreManualReply, SendManualReply, PauseAfterManualReply, chat, observed
<1>2. ASSUME UNCHANGED <<chat, observed>> PROVE Desk!Next
  <2>1. Desk!GiveUp
    BY <1>1, <1>2
    DEF Desk!GiveUp, Desk!TurnsEnd, Desk!record, Desk!hold, Said, InFlight, At, chat, observed
  <2>2. QED
    BY <2>1 DEF Desk!Next
<1>3. CASE StoreManualReply
  <2>1. conv # 0 /\ Said' = Said \cup {<<"admin", NoText>>} /\ InFlight' = InFlight
    BY <1>1, <1>3, AppendSays DEF StoreManualReply, InFlight, At, observed
  <2>2. Desk!Say("admin", NoText)
    BY <1>1, <1>3, <2>1 DEF StoreManualReply, Desk!Say, Desk!TurnsEnd, Desk!hold, observed
  <2>3. QED
    BY <2>2 DEF Desk!Next
<1>4. CASE SendManualReply
  BY <1>2, <1>4 DEF SendManualReply
<1>5. CASE PauseAfterManualReply
  <2>1. staff.conv # 0 /\ Hold(staff.conv, NoText) /\ UNCHANGED rows
    BY <1>5, ConversationAssumption
    DEF PauseAfterManualReply, ChatInv, IdsCarried, TypeOK, Ids, ConversationAssumption
  <2>2. InFlight' \subseteq {turn[h].m : h \in {g \in ahead' : turn[g].pc # "idle"}}
    BY <1>1 DEF InFlight, At
  <2>3. CASE staff.conv = conv
    BY <1>1, <2>1, <2>2, <2>3, HoldMaps
  <2>4. CASE staff.conv # conv
    <3>1. UNCHANGED <<lastId, rows, paused, answers, promised, ended, ahead>>
      BY <1>5, <2>1, <2>4 DEF Hold, PauseAfterManualReply
    <3>2. UNCHANGED <<chat, observed>>
      BY <1>1, <3>1 DEF chat, observed
    <3>3. QED
      BY <1>2, <3>2
  <2>5. QED
    BY <2>3, <2>4
<1>6. QED
  BY <1>3, <1>4, <1>5

\* The chat is given back, or goes as a whole.
LEMMA FreeMaps ==
  ASSUME Lapse
  PROVE  Desk!Free
BY DEF Lapse, Desk!Free, InFlight

LEMMA EraseConversationMaps ==
  ASSUME ChatInv, EraseConversation
  PROVE  Desk!Next
<1>1. UNCHANGED <<seen, turn, answers, promised>> /\ conv # 0
  BY DEF EraseConversation, ChatInv, IdsInOrder
<1>2. CASE rows' = {} /\ conv' = 0 /\ Lapse
  <2>1. Desk!Erase
    BY <1>1, <1>2, FreeMaps DEF Desk!Erase, Said
  <2>2. QED
    BY <2>1 DEF Desk!Next
<1>3. CASE UNCHANGED <<rows, conv, paused, ended, ahead>>
  <2>1. Desk!GiveUp
    BY <1>1, <1>3
    DEF Desk!GiveUp, Desk!TurnsEnd, Desk!record, Desk!hold, Said, InFlight, At
  <2>2. QED
    BY <2>1 DEF Desk!Next
<1>4. QED
  BY <1>2, <1>3 DEF EraseConversation

LEMMA NextMaps ==
  ASSUME ChatInv, [Next]_vars
  PROVE  Desk!Next
<1>1. CASE UpdateExchange \/ EraseMessages \/ UNCHANGED vars
  <2>1. UNCHANGED <<seen, chat, turn, observed>>
    BY <1>1 DEF UpdateExchange, EraseMessages, vars
  <2>2. Desk!GiveUp
    BY <2>1
    DEF Desk!GiveUp, Desk!TurnsEnd, Desk!record, Desk!hold, Said, InFlight, At, chat, observed
  <2>3. QED
    BY <2>2 DEF Desk!Next
<1>2. CASE ResumeConversation
  <2>1. Desk!Resume
    BY <1>2, FreeMaps DEF ResumeConversation, Desk!Resume, Desk!record, Said
  <2>2. QED
    BY <2>1 DEF Desk!Next
<1>3. QED
  BY <1>1, <1>2, TakesMaps, RecordIfNewMaps, StaffMaps, EraseConversationMaps DEF Next

\* The chat, with every await at which a turn can be overtaken, cut off or lose
\* its chat to an erasure, keeps the contract of Helpdesk (_run_turn in
\* core/conversation.py, send_manual_reply and delete_by_phone).
THEOREM KeepsItsPromises == Spec => ImplementsHelpdesk
<1>1. Init => Desk!Init
  <2>1. SUFFICES ASSUME Init PROVE Desk!Init
    OBVIOUS
  <2>2. Said = {} /\ InFlight = {}
    BY <2>1 DEF Init, Said, InFlight
  <2>3. QED
    BY <2>1, <2>2 DEF Init, Desk!Init
<1>2. ChatInv /\ [Next]_vars => [Desk!Next]_(Desk!vars)
  BY NextMaps
<1>3. QED
  BY <1>1, <1>2, ChatInvAlways, PTL DEF Spec, ImplementsHelpdesk, Desk!Spec
=============================================================================
