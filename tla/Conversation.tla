---------------------------- MODULE Conversation ----------------------------
(***************************************************************************)
(* One customer's chat with the assistant.  A text from Meta is recorded,  *)
(* then answered in a turn, one action per await that touches shared state *)
(*                                                                         *)
(*   controls -> history -> pause -> ask -> model -> book -> hold ->       *)
(*   user -> reply -> send -> alert                                        *)
(*                                                                         *)
(* Turns of different texts overlap, each may be cut off at any await, and *)
(* meanwhile the store's staff answer by hand, give the chat back to the   *)
(* assistant, and erase the customer.                                      *)
(***************************************************************************)
EXTENDS SizeExchange, Integers

CONSTANTS
  NoText,
  Handlers,      \* deliveries of Meta's being processed
  MaxErasures    \* bound: erasures of the customer

ASSUME ConversationAssumption ==
  NoText \notin Messages /\ MaxErasures \in Nat

VARIABLES
  seen,      \* processed_messages
  conv,      \* the id of the customer's conversations row; 0 is none
  lastId,
  rows,      \* messages
  paused,    \* conversations.paused_until lies ahead
  turn, staff,
  erasure,   \* the rows an open erasure has deleted
  (* Observers: how often a text was answered and in which conversation, the *)
  (* texts of which the customer or the owner was told that a person takes   *)
  (* over, the texts whose pause has ended since, and the handlers whose     *)
  (* turn had read the pause when it was set.                                *)
  answers, promised, ended, ahead

chat == <<conv, lastId, rows, paused>>
observed == <<answers, promised, ended, ahead>>
vars == <<requests, seen, chat, turn, staff, erasure, observed>>

Ids == 0 .. MaxErasures + 1
Row == [conv : Ids, role : {"user", "assistant", "admin"},
        m : Messages \cup {NoText}]
Turn == [pc : {"idle", "controls", "history", "pause", "aside", "ask", "model", "book",
               "hold", "user", "reply", "send", "alert"},
         m : Messages \cup {NoText}, conv : Ids, gated : BOOLEAN,
         known : BOOLEAN, handoff : BOOLEAN]
Answer == [times : 0 .. 2, conv : Ids]

TurnIdle == [pc |-> "idle", m |-> NoText, conv |-> 0, gated |-> FALSE, known |-> TRUE,
             handoff |-> FALSE]
StaffIdle == [pc |-> "idle", conv |-> 0]

Init ==
  /\ ExchangeInit
  /\ seen = {} /\ conv = 0 /\ lastId = 0 /\ rows = {} /\ paused = FALSE
  /\ turn = [h \in Handlers |-> TurnIdle] /\ staff = StaffIdle
  /\ erasure = [open |-> FALSE, gone |-> {}]
  /\ answers = [m \in Messages |-> [times |-> 0, conv |-> 0]]
  /\ promised = {} /\ ended = {} /\ ahead = {}

-----------------------------------------------------------------------------
(* Statements on the store                                                 *)

\* Broken: the row is written whether or not its conversation still stands.
BrokenAppend(id, role, m) ==
  rows' = rows \cup {[conv |-> id, role |-> role, m |-> m]}

\* append_message: the foreign key refuses a conversation that is gone.
Append(id, role, m) ==
  id = conv /\ rows' = rows \cup {[conv |-> id, role |-> role, m |-> m]}

PastPause == {"ask", "model", "book", "hold", "user", "reply", "send", "alert"}

\* pause_until updates the row of that id, if it is there.
Hold(id, m) ==
  IF id = conv
    THEN /\ paused' = TRUE /\ ended' = ended \ {m}
         /\ ahead' = IF paused THEN ahead
                     ELSE {h \in Handlers : turn[h].pc \in PastPause}
    ELSE UNCHANGED <<paused, ended, ahead>>

Lapse == paused' = FALSE /\ ended' = Messages /\ ahead' = {}

-----------------------------------------------------------------------------
(* A delivery                                                              *)

At(h, pc) == turn[h].pc = pc
Goes(h, pc) == turn' = [turn EXCEPT ![h].pc = pc]
Ends(h) == turn' = [turn EXCEPT ![h] = TurnIdle]

\* Broken: whether the text is new is asked when its turn begins, and recorded
\* when it ends.
BrokenRecordIfNew(h, m) ==
  /\ At(h, "idle") /\ m \notin seen
  /\ turn' = [turn EXCEPT ![h] = [TurnIdle EXCEPT !.pc = "controls", !.m = m]]
  /\ ended' = ended \ {m} /\ ahead' = ahead \ {h}
  /\ UNCHANGED <<requests, seen, chat, staff, erasure, answers, promised>>

\* Recorded before it is processed: a text delivered again is passed over, and
\* one whose delivery has spent its budget is never answered.
RecordIfNew(h, m) ==
  /\ At(h, "idle") /\ m \notin seen
  /\ seen' = seen \cup {m}
  /\ \/ turn' = [turn EXCEPT ![h] = [TurnIdle EXCEPT !.pc = "controls", !.m = m]]
     \/ UNCHANGED turn
  /\ ended' = ended \ {m} /\ ahead' = ahead \ {h}
  /\ UNCHANGED <<requests, chat, staff, erasure, answers, promised>>

\* load_controls reads key by key while the owner saves key by key, so a turn may
\* come to any verdict: no turn at all, a reply that is only stored, or one sent.
LoadControls(h) ==
  /\ At(h, "controls")
  /\ \/ Ends(h)
     \/ \E gated \in BOOLEAN :
          turn' = [turn EXCEPT ![h].pc = "history", ![h].gated = gated]
  /\ UNCHANGED <<requests, seen, chat, staff, erasure, observed>>

\* Broken: the new row's id is guessed, not taken from the sequence.
BrokenLoadHistory(h) ==
  /\ At(h, "history")
  /\ conv' = lastId + 1
  /\ turn' = [turn EXCEPT ![h].pc = "pause", ![h].conv = conv']
  /\ UNCHANGED <<requests, seen, lastId, rows, paused, staff, erasure, observed>>

\* get_or_create, in one statement, touch and recent_messages.
LoadHistory(h) ==
  /\ At(h, "history")
  /\ IF conv = 0 THEN conv' = lastId + 1 /\ lastId' = lastId + 1
     ELSE UNCHANGED <<conv, lastId>>
  /\ turn' = [turn EXCEPT ![h].pc = "pause", ![h].conv = conv']
  /\ UNCHANGED <<requests, seen, rows, paused, staff, erasure, observed>>

\* Broken: the pause is not read.
BrokenReadPause(h) ==
  /\ At(h, "pause") /\ Goes(h, "ask")
  /\ UNCHANGED <<requests, seen, chat, staff, erasure, observed>>

\* get_paused_until, once for the turn; a conversation that is gone is not paused.
ReadPause(h) ==
  /\ At(h, "pause")
  /\ IF paused /\ turn[h].conv = conv
       THEN Goes(h, "aside") ELSE Goes(h, "ask")
  /\ UNCHANGED <<requests, seen, chat, staff, erasure, observed>>

\* The specialist is chosen.  The exchange agent is given the requests on
\* record, or none when they cannot be read; the others make no request.
ClassifyIntent(h) ==
  /\ At(h, "ask")
  /\ \E known \in {TRUE, FALSE, requests # {}} :
       turn' = [turn EXCEPT ![h].pc = "model", ![h].known = known]
  /\ UNCHANGED <<requests, seen, chat, staff, erasure, observed>>

Held(handoff) == IF handoff THEN "hold" ELSE "user"

\* What the model says, or the fallback: hand the chat to a person, and book an
\* exchange of an order that had none when the turn looked.
AskModel(h) ==
  /\ At(h, "model")
  /\ \E handoff \in BOOLEAN, book \in {FALSE, ~turn[h].known} :
       turn' = [turn EXCEPT ![h].handoff = handoff, ![h].known = TRUE,
                            ![h].pc = IF book THEN "book" ELSE Held(handoff)]
  /\ UNCHANGED <<requests, seen, chat, staff, erasure, observed>>

\* A failed insert does not cost the customer the reply.
CreateExchange(h) ==
  /\ At(h, "book")
  /\ Book(turn[h].m) \/ UNCHANGED requests
  /\ Goes(h, Held(turn[h].handoff))
  /\ UNCHANGED <<seen, chat, staff, erasure, observed>>

\* Broken: the pause is left to whoever takes the chat over.
BrokenPauseUntil(h) ==
  /\ At(h, "hold") /\ Goes(h, "user")
  /\ UNCHANGED <<requests, seen, chat, staff, erasure, observed>>

PauseUntil(h) ==
  /\ At(h, "hold")
  /\ Hold(turn[h].conv, turn[h].m)
  /\ Goes(h, "user")
  /\ UNCHANGED <<requests, seen, conv, lastId, rows, staff, erasure, answers,
                 promised>>

\* A text that finds the chat held is stored, and left to the person.
AppendUser(h) ==
  /\ At(h, "user") \/ At(h, "aside")
  /\ Append(turn[h].conv, "user", turn[h].m)
  /\ IF At(h, "aside") THEN Ends(h) ELSE Goes(h, "reply")
  /\ UNCHANGED <<requests, seen, conv, lastId, paused, staff, erasure, observed>>

AppendReply(h) ==
  /\ At(h, "reply")
  /\ Append(turn[h].conv, "assistant", turn[h].m)
  /\ IF turn[h].gated THEN Ends(h) ELSE Goes(h, "send")
  /\ UNCHANGED <<requests, seen, conv, lastId, paused, staff, erasure, observed>>

\* Counted to two.
Delivered(h) ==
  LET m == turn[h].m
  IN  /\ answers' = [answers EXCEPT ![m] = [times |-> IF @.times = 0 THEN 1 ELSE 2,
                                            conv |-> turn[h].conv]]
      /\ promised' = IF turn[h].handoff THEN promised \cup {m} ELSE promised

\* Accepted, refused, or unanswered, when the reply may have gone out as well;
\* the owner is alerted of a chat handed over, but not if it was unanswered.
SendText(h) ==
  /\ At(h, "send")
  /\ Delivered(h) \/ UNCHANGED <<answers, promised>>
  /\ Ends(h) \/ (turn[h].handoff /\ Goes(h, "alert"))
  /\ UNCHANGED <<requests, seen, chat, staff, erasure, ended, ahead>>

AlertOwner(h) ==
  /\ At(h, "alert")
  /\ promised' = promised \cup {turn[h].m}
  /\ Ends(h)
  /\ UNCHANGED <<requests, seen, chat, staff, erasure, answers, ended, ahead>>

\* A time limit, a crash, or a statement that fails.
CutOff(h) ==
  /\ ~At(h, "idle")
  /\ Ends(h)
  /\ UNCHANGED <<requests, seen, chat, staff, erasure, observed>>

-----------------------------------------------------------------------------
(* The store's staff                                                       *)

\* send_manual_reply: stored, then sent, and then the assistant
\* falls silent; a reply that cannot be sent silences nobody.
StoreManualReply ==
  /\ staff.pc = "idle" /\ conv # 0
  /\ Append(conv, "admin", NoText)
  /\ staff' = [pc |-> "send", conv |-> conv]
  /\ UNCHANGED <<requests, seen, conv, lastId, paused, turn, erasure, observed>>

SendManualReply ==
  /\ staff.pc = "send"
  /\ staff' = [staff EXCEPT !.pc = "pause"] \/ staff' = StaffIdle
  /\ UNCHANGED <<requests, seen, chat, turn, erasure, observed>>

PauseAfterManualReply ==
  /\ staff.pc = "pause"
  /\ Hold(staff.conv, NoText)
  /\ staff' = StaffIdle
  /\ UNCHANGED <<requests, seen, conv, lastId, rows, turn, erasure, answers,
                 promised>>

\* resume_conversation, or the end of the twenty-four hours.
ResumeConversation ==
  /\ paused /\ Lapse
  /\ UNCHANGED <<requests, seen, conv, lastId, rows, turn, staff, erasure, answers,
                 promised>>

UpdateExchange ==
  /\ \E r \in requests, status \in Statuses : SetStatus(r, status)
  /\ UNCHANGED <<seen, chat, turn, staff, erasure, observed>>

\* delete_by_phone, in one transaction: the messages, then the conversation.
EraseMessages ==
  /\ ~erasure.open /\ conv # 0 /\ conv <= MaxErasures
  /\ erasure' = [open |-> TRUE, gone |-> rows]
  /\ UNCHANGED <<requests, seen, chat, turn, staff, observed>>

\* Broken: the messages are deleted, and then the conversation, whatever has
\* been stored in between.
BrokenEraseConversation ==
  /\ erasure.open /\ erasure' = [open |-> FALSE, gone |-> {}]
  /\ rows' = rows \ erasure.gone /\ conv' = 0 /\ Lapse
  /\ UNCHANGED <<requests, seen, lastId, turn, staff, answers, promised>>

\* A message stored in between refuses the conversation's end, and so all of it.
EraseConversation ==
  /\ erasure.open /\ erasure' = [open |-> FALSE, gone |-> {}]
  /\ IF rows \subseteq erasure.gone
       THEN rows' = {} /\ conv' = 0 /\ Lapse
       ELSE UNCHANGED <<rows, conv, paused, ended, ahead>>
  /\ UNCHANGED <<requests, seen, lastId, turn, staff, answers, promised>>

Takes(h) ==
  \/ LoadControls(h) \/ LoadHistory(h) \/ ReadPause(h)
  \/ ClassifyIntent(h) \/ AskModel(h) \/ CreateExchange(h) \/ PauseUntil(h)
  \/ AppendUser(h) \/ AppendReply(h) \/ SendText(h) \/ AlertOwner(h) \/ CutOff(h)

Next ==
  \/ \E h \in Handlers : Takes(h) \/ \E m \in Messages : RecordIfNew(h, m)
  \/ StoreManualReply \/ SendManualReply \/ PauseAfterManualReply
  \/ ResumeConversation \/ UpdateExchange
  \/ EraseMessages \/ EraseConversation

Spec == Init /\ [][Next]_vars

-----------------------------------------------------------------------------
(* Properties                                                              *)

TypeOK ==
  /\ requests \subseteq Request
  /\ seen \subseteq Messages /\ conv \in Ids /\ lastId \in Ids /\ conv <= lastId
  /\ rows \subseteq Row /\ paused \in BOOLEAN
  /\ turn \in [Handlers -> Turn]
  /\ staff \in [pc : {"idle", "send", "pause"}, conv : Ids]
  /\ erasure \in [open : BOOLEAN, gone : SUBSET Row]
  /\ answers \in [Messages -> Answer]
  /\ promised \subseteq Messages /\ ended \subseteq Messages
  /\ ahead \subseteq Handlers

\* Whoever was told that a person takes over, customer or owner, was told so of
\* a chat in which the assistant is silent, until the pause is lifted, runs out
\* or goes with the chat's erasure.
PromiseKept == \A m \in promised \ ended : paused

\* A text is answered once at most, however often Meta delivers it, and as long
\* as its chat stands both the text and the answer are in it.
AnsweredOnRecord ==
  \A m \in Messages :
    /\ answers[m].times <= 1
    /\ answers[m].times = 1 /\ answers[m].conv = conv =>
         \A role \in {"user", "assistant"} :
           [conv |-> conv, role |-> role, m |-> m] \in rows

\* A turn or a manual reply begun before an erasure leaves nothing behind in a
\* chat that is gone.
ErasedStaysErased == \A r \in rows : r.conv = conv

\* Once the chat is held for a person, the only answers that still go out in it
\* are those of turns that had already looked when it was held.
OnlyTurnsInFlightTalkOver ==
  [][\A h \in Handlers :
       /\ paused /\ turn[h].conv = conv /\ turn[h].pc = "send"
       /\ answers'[turn[h].m] # answers[turn[h].m]
       => h \in ahead]_vars

\* The turns with all their awaits, the staff's steps and the erasure in its two
\* statements do what module Helpdesk promises: nothing of how they get there
\* shows in what is on record, what was answered and what anybody was told.
InFlight == {turn[h].m : h \in {g \in ahead : ~At(g, "idle")}}
Said == {<<r.role, r.m>> : r \in rows}

Desk == INSTANCE Helpdesk WITH
  taken <- seen, chat <- conv, said <- Said, held <- paused, inFlight <- InFlight,
  told <- promised, freed <- ended

ImplementsHelpdesk == Desk!Spec
=============================================================================
