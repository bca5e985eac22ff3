------------------------------ MODULE Helpdesk ------------------------------
(***************************************************************************)
(* What the assistant promises a customer who writes: a text is answered   *)
(* once, on record; a chat that is held for a person is answered only by   *)
(* whoever was in the middle of it; nobody is told of a person before the  *)
(* chat is held; and an erased chat is gone as a whole.  How a turn gets   *)
(* there does not show.  Module Conversation implements this one.          *)
(***************************************************************************)
EXTENDS Naturals

CONSTANTS
  Messages,
  NoText,        \* what a person writes by hand
  Ids            \* of chats; 0 is none

VARIABLES
  taken,         \* the texts recorded
  chat,          \* the chat that stands
  said,          \* what is on record in it: who, and on which text
  answers,       \* how often a text was answered, and in which chat
  held,          \* the chat is a person's
  inFlight,      \* the texts at work when it was taken over
  told,          \* the texts of which somebody was told that a person takes over
  freed          \* the texts after which the chat was given back

record == <<chat, said>>
hold == <<held, freed>>
vars == <<taken, record, answers, hold, inFlight, told>>

Init ==
  /\ taken = {} /\ chat = 0 /\ said = {} /\ held = FALSE
  /\ inFlight = {} /\ told = {} /\ freed = {}
  /\ answers = [m \in Messages |-> [times |-> 0, conv |-> 0]]

\* The turn of a text may end in any step.
TurnsEnd == inFlight' \subseteq inFlight

\* Whoever is told of a person is told the truth.
Backed(m) == held \/ m \in freed

Take(m) ==
  /\ m \notin taken /\ taken' = taken \cup {m} /\ freed' = freed \ {m}
  /\ TurnsEnd /\ UNCHANGED <<record, answers, held, told>>

\* A chat begins under an id that no answer was ever given in.
Open ==
  /\ chat = 0 /\ chat' \in Ids \ {0}
  /\ \A m \in Messages : answers[m].times > 0 => answers[m].conv # chat'
  /\ TurnsEnd /\ UNCHANGED <<taken, said, answers, hold, told>>

\* The answer to a text comes after it; a person may write at any time.
Say(role, m) ==
  /\ chat # 0 /\ said' = said \cup {<<role, m>>}
  /\ \/ role = "user" /\ m \in taken
     \/ role = "assistant" /\ <<"user", m>> \in said
     \/ role = "admin" /\ m = NoText
  /\ TurnsEnd /\ UNCHANGED <<taken, chat, answers, hold, told>>

\* An answer goes out in the chat it was written in, or in one erased since.
Answer(m, id) ==
  /\ m \in taken /\ answers[m].times = 0 /\ id # 0
  /\ id = chat => {<<"user", m>>, <<"assistant", m>>} \subseteq said
  /\ id = chat /\ held => m \in inFlight
  /\ answers' = [answers EXCEPT ![m] = [times |-> 1, conv |-> id]]
  /\ told' = told \/ (Backed(m) /\ told' = told \cup {m})
  /\ TurnsEnd /\ UNCHANGED <<taken, record, hold>>

Tell(m) ==
  /\ m \in taken /\ Backed(m) /\ told' = told \cup {m}
  /\ TurnsEnd /\ UNCHANGED <<taken, record, answers, hold>>

Hold(m) ==
  /\ chat # 0 /\ held' = TRUE /\ freed' = freed \ {m}
  /\ inFlight' \subseteq IF held THEN inFlight ELSE taken
  /\ UNCHANGED <<taken, record, answers, told>>

Free == held' = FALSE /\ freed' = Messages /\ inFlight' = {}

Resume == held /\ Free /\ UNCHANGED <<taken, record, answers, told>>

Erase ==
  /\ chat # 0 /\ chat' = 0 /\ said' = {} /\ Free
  /\ UNCHANGED <<taken, answers, told>>

GiveUp == TurnsEnd /\ UNCHANGED <<taken, record, answers, hold, told>>

Next ==
  \/ \E m \in Messages : Take(m) \/ Tell(m) \/ \E id \in Ids : Answer(m, id)
  \/ \E m \in Messages \cup {NoText} :
       Hold(m) \/ \E role \in {"user", "assistant", "admin"} : Say(role, m)
  \/ Open \/ Resume \/ Erase \/ GiveUp

Spec == Init /\ [][Next]_vars
=============================================================================
