----------------------------- MODULE ThreadView -----------------------------
(***************************************************************************)
(* The open thread of the admin page.  A click loads a thread; every ten   *)
(* seconds the page asks for a cheap activity signature, and only when     *)
(* that moved for the whole thread, and only when that differs for a load  *)
(* that is drawn.  Reading a thread marks it read as its last step.  The   *)
(* operator may open another thread at any await of all this.              *)
(*                                                                         *)
(* The operator's reply is Conversation's; here its row is a NewEntry, its *)
(* pause a PanelChanges, the mark of a failed send a StatusChanges, and    *)
(* the load that follows it a LoadThread.                                  *)
(*                                                                         *)
(* What a thread holds is three versions.  "log" is the stamp of its last  *)
(* entry (message, notification, tap, photo), unique among the threads;    *)
(* "panel" that of the last change of its orders, exchanges and pause; and *)
(* "ticks" counts the changes of the status of stored entries.  The        *)
(* signature sees the later of the first two; the comparison of entries,   *)
(* which decides whether a load is drawn, the first and the third.         *)
(***************************************************************************)
EXTENDS Naturals, FiniteSets, FiniteSetsExt

CONSTANTS
  Threads,
  NoThread,
  Stored,        \* the stamps of the threads' last entries at first
  Busy,          \* bound: the threads in which things happen by themselves
  MaxStamp,      \* bound: the latest stamp
  MaxTicks,      \* bound: delivery changes
  MaxFetches     \* bound: thread reads on their way

Stamps == 0 .. MaxStamp

ASSUME ThreadViewAssumption ==
  /\ NoThread \notin Threads /\ Stored \in [Threads -> Stamps]
  /\ \A s, t \in Threads : Stored[s] = Stored[t] => s = t
  /\ Busy \subseteq Threads /\ {MaxStamp, MaxTicks, MaxFetches} \subseteq Nat

VARIABLES
  log, panel, ticks,
  unread,      \* the threads with a customer's message after last_read_at
  fetches,
  current,     \* currentThreadId
  key,         \* threadSnapshotKey
  signature,   \* threadActivitySnapshot
  pane,        \* what is drawn: of which thread, and its versions
  (* Observers: whether an answer was drawn over a newer one, or for a thread *)
  (* that is not the open one, and the open thread not since; and the threads *)
  (* of which a read or its mark failed since their last entry was stored.    *)
  overdrawn, lost

server == <<log, panel, ticks, unread>>
page == <<current, key, signature, pane>>
observed == <<overdrawn, lost>>
vars == <<server, fetches, page, observed>>

Versions == [thread : Threads \cup {NoThread}, log : Stamps, panel : Stamps, ticks : 0 .. MaxTicks]
Blank == [thread |-> NoThread, log |-> 0, panel |-> 0, ticks |-> 0]
Purposes == {"open", "activity", "poll", "silent"}
Polls == {"activity", "poll", "silent"}
Fetch(why, t) ==
  [why |-> why, thread |-> t, at |-> "sent", log |-> 0, panel |-> 0, ticks |-> 0]

Init ==
  /\ log = Stored /\ panel = [t \in Threads |-> 0] /\ ticks = [t \in Threads |-> 0]
  /\ unread = Threads /\ fetches = {}
  /\ current = NoThread /\ key = [log |-> 0, ticks |-> 0] /\ pane = Blank
  /\ signature = [thread |-> NoThread, latest |-> 0]
  /\ overdrawn = FALSE /\ lost = {}
-----------------------------------------------------------------------------
(* The server. *)

Later(m, n) == IF m > n THEN m ELSE n
Latest(t) == Later(log[t], panel[t])
Now == Max({Latest(t) : t \in Threads})

(* A customer's message, a notification, a tap, a photo or a reply.  *)
NewEntry(t) ==
  /\ Now < MaxStamp /\ log' = [log EXCEPT ![t] = Now + 1]
  /\ unread' \in {unread, unread \cup {t}} /\ lost' = lost \ {t}
  /\ UNCHANGED <<panel, ticks, fetches, page, overdrawn>>

(* An order is mirrored, an exchange or the pause changes, or it runs out. *)
PanelChanges(t) ==
  /\ Now < MaxStamp /\ panel' = [panel EXCEPT ![t] = Now + 1]
  /\ UNCHANGED <<log, ticks, unread, fetches, page, observed>>

(* A receipt, or a queued notification that is sent: no stamp moves. *)
StatusChanges(t) ==
  /\ \A s \in Threads : ticks[s] < MaxTicks
  /\ ticks' = [ticks EXCEPT ![t] = @ + 1]
  /\ UNCHANGED <<log, panel, unread, fetches, page, observed>>

Advance(f, g) == fetches' = (fetches \ {f}) \cup {g}
Stamped(f) == [f EXCEPT !.log = log[f.thread], !.panel = panel[f.thread]]

ReadActivity(f) ==
  /\ f.why = "activity" /\ f.at = "sent" /\ Advance(f, [Stamped(f) EXCEPT !.at = "done"])
  /\ UNCHANGED <<server, page, observed>>

ReadEntries(f) ==
  /\ f.why # "activity" /\ f.at = "sent"
  /\ Advance(f, [Stamped(f) EXCEPT !.at = "read", !.ticks = ticks[f.thread]])
  /\ UNCHANGED <<server, page, observed>>

(* The last step of a read of the thread, after all its queries: whatever  *)
(* was stored by now counts as read.  A failure is passed over.            *)
BrokenMarkRead(f) ==
  /\ f.at = "read" /\ Advance(f, [f EXCEPT !.at = "done"])
  /\ unread' = IF f.why = "open" THEN unread \ {f.thread} ELSE unread
  /\ UNCHANGED <<log, panel, ticks, page, observed>>
MarkRead(f) ==
  /\ f.at = "read" /\ Advance(f, [f EXCEPT !.at = "done"])
  /\ unread' = unread \ {f.thread}
  /\ UNCHANGED <<log, panel, ticks, page, observed>>
MarkReadFails(f) ==
  /\ f.at = "read" /\ Advance(f, [f EXCEPT !.at = "done"])
  /\ lost' = lost \cup {f.thread}
  /\ UNCHANGED <<server, page, overdrawn>>
-----------------------------------------------------------------------------
(* The page. *)

Ask(rest, why, t) ==
  /\ Cardinality(rest) < MaxFetches
  /\ fetches' = rest \cup {Fetch(why, t)}

LoadThread(t) ==
  /\ current' = t /\ Ask(fetches, "open", t)
  /\ UNCHANGED <<server, key, signature, pane, observed>>

(* A thread's answer is drawn, whichever thread is open and whatever was   *)
(* drawn by now.                                                           *)
ShowThread(f) ==
  /\ f.why \in {"open", "silent"} /\ f.at = "done" /\ fetches' = fetches \ {f}
  /\ key' = [log |-> f.log, ticks |-> f.ticks]
  /\ pane' = [thread |-> f.thread, log |-> f.log, panel |-> f.panel, ticks |-> f.ticks]
  /\ overdrawn' = \/ f.thread # current
                  \/ pane.thread = current /\ f.log < pane.log
                  \/ overdrawn /\ f.log # log[current]
  /\ UNCHANGED <<server, current, signature, lost>>

(* Broken: pollInFlight is not asked. *)
BrokenPollTick ==
  /\ current # NoThread /\ Ask(fetches, "activity", current)
  /\ UNCHANGED <<server, page, observed>>
PollTick ==
  /\ current # NoThread /\ \A f \in fetches : f.why \notin Polls
  /\ Ask(fetches, "activity", current)
  /\ UNCHANGED <<server, page, observed>>

(* The signature is remembered before the thread is read. *)
CompareActivity(f) ==
  /\ f.why = "activity" /\ f.at = "done"
  /\ signature' = [thread |-> current, latest |-> Later(f.log, f.panel)]
  /\ IF signature' # signature THEN Ask(fetches \ {f}, "poll", current)
                               ELSE fetches' = fetches \ {f}
  /\ UNCHANGED <<server, current, key, pane, observed>>

(* The entries alone: a change of the panel that comes without one is read *)
(* and not drawn.                                                          *)
CompareEntries(f) ==
  /\ f.why = "poll" /\ f.at = "done" /\ key' = [log |-> f.log, ticks |-> f.ticks]
  /\ IF key' # key THEN Ask(fetches \ {f}, "silent", current)
                   ELSE fetches' = fetches \ {f}
  /\ UNCHANGED <<server, current, signature, pane, observed>>

(* A failed read leaves what was drawn.  The signature stays too: the poll *)
(* does not read the thread again until something moves it.                *)
FetchFails(f) ==
  /\ fetches' = fetches \ {f}
  /\ lost' = IF f.why = "activity" THEN lost ELSE lost \cup {f.thread}
  /\ UNCHANGED <<server, page, overdrawn>>

Serve(f) == ReadActivity(f) \/ ReadEntries(f) \/ MarkRead(f)
Answer(f) == ShowThread(f) \/ CompareActivity(f) \/ CompareEntries(f)

Reliable ==
  \/ \E t \in Busy : NewEntry(t) \/ PanelChanges(t) \/ StatusChanges(t)
  \/ \E t \in Threads : LoadThread(t)
  \/ \E f \in fetches : Serve(f) \/ Answer(f)
  \/ PollTick

Next == Reliable \/ \E f \in fetches : FetchFails(f) \/ MarkReadFails(f)

Spec == Init /\ [][Next]_vars

(* Even while no read fails: the tab is visible, so the timer ticks, and   *)
(* what is asked is answered.                                              *)
FairSpec ==
  /\ Init /\ [][Reliable]_vars /\ WF_vars(PollTick)
  /\ \A why \in Purposes :
       WF_vars(\E f \in fetches : f.why = why /\ (Serve(f) \/ Answer(f)))
-----------------------------------------------------------------------------
TypeOK ==
  /\ {log, panel} \subseteq [Threads -> Stamps] /\ ticks \in [Threads -> 0 .. MaxTicks]
  /\ unread \subseteq Threads /\ lost \subseteq Threads /\ overdrawn \in BOOLEAN
  /\ \A f \in fetches : f.why \in Purposes /\ f.thread \in Threads
                        /\ f.at \in {"sent", "read", "done"}
  /\ Cardinality({f \in fetches : f.why \in Polls}) <= 1
  /\ {current, signature.thread} \subseteq Threads \cup {NoThread}
  /\ pane \in Versions

(* What the poll believes it has seen is what is on the screen, and counts  *)
(* as read: when the remembered signature is the open thread's and no read  *)
(* of the thread is on its way, a tick would find nothing to do, so no      *)
(* entry may be missing.  Two exceptions: a read or its mark that failed    *)
(* (the signature is remembered before the thread is read), and an answer   *)
(* drawn out of turn, which nothing in loadThread prevents.  The panel is   *)
(* not part of it: see PanelFollows.                                        *)
NothingMissed ==
  \A t \in Threads :
    /\ current = t /\ signature = [thread |-> t, latest |-> Latest(t)]
    /\ \A f \in fetches : f.thread # t \/ f.why = "activity"
    => \/ pane.thread = t /\ pane.log = log[t] /\ t \notin unread
       \/ t \in lost
       \/ overdrawn

(* Delivery ticks of an open thread do not go stale "until a manual         *)
(* refresh" (chats.js, threadEntriesKey); and its panel follows too: the    *)
(* signature covers the pause, "so without this the Resume-AI button could  *)
(* linger after the pause has actually lapsed" (chats.js, pollTick).        *)
TicksFollow ==
  \A t \in Threads : current = t ~> (pane.thread = t /\ pane.ticks = ticks[t]) \/ current # t
PanelFollows ==
  \A t \in Threads : current = t ~> (pane.thread = t /\ pane.panel = panel[t]) \/ current # t

(* At least one of the two, in every behaviour: a counterexample is one     *)
(* behaviour that refutes both.                                             *)
OneOfThemFollows == TicksFollow \/ PanelFollows
=============================================================================
