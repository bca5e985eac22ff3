---------------------------- MODULE MCThreadList ----------------------------
(* Three phones on pages of one thread, and a search that finds them by what *)
(* p1 was sent, by p2's order, and by an order of p1's and p3's.             *)
EXTENDS ThreadList, TLC

CONSTANTS p1, p2, p3, oa, ob

MCPhonesOf == [p \in {p1, p2, p3} |-> {p}] @@ oa :> {p2} @@ ob :> {p1, p3}

MCHits ==
  [t \in {"", "gown"} |->
    [s \in Sources |-> IF s = "orders" THEN (IF t = "" THEN {} ELSE {oa, ob})
                       ELSE IF t = "" THEN {p1, p2, p3} ELSE {p1}]]

(* p1's rows straddle the cursor, outbound is longer than a page.            *)
MCStored ==
  [s \in Sources |->
    [e \in {p1, p2, p3, oa, ob} |->
      CASE s = "messages" /\ e = p1 -> 5
        [] s = "outbound" /\ e = p2 -> 4
        [] s = "outbound" /\ e = p1 -> 3
        [] s = "taps"     /\ e = p3 -> 2
        [] s = "orders"   /\ e = oa -> 4
        [] s = "orders"   /\ e = ob -> 1
        [] OTHER -> 0]]

(* p3 is notified while pages are read: it goes from the end to the top.     *)
MCBusy == {<<"outbound", p3>>}
=============================================================================
