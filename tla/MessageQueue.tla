----------------------------- MODULE MessageQueue -----------------------------
(***************************************************************************)
(* What a kernel queue promises of its messages: a bounded sequence that   *)
(* is filled at either end and read at the front.                          *)
(***************************************************************************)
EXTENDS Naturals, Sequences

CONSTANTS Message, Length

VARIABLE items

Init == items = <<>>

SendToBack ==
    /\ Len(items) < Length
    /\ \E m \in Message : items' = Append(items, m)

SendToFront ==
    /\ Len(items) < Length
    /\ \E m \in Message : items' = <<m>> \o items

Receive ==
    /\ items # <<>>
    /\ items' = Tail(items)

Next == SendToBack \/ SendToFront \/ Receive

Spec == Init /\ [][Next]_items
===============================================================================
