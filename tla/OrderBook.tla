------------------------------ MODULE OrderBook ------------------------------
(***************************************************************************)
(* What the payments service promises about one order, whatever its        *)
(* handlers do in between: an order is placed once, it starts PENDING, and *)
(* it is APPROVED or DECLINED only on a verdict that the payment provider  *)
(* gave about that very order.  It promises no more than that: a later     *)
(* verdict, or an earlier one delivered again, may decide the order anew.  *)
(***************************************************************************)

CONSTANT Refs                  \* order references

VARIABLES book,                \* the status each reference shows
          verdicts             \* what the provider has said so far

Verdicts == {"APPROVED", "DECLINED"}
BookStatus == {"ABSENT", "PENDING"} \cup Verdicts

Init ==
    /\ book = [r \in Refs |-> "ABSENT"]
    /\ verdicts = {}

(* A buyer's request creates the order. *)
Place(r) ==
    /\ book[r] = "ABSENT"
    /\ book' = [book EXCEPT ![r] = "PENDING"]
    /\ UNCHANGED verdicts

(* The provider settles a payment attempt on an order that was placed. *)
Report(r, v) ==
    /\ book[r] # "ABSENT"
    /\ verdicts' = verdicts \cup {<<r, v>>}
    /\ UNCHANGED book

(* The service records one of the verdicts it was given. *)
Decide(r, v) ==
    /\ book[r] # "ABSENT"
    /\ <<r, v>> \in verdicts
    /\ book' = [book EXCEPT ![r] = v]
    /\ UNCHANGED verdicts

Next ==
    \E r \in Refs :
        \/ Place(r)
        \/ \E v \in Verdicts : Report(r, v) \/ Decide(r, v)

Spec == Init /\ [][Next]_<<book, verdicts>>
=============================================================================
