------------------------------ MODULE OrderBook ------------------------------
(***************************************************************************)
(* What a broker of oq-broker promises a strategy of its orders, with no   *)
(* prices, positions, audit log or rules of the exchange: orders enter at  *)
(* the end of the book, and only while trading is not halted; what an      *)
(* order has filled when it enters is never taken back; an order that is   *)
(* still live may be cancelled, halted or not, and nothing else ever       *)
(* happens to it; trading is halted and resumed at any time.               *)
(***************************************************************************)
EXTENDS Naturals, Sequences

CONSTANTS
    Quantity,   \* what an order may have filled when it enters
    Live,       \* the statuses of an order that may still be cancelled
    Done,       \* the others
    Cancelled   \* the status of a cancelled order, one of Done

VARIABLES
    entries,    \* the orders, by order of arrival: status and filled quantity
    halted

orderBookVars == <<entries, halted>>

Init ==
    /\ entries = <<>>
    /\ halted = FALSE

Entry == [status : (Live \union Done) \ {Cancelled}, filled : Quantity]

Enter ==
    /\ ~halted
    /\ Len(entries') = Len(entries) + 1
    /\ LET new == entries'[Len(entries')]
       IN  new \in Entry /\ entries' = Append(entries, new)
    /\ UNCHANGED halted

Cancel(o) ==
    /\ entries[o].status \in Live
    /\ entries' = [entries EXCEPT ![o].status = Cancelled]
    /\ UNCHANGED halted

HaltOrResume ==
    /\ halted' \in BOOLEAN
    /\ UNCHANGED entries

Next ==
    \/ Enter
    \/ \E o \in DOMAIN entries : Cancel(o)
    \/ HaltOrResume

Spec == Init /\ [][Next]_orderBookVars
=============================================================================
