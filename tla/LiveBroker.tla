----------------------------- MODULE LiveBroker -----------------------------
(***************************************************************************)
(* oq_broker.adapters._BaseLiveAdapter: callers (threads, each with its    *)
(* event loop) place and cancel orders at a real broker through an         *)
(* injected client, next to a kill switch and an audit trail they share.   *)
(*                                                                         *)
(* A call is three steps: the check of the kill switch, the client's call  *)
(* to the broker, the record in the trail.  Between the first two another  *)
(* thread may engage the switch; the second may lose the request, or raise *)
(* although the broker acted: the reply is lost, or it has no quantity and *)
(* OrderRequest refuses the Order _from_client_order builds of it; the     *)
(* third may raise once the entry is in the log.                           *)
(*                                                                         *)
(* Orders are named by their arrival at the broker.  The broker is         *)
(* external: it fills, rejects and cancels orders when it likes, asked to  *)
(* or not, and its reply to a cancellation may say any status.             *)
(***************************************************************************)
EXTENDS Naturals, Sequences, FiniteSets

CONSTANTS
    Caller,      \* the threads that call the adapter
    Faults,      \* what may go wrong, of the kinds below
    OwnTag,      \* whether requests bring a tag of their own, may, or do not
    MaxOrders,   \* bound: orders at the broker
    MaxCancels,  \* bound: entries of the trail for cancelled orders
    MaxSwitches  \* bound: engagements and resets of the kill switch

FaultKind == {"request", "reply", "quantity", "record"}

ASSUME LiveAssumption ==
    /\ Faults \subseteq FaultKind
    /\ OwnTag \subseteq BOOLEAN
    /\ MaxOrders \in Nat
    /\ MaxCancels \in Nat
    /\ MaxSwitches \in Nat

VARIABLES
    armed,    \* the adapter has been constructed
    engaged,  \* KillSwitch.engaged
    trail,    \* AuditLog.entries()
    market,   \* the broker's orders: status, the tag each carries, and
              \* whether it has been asked to cancel it
    pc,       \* where each caller is
    item,     \* the order each caller's call is about, 0 between calls
    late,     \* history: orders each caller sent since the last engagement
    placeRaised,  \* history: orders whose place call raised
    cancelRaised  \* history: orders whose cancel call raised

raised == <<placeRaised, cancelRaised>>

vars == <<armed, engaged, trail, market, pc, item, late, raised>>

Tag == {"algo_id", "own"}
MarketStatus == {"OPEN", "COMPLETE", "REJECTED", "CANCELLED"}

Entry(event, o) == [event |-> event, order |-> o]

Entries(event) == {i \in DOMAIN trail : trail[i].event = event}

Init ==
    /\ armed = FALSE
    /\ engaged = FALSE
    /\ trail = <<>>
    /\ market = <<>>
    /\ pc = [t \in Caller |-> "idle"]
    /\ item = [t \in Caller |-> 0]
    /\ late = [t \in Caller |-> 0]
    /\ placeRaised = {}
    /\ cancelRaised = {}

----------------------------------------------------------------------------
(* __init__: _ensure_live_allowed wants both the argument and the           *)
(* environment variable; a PermissionError leaves no adapter.               *)
Construct(accepted, env) ==
    /\ ~armed
    /\ accepted /\ env
    /\ armed' = TRUE
    /\ trail' = Append(trail, Entry("broker.live_armed", 0))
    /\ UNCHANGED <<engaged, market, pc, item, late, raised>>

(* place_order, kill_switch.check(): raises, or goes on. *)
PlaceCheck(t) ==
    /\ armed /\ ~engaged
    /\ pc[t] = "idle"
    /\ pc' = [pc EXCEPT ![t] = "checked"]
    /\ UNCHANGED <<armed, engaged, trail, market, item, late, raised>>

(* The tag of the payload: request.tag or request.algo_id. *)
tag(own) == IF own THEN "own" ELSE "algo_id"

(* An order as it arrives at the broker. *)
Sent(own) == [status |-> "OPEN", tag |-> tag(own), asked |-> FALSE]

(* Seeded fault: the check is not repeated for a second order of the call. *)
SubmitTwice(t, own) ==
    /\ pc[t] = "checked" /\ Len(market) < MaxOrders
    /\ market' = Append(market, Sent(own))
    /\ pc' \in {[pc EXCEPT ![t] = "placed"], [pc EXCEPT ![t] = "checked"]}
    /\ item' = [item EXCEPT ![t] = Len(market')]
    /\ late' = [late EXCEPT ![t] = IF engaged THEN @ + 1 ELSE 0]
    /\ UNCHANGED <<armed, engaged, trail, raised>>

(* place_order: the broker takes the order and its reply is understood. *)
Submit(t, own) ==
    /\ pc[t] = "checked" /\ Len(market) < MaxOrders
    /\ market' = Append(market, Sent(own))
    /\ pc' = [pc EXCEPT ![t] = "placed"]
    /\ item' = [item EXCEPT ![t] = Len(market')]
    /\ late' = [late EXCEPT ![t] = IF engaged THEN @ + 1 ELSE 0]
    /\ UNCHANGED <<armed, engaged, trail, raised>>

(* place_order: the client raises before the broker has seen the order. *)
SubmitLost(t) ==
    /\ "request" \in Faults
    /\ pc[t] = "checked"
    /\ pc' = [pc EXCEPT ![t] = "idle"]
    /\ UNCHANGED <<armed, engaged, trail, market, item, late, raised>>

(* place_order: the broker takes the order, and then the client raises, or  *)
(* _from_client_order does.                                                 *)
SubmitUnanswered(t, own) ==
    /\ {"reply", "quantity"} \intersect Faults # {}
    /\ pc[t] = "checked" /\ Len(market) < MaxOrders
    /\ market' = Append(market, Sent(own))
    /\ pc' = [pc EXCEPT ![t] = "idle"]
    /\ late' = [late EXCEPT ![t] = IF engaged THEN @ + 1 ELSE 0]
    /\ placeRaised' = placeRaised \union {Len(market')}
    /\ UNCHANGED <<armed, engaged, trail, item, cancelRaised>>

(* Seeded fault: an exception of the record undoes the record. *)
RecordPlacedUndone(t) ==
    /\ pc[t] = "placed"
    /\ pc' = [pc EXCEPT ![t] = "idle"]
    /\ item' = [item EXCEPT ![t] = 0]
    /\ \/ trail' = Append(trail, Entry("order.placed", item[t])) /\ UNCHANGED raised
       \/ "record" \in Faults /\ UNCHANGED <<trail, raised>>
    /\ UNCHANGED <<armed, engaged, market, late>>

(* place_order: the record, and the return; it may raise with the entry in. *)
RecordPlaced(t) ==
    /\ pc[t] = "placed"
    /\ pc' = [pc EXCEPT ![t] = "idle"]
    /\ item' = [item EXCEPT ![t] = 0]
    /\ trail' = Append(trail, Entry("order.placed", item[t]))
    /\ \/ UNCHANGED placeRaised
       \/ "record" \in Faults /\ placeRaised' = placeRaised \union {item[t]}
    /\ UNCHANGED <<armed, engaged, market, late, cancelRaised>>

(* A cancellation reaches the broker; what comes of it, MarketMoves says. *)
Asked(o) == [market EXCEPT ![o].asked = TRUE]

RoomToCancel == Cardinality(Entries("order.cancelled")) < MaxCancels

(* cancel_order: no check of the switch; the reply is understood, and no    *)
(* one looks at the status it says the order has.                           *)
CancelSent(t, o) ==
    /\ armed
    /\ pc[t] = "idle" /\ RoomToCancel
    /\ market' = Asked(o)
    /\ pc' = [pc EXCEPT ![t] = "cancelled"]
    /\ item' = [item EXCEPT ![t] = o]
    /\ UNCHANGED <<armed, engaged, trail, late, raised>>

(* Seeded fault: an exception of the client is swallowed. *)
CancelSwallowed(t, o) ==
    /\ armed
    /\ pc[t] = "idle"
    /\ market' = Asked(o)
    /\ UNCHANGED <<armed, engaged, trail, pc, item, late, raised>>

(* cancel_order: the cancellation reaches the broker, and then the client   *)
(* raises, or _from_client_order does.                                      *)
CancelUnanswered(t, o) ==
    /\ armed
    /\ {"reply", "quantity"} \intersect Faults # {}
    /\ pc[t] = "idle"
    /\ market' = Asked(o)
    /\ cancelRaised' = cancelRaised \union {o}
    /\ UNCHANGED <<armed, engaged, trail, pc, item, late, placeRaised>>

(* cancel_order: the record, whatever became of the order, and the return;  *)
(* raising here changes nothing.                                            *)
RecordCancelled(t) ==
    /\ pc[t] = "cancelled"
    /\ pc' = [pc EXCEPT ![t] = "idle"]
    /\ item' = [item EXCEPT ![t] = 0]
    /\ trail' = Append(trail, Entry("order.cancelled", item[t]))
    /\ UNCHANGED <<armed, engaged, market, late, raised>>

(* The broker fills, rejects or cancels an open order. *)
MarketMoves(o) ==
    /\ market[o].status = "OPEN"
    /\ \E status \in MarketStatus \ {"OPEN"} : market' = [market EXCEPT ![o].status = status]
    /\ UNCHANGED <<armed, engaged, trail, pc, item, late, raised>>

RoomToSwitch ==
    Cardinality(Entries("kill_switch.engaged") \union Entries("kill_switch.reset")) < MaxSwitches

(* KillSwitch.engage, by any thread. *)
engage ==
    /\ RoomToSwitch
    /\ engaged' = TRUE
    /\ trail' = Append(trail, Entry("kill_switch.engaged", 0))
    /\ late' = IF engaged THEN late ELSE [t \in Caller |-> 0]
    /\ UNCHANGED <<armed, market, pc, item, raised>>

(* KillSwitch.reset, by any thread. *)
reset ==
    /\ RoomToSwitch
    /\ engaged' = FALSE
    /\ trail' = Append(trail, Entry("kill_switch.reset", 0))
    /\ UNCHANGED <<armed, market, pc, item, late, raised>>

Next ==
    \/ \E accepted, env \in BOOLEAN : Construct(accepted, env)
    \/ \E t \in Caller : PlaceCheck(t) \/ SubmitLost(t) \/ RecordPlaced(t) \/ RecordCancelled(t)
    \/ \E t \in Caller, own \in OwnTag : Submit(t, own) \/ SubmitUnanswered(t, own)
    \/ \E t \in Caller, o \in DOMAIN market : CancelSent(t, o) \/ CancelUnanswered(t, o)
    \/ \E o \in DOMAIN market : MarketMoves(o)
    \/ engage
    \/ reset

Spec == Init /\ [][Next]_vars

----------------------------------------------------------------------------
(* Properties. *)

Event == {"broker.live_armed", "order.placed", "order.cancelled",
          "kill_switch.engaged", "kill_switch.reset"}

(* Every variable keeps its type. *)
TypeOK ==
    /\ armed \in BOOLEAN
    /\ engaged \in BOOLEAN
    /\ trail \in Seq([event : Event, order : Nat])
    /\ market \in Seq([status : MarketStatus, tag : Tag, asked : BOOLEAN])
    /\ pc \in [Caller -> {"idle", "checked", "placed", "cancelled"}]
    /\ item \in [Caller -> Nat]
    /\ late \in [Caller -> Nat]
    /\ placeRaised \subseteq Nat
    /\ cancelRaised \subseteq Nat

PlacedEntries(o) == {i \in Entries("order.placed") : trail[i].order = o}
CancelledEntries(o) == {i \in Entries("order.cancelled") : trail[i].order = o}

(* The trail and the broker tell the same story of what was placed: an      *)
(* entry is of an order the broker has, at most one is of each, and an      *)
(* order without one is still in some caller's hand or its call raised.     *)
PlacementsAccounted ==
    /\ \A i \in Entries("order.placed") : trail[i].order \in DOMAIN market
    /\ \A o \in DOMAIN market :
          /\ \A i, j \in PlacedEntries(o) : i = j
          /\ PlacedEntries(o) = {} =>
                o \in placeRaised \/ \E t \in Caller : pc[t] = "placed" /\ item[t] = o

(* And of what it was asked to cancel: such an order has an entry, is in    *)
(* some caller's hand, or its call raised; and no other order has an entry. *)
(* An entry does not say that the order is cancelled: cancel_order writes   *)
(* it whatever status the reply gives, and the order may be open still or   *)
(* have been filled or rejected before.                                     *)
CancellationsAccounted ==
    /\ \A o \in DOMAIN market :
          (market[o].asked /\ CancelledEntries(o) = {}) =>
              o \in cancelRaised \/ \E t \in Caller : pc[t] = "cancelled" /\ item[t] = o
    /\ \A i \in Entries("order.cancelled") :
          trail[i].order \in DOMAIN market /\ market[trail[i].order].asked

(* The kill switch lets through what had already passed its check: no       *)
(* caller sends more than one order from an engagement to the next reset.   *)
AtMostOneLate == engaged => \A t \in Caller : late[t] <= 1
=============================================================================
