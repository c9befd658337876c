-------------------------- MODULE LiveBroker_proofs --------------------------
(***************************************************************************)
(* Proofs about LiveBroker, for every set of callers, every fault and      *)
(* every bound: the trail accounts for what was placed and cancelled, and  *)
(* an engaged kill switch lets at most one order per caller through.       *)
(***************************************************************************)
EXTENDS LiveBroker, TLAPS

(* What a caller holds between the broker's answer and the record. *)
InHand ==
    /\ \A t \in Caller : pc[t] = "placed" =>
          /\ item[t] \in DOMAIN market
          /\ \A i \in Entries("order.placed") : trail[i].order # item[t]
    /\ \A t, u \in Caller :
          (pc[t] = "placed" /\ pc[u] = "placed" /\ item[t] = item[u]) => t = u
    /\ \A t \in Caller : pc[t] = "cancelled" =>
          item[t] \in DOMAIN market /\ market[item[t]].asked

(* A caller past its check has sent nothing since the engagement. *)
LateIsSpent == engaged => \A t \in Caller : pc[t] = "checked" => late[t] = 0

LiveInv ==
    /\ TypeOK
    /\ PlacementsAccounted
    /\ CancellationsAccounted
    /\ InHand
    /\ AtMostOneLate
    /\ LateIsSpent

LEMMA LiveInvInit == Init => LiveInv
<1> SUFFICES ASSUME Init PROVE LiveInv
  OBVIOUS
<1>1. TypeOK
  <2>1. trail \in Seq([event : Event, order : Nat])
    BY DEF Init
  <2>2. market \in Seq([status : MarketStatus, tag : Tag, asked : BOOLEAN])
    BY DEF Init
  <2>3. QED  BY <2>1, <2>2 DEF Init, TypeOK
<1>2. DOMAIN trail = {} /\ DOMAIN market = {}
  BY DEF Init
<1>3. QED
  BY <1>1, <1>2 DEF Init, LiveInv, PlacementsAccounted, CancellationsAccounted, InHand,
     AtMostOneLate, LateIsSpent, Entries

----------------------------------------------------------------------------
(* Types. *)

LEMMA TypeNext ==
    ASSUME TypeOK, Next
    PROVE  TypeOK'
<1>0. /\ trail \in Seq([event : Event, order : Nat])
      /\ market \in Seq([status : MarketStatus, tag : Tag, asked : BOOLEAN])
      /\ Len(market) + 1 \in Nat
  BY DEF TypeOK
<1> DEFINE Sold == [status : MarketStatus, tag : Tag, asked : BOOLEAN]
<1>1. ASSUME NEW event \in Event, NEW o \in Nat
      PROVE  Append(trail, Entry(event, o)) \in Seq([event : Event, order : Nat])
  BY <1>0 DEF Entry
<1>2. ASSUME NEW own \in OwnTag
      PROVE  /\ Append(market, Sent(own))
                   \in Seq([status : MarketStatus, tag : Tag, asked : BOOLEAN])
             /\ Len(Append(market, Sent(own))) = Len(market) + 1
  <2>1. tag(own) \in Tag
    BY DEF tag, Tag
  <2>2. Sent(own) \in [status : MarketStatus, tag : Tag, asked : BOOLEAN]
    BY <2>1 DEF MarketStatus, Sent
  <2>3. QED  BY <1>0, <2>2
<1>3. ASSUME NEW o \in DOMAIN market, NEW status \in MarketStatus
      PROVE  [market EXCEPT ![o].status = status] \in Seq([status : MarketStatus, tag : Tag, asked : BOOLEAN])
  <2>0. market \in Seq(Sold)
    BY <1>0
  <2> HIDE DEF Sold
  <2>1. market[o] \in Sold
    BY <2>0
  <2>2. [market[o] EXCEPT !.status = status] \in Sold
    BY <2>1 DEF Sold
  <2>3. market \in Seq(Sold)
    BY <2>0
  <2>4. [market EXCEPT ![o].status = status] \in Seq(Sold)
    BY <2>2, <2>3
  <2>5. QED  BY <2>4 DEF Sold
<1>4. ASSUME NEW o \in DOMAIN market
      PROVE  Asked(o) \in Seq([status : MarketStatus, tag : Tag, asked : BOOLEAN]) /\ o \in Nat
  <2>0. market \in Seq(Sold) /\ o \in Nat
    BY <1>0
  <2> HIDE DEF Sold
  <2>1. market[o] \in Sold
    BY <2>0
  <2>2. [market[o] EXCEPT !.asked = TRUE] \in Sold
    BY <2>1 DEF Sold
  <2>3. [market EXCEPT ![o].asked = TRUE] \in Seq(Sold)
    BY <2>0, <2>2
  <2>4. QED  BY <2>0, <2>3 DEF Asked, Sold
<1>5. CASE \E accepted, env \in BOOLEAN : Construct(accepted, env)
  BY <1>1, <1>5 DEF Construct, raised, TypeOK, Event
<1>6. ASSUME NEW t \in Caller, PlaceCheck(t) \/ SubmitLost(t)
      PROVE  TypeOK'
  BY <1>6 DEF PlaceCheck, SubmitLost, raised, TypeOK
<1>7. ASSUME NEW t \in Caller, RecordPlaced(t)
      PROVE  TypeOK'
  BY <1>1, <1>7 DEF RecordPlaced, TypeOK, Event
<1>8. ASSUME NEW t \in Caller, RecordCancelled(t)
      PROVE  TypeOK'
  BY <1>1, <1>8 DEF RecordCancelled, raised, TypeOK, Event
<1>9. ASSUME NEW t \in Caller, NEW own \in OwnTag, Submit(t, own)
      PROVE  TypeOK'
  BY <1>0, <1>2, <1>9 DEF Submit, raised, TypeOK
<1>10. ASSUME NEW t \in Caller, NEW own \in OwnTag, SubmitUnanswered(t, own)
       PROVE  TypeOK'
  <2>1. market' \in Seq(Sold) /\ Len(market') = Len(market) + 1
    BY <1>2, <1>10 DEF SubmitUnanswered
  <2>2. placeRaised' \subseteq Nat
    BY <1>0, <1>10, <2>1 DEF SubmitUnanswered, TypeOK
  <2>3. late' \in [Caller -> Nat]
    BY <1>10 DEF SubmitUnanswered, TypeOK
  <2>4. QED  BY <1>10, <2>1, <2>2, <2>3 DEF SubmitUnanswered, TypeOK
<1>11. ASSUME NEW t \in Caller, NEW o \in DOMAIN market, CancelSent(t, o)
       PROVE  TypeOK'
  BY <1>4, <1>11 DEF CancelSent, raised, TypeOK
<1>12. ASSUME NEW t \in Caller, NEW o \in DOMAIN market, CancelUnanswered(t, o)
       PROVE  TypeOK'
  BY <1>4, <1>12 DEF CancelUnanswered, TypeOK
<1>13. ASSUME NEW o \in DOMAIN market, MarketMoves(o)
       PROVE  TypeOK'
  <2>1. market' \in Seq([status : MarketStatus, tag : Tag, asked : BOOLEAN])
    BY <1>3, <1>13 DEF MarketMoves, MarketStatus
  <2>2. QED  BY <1>13, <2>1 DEF MarketMoves, raised, TypeOK
<1>14. CASE engage
  BY <1>1, <1>14 DEF engage, raised, TypeOK, Event
<1>15. CASE reset
  BY <1>1, <1>15 DEF reset, raised, TypeOK, Event
<1>16. QED
  BY <1>5, <1>6, <1>7, <1>8, <1>9, <1>10, <1>11, <1>12, <1>13, <1>14, <1>15 DEF Next

----------------------------------------------------------------------------
(* The accounts. *)

Accounts == PlacementsAccounted /\ CancellationsAccounted /\ InHand

(* The trail has one entry more, at n. *)
OneMore(event, o, n) ==
    /\ n \notin DOMAIN trail
    /\ \A i \in DOMAIN trail : trail'[i] = trail[i]
    /\ trail'[n].order = o
    /\ \A ev : Entries(ev) \subseteq DOMAIN trail
    /\ \A ev : ev # event => Entries(ev)' = Entries(ev)
    /\ Entries(event)' = Entries(event) \union {n}

LEMMA EntriesAppended ==
    ASSUME TypeOK, NEW event, NEW o, trail' = Append(trail, Entry(event, o))
    PROVE  \E n \in Nat : OneMore(event, o, n)
<1> DEFINE n == Len(trail) + 1
           e == Entry(event, o)
<1>0. trail \in Seq([event : Event, order : Nat])
  BY DEF TypeOK
<1>1. e.event = event /\ e.order = o
  BY DEF Entry
<1> HIDE DEF e
<1>2. /\ DOMAIN trail' = DOMAIN trail \union {n}
      /\ \A i \in DOMAIN trail : trail'[i] = trail[i]
      /\ trail'[n] = e
      /\ n \in Nat /\ n \notin DOMAIN trail
  BY <1>0 DEF e
<1> HIDE DEF n
<1>3. \A ev : Entries(ev)' = {i \in DOMAIN trail' : trail'[i].event = ev}
  BY DEF Entries
<1>4. \A ev : ev # event => Entries(ev)' = Entries(ev)
  BY <1>1, <1>2, <1>3 DEF Entries
<1>5. Entries(event)' = Entries(event) \union {n}
  BY <1>1, <1>2, <1>3 DEF Entries
<1>6. \A ev : Entries(ev) \subseteq DOMAIN trail
  BY DEF Entries
<1>7. OneMore(event, o, n)
  BY <1>1, <1>2, <1>4, <1>5, <1>6 DEF OneMore
<1>8. QED  BY <1>2, <1>7

(* An order is accounted for by the entries, the hands and the exceptions.  *)
LEMMA NotedAccounts ==
    ASSUME TypeOK, Accounts, NEW event \in Event \ {"order.placed", "order.cancelled"}, NEW o,
           trail' = Append(trail, Entry(event, o)),
           UNCHANGED <<market, pc, item, raised>>
    PROVE  Accounts'
<1>0. PICK n \in Nat : OneMore(event, o, n)
  BY EntriesAppended
<1>1. /\ \A i \in DOMAIN trail : trail'[i] = trail[i]
      /\ \A ev : Entries(ev) \subseteq DOMAIN trail
      /\ \A ev : ev # event => Entries(ev)' = Entries(ev)
  BY <1>0 DEF OneMore
<1>2. /\ Entries("order.placed")' = Entries("order.placed")
      /\ Entries("order.cancelled")' = Entries("order.cancelled")
      /\ \A i \in Entries("order.placed") : trail'[i] = trail[i]
      /\ \A i \in Entries("order.cancelled") : trail'[i] = trail[i]
  BY <1>1
<1>3. \A p : PlacedEntries(p)' = PlacedEntries(p) /\ CancelledEntries(p)' = CancelledEntries(p)
  BY <1>2 DEF PlacedEntries, CancelledEntries
<1>4. UNCHANGED <<market, pc, item, placeRaised, cancelRaised>>
  BY DEF raised
<1>5. PlacementsAccounted'
  <2>1. \A i \in Entries("order.placed")' : trail'[i].order \in DOMAIN market
    BY <1>2, ZenonT(30) DEF Accounts, PlacementsAccounted
  <2>2. ASSUME NEW p \in DOMAIN market
        PROVE  /\ \A i, j \in PlacedEntries(p)' : i = j
               /\ PlacedEntries(p)' = {} =>
                     p \in placeRaised \/ \E t \in Caller : pc[t] = "placed" /\ item[t] = p
    BY <1>3 DEF Accounts, PlacementsAccounted
  <2>3. QED  BY <1>4, <2>1, <2>2 DEF PlacementsAccounted
<1>6. CancellationsAccounted'
  <2>1. \A o1 \in DOMAIN market :
            (market[o1].asked /\ CancelledEntries(o1)' = {}) =>
                o1 \in cancelRaised \/ \E t \in Caller : pc[t] = "cancelled" /\ item[t] = o1
    BY <1>3 DEF Accounts, CancellationsAccounted
  <2>2. \A i \in Entries("order.cancelled")' :
            trail'[i].order \in DOMAIN market /\ market[trail'[i].order].asked
    BY <1>2 DEF Accounts, CancellationsAccounted
  <2>3. QED  BY <1>4, <2>1, <2>2, ZenonT(30) DEF CancellationsAccounted
<1>7. InHand'
  BY <1>2, <1>4, ZenonT(30) DEF Accounts, InHand
<1>8. QED  BY <1>5, <1>6, <1>7 DEF Accounts

LEMMA SentAccounts ==
    ASSUME TypeOK, Accounts, NEW t \in Caller, NEW own \in OwnTag,
           Submit(t, own) \/ SubmitUnanswered(t, own)
    PROVE  Accounts'
<1> DEFINE n == Len(market) + 1
           new == Sent(own)
<1>0. /\ market \in Seq([status : MarketStatus, tag : Tag, asked : BOOLEAN])
      /\ pc \in [Caller -> {"idle", "checked", "placed", "cancelled"}]
      /\ item \in [Caller -> Nat]
  BY DEF TypeOK
<1>1. market' = Append(market, new) /\ trail' = trail
  BY DEF Submit, SubmitUnanswered
<1>2. new.asked = FALSE
  BY DEF Sent
<1> HIDE DEF new
<1>3. /\ DOMAIN market' = DOMAIN market \union {n} /\ n \notin DOMAIN market
      /\ \A o \in DOMAIN market : market'[o] = market[o]
      /\ market'[n].asked = FALSE
      /\ Len(market') = n
  BY <1>0, <1>1, <1>2
<1> HIDE DEF n
<1>4. /\ \A ev : Entries(ev)' = Entries(ev)
      /\ \A p : PlacedEntries(p)' = PlacedEntries(p) /\ CancelledEntries(p)' = CancelledEntries(p)
  BY <1>1 DEF Entries, PlacedEntries, CancelledEntries
<1>5. /\ \A i \in Entries("order.placed") : trail[i].order \in DOMAIN market
      /\ \A i \in Entries("order.cancelled") : trail[i].order \in DOMAIN market
  BY DEF Accounts, PlacementsAccounted, CancellationsAccounted
<1>6. PlacedEntries(n) = {} /\ CancelledEntries(n) = {}
  BY <1>3, <1>5 DEF PlacedEntries, CancelledEntries
<1>7. pc[t] = "checked"
  BY DEF Submit, SubmitUnanswered
<1>8. /\ \A u \in Caller \ {t} : pc'[u] = pc[u] /\ item'[u] = item[u]
      /\ \A o : o \in placeRaised => o \in placeRaised'
      /\ cancelRaised' = cancelRaised
      /\ \/ pc'[t] = "placed" /\ item'[t] = n
         \/ pc'[t] = "idle" /\ n \in placeRaised'
  BY <1>0, <1>3 DEF Submit, SubmitUnanswered, raised
<1>9. PlacementsAccounted'
  <2>1. \A i \in Entries("order.placed") : trail[i].order \in DOMAIN market'
    BY <1>3, <1>5
  <2>2. ASSUME NEW o \in DOMAIN market', PlacedEntries(o) = {}
        PROVE  o \in placeRaised' \/ \E u \in Caller : pc'[u] = "placed" /\ item'[u] = o
    <3>1. CASE o = n
      BY <1>8, <3>1
    <3>2. CASE o \in DOMAIN market
      <4>1. o \in placeRaised \/ \E u \in Caller : pc[u] = "placed" /\ item[u] = o
        BY <2>2, <3>2 DEF Accounts, PlacementsAccounted
      <4>2. QED  BY <1>7, <1>8, <4>1
    <3>3. QED  BY <1>3, <3>1, <3>2
  <2>3. ASSUME NEW o \in DOMAIN market' PROVE \A i, j \in PlacedEntries(o) : i = j
    BY <1>3, <1>6 DEF Accounts, PlacementsAccounted
  <2>4. QED  BY <1>1, <1>4, <2>1, <2>2, <2>3 DEF PlacementsAccounted
<1>10. CancellationsAccounted'
  <2>1. ASSUME NEW o \in DOMAIN market', market'[o].asked, CancelledEntries(o) = {}
        PROVE  o \in cancelRaised' \/ \E u \in Caller : pc'[u] = "cancelled" /\ item'[u] = o
    <3>1. o \in DOMAIN market /\ market[o].asked
      BY <1>3, <2>1
    <3>2. o \in cancelRaised \/ \E u \in Caller : pc[u] = "cancelled" /\ item[u] = o
      BY <2>1, <3>1 DEF Accounts, CancellationsAccounted
    <3>3. QED  BY <1>7, <1>8, <3>2
  <2>2. \A i \in Entries("order.cancelled") :
            trail[i].order \in DOMAIN market' /\ market'[trail[i].order].asked
    BY <1>3 DEF Accounts, CancellationsAccounted
  <2>3. QED  BY <1>1, <1>4, <2>1, <2>2 DEF CancellationsAccounted
<1>11. InHand'
  <2>1. ASSUME NEW u \in Caller, pc'[u] = "placed"
        PROVE  /\ item'[u] \in DOMAIN market'
               /\ \A i \in Entries("order.placed") : trail[i].order # item'[u]
    BY <1>3, <1>5, <1>8, <2>1 DEF Accounts, InHand
  <2>2. ASSUME NEW u \in Caller, NEW v \in Caller,
               pc'[u] = "placed", pc'[v] = "placed", item'[u] = item'[v]
        PROVE  u = v
    <3>1. \A w \in Caller \ {t} : pc'[w] = "placed" => item'[w] # n
      BY <1>3, <1>8 DEF Accounts, InHand
    <3>2. QED  BY <1>8, <2>2, <3>1 DEF Accounts, InHand
  <2>3. ASSUME NEW u \in Caller, pc'[u] = "cancelled"
        PROVE  item'[u] \in DOMAIN market' /\ market'[item'[u]].asked
    BY <1>3, <1>8, <2>3 DEF Accounts, InHand
  <2>4. QED  BY <1>1, <1>4, <2>1, <2>2, <2>3 DEF InHand
<1>12. QED  BY <1>9, <1>10, <1>11 DEF Accounts

LEMMA MovedAccounts ==
    ASSUME TypeOK, Accounts, NEW t \in Caller, PlaceCheck(t) \/ SubmitLost(t)
    PROVE  Accounts'
<1>1. /\ UNCHANGED <<trail, market, item, placeRaised, cancelRaised>>
      /\ \A u \in Caller : /\ pc'[u] = "placed" <=> pc[u] = "placed"
                           /\ pc'[u] = "cancelled" <=> pc[u] = "cancelled"
  BY DEF PlaceCheck, SubmitLost, raised, TypeOK
<1>2. /\ \A ev : Entries(ev)' = Entries(ev)
      /\ \A p : PlacedEntries(p)' = PlacedEntries(p) /\ CancelledEntries(p)' = CancelledEntries(p)
  BY <1>1 DEF Entries, PlacedEntries, CancelledEntries
<1>3. PlacementsAccounted'
  BY <1>1, <1>2 DEF Accounts, PlacementsAccounted
<1>4. CancellationsAccounted'
  BY <1>1, <1>2 DEF Accounts, CancellationsAccounted
<1>5. InHand'
  BY <1>1, <1>2 DEF Accounts, InHand
<1>6. QED  BY <1>3, <1>4, <1>5 DEF Accounts

LEMMA RecordPlacedAccounts ==
    ASSUME TypeOK, Accounts, NEW t \in Caller, RecordPlaced(t)
    PROVE  Accounts'
<1>a. PICK o \in Nat : o = item[t]
  BY DEF TypeOK
<1>0. /\ pc[t] = "placed"
      /\ trail' = Append(trail, Entry("order.placed", o))
      /\ market' = market /\ cancelRaised' = cancelRaised
      /\ \A p : p \in placeRaised => p \in placeRaised'
      /\ \A u \in Caller : u # t => item'[u] = item[u]
      /\ \A u \in Caller : /\ pc'[u] = "placed" <=> (pc[u] = "placed" /\ u # t)
                           /\ pc'[u] = "cancelled" <=> pc[u] = "cancelled"
  BY <1>a DEF RecordPlaced, TypeOK
<1>b. PICK n \in Nat : OneMore("order.placed", o, n)
  BY <1>0, EntriesAppended
<1>1. /\ n \notin DOMAIN trail
      /\ \A i \in DOMAIN trail : trail'[i] = trail[i]
      /\ trail'[n].order = o
      /\ \A ev : Entries(ev) \subseteq DOMAIN trail
      /\ \A ev : ev # "order.placed" => Entries(ev)' = Entries(ev)
      /\ Entries("order.placed")' = Entries("order.placed") \union {n}
  BY <1>b DEF OneMore
<1>2. /\ o \in DOMAIN market
      /\ \A i \in Entries("order.placed") : trail[i].order # o
      /\ \A u \in Caller : (pc[u] = "placed" /\ item[u] = o) => u = t
  BY <1>0, <1>a DEF Accounts, InHand
<1>3. /\ \A i \in PlacedEntries(o)' : i = n
      /\ n \in PlacedEntries(o)'
      /\ \A p : p # o => PlacedEntries(p)' = PlacedEntries(p)
  <2>1. \A p : PlacedEntries(p)' = {i \in Entries("order.placed")' : trail'[i].order = p}
    BY DEF PlacedEntries
  <2>2. \A i \in Entries("order.placed")' : i = n \/ (i \in Entries("order.placed") /\ trail'[i] = trail[i])
    BY <1>1
  <2>3. n \in Entries("order.placed")'
    BY <1>1
  <2>4. \A p : p # o => PlacedEntries(p)' = PlacedEntries(p)
    BY <1>1, <2>1, <2>2 DEF PlacedEntries
  <2>5. \A i \in PlacedEntries(o)' : i = n
    BY <1>2, <2>1, <2>2
  <2>6. QED  BY <1>1, <2>1, <2>3, <2>4, <2>5
<1>4. /\ Entries("order.cancelled")' = Entries("order.cancelled")
      /\ \A i \in Entries("order.cancelled") : trail'[i] = trail[i]
      /\ \A p : CancelledEntries(p)' = CancelledEntries(p)
  BY <1>1 DEF CancelledEntries
<1>5. PlacementsAccounted'
  <2>1. \A i \in Entries("order.placed")' : trail'[i].order \in DOMAIN market
    BY <1>1, <1>2 DEF Accounts, PlacementsAccounted
  <2>2. ASSUME NEW p \in DOMAIN market
        PROVE  /\ \A i, j \in PlacedEntries(p)' : i = j
               /\ PlacedEntries(p)' = {} =>
                     p \in placeRaised' \/ \E u \in Caller : pc'[u] = "placed" /\ item'[u] = p
    <3>1. CASE p = o
      BY <1>3, <3>1
    <3>2. CASE p # o
      <4>1. PlacedEntries(p)' = PlacedEntries(p)
        BY <1>3, <3>2
      <4>2. PlacedEntries(p) = {} =>
                p \in placeRaised \/ \E u \in Caller : pc[u] = "placed" /\ item[u] = p
        BY DEF Accounts, PlacementsAccounted
      <4>3. \A u \in Caller : item[u] = p => u # t
        BY <1>a, <3>2
      <4>4. \A i, j \in PlacedEntries(p) : i = j
        BY DEF Accounts, PlacementsAccounted
      <4>5. QED  BY <1>0, <4>1, <4>2, <4>3, <4>4
    <3>3. QED  BY <3>1, <3>2
  <2>3. QED  BY <1>0, <2>1, <2>2 DEF PlacementsAccounted
<1>6. CancellationsAccounted'
  <2>1. \A p \in DOMAIN market :
            (market[p].asked /\ CancelledEntries(p)' = {}) =>
                p \in cancelRaised \/ \E u \in Caller : pc'[u] = "cancelled" /\ item'[u] = p
    BY <1>0, <1>4 DEF Accounts, CancellationsAccounted
  <2>2. \A i \in Entries("order.cancelled")' :
            trail'[i].order \in DOMAIN market /\ market[trail'[i].order].asked
    BY <1>4 DEF Accounts, CancellationsAccounted
  <2>3. QED  BY <1>0, <2>1, <2>2, ZenonT(30) DEF CancellationsAccounted
<1>7. InHand'
  <2>1. ASSUME NEW u \in Caller, pc'[u] = "placed"
        PROVE  /\ item'[u] \in DOMAIN market
               /\ \A i \in Entries("order.placed")' : trail'[i].order # item'[u]
    <3>1. pc[u] = "placed" /\ item[u] # o /\ item'[u] = item[u]
      BY <1>0, <1>2, <2>1
    <3>2. QED  BY <1>1, <3>1 DEF Accounts, InHand
  <2>2. QED  BY <1>0, <2>1 DEF Accounts, InHand
<1>8. QED  BY <1>5, <1>6, <1>7 DEF Accounts

(* What becomes of an order the broker changes. *)
LEMMA StatusMoved ==
    ASSUME TypeOK, NEW o \in DOMAIN market, NEW status \in MarketStatus \ {"OPEN"},
           market' = [market EXCEPT ![o].status = status]
    PROVE  /\ DOMAIN market' = DOMAIN market
           /\ \A p \in DOMAIN market : p # o => market'[p] = market[p]
           /\ market'[o].asked = market[o].asked
<1> DEFINE Sold == [status : MarketStatus, tag : Tag, asked : BOOLEAN]
<1>0. market \in Seq(Sold)
  BY DEF TypeOK
<1> HIDE DEF Sold
<1>1. market[o] \in Sold
  BY <1>0
<1>2. [market[o] EXCEPT !.status = status].asked = market[o].asked
  BY <1>1 DEF Sold
<1>3. QED  BY <1>0, <1>2

(* The broker changes an order, or is asked to cancel it.                   *)
LEMMA MarketAccounts ==
    ASSUME TypeOK, Accounts, NEW o \in DOMAIN market,
           DOMAIN market' = DOMAIN market,
           \A p \in DOMAIN market : p # o => market'[p] = market[p],
           market[o].asked => market'[o].asked,
           UNCHANGED <<trail, placeRaised>>,
           \A u \in Caller : /\ pc'[u] = "placed" <=> pc[u] = "placed"
                             /\ pc'[u] = "placed" => item'[u] = item[u]
                             /\ pc[u] = "cancelled" => pc'[u] = "cancelled" /\ item'[u] = item[u]
                             /\ pc'[u] = "cancelled" =>
                                    \/ item'[u] = o /\ market'[o].asked
                                    \/ pc[u] = "cancelled" /\ item'[u] = item[u],
           \A p \in cancelRaised : p \in cancelRaised',
           market'[o].asked =>
               \/ market[o].asked
               \/ o \in cancelRaised'
               \/ \E u \in Caller : pc'[u] = "cancelled" /\ item'[u] = o
    PROVE  Accounts'
<1>2. /\ \A ev : Entries(ev)' = Entries(ev)
      /\ \A p : PlacedEntries(p)' = PlacedEntries(p) /\ CancelledEntries(p)' = CancelledEntries(p)
  BY DEF Entries, PlacedEntries, CancelledEntries
<1>3. PlacementsAccounted'
  BY <1>2 DEF Accounts, PlacementsAccounted
<1>4. CancellationsAccounted'
  <2>1. ASSUME NEW p \in DOMAIN market, market'[p].asked, CancelledEntries(p) = {}
        PROVE  p \in cancelRaised' \/ \E u \in Caller : pc'[u] = "cancelled" /\ item'[u] = p
    <3>1. CASE market[p].asked
      BY <2>1, <3>1 DEF Accounts, CancellationsAccounted
    <3>2. CASE ~market[p].asked
      BY <2>1, <3>2
    <3>3. QED  BY <3>1, <3>2
  <2>2. \A i \in Entries("order.cancelled") :
            trail[i].order \in DOMAIN market /\ market'[trail[i].order].asked
    BY DEF Accounts, CancellationsAccounted
  <2>3. QED  BY <1>2, <2>1, <2>2 DEF CancellationsAccounted
<1>5. InHand'
  <2>1. \A u \in Caller : pc'[u] = "cancelled" =>
            item'[u] \in DOMAIN market /\ market'[item'[u]].asked
    BY DEF Accounts, InHand
  <2>2. \A u \in Caller : pc'[u] = "placed" =>
            /\ item'[u] \in DOMAIN market
            /\ \A i \in Entries("order.placed") : trail[i].order # item'[u]
    BY DEF Accounts, InHand
  <2>3. \A u, v \in Caller : (pc'[u] = "placed" /\ pc'[v] = "placed" /\ item'[u] = item'[v]) => u = v
    BY DEF Accounts, InHand
  <2>4. QED  BY <1>2, <2>1, <2>2, <2>3 DEF InHand
<1>6. QED  BY <1>3, <1>4, <1>5 DEF Accounts

LEMMA MarketMovesAccounts ==
    ASSUME TypeOK, Accounts, NEW o \in DOMAIN market, MarketMoves(o)
    PROVE  Accounts'
<1>1. PICK status \in MarketStatus \ {"OPEN"} : market' = [market EXCEPT ![o].status = status]
  BY DEF MarketMoves
<1>2. /\ DOMAIN market' = DOMAIN market
      /\ \A p \in DOMAIN market : p # o => market'[p] = market[p]
      /\ market'[o].asked = market[o].asked
  BY <1>1, StatusMoved
<1>3. UNCHANGED <<trail, pc, item, placeRaised, cancelRaised>>
  BY DEF MarketMoves, raised
<1>4. QED  BY <1>2, <1>3, MarketAccounts

(* An order that is asked to be cancelled. *)
LEMMA AskedMoved ==
    ASSUME TypeOK, NEW o \in DOMAIN market, market' = Asked(o)
    PROVE  /\ DOMAIN market' = DOMAIN market
           /\ \A p \in DOMAIN market : p # o => market'[p] = market[p]
           /\ market'[o].asked
<1> DEFINE Sold == [status : MarketStatus, tag : Tag, asked : BOOLEAN]
<1>0. market \in Seq(Sold)
  BY DEF TypeOK
<1> HIDE DEF Sold
<1>1. market[o] \in Sold
  BY <1>0
<1>2. [market[o] EXCEPT !.asked = TRUE].asked
  BY <1>1 DEF Sold
<1>3. QED  BY <1>0, <1>2 DEF Asked

LEMMA CancelAccounts ==
    ASSUME TypeOK, Accounts, NEW t \in Caller, NEW o \in DOMAIN market,
           CancelSent(t, o) \/ CancelUnanswered(t, o)
    PROVE  Accounts'
<1>1. /\ DOMAIN market' = DOMAIN market
      /\ \A p \in DOMAIN market : p # o => market'[p] = market[p]
      /\ market'[o].asked
  BY AskedMoved DEF CancelSent, CancelUnanswered
<1>2. UNCHANGED <<trail, placeRaised>> /\ pc[t] = "idle"
  BY DEF CancelSent, CancelUnanswered, raised
<1>3. /\ \A u \in Caller \ {t} : pc'[u] = pc[u] /\ item'[u] = item[u]
      /\ \/ pc'[t] = "cancelled" /\ item'[t] = o /\ cancelRaised' = cancelRaised
         \/ /\ pc'[t] = "idle" /\ item'[t] = item[t]
            /\ cancelRaised' = cancelRaised \union {o}
  BY DEF CancelSent, CancelUnanswered, raised, TypeOK
<1>4. QED  BY <1>1, <1>2, <1>3, MarketAccounts

LEMMA RecordCancelledAccounts ==
    ASSUME TypeOK, Accounts, NEW t \in Caller, RecordCancelled(t)
    PROVE  Accounts'
<1>a. PICK o \in Nat : o = item[t]
  BY DEF TypeOK
<1>0. /\ pc[t] = "cancelled"
      /\ trail' = Append(trail, Entry("order.cancelled", o))
      /\ market' = market
      /\ \A u \in Caller : u # t => item'[u] = item[u]
      /\ placeRaised' = placeRaised /\ cancelRaised' = cancelRaised
      /\ \A u \in Caller : /\ pc'[u] = "placed" <=> pc[u] = "placed"
                           /\ pc'[u] = "cancelled" <=> (pc[u] = "cancelled" /\ u # t)
  BY <1>a DEF RecordCancelled, raised, TypeOK
<1>b. PICK n \in Nat : OneMore("order.cancelled", o, n)
  BY <1>0, EntriesAppended
<1>1. /\ n \notin DOMAIN trail
      /\ \A i \in DOMAIN trail : trail'[i] = trail[i]
      /\ trail'[n].order = o
      /\ \A ev : Entries(ev) \subseteq DOMAIN trail
      /\ \A ev : ev # "order.cancelled" => Entries(ev)' = Entries(ev)
      /\ Entries("order.cancelled")' = Entries("order.cancelled") \union {n}
  BY <1>b DEF OneMore
<1>2. o \in DOMAIN market /\ market[o].asked
  BY <1>0, <1>a DEF Accounts, InHand
<1>3. /\ Entries("order.placed")' = Entries("order.placed")
      /\ \A i \in Entries("order.placed") : trail'[i] = trail[i]
      /\ \A p : PlacedEntries(p)' = PlacedEntries(p)
  BY <1>1 DEF PlacedEntries
<1>4. /\ n \in CancelledEntries(o)'
      /\ \A p : CancelledEntries(p)' = {} => CancelledEntries(p) = {}
  <2>1. \A p : CancelledEntries(p)' = {i \in Entries("order.cancelled")' : trail'[i].order = p}
    BY DEF CancelledEntries
  <2>2. \A i \in Entries("order.cancelled") : trail'[i] = trail[i]
    BY <1>1
  <2>3. \A p : CancelledEntries(p) \subseteq CancelledEntries(p)'
    BY <1>1, <2>1, <2>2 DEF CancelledEntries
  <2>4. QED  BY <1>1, <2>1, <2>3
<1>5. PlacementsAccounted'
  <2>1. \A p \in DOMAIN market : PlacedEntries(p) = {} =>
            p \in placeRaised \/ \E u \in Caller : pc'[u] = "placed" /\ item'[u] = p
    BY <1>0 DEF Accounts, PlacementsAccounted
  <2>2. \A i \in Entries("order.placed")' : trail'[i].order \in DOMAIN market
    BY <1>3 DEF Accounts, PlacementsAccounted
  <2>3. \A p \in DOMAIN market : \A i, j \in PlacedEntries(p)' : i = j
    BY <1>3 DEF Accounts, PlacementsAccounted
  <2>4. QED  BY <1>0, <1>3, <2>1, <2>2, <2>3 DEF PlacementsAccounted
<1>6. CancellationsAccounted'
  <2>1. ASSUME NEW p \in DOMAIN market, market[p].asked, CancelledEntries(p)' = {}
        PROVE  p \in cancelRaised \/ \E u \in Caller : pc'[u] = "cancelled" /\ item'[u] = p
    <3>1. p # o /\ CancelledEntries(p) = {}
      BY <1>4, <2>1
    <3>2. p \in cancelRaised \/ \E u \in Caller : pc[u] = "cancelled" /\ item[u] = p
      BY <2>1, <3>1 DEF Accounts, CancellationsAccounted
    <3>3. QED  BY <1>0, <1>a, <3>1, <3>2
  <2>2. \A i \in Entries("order.cancelled")' :
            trail'[i].order \in DOMAIN market /\ market[trail'[i].order].asked
    BY <1>1, <1>2 DEF Accounts, CancellationsAccounted
  <2>3. QED  BY <1>0, <2>1, <2>2 DEF CancellationsAccounted
<1>7. InHand'
  <2>1. ASSUME NEW u \in Caller, pc'[u] = "placed"
        PROVE  /\ item[u] \in DOMAIN market
               /\ \A i \in Entries("order.placed")' : trail'[i].order # item[u]
    <3>1. pc[u] = "placed"
      BY <1>0, <2>1
    <3>2. /\ item[u] \in DOMAIN market
          /\ \A i \in Entries("order.placed") : trail[i].order # item[u]
      BY <3>1 DEF Accounts, InHand
    <3>3. QED  BY <1>3, <3>2
  <2>2. \A u, v \in Caller : (pc'[u] = "placed" /\ pc'[v] = "placed" /\ item[u] = item[v]) => u = v
    BY <1>0 DEF Accounts, InHand
  <2>3. \A u \in Caller : pc'[u] = "cancelled" =>
            item'[u] \in DOMAIN market' /\ market'[item'[u]].asked
    BY <1>0 DEF Accounts, InHand
  <2>4. \A u \in Caller : pc'[u] = "placed" =>
            /\ item'[u] \in DOMAIN market'
            /\ \A i \in Entries("order.placed")' : trail'[i].order # item'[u]
    BY <1>0, <2>1
  <2>5. \A u, v \in Caller :
            (pc'[u] = "placed" /\ pc'[v] = "placed" /\ item'[u] = item'[v]) => u = v
    BY <1>0, <2>2
  <2>6. QED  BY <2>3, <2>4, <2>5 DEF InHand
<1>8. QED  BY <1>5, <1>6, <1>7 DEF Accounts

LEMMA AccountsNext ==
    ASSUME TypeOK, Accounts, Next
    PROVE  Accounts'
<1>1. CASE \E accepted, env \in BOOLEAN : Construct(accepted, env)
  BY <1>1, NotedAccounts DEF Construct, Event
<1>2. ASSUME NEW t \in Caller,
             PlaceCheck(t) \/ SubmitLost(t) \/ RecordPlaced(t) \/ RecordCancelled(t)
      PROVE  Accounts'
  BY <1>2, MovedAccounts, RecordPlacedAccounts, RecordCancelledAccounts
<1>3. ASSUME NEW t \in Caller, NEW own \in OwnTag, Submit(t, own) \/ SubmitUnanswered(t, own)
      PROVE  Accounts'
  BY <1>3, SentAccounts
<1>4. ASSUME NEW t \in Caller, NEW o \in DOMAIN market, CancelSent(t, o) \/ CancelUnanswered(t, o)
      PROVE  Accounts'
  BY <1>4, CancelAccounts
<1>5. ASSUME NEW o \in DOMAIN market, MarketMoves(o)
      PROVE  Accounts'
  BY <1>5, MarketMovesAccounts
<1>6. CASE engage
  BY <1>6, NotedAccounts DEF engage, Event
<1>7. CASE reset
  BY <1>7, NotedAccounts DEF reset, Event
<1>8. QED  BY <1>1, <1>2, <1>3, <1>4, <1>5, <1>6, <1>7 DEF Next

----------------------------------------------------------------------------
(* Orders sent late. *)

LEMMA LateNext ==
    ASSUME TypeOK, AtMostOneLate, LateIsSpent, Next
    PROVE  AtMostOneLate' /\ LateIsSpent'
<1>0. /\ late \in [Caller -> Nat]
      /\ pc \in [Caller -> {"idle", "checked", "placed", "cancelled"}]
  BY DEF TypeOK
<1>1. CASE \E accepted, env \in BOOLEAN : Construct(accepted, env)
  BY <1>1 DEF Construct, AtMostOneLate, LateIsSpent
<1>2. ASSUME NEW t \in Caller, PlaceCheck(t)
      PROVE  AtMostOneLate' /\ LateIsSpent'
  BY <1>2 DEF PlaceCheck, AtMostOneLate, LateIsSpent
<1>3. ASSUME NEW t \in Caller, SubmitLost(t) \/ RecordPlaced(t) \/ RecordCancelled(t)
      PROVE  AtMostOneLate' /\ LateIsSpent'
  BY <1>0, <1>3 DEF SubmitLost, RecordPlaced, RecordCancelled, AtMostOneLate, LateIsSpent
<1>4. ASSUME NEW t \in Caller, NEW own \in OwnTag, Submit(t, own) \/ SubmitUnanswered(t, own)
      PROVE  AtMostOneLate' /\ LateIsSpent'
  <2>1. /\ pc[t] = "checked" /\ pc'[t] # "checked" /\ engaged' = engaged
        /\ late' = [late EXCEPT ![t] = IF engaged THEN @ + 1 ELSE 0]
        /\ \A u \in Caller \ {t} : pc'[u] = pc[u]
    BY <1>0, <1>4 DEF Submit, SubmitUnanswered
  <2>2. engaged => late'[t] = 1
    BY <1>0, <2>1 DEF LateIsSpent
  <2>3. \A u \in Caller \ {t} : late'[u] = late[u]
    BY <1>0, <2>1
  <2>4. QED  BY <2>1, <2>2, <2>3 DEF AtMostOneLate, LateIsSpent
<1>5. ASSUME NEW t \in Caller, NEW o \in DOMAIN market, CancelSent(t, o) \/ CancelUnanswered(t, o)
      PROVE  AtMostOneLate' /\ LateIsSpent'
  BY <1>0, <1>5 DEF CancelSent, CancelUnanswered, AtMostOneLate, LateIsSpent
<1>6. ASSUME NEW o \in DOMAIN market, MarketMoves(o)
      PROVE  AtMostOneLate' /\ LateIsSpent'
  BY <1>6 DEF MarketMoves, AtMostOneLate, LateIsSpent
<1>7. CASE engage
  BY <1>0, <1>7 DEF engage, AtMostOneLate, LateIsSpent
<1>8. CASE reset
  BY <1>8 DEF reset, AtMostOneLate, LateIsSpent
<1>9. QED  BY <1>1, <1>2, <1>3, <1>4, <1>5, <1>6, <1>7, <1>8 DEF Next

----------------------------------------------------------------------------
(* The theorems. *)

LEMMA LiveInvNext ==
    ASSUME LiveInv, [Next]_vars
    PROVE  LiveInv'
<1>1. CASE Next
  BY <1>1, TypeNext, AccountsNext, LateNext DEF LiveInv, Accounts
<1>2. CASE UNCHANGED vars
  <2>1. UNCHANGED <<armed, engaged, trail, market, pc, item, late, placeRaised, cancelRaised>>
    BY <1>2 DEF vars, raised
  <2>2. /\ \A ev : Entries(ev)' = Entries(ev)
        /\ \A p : PlacedEntries(p)' = PlacedEntries(p) /\ CancelledEntries(p)' = CancelledEntries(p)
    BY <2>1 DEF Entries, PlacedEntries, CancelledEntries
  <2>3. TypeOK'
    BY <2>1 DEF LiveInv, TypeOK
  <2>4. PlacementsAccounted'
    BY <2>1, <2>2 DEF LiveInv, PlacementsAccounted
  <2>5. CancellationsAccounted'
    BY <2>1, <2>2 DEF LiveInv, CancellationsAccounted
  <2>6. InHand'
    BY <2>1, <2>2 DEF LiveInv, InHand
  <2>7. AtMostOneLate' /\ LateIsSpent'
    BY <2>1 DEF LiveInv, AtMostOneLate, LateIsSpent
  <2>8. QED  BY <2>3, <2>4, <2>5, <2>6, <2>7 DEF LiveInv
<1>3. QED  BY <1>1, <1>2

(* LiveInv holds in every reachable state. *)
THEOREM LiveInvHolds == Spec => []LiveInv
<1>1. Init => LiveInv
  BY LiveInvInit
<1>2. LiveInv /\ [Next]_vars => LiveInv'
  BY LiveInvNext
<1>3. QED  BY <1>1, <1>2, PTL DEF Spec

(* Every variable keeps its type, whatever the callers and the client do. *)
THEOREM TypeCorrect == Spec => []TypeOK
<1>1. LiveInv => TypeOK
  BY DEF LiveInv
<1>2. QED  BY <1>1, LiveInvHolds, PTL

(* place_order's records are of the broker's orders, one each at most, and  *)
(* an order none is of is in a caller's hand or its call raised.            *)
THEOREM PlacementsAreAccounted == Spec => []PlacementsAccounted
<1>1. LiveInv => PlacementsAccounted
  BY DEF LiveInv
<1>2. QED  BY <1>1, LiveInvHolds, PTL

(* cancel_order's records are of orders the broker has been asked to        *)
(* cancel, and such an order has one, is in a caller's hand, or its call    *)
(* raised; what the broker made of it no record says.                       *)
THEOREM CancellationsAreAccounted == Spec => []CancellationsAccounted
<1>1. LiveInv => CancellationsAccounted
  BY DEF LiveInv
<1>2. QED  BY <1>1, LiveInvHolds, PTL

(* An engaged kill switch lets at most one order of each caller through.    *)
THEOREM AtMostOneLateOrder == Spec => []AtMostOneLate
<1>1. LiveInv => AtMostOneLate
  BY DEF LiveInv
<1>2. QED  BY <1>1, LiveInvHolds, PTL
=============================================================================
