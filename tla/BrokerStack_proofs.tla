------------------------- MODULE BrokerStack_proofs -------------------------
(***************************************************************************)
(* Proofs about BrokerStack, for any number of bridges, threads, entries   *)
(* and restarts: a bridge's notifier is told of an entry at most once and  *)
(* only of what it forwards; and, if bridges are detached last in first    *)
(* out, of all that calls begun while it was attached record, and of       *)
(* nothing else.                                                           *)
(*                                                                         *)
(* Two arguments.  An entry belongs to one call, which tells the bridges   *)
(* it has still before it, each once.  And while the script nests, the     *)
(* chain of record functions is the stack of the attached bridges, each    *)
(* of which remembers the chain below it.                                  *)
(***************************************************************************)
EXTENDS BrokerStack, SequenceTheorems, TLAPS

NoRepeat(s) == \A i, j \in DOMAIN s : s[i] = s[j] => i = j

(* A call on its way, and the chain it goes through. *)
CallOK(c) ==
    /\ c \in Calls
    /\ c.step = "called" => NoRepeat(c.through) /\ (c.log = "own" => c.owing = {} /\ c.through = <<>>)
    /\ c.step = "recorded" =>
          /\ NoRepeat(c.tell)
          /\ c.entry \in DOMAIN given /\ given[c.entry] = c.event

Recorded(t) == call[t].step = "recorded"

(* Each entry under way is one call's; what is told is told once. *)
ToldInv ==
    /\ TypeOK
    /\ NoRepeat(record) /\ \A b \in Bridge : NoRepeat(original[b])
    /\ \A t \in Caller : CallOK(call[t])
    /\ \A t, u \in Caller : Recorded(t) /\ Recorded(u) /\ call[t].entry = call[u].entry => t = u
    /\ \A b \in Bridge :
          /\ NoRepeat(delivered[b])
          /\ \A n \in ToSet(delivered[b]) : n \in DOMAIN given /\ given[n] \in Forwarded[b]
          /\ \A t \in Caller : ToTell(b, t) => call[t].entry \notin ToSet(delivered[b])

(* The chain is the stack of the attached bridges. *)
StackInv ==
    /\ attached = ToSet(record)
    /\ \A i \in DOMAIN record : original[record[i]] = SubSeq(record, 1, i - 1)
    /\ \A t \in Caller : call[t].step = "called" => call[t].owing = ToSet(call[t].through)

(* Each bridge is told all it is owed, and nothing else. *)
OwedInv ==
    /\ AttachedHears
    /\ DetachedSilent

----------------------------------------------------------------------------
(* Sequences without repetition. *)

LEMMA AppendedSet ==
    ASSUME NEW S, NEW s \in Seq(S), NEW e \in S
    PROVE  /\ Append(s, e) \in Seq(S)
           /\ ToSet(Append(s, e)) = ToSet(s) \union {e}
           /\ NoRepeat(s) /\ e \notin ToSet(s) => NoRepeat(Append(s, e))
           /\ DOMAIN s \subseteq DOMAIN Append(s, e)
           /\ \A i \in DOMAIN s : Append(s, e)[i] = s[i]
           /\ Len(s) + 1 \in DOMAIN Append(s, e) /\ Append(s, e)[Len(s) + 1] = e
<1> DEFINE a == Append(s, e)
<1>1. /\ a \in Seq(S) /\ DOMAIN a = 1..(Len(s) + 1) /\ DOMAIN s = 1..Len(s)
      /\ \A i \in 1..Len(s) : a[i] = s[i]
      /\ a[Len(s) + 1] = e /\ Len(s) \in Nat
  OBVIOUS
<1> HIDE DEF a
<1>2. \A i \in DOMAIN a : i \in DOMAIN s \/ i = Len(s) + 1
  BY <1>1
<1>3. ToSet(a) = ToSet(s) \union {e}
  <2>1. ToSet(a) \subseteq ToSet(s) \union {e}
    BY <1>1, <1>2 DEF ToSet
  <2>2. ToSet(s) \subseteq ToSet(a) /\ e \in ToSet(a)
    BY <1>1 DEF ToSet
  <2>3. QED  BY <2>1, <2>2
<1>4. ASSUME NoRepeat(s), e \notin ToSet(s) PROVE NoRepeat(a)
  <2>1. \A i \in DOMAIN s : a[i] = s[i] /\ s[i] # e
    BY <1>1, <1>4 DEF ToSet
  <2>2. QED  BY <1>1, <1>2, <1>4, <2>1 DEF NoRepeat
<1>5. QED  BY <1>1, <1>3, <1>4 DEF a

LEMMA HeadAndRest ==
    ASSUME NEW S, NEW s \in Seq(S), s # <<>>
    PROVE  /\ Head(s) \in S /\ Tail(s) \in Seq(S)
           /\ ToSet(s) = {Head(s)} \union ToSet(Tail(s))
           /\ NoRepeat(s) => NoRepeat(Tail(s)) /\ Head(s) \notin ToSet(Tail(s))
<1> DEFINE r == Tail(s)
<1>1. /\ r \in Seq(S) /\ DOMAIN s = 1..Len(s) /\ DOMAIN r = 1..(Len(s) - 1)
      /\ Len(s) \in Nat \ {0} /\ Head(s) = s[1]
      /\ \A i \in 1..(Len(s) - 1) : r[i] = s[i + 1]
      /\ Head(s) \in S
  OBVIOUS
<1> HIDE DEF r
<1>2. ToSet(r) \subseteq ToSet(s) /\ Head(s) \in ToSet(s)
  <2>1. \A i \in DOMAIN r : i + 1 \in DOMAIN s /\ r[i] = s[i + 1]
    BY <1>1
  <2>2. 1 \in DOMAIN s
    BY <1>1
  <2>3. QED  BY <1>1, <2>1, <2>2 DEF ToSet
<1>3. ToSet(s) \subseteq {Head(s)} \union ToSet(r)
  <2>1. ASSUME NEW i \in DOMAIN s, i # 1 PROVE s[i] \in ToSet(r)
    <3>1. i - 1 \in DOMAIN r /\ r[i - 1] = s[i]
      BY <1>1, <2>1
    <3>2. QED  BY <3>1 DEF ToSet
  <2>2. QED  BY <1>1, <2>1 DEF ToSet
<1>4. ASSUME NoRepeat(s) PROVE NoRepeat(r) /\ Head(s) \notin ToSet(r)
  <2>1. \A i \in DOMAIN r : i + 1 \in DOMAIN s /\ i + 1 # 1 /\ r[i] = s[i + 1]
    BY <1>1
  <2>2. 1 \in DOMAIN s
    BY <1>1
  <2>3. Head(s) \notin ToSet(r)
    BY <1>1, <1>4, <2>1, <2>2 DEF NoRepeat, ToSet
  <2>4. ASSUME NEW i \in DOMAIN r, NEW j \in DOMAIN r, r[i] = r[j] PROVE i = j
    <3>1. i + 1 = j + 1
      BY <1>4, <2>1, <2>4 DEF NoRepeat
    <3>2. QED  BY <1>1, <3>1
  <2>5. QED  BY <2>3, <2>4 DEF NoRepeat
<1>5. QED  BY <1>1, <1>2, <1>3, <1>4 DEF r

----------------------------------------------------------------------------
(* What is told, is told once. *)

(* The script's doings: the calls, and what has been told, are left alone. *)
LEMMA ScriptActs ==
    ASSUME ToldInv, TypeOK', UNCHANGED <<given, call, delivered>>,
           NoRepeat(record'), \A b \in Bridge : NoRepeat(original'[b])
    PROVE  ToldInv'
<1>1. \A t \in Caller : CallOK(call[t])'
  BY DEF ToldInv, CallOK
<1>2. \A b \in Bridge, t \in Caller : ToTell(b, t)' <=> ToTell(b, t)
  BY DEF ToTell, Interested
<1>3. \A t \in Caller : Recorded(t)' <=> Recorded(t)
  BY DEF Recorded
<1>4. QED  BY <1>1, <1>2, <1>3 DEF ToldInv

(* A call that goes on without telling anybody. *)
LEMMA CallGoesOn ==
    ASSUME ToldInv, TypeOK', NEW t \in Caller, NEW c, CallOK(c),
           call' = [call EXCEPT ![t] = c], UNCHANGED <<given, delivered, record, original>>,
           c.step # "recorded"
    PROVE  ToldInv'
<1>1. /\ call'[t] = c /\ \A u \in Caller : u # t => call'[u] = call[u]
  BY DEF ToldInv, TypeOK
<1>2. \A u \in Caller : CallOK(call[u])'
  BY <1>1 DEF ToldInv, CallOK
<1>3. \A u \in Caller : Recorded(u)' => u # t /\ Recorded(u)
  BY <1>1 DEF Recorded
<1>4. \A b \in Bridge, u \in Caller : ToTell(b, u)' => u # t /\ ToTell(b, u)
  BY <1>1 DEF ToTell, Interested
<1>5. \A u, v \in Caller :
          Recorded(u)' /\ Recorded(v)' /\ call'[u].entry = call'[v].entry => u = v
  BY <1>1, <1>3 DEF ToldInv
<1>6. \A b \in Bridge, u \in Caller : ToTell(b, u)' => call'[u].entry \notin ToSet(delivered'[b])
  BY <1>1, <1>4 DEF ToldInv
<1>7. QED  BY <1>2, <1>5, <1>6 DEF ToldInv

(* The record itself: a new entry, which is this call's alone. *)
LEMMA EntryMade ==
    ASSUME ToldInv, NEW t \in Caller, RecordGiven(t)
    PROVE  ToldInv'
<1> DEFINE n == Len(given) + 1
           c == [step |-> "recorded", entry |-> n, event |-> call[t].event, tell |-> call[t].through]
<1>1. /\ given \in Seq(Event) /\ call \in [Caller -> Calls] /\ CallOK(call[t])
      /\ owed \in [Bridge -> SUBSET Nat]
  BY DEF ToldInv, TypeOK
<1>2. /\ call[t].step = "called" /\ call[t].event \in Event /\ call[t].through \in Seq(Bridge)
      /\ NoRepeat(call[t].through)
  BY <1>1 DEF RecordGiven, CallOK, Calls
<1>3. /\ given' = Append(given, call[t].event) /\ Len(given') = n /\ n \in Nat
      /\ UNCHANGED <<own, passed, audit, switchAudit, record, original, attached, delivered, missed>>
  BY <1>1, <1>2 DEF RecordGiven, script, hooks
<1>4. /\ given' \in Seq(Event) /\ DOMAIN given \subseteq DOMAIN given'
      /\ \A i \in DOMAIN given : given'[i] = given[i]
      /\ n \in DOMAIN given' /\ given'[n] = call[t].event
      /\ n \notin DOMAIN given
  BY <1>1, <1>2, <1>3, AppendedSet
<1>5. call' = [call EXCEPT ![t] = c]
  BY <1>3 DEF RecordGiven
<1>6. c \in Calls
  BY <1>2, <1>3 DEF Calls
<1>7. c.step = "recorded" /\ c.entry = n /\ c.event = call[t].event /\ c.tell = call[t].through
  OBVIOUS
<1> HIDE DEF c
<1>8. /\ call'[t] = c /\ call' \in [Caller -> Calls]
      /\ \A u \in Caller : u # t => call'[u] = call[u]
  BY <1>1, <1>5, <1>6
<1>9. owed' \in [Bridge -> SUBSET Nat]
  BY <1>1, <1>3 DEF RecordGiven
<1>10. TypeOK'
  BY <1>3, <1>4, <1>8, <1>9 DEF ToldInv, TypeOK
<1>11. \A u \in Caller : CallOK(call[u])'
  BY <1>2, <1>4, <1>6, <1>7, <1>8 DEF ToldInv, CallOK
<1>12. ASSUME NEW u \in Caller, NEW v \in Caller, Recorded(u)', Recorded(v)',
              call'[u].entry = call'[v].entry
       PROVE  u = v
  <2>1. \A w \in Caller : w # t /\ Recorded(w)' => Recorded(w) /\ call'[w].entry \in DOMAIN given
    BY <1>8 DEF Recorded, ToldInv, CallOK
  <2>2. QED  BY <1>4, <1>7, <1>8, <1>12, <2>1 DEF ToldInv
<1>13. \A b \in Bridge : \A i \in ToSet(delivered'[b]) : i \in DOMAIN given' /\ given'[i] \in Forwarded[b]
  BY <1>3, <1>4 DEF ToldInv
<1>14. ASSUME NEW b \in Bridge, NEW u \in Caller, ToTell(b, u)'
       PROVE  call'[u].entry \notin ToSet(delivered'[b])
  <2>1. CASE u = t
    <3>1. \A i \in ToSet(delivered[b]) : i # n
      BY <1>4 DEF ToldInv
    <3>2. QED  BY <1>3, <1>7, <1>8, <2>1, <3>1
  <2>2. CASE u # t
    <3>1. ToTell(b, u)
      BY <1>8, <1>14, <2>2 DEF ToTell, Interested
    <3>2. QED  BY <1>3, <1>8, <2>2, <3>1 DEF ToldInv
  <2>3. QED  BY <2>1, <2>2
<1>15. QED  BY <1>3, <1>10, <1>11, <1>12, <1>13, <1>14 DEF ToldInv

(* The next bridge, out of those the call has before it. *)
LEMMA BridgeTold ==
    ASSUME ToldInv, NEW t \in Caller, Notify(t)
    PROVE  ToldInv'
<1> DEFINE h == Head(call[t].tell)
           e == call[t].entry
           c == [call[t] EXCEPT !.tell = Tail(@)]
<1>1. /\ given \in Seq(Event) /\ call \in [Caller -> Calls] /\ CallOK(call[t])
      /\ delivered \in [Bridge -> Seq(Nat)]
  BY DEF ToldInv, TypeOK
<1>2. /\ call[t].step = "recorded" /\ call[t].event \in Event /\ e \in Nat
      /\ call[t].tell \in Seq(Bridge) /\ call[t].tell # <<>>
      /\ NoRepeat(call[t].tell) /\ e \in DOMAIN given /\ given[e] = call[t].event
  BY <1>1 DEF Notify, CallOK, Calls
<1>3. /\ h \in Bridge /\ Tail(call[t].tell) \in Seq(Bridge)
      /\ ToSet(call[t].tell) = {h} \union ToSet(Tail(call[t].tell))
      /\ NoRepeat(Tail(call[t].tell)) /\ h \notin ToSet(Tail(call[t].tell))
  BY <1>2, HeadAndRest
<1>4. /\ UNCHANGED <<given, own, passed, audit, switchAudit, record, original, attached, owed, missed>>
      /\ call' = [call EXCEPT ![t] = c]
      /\ delivered' = IF Interested(h, call[t].event)
                      THEN [delivered EXCEPT ![h] = Append(@, e)] ELSE delivered
  BY DEF Notify, Tells, script, hooks
<1>5. /\ c \in Calls /\ c.step = "recorded" /\ c.entry = e /\ c.event = call[t].event
      /\ c.tell = Tail(call[t].tell)
  <2>1. call[t] \in [step : {"recorded"}, entry : Nat, event : Event, tell : Seq(Bridge)]
    BY <1>1, <1>2 DEF Calls
  <2>2. QED  BY <1>3, <2>1 DEF Calls
<1> HIDE DEF c, h, e
<1>6. /\ call'[t] = c /\ call' \in [Caller -> Calls]
      /\ \A u \in Caller : u # t => call'[u] = call[u]
  BY <1>1, <1>4, <1>5
<1>7. \A u \in Caller : CallOK(call[u])'
  BY <1>2, <1>3, <1>4, <1>5, <1>6 DEF ToldInv, CallOK
<1>8. \A u \in Caller : Recorded(u)' => Recorded(u) /\ call'[u].entry = call[u].entry
  BY <1>2, <1>5, <1>6 DEF Recorded, e
<1>9. \A u, v \in Caller :
          Recorded(u)' /\ Recorded(v)' /\ call'[u].entry = call'[v].entry => u = v
  BY <1>8 DEF ToldInv
<1>10. ASSUME NEW b \in Bridge, NEW u \in Caller, ToTell(b, u)'
       PROVE  ToTell(b, u) /\ (b = h => u # t) /\ call'[u].entry = call[u].entry
  <2>1. CASE u = t
    BY <1>2, <1>3, <1>5, <1>6, <1>10, <2>1 DEF ToTell, Interested, e
  <2>2. CASE u # t
    BY <1>6, <1>10, <2>2 DEF ToTell, Interested
  <2>3. QED  BY <2>1, <2>2
<1>11. CASE ~Interested(h, call[t].event)
  <2>1. delivered' = delivered
    BY <1>4, <1>11
  <2>2. TypeOK'
    BY <1>4, <1>6, <2>1 DEF ToldInv, TypeOK
  <2>3. QED  BY <1>4, <1>7, <1>9, <1>10, <2>1, <2>2 DEF ToldInv
<1>12. CASE Interested(h, call[t].event)
  <2>1. delivered[h] \in Seq(Nat) /\ e \notin ToSet(delivered[h]) /\ NoRepeat(delivered[h])
    BY <1>1, <1>2, <1>3, <1>12 DEF ToldInv, ToTell, e
  <2> DEFINE told_now == Append(delivered[h], e)
  <2>2. /\ told_now \in Seq(Nat) /\ NoRepeat(told_now)
        /\ ToSet(told_now) = ToSet(delivered[h]) \union {e}
    BY <1>2, <2>1, AppendedSet
  <2> HIDE DEF told_now
  <2>3. /\ delivered' \in [Bridge -> Seq(Nat)] /\ delivered'[h] = told_now
        /\ \A b \in Bridge : b # h => delivered'[b] = delivered[b]
    BY <1>1, <1>3, <1>4, <1>12, <2>2 DEF told_now
  <2>4. TypeOK'
    BY <1>4, <1>6, <2>3 DEF ToldInv, TypeOK
  <2>5. ASSUME NEW b \in Bridge
        PROVE  /\ NoRepeat(delivered'[b])
               /\ \A i \in ToSet(delivered'[b]) : i \in DOMAIN given' /\ given'[i] \in Forwarded[b]
               /\ \A u \in Caller : ToTell(b, u)' => call'[u].entry \notin ToSet(delivered'[b])
    <3>1. CASE b # h
      BY <1>4, <1>10, <2>3, <3>1 DEF ToldInv
    <3>2. CASE b = h
      <4>1. \A i \in ToSet(told_now) : i \in DOMAIN given' /\ given'[i] \in Forwarded[h]
        BY <1>2, <1>3, <1>4, <1>12, <2>2 DEF ToldInv, Interested
      <4>2. ASSUME NEW u \in Caller, ToTell(b, u)'
            PROVE  call'[u].entry \notin ToSet(told_now)
        <5>1. /\ ToTell(b, u) /\ u # t /\ call'[u].entry = call[u].entry
          BY <1>10, <3>2, <4>2
        <5>2. call[u].entry \notin ToSet(delivered[b])
          BY <5>1 DEF ToldInv
        <5>3. call[u].entry # e
          BY <1>2, <5>1 DEF ToldInv, ToTell, Recorded, e
        <5>4. QED  BY <2>2, <3>2, <5>1, <5>2, <5>3
      <4>3. QED  BY <2>2, <2>3, <3>2, <4>1, <4>2
    <3>3. QED  BY <3>1, <3>2
  <2>6. QED  BY <1>4, <1>7, <1>9, <2>4, <2>5 DEF ToldInv
<1>13. QED  BY <1>11, <1>12

LEMMA ToldKept ==
    ASSUME ToldInv, [Next]_vars PROVE ToldInv'
<1>1. /\ call \in [Caller -> Calls] /\ record \in Seq(Bridge)
      /\ original \in [Bridge -> Seq(Bridge)] /\ NoRepeat(record)
      /\ \A b \in Bridge : NoRepeat(original[b])
  BY DEF ToldInv, TypeOK
<1>2. Idle \in Calls /\ Idle.step = "idle" /\ CallOK(Idle)
  BY DEF Idle, Calls, CallOK
<1>3. ASSUME NEW log \in {"none", "given"}, MakeSwitch(log) PROVE ToldInv'
  <2>1. UNCHANGED <<given, own, passed, audit, record, original, attached, call, owed, delivered, missed>>
    BY <1>3 DEF MakeSwitch, hooks, told
  <2>2. TypeOK'
    BY <1>3, <2>1 DEF MakeSwitch, ToldInv, TypeOK
  <2>3. QED  BY <1>1, <2>1, <2>2, ScriptActs
<1>4. ASSUME NEW pass \in BOOLEAN, Construct(pass) PROVE ToldInv'
  <2>1. UNCHANGED <<given, own, record, original, attached, call, owed, delivered, missed>>
    BY <1>4 DEF Construct, hooks, told
  <2>2. audit' \in {"given", "own"} /\ passed' \in BOOLEAN
        /\ switchAudit' \in {"absent", "none", "given", "own"}
    BY <1>4 DEF Construct, ToldInv, TypeOK
  <2>3. TypeOK'
    BY <2>1, <2>2 DEF ToldInv, TypeOK
  <2>4. QED  BY <1>1, <2>1, <2>3, ScriptActs
<1>5. ASSUME NEW b \in Bridge, Attach(b) PROVE ToldInv'
  <2>1. /\ UNCHANGED <<given, own, passed, audit, switchAudit, call, owed, delivered, missed>>
        /\ b \notin ToSet(record) /\ record' = Append(record, b)
        /\ original' = [original EXCEPT ![b] = record]
        /\ attached' = attached \union {b}
    BY <1>5 DEF Attach, script, told
  <2>2. record' \in Seq(Bridge) /\ NoRepeat(record')
    BY <1>1, <2>1, AppendedSet
  <2>3. original' \in [Bridge -> Seq(Bridge)] /\ \A a \in Bridge : NoRepeat(original'[a])
    BY <1>1, <2>1
  <2>4. TypeOK'
    BY <2>1, <2>2, <2>3 DEF ToldInv, TypeOK
  <2>5. QED  BY <2>1, <2>2, <2>3, <2>4, ScriptActs
<1>6. ASSUME NEW b \in Bridge, Detach(b) PROVE ToldInv'
  <2>1. /\ UNCHANGED <<given, own, passed, audit, switchAudit, original, call, owed, delivered, missed>>
        /\ record' = original[b] /\ attached' = attached \ {b}
    BY <1>6 DEF Detach, script, told
  <2>2. TypeOK'
    BY <1>1, <2>1 DEF ToldInv, TypeOK
  <2>3. QED  BY <1>1, <2>1, <2>2, ScriptActs
<1>7. ASSUME NEW t \in Caller, NEW event \in Event, Call(t, event) PROVE ToldInv'
  <2> DEFINE log == IF event \in SwitchEvent THEN switchAudit ELSE audit
             through == IF log = "given" THEN record ELSE <<>>
             owing == IF log = "given" THEN attached ELSE {}
             c == [step |-> "called", log |-> log, event |-> event, through |-> through, owing |-> owing]
  <2>1. /\ log \in {"given", "own"} /\ call' = [call EXCEPT ![t] = c]
        /\ UNCHANGED <<given, own, passed, audit, switchAudit, record, original, attached,
                       owed, delivered, missed>>
    BY <1>7 DEF Call, script, hooks, told
  <2>2. through \in Seq(Bridge) /\ NoRepeat(through) /\ owing \subseteq Bridge
    BY <1>1 DEF NoRepeat, ToldInv, TypeOK
  <2>3. log = "own" => owing = {} /\ through = <<>>
    OBVIOUS
  <2> HIDE DEF log, through, owing
  <2>4. /\ c \in Calls /\ c.step = "called" /\ c.log = log
        /\ c.through = through /\ c.owing = owing
    BY <2>1, <2>2 DEF Calls
  <2> HIDE DEF c
  <2>5. CallOK(c)
    BY <2>2, <2>3, <2>4 DEF CallOK
  <2>6. TypeOK'
    BY <1>1, <2>1, <2>4 DEF ToldInv, TypeOK
  <2>7. QED  BY <2>1, <2>4, <2>5, <2>6, CallGoesOn
<1>8. ASSUME NEW t \in Caller, RecordOwn(t) \/ Return(t) \/ NotifyRaises(t) PROVE ToldInv'
  <2>1. /\ call' = [call EXCEPT ![t] = Idle]
        /\ UNCHANGED <<given, passed, audit, switchAudit, record, original, attached, owed, delivered>>
    BY <1>8 DEF RecordOwn, Return, NotifyRaises, script, hooks, told
  <2>2. own' \in Seq(Event)
    <3>1. CASE RecordOwn(t)
      <4>1. call[t] \in [step : {"called"}, log : {"given", "own"}, event : Event,
                         through : Seq(Bridge), owing : SUBSET Bridge]
        BY <1>1, <3>1 DEF RecordOwn, Calls
      <4>2. call[t].event \in Event
        BY <4>1
      <4>3. QED  BY <3>1, <4>2 DEF RecordOwn, ToldInv, TypeOK
    <3>2. CASE Return(t) \/ NotifyRaises(t)
      BY <3>2 DEF Return, NotifyRaises, ToldInv, TypeOK
    <3>3. QED  BY <1>8, <3>1, <3>2
  <2>3. missed' \in [Bridge -> SUBSET Nat]
    <3>1. CASE NotifyRaises(t)
      <4>1. call[t] \in [step : {"recorded"}, entry : Nat, event : Event, tell : Seq(Bridge)]
        BY <1>1, <3>1 DEF NotifyRaises, Calls
      <4>2. call[t].entry \in Nat
        BY <4>1
      <4>3. QED  BY <3>1, <4>2 DEF NotifyRaises, ToldInv, TypeOK
    <3>2. CASE RecordOwn(t) \/ Return(t)
      BY <3>2 DEF RecordOwn, Return, told, ToldInv, TypeOK
    <3>3. QED  BY <1>8, <3>1, <3>2
  <2>4. TypeOK'
    BY <1>1, <1>2, <2>1, <2>2, <2>3 DEF ToldInv, TypeOK
  <2>5. QED  BY <1>2, <2>1, <2>4, CallGoesOn
<1>9. CASE Restart
  <2>1. /\ given' = given /\ own' = <<>>
        /\ passed' = FALSE /\ audit' = "none" /\ switchAudit' = "absent"
        /\ record' = <<>> /\ original' = [b \in Bridge |-> <<>>] /\ attached' = {}
        /\ call' = [t \in Caller |-> Idle]
        /\ owed' = [b \in Bridge |-> {}] /\ delivered' = [b \in Bridge |-> <<>>]
        /\ missed' = [b \in Bridge |-> {}]
    BY <1>9 DEF Restart, NoBridge
  <2>6. given' \in Seq(Event) /\ own' \in Seq(Event) /\ record' \in Seq(Bridge)
    BY <2>1 DEF ToldInv, TypeOK
  <2>7. call' \in [Caller -> Calls] /\ original' \in [Bridge -> Seq(Bridge)]
    BY <1>2, <2>1
  <2>8. /\ owed' \in [Bridge -> SUBSET Nat] /\ delivered' \in [Bridge -> Seq(Nat)]
        /\ missed' \in [Bridge -> SUBSET Nat]
    BY <2>1
  <2>2. TypeOK'
    BY <2>1, <2>6, <2>7, <2>8 DEF TypeOK
  <2>3. \A t \in Caller : CallOK(call[t])' /\ call'[t].step = "idle"
    BY <1>2, <2>1 DEF CallOK
  <2>4. NoRepeat(<<>>) /\ ToSet(<<>>) = {}
    BY DEF NoRepeat, ToSet
  <2>5. QED  BY <2>1, <2>2, <2>3, <2>4 DEF ToldInv, Recorded, ToTell
<1>10. CASE UNCHANGED vars
  <2>1. UNCHANGED <<given, own, passed, audit, switchAudit, record, original, attached, call,
                    owed, delivered, missed>>
    BY <1>10 DEF vars, script, hooks, told
  <2>2. TypeOK'
    BY <2>1 DEF ToldInv, TypeOK
  <2>3. QED  BY <1>1, <2>1, <2>2, ScriptActs
<1>11. QED
  BY <1>3, <1>4, <1>5, <1>6, <1>7, <1>8, <1>9, <1>10, EntryMade, BridgeTold DEF Next

LEMMA ToldAtStart ==
    Init => ToldInv
<1> SUFFICES ASSUME Init PROVE ToldInv
  OBVIOUS
<1>1. Idle \in Calls /\ Idle.step = "idle" /\ CallOK(Idle)
  BY DEF Idle, Calls, CallOK
<1>2. /\ given = <<>> /\ own = <<>> /\ record = <<>> /\ original = [b \in Bridge |-> <<>>]
      /\ call = [t \in Caller |-> Idle] /\ attached = {}
      /\ passed = FALSE /\ audit = "none" /\ switchAudit = "absent"
      /\ owed = [b \in Bridge |-> {}] /\ delivered = [b \in Bridge |-> <<>>]
      /\ missed = [b \in Bridge |-> {}]
  BY DEF Init, NoBridge
<1>3. given \in Seq(Event) /\ own \in Seq(Event) /\ record \in Seq(Bridge)
  BY <1>2
<1>4. call \in [Caller -> Calls] /\ original \in [Bridge -> Seq(Bridge)]
  BY <1>1, <1>2
<1>5. /\ owed \in [Bridge -> SUBSET Nat] /\ delivered \in [Bridge -> Seq(Nat)]
      /\ missed \in [Bridge -> SUBSET Nat]
  BY <1>2
<1>6. TypeOK
  BY <1>2, <1>3, <1>4, <1>5 DEF TypeOK
<1>7. \A t \in Caller : CallOK(call[t]) /\ call[t].step = "idle"
  BY <1>1, <1>2
<1>8. NoRepeat(<<>>) /\ ToSet(<<>>) = {}
  BY DEF NoRepeat, ToSet
<1>9. QED  BY <1>2, <1>6, <1>7, <1>8 DEF ToldInv, Recorded, ToTell

LEMMA ToldOnceHolds ==
    ToldInv => ToldOnce
<1> SUFFICES ASSUME ToldInv, NEW b \in Bridge
             PROVE  /\ NoRepeat(delivered[b])
                    /\ \A n \in ToSet(delivered[b]) :
                          n \in DOMAIN given /\ given[n] \in Forwarded[b] /\ n \notin Pending(b)
  BY DEF ToldOnce, NoRepeat
<1>1. \A t \in Caller : ToTell(b, t) => call[t].entry \notin ToSet(delivered[b])
  BY DEF ToldInv
<1>2. \A n \in ToSet(delivered[b]) : n \notin Pending(b)
  BY <1>1 DEF Pending
<1>3. QED  BY <1>2 DEF ToldInv

(* A bridge's notifier is told of an entry once at most, of no entry that   *)
(* is not in the log and of none whose event it does not forward, whatever  *)
(* the threads and the script do: NotificationBridge._record comes after    *)
(* the record, and a chain of bridges holds no bridge twice.                *)
THEOREM EachToldOnce == Spec => []ToldOnce
<1>1. Spec => []ToldInv
  BY ToldAtStart, ToldKept, PTL DEF Spec
<1>2. QED  BY <1>1, ToldOnceHolds, PTL

----------------------------------------------------------------------------
(* Bridges detached last in, first out. *)

LEMMA PrefixOf ==
    ASSUME NEW S, NEW s \in Seq(S), NEW k \in 0..Len(s)
    PROVE  /\ SubSeq(s, 1, k) \in Seq(S) /\ Len(SubSeq(s, 1, k)) = k
           /\ DOMAIN SubSeq(s, 1, k) = 1..k
           /\ \A i \in 1..k : SubSeq(s, 1, k)[i] = s[i]
  OBVIOUS

LEMMA SameSequence ==
    ASSUME NEW S, NEW s \in Seq(S), NEW r \in Seq(S), Len(s) = Len(r),
           \A i \in 1..Len(s) : s[i] = r[i]
    PROVE  s = r
  OBVIOUS

(* The stack with a bridge put around it. *)
LEMMA StackGrows ==
    ASSUME ToldInv, StackInv, NEW b \in Bridge, Attach(b)
    PROVE  StackInv'
<1>1. /\ record \in Seq(Bridge) /\ original \in [Bridge -> Seq(Bridge)]
      /\ record' = Append(record, b) /\ b \notin ToSet(record)
      /\ original' = [original EXCEPT ![b] = record]
      /\ attached' = attached \union {b} /\ call' = call
  BY DEF Attach, ToldInv, TypeOK
<1>2. attached' = ToSet(record')
  BY <1>1, AppendedSet DEF StackInv
<1>3. /\ Len(record) \in Nat /\ DOMAIN record = 1..Len(record)
      /\ record' \in Seq(Bridge) /\ Len(record') = Len(record) + 1
      /\ DOMAIN record' = 1..(Len(record) + 1)
      /\ record'[Len(record) + 1] = b
      /\ \A i \in 1..Len(record) : record'[i] = record[i]
  BY <1>1
<1>4. ASSUME NEW k \in 0..Len(record)
      PROVE  SubSeq(record', 1, k) = SubSeq(record, 1, k)
  <2>1. k \in 0..Len(record')
    BY <1>3
  <2>2. \A i \in 1..k : record'[i] = record[i]
    BY <1>3
  <2>3. QED  BY <1>1, <1>3, <2>1, <2>2, PrefixOf, SameSequence
<1>5. ASSUME NEW i \in DOMAIN record'
      PROVE  original'[record'[i]] = SubSeq(record', 1, i - 1)
  <2>1. CASE i \in DOMAIN record
    <3>1. record'[i] = record[i] /\ record[i] # b /\ record[i] \in Bridge
      BY <1>1, <1>3, <2>1 DEF ToSet
    <3>2. original'[record'[i]] = original[record[i]]
      BY <1>1, <3>1
    <3>3. i - 1 \in 0..Len(record)
      BY <1>3, <2>1
    <3>4. QED  BY <1>4, <2>1, <3>2, <3>3 DEF StackInv
  <2>2. CASE i = Len(record) + 1
    <3>1. original'[record'[i]] = record
      BY <1>1, <1>3, <2>2
    <3>2. i - 1 = Len(record) /\ Len(record) \in 0..Len(record)
      BY <1>3, <2>2
    <3>3. SubSeq(record, 1, Len(record)) = record
      BY <1>1, <1>3, <3>2, PrefixOf, SameSequence
    <3>4. QED  BY <1>4, <3>1, <3>2, <3>3
  <2>3. QED  BY <1>3, <2>1, <2>2
<1>6. QED  BY <1>1, <1>2, <1>5 DEF StackInv

(* The stack without its outermost bridge. *)
LEMMA StackShrinks ==
    ASSUME ToldInv, StackInv, Nested, NEW b \in Bridge, Detach(b)
    PROVE  StackInv'
<1>1. /\ record \in Seq(Bridge) /\ record # <<>> /\ record[Len(record)] = b
      /\ record' = original[b] /\ original' = original
      /\ attached' = attached \ {b} /\ call' = call /\ NoRepeat(record)
  BY DEF Detach, ToldInv, TypeOK, Last
<1> DEFINE k == Len(record) - 1
<1>2. /\ Len(record) \in Nat \ {0} /\ DOMAIN record = 1..Len(record)
      /\ Len(record) \in DOMAIN record /\ k \in 0..Len(record)
  BY <1>1
<1>3. record' = SubSeq(record, 1, k)
  BY <1>1, <1>2 DEF StackInv
<1>4. /\ record' \in Seq(Bridge) /\ Len(record') = k /\ DOMAIN record' = 1..k
      /\ \A i \in 1..k : record'[i] = record[i] /\ i \in DOMAIN record
  BY <1>1, <1>2, <1>3, PrefixOf
<1>5. attached' = ToSet(record')
  <2>1. \A i \in DOMAIN record : i \in 1..k \/ i = Len(record)
    BY <1>2
  <2>2. \A i \in 1..k : i \in DOMAIN record /\ i # Len(record)
    <3>1. ASSUME NEW i \in 1..k PROVE i \in 1..Len(record) /\ i # Len(record)
      <4>1. Len(record) \in Nat \ {0}
        BY <1>2
      <4>2. QED  BY <3>1, <4>1
    <3>2. QED  BY <1>2, <3>1
  <2>5. \A i \in 1..k : record[i] # b
    BY <1>1, <1>2, <2>2 DEF NoRepeat
  <2>6. ToSet(record') \subseteq ToSet(record) \ {b}
    BY <1>4, <2>2, <2>5 DEF ToSet
  <2>7. ToSet(record) \ {b} \subseteq ToSet(record')
    <3>1. ASSUME NEW i \in DOMAIN record, record[i] # b PROVE record[i] \in ToSet(record')
      <4>1. i \in 1..k
        BY <1>1, <2>1, <3>1
      <4>2. QED  BY <1>4, <4>1 DEF ToSet
    <3>2. QED  BY <3>1 DEF ToSet
  <2>3. ToSet(record) \ {b} = ToSet(record')
    BY <2>6, <2>7
  <2>4. QED  BY <1>1, <2>3 DEF StackInv
<1>6. ASSUME NEW i \in DOMAIN record'
      PROVE  original'[record'[i]] = SubSeq(record', 1, i - 1)
  <2>1. i \in DOMAIN record /\ record'[i] = record[i]
    BY <1>4
  <2>2. original'[record'[i]] = SubSeq(record, 1, i - 1)
    BY <1>1, <2>1 DEF StackInv
  <2>3. /\ i - 1 \in 0..Len(record) /\ i - 1 \in 0..Len(record')
        /\ \A j \in 1..(i - 1) : record'[j] = record[j]
    BY <1>2, <1>4
  <2>4. SubSeq(record', 1, i - 1) = SubSeq(record, 1, i - 1)
    BY <1>1, <1>4, <2>3, PrefixOf, SameSequence
  <2>5. QED  BY <2>2, <2>4
<1>7. QED  BY <1>1, <1>5, <1>6 DEF StackInv

LEMMA StackKept ==
    ASSUME ToldInv, StackInv, Nested, [Next]_vars
    PROVE  StackInv'
<1>1. call \in [Caller -> Calls]
  BY DEF ToldInv, TypeOK
<1>2. ASSUME NEW b \in Bridge, Attach(b) \/ Detach(b) PROVE StackInv'
  BY <1>2, StackGrows, StackShrinks
<1>3. ASSUME NEW t \in Caller, NEW c, c.step = "called" => c.owing = ToSet(c.through),
             call' = [call EXCEPT ![t] = c], UNCHANGED hooks
      PROVE  StackInv'
  BY <1>1, <1>3 DEF StackInv, hooks
<1>4. ASSUME NEW t \in Caller, NEW event \in Event, Call(t, event) PROVE StackInv'
  <2> DEFINE log == IF event \in SwitchEvent THEN switchAudit ELSE audit
             through == IF log = "given" THEN record ELSE <<>>
             owing == IF log = "given" THEN attached ELSE {}
             c == [step |-> "called", log |-> log, event |-> event, through |-> through, owing |-> owing]
  <2>1. call' = [call EXCEPT ![t] = c] /\ UNCHANGED hooks
    BY <1>4 DEF Call
  <2>2. owing = ToSet(through)
    BY DEF StackInv, ToSet
  <2>3. c.step = "called" => c.owing = ToSet(c.through)
    BY <2>2
  <2> HIDE DEF c
  <2>4. QED  BY <1>3, <2>1, <2>3
<1>5. ASSUME NEW t \in Caller,
             RecordOwn(t) \/ RecordGiven(t) \/ Notify(t) \/ NotifyRaises(t) \/ Return(t)
      PROVE  StackInv'
  <2>1. UNCHANGED hooks /\ \A u \in Caller : u # t => call'[u] = call[u]
    BY <1>1, <1>5 DEF RecordOwn, RecordGiven, Notify, NotifyRaises, Return
  <2>2. call'[t].step # "called"
    <3>1. CASE Notify(t)
      <4>1. call[t] \in [step : {"recorded"}, entry : Nat, event : Event, tell : Seq(Bridge)]
        BY <1>1, <3>1 DEF Notify, Calls
      <4>2. call'[t] = [call[t] EXCEPT !.tell = Tail(@)]
        BY <1>1, <3>1 DEF Notify
      <4>3. QED  BY <4>1, <4>2
    <3>2. CASE RecordOwn(t) \/ NotifyRaises(t) \/ Return(t)
      BY <1>1, <3>2 DEF RecordOwn, NotifyRaises, Return, Idle
    <3>3. CASE RecordGiven(t)
      BY <1>1, <3>3 DEF RecordGiven
    <3>4. QED  BY <1>5, <3>1, <3>2, <3>3
  <2>3. QED  BY <2>1, <2>2 DEF StackInv, hooks
<1>6. CASE Restart
  <2>1. /\ record' = <<>> /\ attached' = {} /\ \A t \in Caller : call'[t].step = "idle"
    BY <1>6 DEF Restart, Idle
  <2>2. QED  BY <2>1 DEF StackInv, ToSet
<1>7. CASE UNCHANGED <<hooks, call>>
  BY <1>7 DEF StackInv, hooks
<1>8. ASSUME NEW log \in {"none", "given"}, MakeSwitch(log) PROVE StackInv'
  BY <1>7, <1>8 DEF MakeSwitch
<1>9. ASSUME NEW pass \in BOOLEAN, Construct(pass) PROVE StackInv'
  BY <1>7, <1>9 DEF Construct
<1>10. CASE UNCHANGED vars
  BY <1>7, <1>10 DEF vars
<1>11. QED  BY <1>2, <1>4, <1>5, <1>6, <1>8, <1>9, <1>10 DEF Next

(* While what is owed and told stays, and so does what is about to be told. *)
LEMMA NobodyTold ==
    ASSUME OwedInv, UNCHANGED told,
           \A b \in Bridge, t \in Caller :
              /\ ToTell(b, t)' <=> ToTell(b, t)
              /\ ToTell(b, t) => call'[t].entry = call[t].entry
    PROVE  OwedInv'
<1>1. \A b \in Bridge : Pending(b)' = Pending(b)
  BY DEF Pending
<1>2. QED  BY <1>1 DEF OwedInv, AttachedHears, DetachedSilent, told

(* A new entry is owed to those the call is about to tell of it. *)
LEMMA EntryOwed ==
    ASSUME ToldInv, StackInv, OwedInv, NEW t \in Caller, RecordGiven(t)
    PROVE  OwedInv'
<1> DEFINE n == Len(given')
<1>1. /\ call \in [Caller -> Calls] /\ owed \in [Bridge -> SUBSET Nat]
      /\ call[t].step = "called" /\ call[t].owing = ToSet(call[t].through)
  BY DEF ToldInv, TypeOK, StackInv, RecordGiven
<1>2. /\ UNCHANGED <<delivered, missed>>
      /\ \A b \in Bridge :
            owed'[b] = IF b \in call[t].owing /\ Interested(b, call[t].event)
                       THEN owed[b] \union {n} ELSE owed[b]
      /\ \A u \in Caller : u # t => call'[u] = call[u]
      /\ call'[t].step = "recorded" /\ call'[t].entry = n
      /\ call'[t].event = call[t].event /\ call'[t].tell = call[t].through
  BY <1>1 DEF RecordGiven
<1> HIDE DEF n
<1>3. ASSUME NEW b \in Bridge
      PROVE  /\ ToTell(b, t)' <=> b \in call[t].owing /\ Interested(b, call[t].event)
             /\ ~ToTell(b, t)
             /\ \A u \in Caller : u # t => (ToTell(b, u)' <=> ToTell(b, u))
  BY <1>1, <1>2 DEF ToTell, Interested
<1>4. ASSUME NEW b \in Bridge
      PROVE  /\ ToTell(b, t)' => Pending(b)' = Pending(b) \union {n} /\ owed'[b] = owed[b] \union {n}
             /\ ~ToTell(b, t)' => Pending(b)' = Pending(b) /\ owed'[b] = owed[b]
  <2>1. \A x : x \in Pending(b) <=> \E u \in Caller : ToTell(b, u) /\ call[u].entry = x
    BY DEF Pending
  <2>2. \A x : x \in Pending(b)' <=> \E u \in Caller : ToTell(b, u)' /\ call'[u].entry = x
    BY DEF Pending
  <2>3. \A u \in Caller : ToTell(b, u) => u # t /\ ToTell(b, u)' /\ call'[u].entry = call[u].entry
    BY <1>2, <1>3
  <2>4. \A u \in Caller : ToTell(b, u)' /\ u # t => ToTell(b, u) /\ call'[u].entry = call[u].entry
    BY <1>2, <1>3
  <2>5. CASE ToTell(b, t)'
    <3>1. Pending(b)' = Pending(b) \union {n}
      BY <1>2, <2>1, <2>2, <2>3, <2>4, <2>5
    <3>2. QED  BY <1>2, <1>3, <2>5, <3>1
  <2>6. CASE ~ToTell(b, t)'
    <3>1. Pending(b)' = Pending(b)
      BY <2>1, <2>2, <2>3, <2>4, <2>6
    <3>2. QED  BY <1>2, <1>3, <2>6, <3>1
  <2>7. QED  BY <2>5, <2>6
<1>5. QED  BY <1>2, <1>4 DEF OwedInv, AttachedHears, DetachedSilent

(* What a bridge is told is no longer about to be told, and nothing else. *)
LEMMA OneLess ==
    ASSUME ToldInv, OwedInv, NEW t \in Caller, Notify(t)
    PROVE  OwedInv'
<1>1. /\ call \in [Caller -> Calls] /\ CallOK(call[t]) /\ delivered \in [Bridge -> Seq(Nat)]
      /\ call[t].step = "recorded" /\ call[t].tell # <<>>
  BY DEF ToldInv, TypeOK, Notify
<1>2. call[t] \in [step : {"recorded"}, entry : Nat, event : Event, tell : Seq(Bridge)]
  BY <1>1 DEF Calls
<1>10. Head(call[t].tell) \in Bridge /\ call[t].entry \in Nat
  BY <1>1, <1>2, HeadAndRest
<1>11. PICK h \in Bridge, e \in Nat : h = Head(call[t].tell) /\ e = call[t].entry
  BY <1>10
<1>3. /\ h \in Bridge /\ Tail(call[t].tell) \in Seq(Bridge) /\ e \in Nat
      /\ ToSet(call[t].tell) = {h} \union ToSet(Tail(call[t].tell))
      /\ h \notin ToSet(Tail(call[t].tell))
  BY <1>1, <1>2, <1>11, HeadAndRest DEF CallOK
<1>4. /\ UNCHANGED <<owed, missed>>
      /\ \A u \in Caller : u # t => call'[u] = call[u]
      /\ call'[t].step = "recorded" /\ call'[t].entry = e
      /\ call'[t].event = call[t].event /\ call'[t].tell = Tail(call[t].tell)
      /\ delivered' = IF Interested(h, call[t].event)
                      THEN [delivered EXCEPT ![h] = Append(@, e)] ELSE delivered
  <2>1. call' = [call EXCEPT ![t] = [call[t] EXCEPT !.tell = Tail(@)]]
    BY DEF Notify
  <2>2. QED  BY <1>1, <1>2, <1>11, <2>1 DEF Notify, Tells
<1>5. \A u \in Caller : u # t /\ Recorded(u) => call[u].entry # e
  BY <1>1, <1>11 DEF ToldInv, Recorded
<1>6. ASSUME NEW b \in Bridge
      PROVE  /\ \A u \in Caller : u # t => (ToTell(b, u)' <=> ToTell(b, u))
             /\ ToTell(b, t)' <=> ToTell(b, t) /\ b # h
             /\ ToTell(h, t) <=> Interested(h, call[t].event)
  BY <1>1, <1>3, <1>4 DEF ToTell, Interested
<1>7. ASSUME NEW b \in Bridge, ~(b = h /\ Interested(h, call[t].event))
      PROVE  Pending(b)' = Pending(b) /\ delivered'[b] = delivered[b]
  <2>1. \A u \in Caller : (ToTell(b, u)' <=> ToTell(b, u)) /\ call'[u].entry = call[u].entry
    BY <1>4, <1>6, <1>7, <1>11
  <2>2. Pending(b)' = Pending(b)
    BY <2>1 DEF Pending
  <2>3. delivered'[b] = delivered[b]
    BY <1>1, <1>3, <1>4, <1>7
  <2>4. QED  BY <2>2, <2>3
<1>8. ASSUME Interested(h, call[t].event)
      PROVE  /\ Pending(h) = Pending(h)' \union {e}
             /\ ToSet(delivered'[h]) = ToSet(delivered[h]) \union {e}
  <2>1. \A u \in Caller : ToTell(h, u)' <=> ToTell(h, u) /\ u # t
    BY <1>3, <1>6
  <2>2. ToTell(h, t) /\ call[t].entry = e /\ \A u \in Caller : u # t => call'[u].entry = call[u].entry
    BY <1>3, <1>4, <1>6, <1>8, <1>11
  <2>3. \A x : x \in Pending(h) <=> \E u \in Caller : ToTell(h, u) /\ call[u].entry = x
    BY DEF Pending
  <2>4. \A x : x \in Pending(h)' <=> \E u \in Caller : ToTell(h, u)' /\ call'[u].entry = x
    BY DEF Pending
  <2>5. Pending(h) = Pending(h)' \union {e}
    BY <2>1, <2>2, <2>3, <2>4
  <2>6. delivered'[h] = Append(delivered[h], e)
    BY <1>1, <1>3, <1>4, <1>8
  <2>7. delivered[h] \in Seq(Nat)
    BY <1>1
  <2>8. ToSet(delivered'[h]) = ToSet(delivered[h]) \union {e}
    BY <2>6, <2>7, AppendedSet
  <2>9. QED  BY <2>5, <2>8
<1>9. ASSUME NEW b \in Bridge
      PROVE  ToSet(delivered'[b]) \union Pending(b)' = ToSet(delivered[b]) \union Pending(b)
  <2>1. CASE b = h /\ Interested(h, call[t].event)
    BY <1>8, <2>1
  <2>2. CASE ~(b = h /\ Interested(h, call[t].event))
    BY <1>7, <2>2
  <2>3. QED  BY <2>1, <2>2
<1>12. AttachedHears'
  BY <1>4, <1>9 DEF OwedInv, AttachedHears
<1>13. DetachedSilent'
  BY <1>4, <1>9 DEF OwedInv, DetachedSilent
<1>14. QED  BY <1>12, <1>13 DEF OwedInv

(* An exception: those further out miss the entry, and no longer wait for it. *)
LEMMA RestMisses ==
    ASSUME ToldInv, OwedInv, NEW t \in Caller, NotifyRaises(t)
    PROVE  OwedInv'
<1>1. /\ call \in [Caller -> Calls] /\ missed \in [Bridge -> SUBSET Nat]
      /\ UNCHANGED <<owed, delivered>>
  BY DEF ToldInv, TypeOK, NotifyRaises
<1>2. /\ call'[t].step = "idle" /\ \A u \in Caller : u # t => call'[u] = call[u]
      /\ \A b \in Bridge :
            missed'[b] = IF ToTell(b, t) THEN missed[b] \union {call[t].entry} ELSE missed[b]
  BY <1>1 DEF NotifyRaises, Idle
<1>3. ASSUME NEW b \in Bridge
      PROVE  /\ \A u \in Caller : ToTell(b, u)' => ToTell(b, u) /\ call'[u].entry = call[u].entry
             /\ \A u \in Caller : ToTell(b, u) /\ u # t => ToTell(b, u)' /\ call'[u].entry = call[u].entry
  BY <1>2 DEF ToTell, Interested
<1>4. ASSUME NEW b \in Bridge
      PROVE  /\ Pending(b)' \subseteq Pending(b)
             /\ missed[b] \union Pending(b) \subseteq missed'[b] \union Pending(b)'
  <2>1. \A x : x \in Pending(b) <=> \E u \in Caller : ToTell(b, u) /\ call[u].entry = x
    BY DEF Pending
  <2>2. \A x : x \in Pending(b)' <=> \E u \in Caller : ToTell(b, u)' /\ call'[u].entry = x
    BY DEF Pending
  <2>3. Pending(b)' \subseteq Pending(b)
    BY <1>3, <2>1, <2>2
  <2>4. \A x \in Pending(b) : x \in Pending(b)' \/ (ToTell(b, t) /\ x = call[t].entry)
    BY <1>3, <2>1, <2>2
  <2>5. missed[b] \union Pending(b) \subseteq missed'[b] \union Pending(b)'
    BY <1>2, <2>4
  <2>6. QED  BY <2>3, <2>5
<1>5. AttachedHears'
  BY <1>1, <1>4 DEF OwedInv, AttachedHears
<1>6. DetachedSilent'
  BY <1>1, <1>4 DEF OwedInv, DetachedSilent
<1>7. QED  BY <1>5, <1>6 DEF OwedInv

LEMMA OwedKept ==
    ASSUME ToldInv, StackInv, OwedInv, [Next]_vars
    PROVE  OwedInv'
<1>1. call \in [Caller -> Calls]
  BY DEF ToldInv, TypeOK
<1>2. CASE UNCHANGED <<call, told>>
  <2>1. \A b \in Bridge, t \in Caller :
           /\ ToTell(b, t)' <=> ToTell(b, t)
           /\ ToTell(b, t) => call'[t].entry = call[t].entry
    BY <1>2 DEF ToTell, Interested
  <2>2. QED  BY <1>2, <2>1, NobodyTold
<1>3. ASSUME NEW b \in Bridge, Attach(b) \/ Detach(b) PROVE OwedInv'
  BY <1>2, <1>3 DEF Attach, Detach
<1>4. ASSUME NEW log \in {"none", "given"}, MakeSwitch(log) PROVE OwedInv'
  BY <1>2, <1>4 DEF MakeSwitch
<1>5. ASSUME NEW pass \in BOOLEAN, Construct(pass) PROVE OwedInv'
  BY <1>2, <1>5 DEF Construct
<1>6. CASE UNCHANGED vars
  BY <1>2, <1>6 DEF vars
(* A call that had nobody to tell, and has nobody to tell yet. *)
<1>7. ASSUME NEW t \in Caller, \A b \in Bridge : ~ToTell(b, t),
             call'[t].step # "recorded", \A u \in Caller : u # t => call'[u] = call[u],
             UNCHANGED told
      PROVE  OwedInv'
  <2>1. \A b \in Bridge, u \in Caller :
           /\ ToTell(b, u)' <=> ToTell(b, u)
           /\ ToTell(b, u) => call'[u].entry = call[u].entry
    BY <1>7 DEF ToTell, Interested
  <2>2. QED  BY <1>7, <2>1, NobodyTold
<1>8. ASSUME NEW t \in Caller, NEW event \in Event, Call(t, event) PROVE OwedInv'
  <2>1. /\ call[t].step # "recorded" /\ call'[t].step = "called"
        /\ \A u \in Caller : u # t => call'[u] = call[u]
        /\ UNCHANGED told
    BY <1>1, <1>8 DEF Call, Idle
  <2>2. \A b \in Bridge : ~ToTell(b, t)
    BY <2>1 DEF ToTell
  <2>3. QED  BY <1>7, <2>1, <2>2
<1>9. ASSUME NEW t \in Caller, RecordOwn(t) \/ Return(t) PROVE OwedInv'
  <2>1. /\ call'[t].step = "idle" /\ \A u \in Caller : u # t => call'[u] = call[u]
        /\ UNCHANGED told
    BY <1>1, <1>9 DEF RecordOwn, Return, Idle
  <2>2. call[t].step = "called" \/ call[t].tell = <<>>
    BY <1>9 DEF RecordOwn, Return
  <2>3. \A b \in Bridge : ~ToTell(b, t)
    BY <2>2 DEF ToTell, ToSet
  <2>4. QED  BY <1>7, <2>1, <2>3
<1>10. CASE Restart
  <2>1. /\ \A b \in Bridge : owed'[b] = {} /\ delivered'[b] = <<>>
        /\ \A t \in Caller : call'[t].step = "idle"
    BY <1>10 DEF Restart, NoBridge, Idle
  <2>2. \A b \in Bridge, t \in Caller : ~ToTell(b, t)'
    BY <2>1 DEF ToTell
  <2>3. \A b \in Bridge : Pending(b)' = {}
    BY <2>2 DEF Pending
  <2>4. ToSet(<<>>) = {}
    BY DEF ToSet
  <2>5. QED  BY <2>1, <2>3, <2>4 DEF OwedInv, AttachedHears, DetachedSilent
<1>11. QED
  BY <1>3, <1>4, <1>5, <1>6, <1>8, <1>9, <1>10, EntryOwed, OneLess, RestMisses DEF Next

LEMMA OwedAtStart ==
    Init => StackInv /\ OwedInv
<1> SUFFICES ASSUME Init PROVE StackInv /\ OwedInv
  OBVIOUS
<1>1. /\ record = <<>> /\ attached = {} /\ \A t \in Caller : call[t].step = "idle"
      /\ \A b \in Bridge : owed[b] = {} /\ delivered[b] = <<>>
  BY DEF Init, NoBridge, Idle
<1>2. ToSet(<<>>) = {}
  BY DEF ToSet
<1>3. StackInv
  BY <1>1, <1>2 DEF StackInv
<1>4. \A b \in Bridge, t \in Caller : ~ToTell(b, t)
  BY <1>1 DEF ToTell
<1>5. \A b \in Bridge : Pending(b) = {}
  BY <1>4 DEF Pending
<1>6. QED  BY <1>1, <1>2, <1>3, <1>5 DEF OwedInv, AttachedHears, DetachedSilent

LEMMA NestedInvariant ==
    ASSUME Nested PROVE Spec => [](ToldInv /\ StackInv /\ OwedInv)
<1>1. Init => ToldInv /\ StackInv /\ OwedInv
  BY ToldAtStart, OwedAtStart
<1>2. ToldInv /\ StackInv /\ OwedInv /\ [Next]_vars => ToldInv' /\ StackInv' /\ OwedInv'
  BY ToldKept, StackKept, OwedKept
<1>3. QED  BY <1>1, <1>2, PTL DEF Spec

(* In a script that detaches the bridge it attached last, what a call       *)
(* records that began while a bridge was attached reaches the bridge's      *)
(* notifier, or is lost to a notifier's exception: NotificationBridge       *)
(* remembers the record function it is put around, and calls it first.      *)
THEOREM AttachedAreTold == ASSUME Nested PROVE Spec => []AttachedHears
<1>1. ToldInv /\ StackInv /\ OwedInv => AttachedHears
  BY DEF OwedInv
<1>2. QED  BY <1>1, NestedInvariant, PTL

(* And the notifier hears of nothing else: detach puts the record function  *)
(* back that the bridge found.                                              *)
THEOREM DetachedAreSilent == ASSUME Nested PROVE Spec => []DetachedSilent
<1>1. ToldInv /\ StackInv /\ OwedInv => DetachedSilent
  BY DEF OwedInv
<1>2. QED  BY <1>1, NestedInvariant, PTL
=============================================================================
