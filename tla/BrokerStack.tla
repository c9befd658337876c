----------------------------- MODULE BrokerStack -----------------------------
(***************************************************************************)
(* How a script puts a broker together (oq_broker.base, notifications):    *)
(* AsyncBroker.__init__ chooses the audit log of the broker and of its     *)
(* kill switch, NotificationBridges replace the log's record function by   *)
(* their own, one around the other, and threads record events through      *)
(* whatever function is there when they call it.                           *)
(*                                                                         *)
(* The script's log has a file and survives a restart of the process with  *)
(* its entries; a log the broker makes for itself does not.  An event is a *)
(* name; a record function is named by the bridges it calls, the innermost *)
(* first, so <<>> is AuditLog.record itself.  The script attaches and      *)
(* detaches bridges one at a time.  The file of its log can be written:    *)
(* what a record that raises leaves behind is the subject of AuditLog, and *)
(* no bridge goes on with it.                                              *)
(***************************************************************************)
EXTENDS Naturals, Sequences, SequencesExt

CONSTANTS
    Bridge,       \* the notification bridges
    Caller,       \* the threads that record
    BrokerEvent,  \* the events the broker records
    SwitchEvent,  \* the events the kill switch records
    Forwarded,    \* NotificationBridge.events, of each bridge
    Notifier,     \* what kind of notifier each bridge has
    Nested,       \* the script detaches the bridge it attached last
    MaxEntries    \* bound: entries of the script's log, and of the broker's own

Event == BrokerEvent \union SwitchEvent

ASSUME StackAssumption ==
    /\ Forwarded \in [Bridge -> SUBSET Event]
    /\ Notifier \in [Bridge -> {"callable", "webhook", "telegram", "composite"}]
    /\ Nested \in BOOLEAN
    /\ MaxEntries \in Nat

VARIABLES
    given,        \* entries of the script's log, in memory and in its file
    own,          \* entries of the log the broker made for itself
    passed,       \* the script passed its log to the broker
    audit,        \* AsyncBroker.audit: "none" (no broker yet), "given" or "own"
    switchAudit,  \* KillSwitch.audit: "absent" (no switch), "none", "given", "own"
    record,       \* given.record
    original,     \* NotificationBridge._original_record
    attached,     \* the bridges attached and not detached
    call,         \* the record call each thread is in
    owed,         \* history: entries recorded while a bridge was attached
    delivered,    \* history: entries each bridge's notifier was told of
    missed        \* history: entries it was not, as a notifier had raised

script == <<passed, audit, switchAudit>>
hooks == <<record, original, attached>>
told == <<owed, delivered, missed>>
vars == <<given, own, script, hooks, call, told>>

Idle == [step |-> "idle"]

NoBridge == [b \in Bridge |-> {}]

Init ==
    /\ given = <<>> /\ own = <<>>
    /\ passed = FALSE /\ audit = "none" /\ switchAudit = "absent"
    /\ record = <<>> /\ original = [b \in Bridge |-> <<>>] /\ attached = {}
    /\ call = [t \in Caller |-> Idle]
    /\ owed = NoBridge /\ delivered = [b \in Bridge |-> <<>>] /\ missed = NoBridge

----------------------------------------------------------------------------
(* The script makes a kill switch of its own, with its log or without one. *)
MakeSwitch(log) ==
    /\ switchAudit = "absent"
    /\ switchAudit' = log
    /\ UNCHANGED <<given, own, passed, audit, hooks, call, told>>

(* AsyncBroker.__init__: the log passed is taken if it has entries (an      *)
(* empty AuditLog is falsy); a switch without a log gets the broker's.      *)
Construct(pass) ==
    /\ audit = "none"
    /\ passed' = pass
    /\ audit' = IF pass /\ given # <<>> THEN "given" ELSE "own"
    /\ switchAudit' = IF switchAudit \in {"absent", "none"} THEN audit' ELSE switchAudit
    /\ UNCHANGED <<given, own, hooks, call, told>>

(* Seeded fault: the bridge does not remember the bridge it is put around. *)
AttachUnchained(b) ==
    /\ b \notin attached /\ original[b] = <<>> /\ b \notin ToSet(record)
    /\ original' = original
    /\ record' = <<b>>
    /\ attached' = attached \union {b}
    /\ UNCHANGED <<given, own, script, call, told>>

(* NotificationBridge.__init__ *)
Attach(b) ==
    /\ b \notin attached /\ original[b] = <<>> /\ b \notin ToSet(record)
    /\ original' = [original EXCEPT ![b] = record]
    /\ record' = Append(record, b)
    /\ attached' = attached \union {b}
    /\ UNCHANGED <<given, own, script, call, told>>

(* Seeded fault: the bridge is forgotten, the function it set is not. *)
DetachUnhooked(b) ==
    /\ b \in attached
    /\ Nested => record # <<>> /\ Last(record) = b
    /\ attached' = attached \ {b}
    /\ UNCHANGED <<given, own, script, record, original, call, told>>

(* NotificationBridge.detach *)
Detach(b) ==
    /\ b \in attached
    /\ Nested => record # <<>> /\ Last(record) = b
    /\ record' = original[b]
    /\ attached' = attached \ {b}
    /\ UNCHANGED <<given, own, script, original, call, told>>

(* A thread calls the record function of the log the broker (the switch)    *)
(* has: which bridges it passes through is settled by the call.             *)
Call(t, event) ==
    LET log == IF event \in SwitchEvent THEN switchAudit ELSE audit
    IN  /\ call[t] = Idle
        /\ log \in {"given", "own"}
        /\ call' = [call EXCEPT ![t] =
                       [step |-> "called", log |-> log, event |-> event,
                        through |-> IF log = "given" THEN record ELSE <<>>,
                        owing |-> IF log = "given" THEN attached ELSE {}]]
        /\ UNCHANGED <<given, own, script, hooks, told>>

Interested(b, event) == event \in Forwarded[b]

(* AuditLog.record, in the broker's own log: nobody is told. *)
RecordOwn(t) ==
    /\ call[t].step = "called"
    /\ call[t].log = "own" /\ Len(own) < MaxEntries
    /\ own' = Append(own, call[t].event)
    /\ call' = [call EXCEPT ![t] = Idle]
    /\ UNCHANGED <<given, script, hooks, told>>

(* AuditLog.record, in the script's log, innermost in the chain of bridges, *)
(* which go on with the entry, from the inside out.                         *)
RecordGiven(t) ==
    /\ call[t].step = "called"
    /\ call[t].log = "given" /\ Len(given) < MaxEntries
    /\ given' = Append(given, call[t].event)
    /\ owed' = [b \in Bridge |->
                   IF b \in call[t].owing /\ Interested(b, call[t].event)
                   THEN owed[b] \union {Len(given')} ELSE owed[b]]
    /\ call' = [call EXCEPT ![t] =
                   [step |-> "recorded", entry |-> Len(given'), event |-> call[t].event,
                    tell |-> call[t].through]]
    /\ UNCHANGED <<own, script, hooks, delivered, missed>>

(* The notifier of b is told of the entry, if b forwards its event. *)
Tells(b, t) ==
    delivered' = IF Interested(b, call[t].event)
                 THEN [delivered EXCEPT ![b] = Append(@, call[t].entry)] ELSE delivered

(* Seeded fault: a slow notifier is told again. *)
NotifyRetried(t) ==
    /\ call[t].step = "recorded"
    /\ call[t].tell # <<>>
    /\ Tells(Head(call[t].tell), t)
    /\ call' \in {[call EXCEPT ![t].tell = Tail(@)], call}
    /\ \A b \in Bridge : Len(delivered'[b]) <= MaxEntries + 1
    /\ UNCHANGED <<given, own, script, hooks, owed, missed>>

(* NotificationBridge._record, after the record: the next bridge outwards.  *)
Notify(t) ==
    /\ call[t].step = "recorded"
    /\ call[t].tell # <<>>
    /\ Tells(Head(call[t].tell), t)
    /\ call' = [call EXCEPT ![t].tell = Tail(@)]
    /\ UNCHANGED <<given, own, script, hooks, owed, missed>>

(* What notify may raise: a callable's exception goes through; the others   *)
(* swallow those of their client, or of the notifiers they fan out to.      *)
MayRaise(b) == Notifier[b] = "callable"

(* The call of t has an entry that b's notifier is still to be told of. *)
ToTell(b, t) ==
    /\ call[t].step = "recorded"
    /\ b \in ToSet(call[t].tell) /\ Interested(b, call[t].event)

(* A notifier raises: the exception leaves the call, past the bridges       *)
(* further out, and the entry stays.                                        *)
NotifyRaises(t) ==
    /\ call[t].step = "recorded"
    /\ call[t].tell # <<>>
    /\ Interested(Head(call[t].tell), call[t].event) /\ MayRaise(Head(call[t].tell))
    /\ missed' = [b \in Bridge |-> IF ToTell(b, t) THEN missed[b] \union {call[t].entry} ELSE missed[b]]
    /\ call' = [call EXCEPT ![t] = Idle]
    /\ UNCHANGED <<given, own, script, hooks, owed, delivered>>

Return(t) ==
    /\ call[t].step = "recorded"
    /\ call[t].tell = <<>>
    /\ call' = [call EXCEPT ![t] = Idle]
    /\ UNCHANGED <<given, own, script, hooks, told>>

(* The process ends, anywhere, and starts again: the script's log is read   *)
(* back from its file.                                                      *)
Restart ==
    /\ given' = given
    /\ own' = <<>>
    /\ passed' = FALSE /\ audit' = "none" /\ switchAudit' = "absent"
    /\ record' = <<>> /\ original' = [b \in Bridge |-> <<>>] /\ attached' = {}
    /\ call' = [t \in Caller |-> Idle]
    /\ owed' = NoBridge /\ delivered' = [b \in Bridge |-> <<>>] /\ missed' = NoBridge

Next ==
    \/ \E log \in {"none", "given"} : MakeSwitch(log)
    \/ \E pass \in BOOLEAN : Construct(pass)
    \/ \E b \in Bridge : Attach(b) \/ Detach(b)
    \/ \E t \in Caller, event \in Event : Call(t, event)
    \/ \E t \in Caller : RecordOwn(t) \/ RecordGiven(t)
    \/ \E t \in Caller : Notify(t) \/ NotifyRaises(t) \/ Return(t)
    \/ Restart

Spec == Init /\ [][Next]_vars

----------------------------------------------------------------------------
(* Properties. *)

Calls == [step : {"idle"}]
         \union [step : {"called"}, log : {"given", "own"}, event : Event,
                 through : Seq(Bridge), owing : SUBSET Bridge]
         \union [step : {"recorded"}, entry : Nat, event : Event, tell : Seq(Bridge)]

(* Every variable keeps its type. *)
TypeOK ==
    /\ given \in Seq(Event) /\ own \in Seq(Event)
    /\ passed \in BOOLEAN
    /\ audit \in {"none", "given", "own"}
    /\ switchAudit \in {"absent", "none", "given", "own"}
    /\ record \in Seq(Bridge)
    /\ original \in [Bridge -> Seq(Bridge)]
    /\ attached \subseteq Bridge
    /\ call \in [Caller -> Calls]
    /\ owed \in [Bridge -> SUBSET Nat]
    /\ delivered \in [Bridge -> Seq(Nat)]
    /\ missed \in [Bridge -> SUBSET Nat]

(* The entries a bridge is about to be told of. *)
Pending(b) == {call[t].entry : t \in {u \in Caller : ToTell(b, u)}}

(* A bridge's notifier is told once, and of entries that are in the log and *)
(* whose event the bridge forwards.                                         *)
ToldOnce ==
    \A b \in Bridge :
        /\ \A i, j \in DOMAIN delivered[b] : delivered[b][i] = delivered[b][j] => i = j
        /\ \A n \in ToSet(delivered[b]) :
              n \in DOMAIN given /\ given[n] \in Forwarded[b] /\ n \notin Pending(b)

(* The bridge "wraps AuditLog.record so that every recorded event flows     *)
(* through the notifier": an entry recorded by a call that began while the  *)
(* bridge was attached is told, about to be, or was lost to an exception.   *)
AttachedHears ==
    \A b \in Bridge : owed[b] \subseteq ToSet(delivered[b]) \union missed[b] \union Pending(b)

(* A bridge hears of nothing recorded by a call that began when it was not  *)
(* attached.                                                                *)
DetachedSilent ==
    \A b \in Bridge : ToSet(delivered[b]) \union Pending(b) \subseteq owed[b]

(* "Every action is appended to a hash-chained JSON-lines file": a broker   *)
(* that was passed the script's log records nothing elsewhere.              *)
PassedLogUsed == passed => own = <<>>
=============================================================================
