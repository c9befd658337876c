SPECIFICATION Spec
CONSTANTS
    Bridge = {"b1", "b2"}
    Caller = {t1, t2}
    BrokerEvent = {"order.placed"}
    SwitchEvent = {"kill_switch.engaged"}
    Forwarded <- SecondSwitchOnly
    Notifier <- FirstRaises
    Nested = TRUE
    MaxEntries = 2
SYMMETRY Symmetry
INVARIANT ToldOnce
INVARIANT AttachedHears
INVARIANT DetachedSilent
CHECK_DEADLOCK FALSE
