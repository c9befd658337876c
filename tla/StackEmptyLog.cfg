SPECIFICATION Spec
CONSTANTS
    Bridge = {"b1", "b2"}
    Caller = {t1}
    BrokerEvent = {"order.placed"}
    SwitchEvent = {"kill_switch.engaged"}
    Forwarded <- Both
    Notifier <- AllSwallow
    Nested = TRUE
    MaxEntries = 2
INVARIANT PassedLogUsed
CHECK_DEADLOCK FALSE
