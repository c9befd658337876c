----------------------------- MODULE MCDataSync -----------------------------
(* Model values for checking DataSync: three days of a year, the second a    *)
(* Saturday.                                                                 *)
EXTENDS DataSync

Days == 1..3
Saturday == {2}
OneYear == [d \in Days |-> 2024]

(* A day with two rows of one key; revisions: one without rows, and one     *)
(* that drops a row of each key and adds a key.                             *)
Revised == <<<<"k1", "k2", "k2">>, <<>>, <<"k2", "k3">>>>
Once == <<<<"k1", "k2">>>>

Everything == [p \in Process |-> [first |-> 1, last |-> 3]]

Run(d, processes, days, missing, faults) ==
    [dataset |-> d, syncing |-> processes, refreshing |-> days, on_missing |-> missing, faults |-> faults]

(* One process and every fault; two processes at once, which may refresh a  *)
(* day, or die; one that ends at the first missing day.                      *)
Scenarios ==
    {Run(d, {"p1"}, {1, 3}, "skip", {"fetch", "page", "crash"}) :
        d \in {"equity", "delivery", "announcements"}}
    \union {Run("equity", {"p1", "p2"}, {1}, "skip", {}),
            Run("equity", {"p1", "p2"}, {}, "skip", {"crash"}),
            Run("fno", {"p1"}, {1, 3}, "raise", {"fetch", "page"})}

Plainly == {Run("flows", {"p1"}, {}, "skip", {})}
=============================================================================
