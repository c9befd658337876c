----------------------------- MODULE WalkForward -----------------------------
(***************************************************************************)
(* oq_backtest.walkforward: the rows of an index of n rows as successive   *)
(* train and test windows.  Rows are numbered from 1; a fold names the     *)
(* first and the last row of each of its windows.                          *)
(***************************************************************************)
EXTENDS Integers, Sequences

(* Seeded fault: the test window begins on the last train row. *)
FoldOverlapping(start, train_periods, test_periods, expanding) ==
    [train_start |-> IF expanding THEN 1 ELSE start + 1,
     train_end   |-> start + train_periods,
     test_start  |-> start + train_periods,
     test_end    |-> start + train_periods + test_periods - 1]

(* The fold whose train window, when it does not expand, begins after start *)
(* rows.                                                                    *)
Fold(start, train_periods, test_periods, expanding) ==
    [train_start |-> IF expanding THEN 1 ELSE start + 1,
     train_end   |-> start + train_periods,
     test_start  |-> start + train_periods + 1,
     test_end    |-> start + train_periods + test_periods]

(* How many folds fit. *)
FoldCount(n, train_periods, test_periods, step) ==
    IF n < train_periods + test_periods THEN 0
    ELSE (n - train_periods - test_periods) \div step + 1

(* Periods and step are positive: anything else raises. *)
walk_forward(n, train_periods, test_periods, expanding, step) ==
    [k \in 1..FoldCount(n, train_periods, test_periods, step) |->
        Fold((k - 1) * step, train_periods, test_periods, expanding)]

TrainRows(f) == f.train_start..f.train_end
TestRows(f)  == f.test_start..f.test_end

(* What a walk through n rows is to give: each test window lies in the      *)
(* index, is of full length and follows right after its train window, so    *)
(* that nothing is tested that was trained on or lies before it; windows    *)
(* advance by step, and no row is tested twice if they advance by their     *)
(* length; and no fold that fits is left out at the end.                    *)
HonestWalk(n, train_periods, test_periods, expanding, step) ==
    LET folds == walk_forward(n, train_periods, test_periods, expanding, step)
        m     == Len(folds)
    IN  /\ \A k \in 1..m :
              /\ folds[k].test_start = folds[k].train_end + 1
              /\ folds[k].test_end = folds[k].test_start + test_periods - 1
              /\ folds[k].test_end <= n
              /\ folds[k].train_start >= 1
              /\ expanding => folds[k].train_start = 1
              /\ ~expanding => folds[k].train_end = folds[k].train_start + train_periods - 1
        /\ \A k \in 1..m, i \in 1..m :
              i < k => /\ folds[i].test_start < folds[k].test_start
                       /\ step >= test_periods =>
                             TestRows(folds[i]) \intersect TestRows(folds[k]) = {}
        /\ m = 0 <=> n < train_periods + test_periods
        /\ m > 0 => folds[1].train_start = 1 /\ folds[m].test_end + step > n
=============================================================================
