-------------------------------- MODULE MCZoo --------------------------------
(* Model values for checking Zoo: days 0..14, months of six days, so that   *)
(* they end within a week, two symbols of which one moves.                   *)
EXTENDS Zoo

Columns == <<"a", "b">>

Rows2 == {[s \in {"a", "b"} |-> IF s = "a" THEN p ELSE 2] : p \in {1, 2}}

Listed(holidays, muhurat) == [holidays |-> (0 :> holidays), muhurat |-> muhurat]

(* The end of a week and of a month, with muhurat trading on the Sunday; a  *)
(* whole week and more; a muhurat session on a holiday; a year without a    *)
(* list.                                                                    *)
Calendars ==
    {Listed({3, 4}, {6}), Listed({3, 4, 7, 8, 9, 10, 11}, {}), Listed({0, 9}, {9}),
     [holidays |-> (1 :> {9}), muhurat |-> {}]}

Plain(name, missing, educational) ==
    [name |-> name, missing |-> missing, educational |-> educational]

Entries ==
    {Plain("x", {}, FALSE), Plain("x", {}, TRUE), Plain("y", {"benchmark"}, TRUE)}

Tuned(alpha, walk, train, test, step) ==
    [min_alpha_bps |-> alpha, require_walk_forward |-> walk,
     train_periods |-> train, test_periods |-> test, step |-> step]

(* Overlapping folds; folds too short to count; no walk-forward.            *)
Configs == {Tuned(0, TRUE, 2, 5, 2), Tuned(1, TRUE, 3, 2, 2), Tuned(0, FALSE, 2, 5, 5)}

Returns == {<<0, -1>>, <<1>>}
=============================================================================
