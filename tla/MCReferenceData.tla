--------------------------- MODULE MCReferenceData ---------------------------
(* Model values for checking ReferenceData: four days, two symbols of which  *)
(* one has no row on the third day.                                          *)
EXTENDS ReferenceData, TLC

Closes == ("a" :> <<8, 6, 4, 5>>) @@ ("b" :> <<9, 12, 0, 4>>)

Action(s, day, type, ratio, amount) ==
    [symbol |-> s, ex_date |-> day, action_type |-> type, ratio |-> ratio, amount |-> amount]

(* A split and its correction, a consolidation, a bonus, dividends, and rows *)
(* whose ratio or amount was left out.                                       *)
Actions ==
    { Action("a", 3, "split", Whole(2), 0),
      Action("a", 3, "split", Whole(5), 0),
      Action("a", 2, "split", Ratio(1, 2), 0),
      Action("a", 4, "bonus", Whole(0), 0),
      Action("a", 1, "dividend", Whole(1), 2),
      Action("a", 4, "dividend", Whole(1), 1),
      Action("b", 3, "bonus", Ratio(3, 2), 0),
      Action("b", 4, "split", Whole(2), 0),
      Action("b", 3, "dividend", Whole(1), 3),
      Action("b", 2, "dividend", Whole(1), 4) }

Named(old, new, day) == [old |-> old, new |-> new, day |-> day]

(* HDFC was merged into HDFCBANK; YESBANK kept its name.                     *)
Seeds == {Named("h", "hb", 2), Named("y", "y", 1)}

(* The bank is renamed, a company is renamed twice, and one takes a name     *)
(* that was given up.                                                        *)
Changes == {Named("hb", "n", 3), Named("p", "q", 1), Named("q", "r", 3), Named("r", "p", 4)}

Symmetry == Permutations(Isin)
============================================================================
