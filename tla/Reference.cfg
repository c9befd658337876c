SPECIFICATION ReferenceSpec
CONSTANTS
    Date = {1, 2, 3, 4}
    Symbol = {"a", "b"}
    Close <- Closes
    Volume = 3
    Declarable <- Actions
    Index = {"n50", "n100"}
    Isin = {i, j}
    Ticker = {"h", "hb", "y", "n", "p", "q", "r"}
    Seed <- Seeds
    Change <- Changes
    File = {"actions", "universes", "symbols"}
    MaxWrites = 4
SYMMETRY Symmetry
INVARIANT AdjustedAsHeld
INVARIANT MembersAsMoved
INVARIANT NamesFollowed
CHECK_DEADLOCK FALSE
