--------------------------- MODULE MCToolCache ---------------------------
(* Model values for checking ToolCache: answers live longer in the shared *)
(* cache, which holds fewer of them.                                      *)
EXTENDS ToolCache, TLC

Symmetry == Permutations(Question)

Ttl   == [c \in Cache |-> IF c = Shared THEN 2 ELSE 1]
Sizes == [c \in Cache |-> IF c = Shared THEN 1 ELSE 2]
============================================================================
