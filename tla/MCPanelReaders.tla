--------------------------- MODULE MCPanelReaders ---------------------------
(* TLC instances of PanelReaders. *)
EXTENDS PanelReaders, TLC

(* 60 and 30 seconds. *)
Lifetimes == [l \in {"clients", "onlines"} |-> IF l = "clients" THEN 4 ELSE 2]

Symmetry == Permutations(Readers) \cup Permutations(Writers)
            \cup Permutations(Devices) \cup Permutations(Endpoints)
=============================================================================
