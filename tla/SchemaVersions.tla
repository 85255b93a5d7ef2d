--------------------------- MODULE SchemaVersions ---------------------------
(***************************************************************************)
(* What the migrations of internal/store promise about the database,       *)
(* whoever runs them and however often: the files take effect one at a     *)
(* time, in the order of their names, each once, schema_migrations names   *)
(* those that have and no other, and nobody serves before all have.        *)
(***************************************************************************)
EXTENDS Naturals

CONSTANTS
    Processes,
    Last          \* the number of migration files, which stand for 1 .. Last

VARIABLES
    effects,      \* file -> how often its statements are in effect
    recorded,     \* the files schema_migrations names
    serving       \* the processes that serve

vars == <<effects, recorded, serving>>

Init ==
    /\ effects = [f \in 1 .. Last |-> 0]
    /\ recorded = {}
    /\ serving = {}

Upgrade(f) ==
    /\ recorded = 1 .. f - 1
    /\ effects' = [effects EXCEPT ![f] = 1]
    /\ recorded' = recorded \cup {f}
    /\ UNCHANGED serving

Open(p) ==
    /\ recorded = 1 .. Last
    /\ serving' = serving \cup {p}
    /\ UNCHANGED <<effects, recorded>>

Close(p) ==
    /\ serving' = serving \ {p}
    /\ UNCHANGED <<effects, recorded>>

Next == (\E f \in 1 .. Last : Upgrade(f)) \/ (\E p \in Processes : Open(p) \/ Close(p))

Spec == Init /\ [][Next]_vars
=============================================================================
