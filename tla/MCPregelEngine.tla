--------------------------- MODULE MCPregelEngine ---------------------------
(* Small instances of PregelEngine for TLC. *)
EXTENDS PregelEngine

\* A fan-out and a fan-in.  Node 3 also has an edge to End; node 2 is a Switch
\* and node 4 has no edge, so that AnyPredecessor goes through _next.
Diamond  == << <<1, 2>>, <<1, 3>>, <<2, 4>>, <<3, 4>>, <<3, End>> >>
Branches == [n \in Node |-> IF n = 2 THEN {4, End} ELSE {}]

Plain(m, d) == [mode |-> m, durability |-> d, interrupts |-> {}, interruptsAfter |-> {}]

\* Each durability, both modes, and interrupts before and after a node.
AllEngines ==
    {Plain("all", d) : d \in {"sync", "async", "exit"}}
    \cup {Plain("any", "sync"),
          [Plain("all", "sync") EXCEPT !.interrupts = {4}],
          [Plain("all", "exit") EXCEPT !.interruptsAfter = {2}]}

\* The graph satisfies what the theorems on its outputs ask of a graph.
ASSUME DiamondAssumption == InterruptsAlone /\ Acyclic
============================================================================
