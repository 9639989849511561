------------------------------ MODULE MC_Track ------------------------------
(* Legs of the course; see README.md. *)
EXTENDS Track, Road

(* CheckRoad()'s table, evaluated; Track_proofs proves the same. *)
ASSUME CheckRoadIsRight == CheckRoadArrives /\ CheckRoadAnswers

Strip(cell, n) == [i \in 1..n |-> cell]
Bar == Strip("black", 3)

Plain == [cells |-> Strip("line", 16) \o Bar, terrain |-> 0]
CardAhead == [cells |-> Strip("line", 9) \o Strip("white", 3) \o Bar, terrain |-> 0]
CardMidway ==
  [cells |-> Strip("line", 9) \o Strip("white", 3) \o Strip("line", 10) \o Bar, terrain |-> 0]
Terrain ==
  [cells |-> Strip("line", 9) \o Strip("white", 3) \o Strip("black", 16)
               \o Strip("white", 3) \o Strip("line", 16) \o Bar, terrain |-> 13]

MCCourses == {Plain, CardAhead, CardMidway, Terrain}
=============================================================================
