--------------------------------- MODULE Crow ---------------------------------
(***************************************************************************)
(* The threads of app.port(18080).multithreaded().run() in Origine.cpp.     *)
(***************************************************************************)
EXTENDS Integers, FiniteSets

CONSTANT Worker   \* threads of app.multithreaded()

ASSUME CrowAssumption == IsFiniteSet(Worker) /\ Worker # {}
=============================================================================
