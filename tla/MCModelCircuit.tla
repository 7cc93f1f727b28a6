--------------------------- MODULE MCModelCircuit ---------------------------
(* Small instances of ModelCircuit for TLC.                                *)
EXTENDS ModelCircuit, TLC

CONSTANTS r1, r2, main, spare, luna

TwoModels == <<main, spare>>

(* A limit with a known reset, a short backoff, and the probe's misfit.    *)
FirstDelay == [c \in Classes |-> IF c = "usage_limit" THEN 2 ELSE 1]
LongestDelay == [c \in Classes |-> IF c = "usage_limit" THEN 4 ELSE 2]

(* Rooms are interchangeable where none of them asks a question.           *)
RoomSymmetry == Permutations(Rooms)

(* At most one thing goes wrong in a behaviour.                            *)
OneFault == faults.late + faults.errors + faults.crashes <= 1
=============================================================================
