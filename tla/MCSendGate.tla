----------------------------- MODULE MCSendGate -----------------------------
(* SendGate for TLC.                                                        *)
EXTENDS SendGate, TLC

\* Processings are interchangeable.
RunSymmetry == Permutations(Runs)

\* What the breaker does to the memo chat it does to the other room.
MemoIsQuiet == alternation[Memo].run = 0 /\ trip[Memo] = "none" /\ verdict[Memo] = NoVerdict
=============================================================================
