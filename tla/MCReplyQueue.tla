---------------------------- MODULE MCReplyQueue ----------------------------
(* Small instances of ReplyQueue for TLC.                                  *)
EXTENDS ReplyQueue

CONSTANTS a, b

(* One message alone, and two messages of one author's burst.              *)
NoBurst == [e \in Events |-> NoEvent]
Burst == [e \in Events |-> IF e = b THEN a ELSE NoEvent]

(* What the two-message runs leave to the one-message run: response windows *)
(* that pass, retention, the skips and holds an analysis or a check decides *)
(* on, long retries, and stalls before a send was prepared.                 *)
NoExpiry == expired = {}
NoArchive == tombstone = {}
NoHold == w.pc # "skipRecord"
FewAttempts == \A e \in Events : job[e].attempts <= 2
StallAfterReady == failures.stalls > 0 => axEvidence # {}

(* Behaviours that send nothing and never reach the second message's turn.  *)
NoSend == axEvidence = {}
FirstOnly == job[b].status \in {"absent", "pending"}
=============================================================================
