----------------------------- MODULE MCPipeline -----------------------------
(* Small instances of Pipeline for TLC. *)
EXTENDS Pipeline, TLC

CONSTANTS e1, e2, e3, e4   \* four distinct events, which an instance need not use

(* e1 is an ordinary event, e2 has no level, e3 is a debug event with audit records *)
(* and e4 a debug event that MinLevel refuses.                                      *)
MCLevel == [e \in Events |-> IF e = e1 THEN 1 ELSE IF e = e2 THEN NoLevel ELSE 0]
MCAudit == {e3}

(* For an instance whose events are alike: these and the senders are           *)
(* interchangeable, since Pipeline names none of them.                          *)
Alike    == [e \in Events |-> NoLevel]
Symmetry == Permutations(Events) \cup Permutations(Senders)
=============================================================================
