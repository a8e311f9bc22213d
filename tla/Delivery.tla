------------------------------ MODULE Delivery ------------------------------
(***************************************************************************)
(* What a drain promises about the events it is given, whatever buffers,   *)
(* batches, retries and goroutines it is built from (the Drain interface   *)
(* of drain.go and the counters of pipeline/stats.go).                     *)
(*                                                                         *)
(* Every event has one fate.  It is "new" until a caller sends it and the  *)
(* level filter lets it in; then the drain holds it until it settles as    *)
(* "sent" or as "dropped".  An event settles once: a sent event is never   *)
(* also reported as dropped, a dropped one is never sent later, none is    *)
(* counted twice, and one the filter refuses is never held.                *)
(***************************************************************************)
CONSTANTS Event,      \* the events callers may send
          Wanted      \* those the drain's level filter lets in

VARIABLE fate         \* what became of each event

Pending == {e \in Event : fate[e] = "held"}

TypeOK == fate \in [Event -> {"new", "held", "sent", "dropped"}]

Init == fate = [e \in Event |-> "new"]

(* A caller sends an event the filter lets in. *)
Accept(e) == /\ fate[e] = "new"
             /\ e \in Wanted
             /\ fate' = [fate EXCEPT ![e] = "held"]

(* Some held events settle together: a batch ends, or one event is evicted. *)
Settle(S, D) == /\ S \cap D = {}
                /\ fate' = [e \in Event |-> IF e \in S THEN "sent"
                                            ELSE IF e \in D THEN "dropped"
                                            ELSE fate[e]]

Next == \/ \E e \in Event : Accept(e)
        \/ \E S, D \in SUBSET Pending : Settle(S, D)

Spec == Init /\ [][Next]_fate
=============================================================================
