------------------------------- MODULE Syslog --------------------------------
(***************************************************************************)
(* drain/syslog: one connection, kept between batches, over a stream (TCP  *)
(* or TLS, octet counted) or over datagrams.                               *)
(*                                                                         *)
(* SendBatch and Close hold mu.  The peer is a process of its own: it may  *)
(* close its side or reset the connection at any step, and a write after   *)
(* that may still succeed, once, because the system takes the bytes before *)
(* it learns of it.  A frame of a stream is a header and a body; a write   *)
(* that fails may have sent any part of it.                                *)
(***************************************************************************)
EXTENDS Naturals, Sequences, SequencesExt

CONSTANTS Networks,     \* of "stream" and "udp"
          Batches,      \* the batches the pipeline sends, as lengths
          MaxAttempts,  \* of the pipeline
          MaxConns,     \* how often the drain dials
          MaxFaults     \* how often a dial or a write fails

SyslogAssumption == MaxConns \in Nat

VARIABLES
    network,
    conn,               \* s.conn: a connection, or 0
    dialled,            \* how many connections there were
    pc,                 \* where SendBatch is
    batch, attempt,     \* the batch of this SendBatch, the pipeline's attempt
    at,                 \* the event of the batch it writes
    failed,             \* the error write returned
    wire,               \* what each connection was given, in order
    peer,               \* each connection's peer: "open", or "gone"
    acked,              \* the batches SendBatch answered with nil
    refused,            \* the datagrams the path refuses
    short,              \* the frames cut to their summary
    reported, faults

vars == <<network, conn, dialled, pc, batch, attempt, at, failed, wire, peer, acked, refused,
          short, reported, faults>>
env  == <<network, refused, short>>

Conns == 1..MaxConns

Init ==
    /\ network \in Networks
    /\ conn = 0 /\ dialled = 0
    /\ pc = "idle" /\ batch = 1 /\ attempt = 1 /\ at = 1 /\ failed = FALSE
    /\ wire = [c \in Conns |-> <<>>] /\ peer = [c \in Conns |-> "open"]
    /\ acked = {} /\ faults = 0 /\ reported = FALSE
    /\ refused \in IF network = "udp" THEN SUBSET {<<1, 1>>, <<1, 2>>} ELSE {{}}
    /\ short \in IF network = "udp" THEN SUBSET {<<1, 2>>} ELSE {{}}

Fault == faults < MaxFaults /\ faults' = faults + 1

Answered == pc' = "idle" /\ batch' = batch + 1 /\ attempt' = 1
Failed   == IF attempt < MaxAttempts THEN pc' = "idle" /\ attempt' = attempt + 1 /\ UNCHANGED batch
                                     ELSE Answered

Dead(c) == c # 0 /\ peer[c] = "gone"

(* SendBatch begins, and probe drops a stream whose peer is gone. *)
Probe ==
    /\ pc = "idle" /\ batch <= Len(Batches)
    /\ pc' = "write" /\ at' = 1
    /\ conn' = IF network = "stream" /\ Dead(conn) THEN 0 ELSE conn
    /\ UNCHANGED <<env, dialled, batch, attempt, failed, wire, peer, acked, reported, faults>>

(* dial, when there is no connection. *)
Dial ==
    /\ pc = "write" /\ at <= Batches[batch] /\ conn = 0
    /\ \/ /\ dialled < MaxConns /\ dialled' = dialled + 1 /\ conn' = dialled + 1
          /\ UNCHANGED <<pc, failed, faults>>
       \/ Fault /\ pc' = "error" /\ failed' = TRUE /\ UNCHANGED <<conn, dialled>>
    /\ UNCHANGED <<env, batch, attempt, at, wire, peer, acked, reported>>

Event == <<batch, at>>
(* A frame over the UDP cap goes as its summary. *)
Frame == <<Event, IF Event \in short THEN "summary" ELSE "whole">>
Give(part) == wire' = [wire EXCEPT ![conn] = Append(@, part)]

Write ==
    /\ pc = "write" /\ at <= Batches[batch] /\ conn # 0
    /\ Event \notin refused
    /\ Give(Frame) /\ at' = at + 1
    /\ UNCHANGED <<env, conn, dialled, pc, batch, attempt, failed, peer, acked, reported, faults>>

(* A write fails: a stream may carry a part of the frame by then. *)
WriteFails ==
    /\ pc = "write" /\ at <= Batches[batch] /\ conn # 0 /\ Event \notin refused
    /\ (Dead(conn) /\ UNCHANGED faults) \/ Fault
    /\ \/ UNCHANGED wire
       \/ network = "stream" /\ Give(<<Event, "torn">>)
    /\ pc' = "error" /\ failed' = TRUE
    /\ UNCHANGED <<env, conn, dialled, batch, attempt, at, peer, acked, reported>>

(* EMSGSIZE: the datagram is dropped, reported once a minute, and the batch     *)
(* goes on.                                                                     *)
Fails == pc' = "error" /\ failed' = TRUE /\ UNCHANGED at  \* mutant: one datagram fails the batch
Skips == at' = at + 1 /\ UNCHANGED <<pc, failed>>
TooLong ==
    /\ pc = "write" /\ at <= Batches[batch] /\ conn # 0 /\ Event \in refused
    /\ Skips
    /\ reported' = TRUE
    /\ UNCHANGED <<env, conn, dialled, batch, attempt, wire, peer, acked, faults>>

(* closeLocked: the next attempt dials again. *)
KeepIt  == UNCHANGED conn                                \* mutant: the connection is kept
Reset   == conn' = 0
Abandon ==
    /\ pc = "error" /\ failed' = FALSE
    /\ Reset /\ Failed
    /\ UNCHANGED <<env, dialled, at, wire, peer, acked, reported, faults>>

Sent ==
    /\ pc = "write" /\ at > Batches[batch]
    /\ acked' = acked \cup {batch} /\ Answered
    /\ UNCHANGED <<env, conn, dialled, at, failed, wire, peer, reported, faults>>

Close ==
    /\ pc = "idle" /\ conn # 0 /\ conn' = 0
    /\ UNCHANGED <<env, dialled, pc, batch, attempt, at, failed, wire, peer, acked, reported, faults>>

PeerLeaves ==
    /\ \E c \in 1..dialled : peer[c] = "open" /\ peer' = [peer EXCEPT ![c] = "gone"]
    /\ UNCHANGED <<env, conn, dialled, pc, batch, attempt, at, failed, wire, acked, reported, faults>>

Next == Probe \/ Dial \/ Write \/ WriteFails \/ TooLong \/ Abandon \/ Sent \/ Close \/ PeerLeaves

Spec == Init /\ [][Next]_vars

----------------------------------------------------------------------------
(* A torn frame ends its connection, so the collector never reads a frame out   *)
(* of the middle of another.                                                    *)
NothingAfterATornFrame ==
    \A c \in Conns : \A k \in 1..Len(wire[c]) : wire[c][k][2] = "torn" => k = Len(wire[c])

Given == UNION {{wire[c][k] : k \in 1..Len(wire[c])} : c \in Conns}

(* A batch that was answered with nil was written frame by frame; over UDP all  *)
(* but the datagrams the path refuses.                                          *)
AckedGiven ==
    \A b \in acked : \A k \in 1..Batches[b] :
        \/ <<b, k>> \in refused
        \/ \E part \in {"whole", "summary"} : <<<<b, k>>, part>> \in Given

(* One datagram the path refuses takes neither its batch nor the frames behind  *)
(* it with it: only a fault of the connection fails an attempt.                 *)
RefusedAlone == network = "udp" /\ (failed \/ attempt > 1) => faults > 0 \/ \E c \in Conns : Dead(c)

FramesWhole == NothingAfterATornFrame /\ AckedGiven /\ RefusedAlone
=============================================================================
