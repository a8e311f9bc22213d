---------------------------- MODULE DrainsProofs -----------------------------
(***************************************************************************)
(* What holds of the ring of drain/memory with any number of senders and   *)
(* streams, and of the connection of drain/syslog whatever its peer does;  *)
(* and, from LoggerProofs, of the audit journal in the same composition.   *)
(***************************************************************************)
EXTENDS MCDrains, LoggerProofs, SequenceTheorems, TLAPS

----------------------------------------------------------------------------
(* drain/memory *)

RingType ==
    /\ buf \in Seq(Nat) /\ mnext \in Nat /\ stored \in Seq(Nat) /\ cleared \in 0..Len(stored)
SendersType ==
    /\ spc \in [MemorySenders -> {"idle", "forward"}] /\ sending \in [MemorySenders -> Nat]
StreamsType ==
    /\ subs \subseteq Streams /\ mshut \subseteq Streams
    /\ chan \in [Streams -> Seq(Nat)] /\ missed \in [Streams -> SUBSET Nat]
    /\ mpc \in [Streams -> {"new", "snapshot", "replay", "live", "left"}]
    /\ replay \in [Streams -> Seq(Nat)] /\ mgot \in [Streams -> Seq(Nat)]
    /\ from \in [Streams -> Nat]

(* An event is its place in the order that the ring took them in. *)
Numbered == \A k \in 1..Len(stored) : stored[k] = k

(* Slot i of a ring that is full: those up to next were written in this round. *)
Slot(i, n, l) == IF i <= n THEN (l - n) + i ELSE ((l - n) + i) - Size
Kept == Len(stored) - cleared
Filling(b, c, k) == Len(b) = k /\ \A i \in 1..k : b[i] = c + i
Full(b, n, l)    == Len(b) = Size /\ n < Size /\ \A i \in 1..Size : b[i] = Slot(i, n, l)
Ring ==
    /\ Kept < Size => mnext = 0 /\ Filling(buf, cleared, Kept)
    /\ Kept >= Size => Full(buf, mnext, Len(stored))

(* A stream is registered until its client is gone, and closed only after that. *)
Registered ==
    \A r \in Streams : /\ mpc[r] \in {"snapshot", "replay", "live"} => r \in subs
                       /\ r \in mshut => mpc[r] = "left" /\ r \notin subs

(* Event k is with stream r, or with a sender. *)
Within(s, k) == \E i \in 1..Len(s) : s[i] = k
Has(r, k) == Within(mgot[r], k) \/ Within(replay[r], k) \/ Within(chan[r], k) \/ k \in missed[r]
Coming(k) == \E s \in MemorySenders : spc[s] = "forward" /\ sending[s] = k
Follows ==
    \A r \in Streams : mpc[r] \in {"replay", "live"} =>
        \A k \in (from[r] + 1)..Len(stored) : Has(r, k) \/ Coming(k)

MemoryInv == RingType /\ SendersType /\ StreamsType /\ Numbered /\ Ring /\ Registered /\ Follows

----------------------------------------------------------------------------
(* drain/syslog *)

Part == (Nat \X Nat) \X {"whole", "summary", "torn"}
SyslogType ==
    /\ dialled \in 0..MaxConns /\ conn \in 0..dialled
    /\ ypc \in {"idle", "write", "error"} /\ ybatch \in Nat \ {0} /\ yattempt \in Nat /\ at \in Nat
    /\ wire \in [Y!Conns -> Seq(Part)] /\ peer \in [Y!Conns -> {"open", "gone"}]
    /\ yfaults \in Nat
Failing == yfailed \in BOOLEAN /\ (yfailed <=> ypc = "error")

(* What the drain has not dialled it has not written to, and the connection it *)
(* keeps carries no torn frame.                                                *)
Fresh == \A c \in Y!Conns : c > dialled => wire[c] = <<>>
Torn(w, k) == w[k][2] = "torn"
Clean(w) == \A k \in 1..Len(w) : ~Torn(w, k)
TornLast(w) == \A k \in 1..Len(w) : Torn(w, k) => k = Len(w)
KeptClean == conn # 0 /\ ypc # "error" => Clean(wire[conn])
TornEnds == \A c \in Y!Conns : TornLast(wire[c])

(* Event k of batch b is on a wire, or its datagram is refused. *)
On(w, e) == \E j \in 1..Len(w) : w[j] = <<e, "whole">> \/ w[j] = <<e, "summary">>
Through(b, k) == <<b, k>> \in yrefused \/ \E c \in Y!Conns : On(wire[c], <<b, k>>)
Written ==
    ypc = "write" => \A b \in {ybatch} : \A k \in 1..at : k < at => Through(b, k)
Answers == \A b \in yacked : b \in 1..Len(SyslogBatches) /\ \A k \in 1..SyslogBatches[b] : Through(b, k)
(* Only a fault of the connection fails an attempt over UDP. *)
Blamed ==
    network = "udp" /\ (yfailed \/ yattempt > 1) =>
        yfaults > 0 \/ \E c \in Y!Conns : peer[c] = "gone"
InBatch == ypc = "write" => ybatch \in 1..Len(SyslogBatches)

SyslogInv ==
    /\ SyslogType /\ Failing /\ Fresh /\ KeptClean /\ TornEnds
    /\ InBatch /\ Written /\ Answers /\ Blamed

----------------------------------------------------------------------------
(* Sequences *)

LEMMA WithinAppend ==
    ASSUME NEW s \in Seq(Nat), NEW x \in Nat, NEW k
    PROVE  /\ Within(s, k) => Within(Append(s, x), k)
           /\ Within(Append(s, x), x)
<1>1. /\ Len(Append(s, x)) = Len(s) + 1 /\ Len(s) \in Nat
      /\ \A i \in 1..Len(s) : Append(s, x)[i] = s[i]
      /\ Append(s, x)[Len(s) + 1] = x
  BY AppendProperties, LenProperties
<1>2. \A i \in 1..Len(s) : i \in 1..(Len(s) + 1)
  BY <1>1
<1>3. Len(s) + 1 \in 1..(Len(s) + 1)
  BY <1>1
<1> QED  BY <1>1, <1>2, <1>3, Zenon DEF Within

LEMMA WithinTail ==
    ASSUME NEW s \in Seq(Nat), s # <<>>, NEW k, Within(s, k)
    PROVE  k = Head(s) \/ Within(Tail(s), k)
<1>1. /\ Tail(s) \in Seq(Nat) /\ Len(Tail(s)) = Len(s) - 1 /\ Len(s) \in Nat
      /\ \A i \in 1..Len(Tail(s)) : Tail(s)[i] = s[i + 1]
  BY HeadTailProperties, LenProperties
<1>2. PICK i \in 1..Len(s) : s[i] = k
  BY DEF Within
<1>3. CASE i = 1
  BY <1>2, <1>3
<1>4. CASE i # 1
  <2>1. i - 1 \in 1..Len(Tail(s)) /\ (i - 1) + 1 = i
    BY <1>1, <1>4
  <2>2. Tail(s)[i - 1] = k
    BY <1>1, <1>2, <2>1
  <2> QED  BY <2>1, <2>2 DEF Within
<1> QED  BY <1>3, <1>4

(* What leaves one sequence for the end of another is in one of them still. *)
LEMMA HeadMoves ==
    ASSUME NEW g \in Seq(Nat), NEW s \in Seq(Nat), s # <<>>, NEW k,
           Within(g, k) \/ Within(s, k)
    PROVE  Within(Append(g, Head(s)), k) \/ Within(Tail(s), k)
<1>1. Head(s) \in Nat
  BY HeadTailProperties
<1>2. Within(s, k) => k = Head(s) \/ Within(Tail(s), k)
  BY WithinTail
<1>3. (Within(g, k) => Within(Append(g, Head(s)), k)) /\ Within(Append(g, Head(s)), Head(s))
  BY <1>1, WithinAppend
<1> QED  BY <1>2, <1>3

(* The snapshot is the ring in the order that the events came in. *)
LEMMA Snapshots ==
    ASSUME RingType, Ring
    PROVE  LET n == IF Kept < Size THEN Kept ELSE Size
           IN /\ M!Snapshot \in Seq(Nat) /\ Len(M!Snapshot) = n /\ n \in 0..Len(stored)
              /\ \A i \in 1..n : M!Snapshot[i] = (Len(stored) - n) + i
<1> DEFINE n == IF Kept < Size THEN Kept ELSE Size
<1>1. /\ Size \in Nat /\ Size > 0 /\ Len(stored) \in Nat /\ cleared \in 0..Len(stored)
      /\ Len(buf) \in Nat /\ mnext \in Nat
  BY MemoryAssumption, LenProperties DEF M!MemoryAssumption, RingType
<1>2. Kept \in Nat /\ n \in 0..Len(stored) /\ Kept = Len(stored) - cleared
  BY <1>1 DEF Kept
<1>3. CASE Kept < Size
  <2>1. M!Snapshot = buf /\ n = Kept /\ Len(buf) = Kept
    BY <1>3 DEF Ring, Filling, M!Snapshot
  <2>2. \A i \in 1..n : buf[i] = (Len(stored) - n) + i
    BY <1>1, <1>2, <1>3, <2>1 DEF Ring, Filling
  <2> QED  BY <2>1, <2>2, <1>2 DEF RingType
<1>4. CASE ~(Kept < Size)
  <2>1. /\ Len(buf) = Size /\ mnext < Size /\ n = Size
        /\ \A i \in 1..Size : buf[i] = Slot(i, mnext, Len(stored))
    BY <1>1, <1>2, <1>4 DEF Ring, Full
  <2> DEFINE old == SubSeq(buf, mnext + 1, Size)
             new == SubSeq(buf, 1, mnext)
  <2>2. M!Snapshot = old \o new
    BY <1>1, <2>1 DEF M!Snapshot
  <2>3. \A i \in 1..Size : buf[i] \in Nat
    BY <2>1, ElementOfSeq DEF RingType
  <2>4. /\ old \in Seq(Nat) /\ Len(old) = Size - mnext
        /\ \A i \in 1..(Size - mnext) : old[i] = buf[(mnext + 1 + i) - 1]
    <3>1. \A i \in (mnext + 1)..Size : buf[i] \in Nat
      BY <1>1, <2>3
    <3>2. mnext + 1 \in Int /\ Size \in Int /\ mnext + 1 <= Size /\ Size - (mnext + 1) + 1 = Size - mnext
      BY <1>1, <2>1
    <3> HIDE DEF old
    <3>3. /\ old \in Seq(Nat) /\ Len(old) = Size - (mnext + 1) + 1
          /\ \A i \in 1..(Size - (mnext + 1) + 1) : old[i] = buf[(mnext + 1) + i - 1]
      BY <3>1, <3>2, SubSeqProperties DEF old
    <3> QED  BY <3>2, <3>3
  <2>5. /\ new \in Seq(Nat) /\ Len(new) = mnext
        /\ \A i \in 1..mnext : new[i] = buf[i]
    <3>1. \A i \in 1..mnext : buf[i] \in Nat
      BY <1>1, <2>1, <2>3
    <3> HIDE DEF new
    <3>2. /\ new \in Seq(Nat) /\ Len(new) = (IF 1 <= mnext THEN mnext - 1 + 1 ELSE 0)
          /\ \A i \in 1..(mnext - 1 + 1) : new[i] = buf[1 + i - 1]
      BY <1>1, <3>1, SubSeqProperties DEF new
    <3> QED  BY <1>1, <3>2
  <2> HIDE DEF old, new
  <2>6. /\ old \o new \in Seq(Nat) /\ Len(old \o new) = Size
        /\ \A i \in 1..Size : (old \o new)[i] = IF i <= Size - mnext THEN old[i] ELSE new[i - (Size - mnext)]
    <3>1. Len(old) + Len(new) = Size
      BY <1>1, <2>4, <2>5
    <3>2. /\ old \o new \in Seq(Nat) /\ Len(old \o new) = Len(old) + Len(new)
          /\ \A i \in 1..(Len(old) + Len(new)) :
                 (old \o new)[i] = IF i <= Len(old) THEN old[i] ELSE new[i - Len(old)]
      BY <2>4, <2>5, ConcatProperties, Zenon
    <3> QED  BY <2>4, <3>1, <3>2, Zenon
  <2>7. ASSUME NEW i \in 1..Size PROVE (old \o new)[i] = (Len(stored) - Size) + i
    <3>1. CASE i <= Size - mnext
      <4>1. i \in 1..(Size - mnext) /\ mnext + i \in 1..Size /\ (mnext + 1 + i) - 1 = mnext + i
            /\ ~(mnext + i <= mnext)
        BY <1>1, <2>1, <3>1
      <4>2. (old \o new)[i] = Slot(mnext + i, mnext, Len(stored))
        BY <2>1, <2>4, <2>6, <3>1, <4>1
      <4> QED  BY <1>1, <4>1, <4>2 DEF Slot
    <3>2. CASE ~(i <= Size - mnext)
      <4>1. i - (Size - mnext) \in 1..mnext /\ i - (Size - mnext) \in 1..Size
        BY <1>1, <2>1, <3>2
      <4>2. (old \o new)[i] = Slot(i - (Size - mnext), mnext, Len(stored))
        BY <2>1, <2>5, <2>6, <3>2, <4>1
      <4> QED  BY <1>1, <4>1, <4>2 DEF Slot
    <3> QED  BY <3>1, <3>2
  <2> QED  BY <1>2, <2>1, <2>2, <2>6, <2>7
<1> QED  BY <1>3, <1>4

LEMMA HoldsTheNewest ==
    ASSUME RingType, Ring, Numbered
    PROVE  M!HoldsNewest
<1> DEFINE n == IF Kept < Size THEN Kept ELSE Size
           newest == SubSeq(stored, (Len(stored) - n) + 1, Len(stored))
<1>1. /\ M!Snapshot \in Seq(Nat) /\ Len(M!Snapshot) = n /\ n \in 0..Len(stored)
      /\ \A i \in 1..n : M!Snapshot[i] = (Len(stored) - n) + i
  BY Snapshots
<1>2. Len(stored) \in Nat
  BY LenProperties DEF RingType
<1> HIDE DEF n
<1> DEFINE first == (Len(stored) - n) + 1
<1>3. /\ first \in Int /\ Len(stored) \in Int /\ (Len(stored) - first) + 1 = n
      /\ (IF first <= Len(stored) THEN n ELSE 0) = n
      /\ \A i \in first..Len(stored) : i \in 1..Len(stored)
  BY <1>1, <1>2
<1>4. \A i \in first..Len(stored) : stored[i] \in Nat
  BY <1>3, ElementOfSeq DEF RingType
<1>5. /\ newest \in Seq(Nat) /\ Len(newest) = n
      /\ \A i \in 1..n : newest[i] = stored[(first + i) - 1]
  <2> HIDE DEF first
  <2>1. /\ newest \in Seq(Nat)
        /\ Len(newest) = IF first <= Len(stored) THEN (Len(stored) - first) + 1 ELSE 0
        /\ \A i \in 1..((Len(stored) - first) + 1) : newest[i] = stored[(first + i) - 1]
    BY <1>3, <1>4, SubSeqProperties DEF first
  <2> QED  BY <1>3, <2>1
<1>6. ASSUME NEW i \in 1..n PROVE newest[i] = M!Snapshot[i]
  <2>1. (first + i) - 1 = (Len(stored) - n) + i /\ (Len(stored) - n) + i \in 1..Len(stored)
    BY <1>1, <1>2
  <2> QED  BY <1>1, <1>5, <2>1 DEF Numbered
<1>7. newest = M!Snapshot
  <2> HIDE DEF newest
  <2> QED  BY <1>1, <1>5, <1>6, SeqEqual
<1> QED  BY <1>7 DEF M!HoldsNewest, n, Kept

----------------------------------------------------------------------------
(* The ring and its streams, step by step *)

LEMMA RingSizes ==
    Size \in Nat /\ Size > 0 /\ Buffer \in Nat
  BY MemoryAssumption DEF M!MemoryAssumption

LEMMA MemoryStarts ==
    ASSUME M!Init
    PROVE  MemoryInv
<1>1. RingType /\ SendersType /\ StreamsType
  <2>1. <<>> \in Seq(Nat) /\ Len(<<>>) = 0
    BY EmptySeq
  <2> QED  BY <2>1 DEF M!Init, RingType, SendersType, StreamsType
<1>2. Numbered /\ Ring
  BY RingSizes DEF M!Init, Numbered, Ring, Filling, Kept
<1>3. Registered /\ Follows
  BY DEF M!Init, Registered, Follows
<1> QED  BY <1>1, <1>2, <1>3 DEF MemoryInv

(* A step that leaves the ring alone, and one that leaves senders or streams alone. *)
LEMMA SameRing ==
    ASSUME RingType, Numbered, Ring, UNCHANGED <<buf, mnext, stored, cleared>>
    PROVE  RingType' /\ Numbered' /\ Ring' /\ stored' = stored
  BY DEF RingType, Numbered, Ring, Kept

LEMMA SameSenders ==
    ASSUME SendersType, UNCHANGED <<spc, sending>>
    PROVE  SendersType' /\ \A k : Coming(k)' <=> Coming(k)
  BY DEF SendersType, Coming

LEMMA SameStreams ==
    ASSUME StreamsType, Registered,
           UNCHANGED <<subs, chan, mshut, missed, mpc, replay, mgot, from>>
    PROVE  StreamsType' /\ Registered' /\ \A r, k : Has(r, k)' <=> Has(r, k)
  BY DEF StreamsType, Registered, Has, Within

(* The ring takes the next event in. *)
LEMMA RingTakes ==
    ASSUME RingType, Numbered, Ring, NEW s, M!Store(s)
    PROVE  /\ RingType' /\ Numbered' /\ Ring'
           /\ Len(stored') = Len(stored) + 1
<1> DEFINE l == Len(stored)
<1>1. /\ Size \in Nat /\ Size > 0 /\ l \in Nat /\ cleared \in 0..l /\ Len(buf) \in Nat /\ mnext \in Nat
      /\ Kept \in Nat /\ Kept = l - cleared /\ l + 1 \in Nat
  BY RingSizes, LenProperties DEF RingType, Kept
<1>2. /\ stored' = Append(stored, l + 1) /\ cleared' = cleared
      /\ Len(buf) < Size => buf' = Append(buf, l + 1) /\ mnext' = mnext
      /\ ~(Len(buf) < Size) => buf' = [buf EXCEPT ![mnext + 1] = l + 1] /\ mnext' = (mnext + 1) % Size
  BY DEF M!Store, M!Event
<1>3. /\ stored' \in Seq(Nat) /\ Len(stored') = l + 1
      /\ \A i \in 1..l : stored'[i] = stored[i]
      /\ stored'[l + 1] = l + 1
  BY <1>1, <1>2, AppendProperties DEF RingType
<1>4. Numbered'
  <2>1. ASSUME NEW k \in 1..(l + 1) PROVE stored'[k] = k
    <3>1. k \in 1..l \/ k = l + 1
      BY <1>1
    <3> QED  BY <1>3, <3>1 DEF Numbered
  <2> QED  BY <1>3, <2>1 DEF Numbered
<1>5. Kept' = Kept + 1 /\ cleared' \in 0..Len(stored')
  BY <1>1, <1>2, <1>3 DEF Kept
<1>6. CASE Len(buf) < Size
  <2>1. Kept < Size
    BY <1>1, <1>6 DEF Ring, Full
  <2>2. Len(buf) = Kept /\ mnext = 0 /\ \A i \in 1..Kept : buf[i] = cleared + i
    BY <2>1 DEF Ring, Filling
  <2>3. /\ buf' \in Seq(Nat) /\ Len(buf') = Len(buf) + 1
        /\ \A i \in 1..Len(buf) : buf'[i] = buf[i]
        /\ buf'[Len(buf) + 1] = l + 1
    <3> HIDE DEF l
    <3>1. buf \in Seq(Nat) /\ l + 1 \in Nat /\ buf' = Append(buf, l + 1)
      BY <1>1, <1>2, <1>6 DEF RingType
    <3> QED  BY <3>1, AppendProperties
  <2>4. mnext' = 0
    BY <1>2, <1>6, <2>2
  <2>5. ASSUME NEW i \in 1..(Kept + 1) PROVE buf'[i] = cleared + i
    <3>1. CASE i \in 1..Kept
      BY <2>2, <2>3, <3>1
    <3>2. CASE i = Kept + 1
      <4>1. cleared + i = l + 1
        BY <1>1, <3>2
      <4> QED  BY <2>2, <2>3, <3>2, <4>1
    <3> QED  BY <1>1, <3>1, <3>2
  <2>6. RingType'
    BY <1>3, <1>5, <2>3, <2>4 DEF RingType
  <2>7. Filling(buf', cleared', Kept')
    BY <1>2, <1>5, <2>2, <2>3, <2>5 DEF Filling
  <2>8. ASSUME Kept + 1 >= Size PROVE Full(buf', mnext', Len(stored'))
    <3>1. Kept + 1 = Size
      BY <1>1, <2>1, <2>8
    <3>2. ASSUME NEW i \in 1..Size PROVE buf'[i] = Slot(i, 0, l + 1)
      <4>1. cleared + i = (((l + 1) - 0) + i) - Size /\ ~(i <= 0)
        BY <1>1, <3>1
      <4>2. buf'[i] = cleared + i
        BY <2>5, <3>1
      <4> QED  BY <4>1, <4>2 DEF Slot
    <3>3. Len(buf') = Size /\ 0 < Size
      BY <1>1, <2>2, <2>3, <3>1
    <3> QED  BY <1>3, <2>4, <3>2, <3>3 DEF Full
  <2>9. Ring'
    BY <1>5, <2>4, <2>7, <2>8 DEF Ring
  <2> QED  BY <1>3, <1>4, <2>6, <2>9
<1>7. CASE ~(Len(buf) < Size)
  <2>1. Kept >= Size
    BY <1>1, <1>7 DEF Ring, Filling
  <2>2. Len(buf) = Size /\ mnext < Size /\ \A i \in 1..Size : buf[i] = Slot(i, mnext, l)
    BY <2>1 DEF Ring, Full
  <2>3. mnext + 1 \in 1..Len(buf)
    BY <1>1, <2>2
  <2>4. /\ buf' \in Seq(Nat) /\ Len(buf') = Len(buf)
        /\ \A i \in 1..Len(buf) : buf'[i] = IF i = mnext + 1 THEN l + 1 ELSE buf[i]
    <3> HIDE DEF l
    <3>1. buf \in Seq(Nat) /\ l + 1 \in Nat /\ buf' = [buf EXCEPT ![mnext + 1] = l + 1]
      BY <1>1, <1>2, <1>7 DEF RingType
    <3> QED  BY <2>3, <3>1, ExceptSeq
  <2>5. ~(Kept' < Size)
    BY <1>1, <1>5, <2>1
  <2>6. CASE mnext + 1 < Size
    <3>1. mnext' = mnext + 1 /\ mnext' \in Nat /\ mnext' < Size
      BY <1>1, <1>2, <1>7, <2>6
    <3>2. ASSUME NEW i \in 1..Size PROVE buf'[i] = Slot(i, mnext + 1, l + 1)
      <4>1. CASE i = mnext + 1
        <5>1. i <= mnext + 1 /\ ((l + 1) - (mnext + 1)) + i = l + 1
          BY <1>1, <4>1
        <5>2. buf'[i] = l + 1
          BY <2>2, <2>4, <4>1
        <5> QED  BY <5>1, <5>2 DEF Slot
      <4>2. CASE i # mnext + 1
        <5>1. buf'[i] = Slot(i, mnext, l)
          BY <2>2, <2>4, <4>2
        <5>2. (i <= mnext <=> i <= mnext + 1) /\ (l + 1) - (mnext + 1) = l - mnext
          BY <1>1, <4>2
        <5> QED  BY <5>1, <5>2 DEF Slot
      <4> QED  BY <4>1, <4>2
    <3>3. Full(buf', mnext', Len(stored'))
      BY <1>3, <2>2, <2>4, <3>1, <3>2 DEF Full
    <3>4. Ring'
      BY <2>5, <3>3 DEF Ring
    <3>5. RingType'
      BY <1>3, <1>5, <2>4, <3>1 DEF RingType
    <3> QED  BY <1>3, <1>4, <3>4, <3>5
  <2>7. CASE ~(mnext + 1 < Size)
    <3>1. mnext + 1 = Size /\ mnext' = 0
      BY <1>1, <1>2, <1>7, <2>2, <2>7
    <3>2. ASSUME NEW i \in 1..Size PROVE buf'[i] = Slot(i, 0, l + 1)
      <4>1. CASE i = mnext + 1
        <5>1. ~(i <= 0) /\ (((l + 1) - 0) + i) - Size = l + 1
          BY <1>1, <3>1, <4>1
        <5>2. buf'[i] = l + 1
          BY <2>2, <2>4, <4>1
        <5> QED  BY <5>1, <5>2 DEF Slot
      <4>2. CASE i # mnext + 1
        <5>1. buf'[i] = Slot(i, mnext, l)
          BY <2>2, <2>4, <4>2
        <5>2. i <= mnext /\ ~(i <= 0) /\ (((l + 1) - 0) + i) - Size = (l - mnext) + i
          BY <1>1, <3>1, <4>2
        <5> QED  BY <5>1, <5>2 DEF Slot
      <4> QED  BY <4>1, <4>2
    <3>3. Full(buf', mnext', Len(stored'))
      BY <1>1, <1>3, <2>2, <2>4, <3>1, <3>2 DEF Full
    <3>4. Ring'
      BY <1>1, <2>5, <3>3 DEF Ring
    <3>5. RingType'
      BY <1>3, <1>5, <2>4, <3>1 DEF RingType
    <3> QED  BY <1>3, <1>4, <3>4, <3>5
  <2> QED  BY <2>6, <2>7
<1> QED  BY <1>6, <1>7

LEMMA StoreKeeps ==
    ASSUME MemoryInv, NEW s \in MemorySenders, M!Store(s)
    PROVE  MemoryInv'
<1>1. /\ spc[s] = "idle" /\ spc' = [spc EXCEPT ![s] = "forward"]
      /\ sending' = [sending EXCEPT ![s] = Len(stored) + 1]
      /\ UNCHANGED <<subs, chan, mshut, missed, mpc, replay, mgot, from>>
  BY DEF M!Store, M!streams, M!Event
<1>2. RingType' /\ Numbered' /\ Ring' /\ Len(stored') = Len(stored) + 1 /\ Len(stored) \in Nat
  BY RingTakes, LenProperties DEF MemoryInv, RingType
<1>3. StreamsType' /\ Registered' /\ \A r, k : Has(r, k)' <=> Has(r, k)
  BY <1>1, SameStreams DEF MemoryInv
<1>4. SendersType'
  <2>1. Len(stored) + 1 \in Nat
    BY <1>2
  <2> QED  BY <1>1, <2>1 DEF SendersType, MemoryInv
<1>. PICK e \in Nat : e = Len(stored) + 1
  BY <1>2
<1>5. Coming(e)'
  BY <1>1 DEF SendersType, MemoryInv, Coming
<1>6. ASSUME NEW k, Coming(k) PROVE Coming(k)'
  <2>1. PICK t \in MemorySenders : spc[t] = "forward" /\ sending[t] = k
    BY <1>6 DEF Coming
  <2>2. t # s /\ spc'[t] = "forward" /\ sending'[t] = k
    BY <1>1, <2>1 DEF SendersType, MemoryInv
  <2> QED  BY <2>2 DEF Coming
<1>7. Follows'
  <2>1. ASSUME NEW r \in Streams, mpc'[r] \in {"replay", "live"}, NEW k \in (from'[r] + 1)..Len(stored')
        PROVE  Has(r, k)' \/ Coming(k)'
    <3>1. mpc[r] \in {"replay", "live"} /\ from'[r] = from[r] /\ from[r] \in Nat
      BY <1>1, <2>1 DEF StreamsType, MemoryInv
    <3>2. k \in (from[r] + 1)..Len(stored) \/ k = e
      BY <1>2, <2>1, <3>1
    <3>3. CASE k \in (from[r] + 1)..Len(stored)
      BY <1>3, <1>6, <3>1, <3>3 DEF Follows, MemoryInv
    <3> QED  BY <1>5, <3>2, <3>3
  <2> QED  BY <2>1 DEF Follows
<1> QED  BY <1>2, <1>3, <1>4, <1>7 DEF MemoryInv

(* What a sender was about to forward is with each stream after it, or missed. *)
LEMMA ForwardKeeps ==
    ASSUME MemoryInv, NEW s \in MemorySenders, M!Forward(s)
    PROVE  MemoryInv'
<1> DEFINE Room(r) == r \in subs /\ Len(chan[r]) < Buffer
           Lost(r) == r \in subs /\ Len(chan[r]) >= Buffer
<1>1. /\ spc' = [spc EXCEPT ![s] = "idle"] /\ sending' = sending
      /\ chan' = [r \in Streams |-> IF Room(r) THEN Append(chan[r], sending[s]) ELSE chan[r]]
      /\ missed' = [r \in Streams |-> IF Lost(r) THEN missed[r] \cup {sending[s]} ELSE missed[r]]
      /\ UNCHANGED <<subs, mshut, mpc, replay, mgot, from>>
      /\ UNCHANGED <<buf, mnext, stored, cleared>>
  BY DEF M!Forward, M!ring
<1>2. RingType' /\ Numbered' /\ Ring' /\ stored' = stored
  BY <1>1, SameRing DEF MemoryInv
<1>3. sending[s] \in Nat
  BY DEF MemoryInv, SendersType
<1>. PICK e \in Nat : e = sending[s]
  BY <1>3
<1>4. SendersType'
  BY <1>1 DEF MemoryInv, SendersType
<1>5. ASSUME NEW r \in Streams
      PROVE  /\ chan[r] \in Seq(Nat) /\ Len(chan[r]) \in Nat /\ missed[r] \subseteq Nat
             /\ chan'[r] = IF Room(r) THEN Append(chan[r], e) ELSE chan[r]
             /\ missed'[r] = IF Lost(r) THEN missed[r] \cup {e} ELSE missed[r]
  BY <1>1, LenProperties DEF MemoryInv, StreamsType
<1> HIDE DEF Room, Lost
<1>6. StreamsType'
  <2>1. \A r \in Streams : Append(chan[r], sending[s]) \in Seq(Nat)
    BY <1>3, <1>5, AppendProperties
  <2>2. chan' \in [Streams -> Seq(Nat)] /\ missed' \in [Streams -> SUBSET Nat]
    BY <1>1, <1>3, <1>5, <2>1
  <2> QED  BY <1>1, <2>2 DEF MemoryInv, StreamsType
<1>7. Registered'
  BY <1>1 DEF MemoryInv, Registered
<1>8. ASSUME NEW r \in Streams, NEW k, Has(r, k) PROVE Has(r, k)'
  <2>1. Within(chan[r], k) => Within(chan'[r], k)
    <3>1. chan'[r] = Append(chan[r], e) \/ chan'[r] = chan[r]
      BY <1>5
    <3>2. Within(chan[r], k) => Within(Append(chan[r], e), k)
      BY <1>5, WithinAppend
    <3> QED  BY <3>1, <3>2
  <2>2. k \in missed[r] => k \in missed'[r]
    BY <1>5
  <2> QED  BY <1>1, <1>8, <2>1, <2>2 DEF Has
<1>9. ASSUME NEW r \in Streams, r \in subs PROVE Has(r, e)'
  <2>1. Room(r) \/ Lost(r)
    <3>1. Len(chan[r]) < Buffer \/ Len(chan[r]) >= Buffer
      BY <1>5, RingSizes
    <3> QED  BY <1>9, <3>1 DEF Room, Lost
  <2>2. CASE Room(r)
    <3>1. chan'[r] = Append(chan[r], e) /\ Within(Append(chan[r], e), e)
      BY <1>5, <2>2, WithinAppend
    <3> QED  BY <1>1, <3>1 DEF Has
  <2>3. CASE Lost(r)
    BY <1>5, <2>3 DEF Has
  <2> QED  BY <2>1, <2>2, <2>3
<1>10. ASSUME NEW k, Coming(k) PROVE Coming(k)' \/ k = e
  <2>1. PICK t \in MemorySenders : spc[t] = "forward" /\ sending[t] = k
    BY <1>10 DEF Coming
  <2>2. t # s => spc'[t] = "forward" /\ sending'[t] = k
    BY <1>1, <2>1 DEF SendersType, MemoryInv
  <2> QED  BY <2>1, <2>2 DEF Coming
<1>11. Follows'
  <2>1. ASSUME NEW r \in Streams, mpc'[r] \in {"replay", "live"}, NEW k \in (from'[r] + 1)..Len(stored')
        PROVE  Has(r, k)' \/ Coming(k)'
    <3>1. mpc[r] \in {"replay", "live"} /\ k \in (from[r] + 1)..Len(stored) /\ r \in subs
      BY <1>1, <1>2, <2>1 DEF Registered, MemoryInv
    <3>2. Has(r, k) \/ Coming(k)
      BY <3>1 DEF Follows, MemoryInv
    <3> QED  BY <1>8, <1>9, <1>10, <3>1, <3>2
  <2> QED  BY <2>1 DEF Follows
<1> QED  BY <1>2, <1>4, <1>6, <1>7, <1>11 DEF MemoryInv

LEMMA ClearKeeps ==
    ASSUME MemoryInv, M!Clear
    PROVE  MemoryInv'
<1>1. /\ buf' = <<>> /\ mnext' = 0 /\ cleared' = Len(stored) /\ stored' = stored
      /\ UNCHANGED <<subs, chan, mshut, missed, mpc, replay, mgot, from>>
      /\ UNCHANGED <<spc, sending>>
  BY DEF M!Clear, M!sender, M!streams
<1>2. Len(stored) \in Nat /\ <<>> \in Seq(Nat)
  BY LenProperties, EmptySeq DEF MemoryInv, RingType
<1>3. RingType'
  BY <1>1, <1>2 DEF MemoryInv, RingType
<1>4. Kept' = 0
  BY <1>1, <1>2 DEF Kept
<1>5. Numbered' /\ Ring'
  BY <1>1, <1>4, RingSizes DEF MemoryInv, Numbered, Ring, Filling
<1>6. SendersType' /\ \A k : Coming(k)' <=> Coming(k)
  BY <1>1, SameSenders DEF MemoryInv
<1>7. StreamsType' /\ Registered' /\ \A r, k : Has(r, k)' <=> Has(r, k)
  BY <1>1, SameStreams DEF MemoryInv
<1>8. Follows'
  BY <1>1, <1>6, <1>7 DEF MemoryInv, Follows
<1> QED  BY <1>3, <1>5, <1>6, <1>7, <1>8 DEF MemoryInv

(* The steps of a stream leave the ring and the senders alone. *)
LEMMA StreamsOnly ==
    ASSUME MemoryInv, UNCHANGED M!ring, UNCHANGED M!sender
    PROVE  /\ RingType' /\ Numbered' /\ Ring' /\ SendersType' /\ stored' = stored
           /\ \A k : Coming(k)' <=> Coming(k)
<1>1. UNCHANGED <<buf, mnext, stored, cleared>> /\ UNCHANGED <<spc, sending>>
  BY DEF M!ring, M!sender
<1>2. RingType' /\ Numbered' /\ Ring' /\ stored' = stored
  BY <1>1, SameRing DEF MemoryInv
<1>3. SendersType' /\ \A k : Coming(k)' <=> Coming(k)
  BY <1>1, SameSenders DEF MemoryInv
<1> QED  BY <1>2, <1>3

(* Those that move no event. *)
LEMMA StandingKeeps ==
    ASSUME MemoryInv, NEW r \in Streams,
           M!Subscribe(r) \/ M!Leave(r) \/ M!Deregister(r) \/ M!Shut(r)
    PROVE  MemoryInv'
<1>1. /\ UNCHANGED M!ring /\ UNCHANGED M!sender
      /\ UNCHANGED <<chan, missed, replay, mgot, from>>
  BY DEF M!Subscribe, M!Leave, M!Deregister, M!Shut
<1>2. /\ RingType' /\ Numbered' /\ Ring' /\ SendersType' /\ stored' = stored
      /\ \A k : Coming(k)' <=> Coming(k)
  BY <1>1, StreamsOnly
<1>3. \A q, k : Has(q, k)' <=> Has(q, k)
  BY <1>1 DEF Has, Within
<1>4. \/ /\ mpc[r] = "new" /\ mpc' = [mpc EXCEPT ![r] = "snapshot"]
         /\ subs' = subs \cup {r} /\ mshut' = mshut
      \/ /\ mpc[r] \in {"replay", "live"} /\ mpc' = [mpc EXCEPT ![r] = "left"]
         /\ subs' = subs /\ mshut' = mshut
      \/ mpc[r] = "left" /\ mpc' = mpc /\ subs' = subs \ {r} /\ mshut' = mshut
      \/ mpc[r] = "left" /\ r \notin subs /\ mpc' = mpc /\ subs' = subs /\ mshut' = mshut \cup {r}
  BY DEF M!Subscribe, M!Subscribed, M!Leave, M!Deregister, M!Shut, M!MayShut
<1>5. StreamsType'
  BY <1>1, <1>4 DEF MemoryInv, StreamsType
<1>6. Registered'
  BY <1>4 DEF MemoryInv, StreamsType, Registered
<1>7. \A q \in Streams : mpc'[q] \in {"replay", "live"} => mpc[q] \in {"replay", "live"}
  BY <1>4 DEF MemoryInv, StreamsType
<1>8. Follows'
  BY <1>1, <1>2, <1>3, <1>7 DEF MemoryInv, Follows
<1> QED  BY <1>2, <1>5, <1>6, <1>8 DEF MemoryInv

(* From where its replay begins, the snapshot holds every event. *)
LEMMA SnapshotKeeps ==
    ASSUME MemoryInv, NEW r \in Streams, M!ReadSnapshot(r)
    PROVE  MemoryInv'
<1>1. PICK n \in 0..Len(M!Snapshot) :
         /\ replay' = [replay EXCEPT ![r] = SubSeq(M!Snapshot, (Len(M!Snapshot) - n) + 1, Len(M!Snapshot))]
         /\ from' = [from EXCEPT ![r] = Len(stored) - n]
  BY DEF M!ReadSnapshot
<1>2. /\ mpc[r] = "snapshot" /\ mpc' = [mpc EXCEPT ![r] = "replay"]
      /\ UNCHANGED M!ring /\ UNCHANGED M!sender /\ UNCHANGED <<subs, chan, mshut, missed, mgot>>
  BY DEF M!ReadSnapshot
<1>3. /\ RingType' /\ Numbered' /\ Ring' /\ SendersType' /\ stored' = stored
      /\ \A k : Coming(k)' <=> Coming(k)
  BY <1>2, StreamsOnly
<1>4. PICK m \in Nat, l \in Nat :
         /\ m = Len(M!Snapshot) /\ l = Len(stored) /\ m <= l /\ M!Snapshot \in Seq(Nat)
         /\ \A i \in 1..m : M!Snapshot[i] = (l - m) + i
  <2>1. /\ M!Snapshot \in Seq(Nat) /\ Len(stored) \in Nat
        /\ Len(M!Snapshot) \in 0..Len(stored)
        /\ \A i \in 1..Len(M!Snapshot) : M!Snapshot[i] = (Len(stored) - Len(M!Snapshot)) + i
    BY Snapshots, LenProperties DEF MemoryInv, RingType
  <2> QED  BY <2>1
<1> DEFINE old == SubSeq(M!Snapshot, (m - n) + 1, m)
<1>5. n \in 0..m /\ n \in Nat
  BY <1>4
<1>6. /\ old \in Seq(Nat) /\ Len(old) = n
      /\ \A i \in 1..n : old[i] = (l - n) + i
  <2> DEFINE first == (m - n) + 1
  <2>1. /\ first \in Int /\ m \in Int /\ (m - first) + 1 = n
        /\ (IF first <= m THEN n ELSE 0) = n
        /\ \A i \in first..m : i \in 1..Len(M!Snapshot)
    BY <1>4, <1>5
  <2>2. \A i \in first..m : M!Snapshot[i] \in Nat
    BY <1>4, <2>1, ElementOfSeq
  <2> HIDE DEF first
  <2>3. /\ old \in Seq(Nat)
        /\ Len(old) = IF first <= m THEN (m - first) + 1 ELSE 0
        /\ \A i \in 1..((m - first) + 1) : old[i] = M!Snapshot[(first + i) - 1]
    BY <2>1, <2>2, SubSeqProperties DEF first
  <2>4. ASSUME NEW i \in 1..n PROVE M!Snapshot[(first + i) - 1] = (l - n) + i
    <3>1. (first + i) - 1 \in 1..m /\ (first + i) - 1 = (m - n) + i
      BY <1>5, <2>1 DEF first
    <3>2. (l - m) + ((m - n) + i) = (l - n) + i
      BY <1>5
    <3> QED  BY <1>4, <3>1, <3>2
  <2> QED  BY <2>1, <2>3, <2>4
<1> HIDE DEF old
<1>7. replay' = [replay EXCEPT ![r] = old] /\ from' = [from EXCEPT ![r] = l - n] /\ l - n \in Nat
  BY <1>1, <1>4, <1>5 DEF old
<1>8. StreamsType' /\ Registered'
  BY <1>2, <1>6, <1>7 DEF MemoryInv, StreamsType, Registered
<1>9. Follows'
  <2>1. ASSUME NEW q \in Streams, mpc'[q] \in {"replay", "live"}, NEW k \in (from'[q] + 1)..Len(stored')
        PROVE  Has(q, k)' \/ Coming(k)'
    <3>1. CASE q = r
      <4>1. replay'[q] = old /\ from'[q] = l - n
        BY <1>7, <3>1 DEF MemoryInv, StreamsType
      <4>2. k \in ((l - n) + 1)..l
        BY <1>3, <1>4, <2>1, <4>1
      <4>3. k - (l - n) \in 1..n /\ (l - n) + (k - (l - n)) = k
        BY <1>5, <1>7, <4>2
      <4>4. Within(old, k)
        BY <1>6, <4>3 DEF Within
      <4> QED  BY <4>1, <4>4 DEF Has
    <3>2. CASE q # r
      <4>1. mpc[q] = mpc'[q] /\ replay'[q] = replay[q] /\ from'[q] = from[q]
        BY <1>2, <1>7, <3>2 DEF MemoryInv, StreamsType
      <4>2. Has(q, k) \/ Coming(k)
        BY <1>3, <2>1, <4>1 DEF MemoryInv, Follows
      <4>3. Has(q, k) => Has(q, k)'
        BY <1>2, <4>1 DEF Has
      <4> QED  BY <1>3, <4>2, <4>3
    <3> QED  BY <3>1, <3>2
  <2> QED  BY <2>1 DEF Follows
<1> QED  BY <1>3, <1>8, <1>9 DEF MemoryInv

(* An event leaves the replay, or the channel, for the client. *)
LEMMA ReadKeeps ==
    ASSUME MemoryInv, NEW r \in Streams, M!Replay(r) \/ M!Live(r)
    PROVE  MemoryInv'
<1>1. /\ mpc[r] \in {"replay", "live"}
      /\ UNCHANGED M!ring /\ UNCHANGED M!sender /\ UNCHANGED <<subs, mshut, missed, from>>
  BY DEF M!Replay, M!Live
<1>2. /\ RingType' /\ Numbered' /\ Ring' /\ SendersType' /\ stored' = stored
      /\ \A k : Coming(k)' <=> Coming(k)
  BY <1>1, StreamsOnly
<1>3. /\ replay[r] \in Seq(Nat) /\ chan[r] \in Seq(Nat) /\ mgot[r] \in Seq(Nat)
  BY DEF MemoryInv, StreamsType
<1>4. \/ /\ mpc' = [mpc EXCEPT ![r] = "live"] /\ UNCHANGED <<replay, mgot, chan>>
      \/ /\ replay[r] # <<>> /\ mgot' = [mgot EXCEPT ![r] = Append(@, Head(replay[r]))]
         /\ replay' = [replay EXCEPT ![r] = Tail(@)] /\ UNCHANGED <<mpc, chan>>
      \/ /\ chan[r] # <<>> /\ mgot' = [mgot EXCEPT ![r] = Append(@, Head(chan[r]))]
         /\ chan' = [chan EXCEPT ![r] = Tail(@)] /\ UNCHANGED <<mpc, replay>>
  BY DEF M!Replay, M!Live
<1>5. /\ replay[r] # <<>> => Head(replay[r]) \in Nat /\ Tail(replay[r]) \in Seq(Nat)
                             /\ Append(mgot[r], Head(replay[r])) \in Seq(Nat)
      /\ chan[r] # <<>> => Head(chan[r]) \in Nat /\ Tail(chan[r]) \in Seq(Nat)
                           /\ Append(mgot[r], Head(chan[r])) \in Seq(Nat)
  BY <1>3, HeadTailProperties, AppendProperties
<1>6. StreamsType' /\ Registered'
  <2>1. StreamsType'
    BY <1>1, <1>4, <1>5 DEF MemoryInv, StreamsType
  <2>2. \A q \in Streams : mpc'[q] = mpc[q] \/ (q = r /\ mpc'[q] = "live")
    BY <1>4 DEF MemoryInv, StreamsType
  <2> QED  BY <1>1, <2>1, <2>2 DEF MemoryInv, Registered
<1>7. ASSUME NEW q \in Streams, NEW k, Has(q, k) PROVE Has(q, k)'
  <2>1. CASE q # r
    <3>1. mgot'[q] = mgot[q] /\ replay'[q] = replay[q] /\ chan'[q] = chan[q]
      BY <1>4, <2>1 DEF MemoryInv, StreamsType
    <3> QED  BY <1>1, <1>7, <3>1 DEF Has
  <2>2. CASE q = r
    <3>1. CASE UNCHANGED <<replay, mgot, chan>>
      BY <1>1, <1>7, <3>1 DEF Has
    <3>2. CASE /\ replay[r] # <<>> /\ mgot' = [mgot EXCEPT ![r] = Append(@, Head(replay[r]))]
               /\ replay' = [replay EXCEPT ![r] = Tail(@)] /\ UNCHANGED <<mpc, chan>>
      <4>1. /\ mgot'[r] = Append(mgot[r], Head(replay[r])) /\ replay'[r] = Tail(replay[r])
            /\ chan'[r] = chan[r] /\ missed'[r] = missed[r]
        BY <1>1, <3>2 DEF MemoryInv, StreamsType
      <4>2. Within(mgot[r], k) \/ Within(replay[r], k)
            => Within(Append(mgot[r], Head(replay[r])), k) \/ Within(Tail(replay[r]), k)
        BY <1>3, <3>2, HeadMoves
      <4>3. Within(mgot[r], k) \/ Within(replay[r], k) \/ Within(chan[r], k) \/ k \in missed[r]
        BY <1>7, <2>2 DEF Has
      <4>4. Within(mgot'[r], k) \/ Within(replay'[r], k) \/ Within(chan'[r], k) \/ k \in missed'[r]
        BY <4>1, <4>2, <4>3
      <4> QED  BY <2>2, <4>4 DEF Has
    <3>3. CASE /\ chan[r] # <<>> /\ mgot' = [mgot EXCEPT ![r] = Append(@, Head(chan[r]))]
               /\ chan' = [chan EXCEPT ![r] = Tail(@)] /\ UNCHANGED <<mpc, replay>>
      <4>1. /\ mgot'[r] = Append(mgot[r], Head(chan[r])) /\ chan'[r] = Tail(chan[r])
            /\ replay'[r] = replay[r] /\ missed'[r] = missed[r]
        BY <1>1, <3>3 DEF MemoryInv, StreamsType
      <4>2. Within(mgot[r], k) \/ Within(chan[r], k)
            => Within(Append(mgot[r], Head(chan[r])), k) \/ Within(Tail(chan[r]), k)
        BY <1>3, <3>3, HeadMoves
      <4>3. Within(mgot[r], k) \/ Within(replay[r], k) \/ Within(chan[r], k) \/ k \in missed[r]
        BY <1>7, <2>2 DEF Has
      <4>4. Within(mgot'[r], k) \/ Within(replay'[r], k) \/ Within(chan'[r], k) \/ k \in missed'[r]
        BY <4>1, <4>2, <4>3
      <4> QED  BY <2>2, <4>4 DEF Has
    <3> QED  BY <1>4, <3>1, <3>2, <3>3
  <2> QED  BY <2>1, <2>2
<1>8. \A q \in Streams : mpc'[q] \in {"replay", "live"} => mpc[q] \in {"replay", "live"}
  BY <1>1, <1>4 DEF MemoryInv, StreamsType
<1>9. Follows'
  BY <1>1, <1>2, <1>7, <1>8 DEF MemoryInv, Follows
<1> QED  BY <1>2, <1>6, <1>9 DEF MemoryInv

(* What the properties say, of every step. *)
LEMMA MemoryNext ==
    ASSUME MemoryInv, [M!Next]_M!vars
    PROVE  MemoryInv'
<1>1. CASE UNCHANGED M!vars
  <2>1. /\ UNCHANGED <<buf, mnext, stored, cleared>> /\ UNCHANGED <<spc, sending>>
        /\ UNCHANGED <<subs, chan, mshut, missed, mpc, replay, mgot, from>>
    BY <1>1 DEF M!vars
  <2>2. RingType' /\ Numbered' /\ Ring' /\ stored' = stored
    BY <2>1, SameRing DEF MemoryInv
  <2>3. SendersType' /\ \A k : Coming(k)' <=> Coming(k)
    BY <2>1, SameSenders DEF MemoryInv
  <2>4. StreamsType' /\ Registered' /\ \A r, k : Has(r, k)' <=> Has(r, k)
    BY <2>1, SameStreams DEF MemoryInv
  <2>5. Follows'
    BY <2>1, <2>2, <2>3, <2>4 DEF MemoryInv, Follows
  <2> QED  BY <2>2, <2>3, <2>4, <2>5 DEF MemoryInv
<1>2. ASSUME NEW s \in MemorySenders, M!Store(s) PROVE MemoryInv'
  BY <1>2, StoreKeeps
<1>3. ASSUME NEW s \in MemorySenders, M!Forward(s) PROVE MemoryInv'
  BY <1>3, ForwardKeeps
<1>4. ASSUME NEW r \in Streams, M!Subscribe(r) \/ M!Leave(r) \/ M!Deregister(r) \/ M!Shut(r)
      PROVE  MemoryInv'
  BY <1>4, StandingKeeps
<1>5. ASSUME NEW r \in Streams, M!ReadSnapshot(r) PROVE MemoryInv'
  BY <1>5, SnapshotKeeps
<1>6. ASSUME NEW r \in Streams, M!Replay(r) \/ M!Live(r) PROVE MemoryInv'
  BY <1>6, ReadKeeps
<1>7. CASE M!Clear
  BY <1>7, ClearKeeps
<1> QED  BY <1>1, <1>2, <1>3, <1>4, <1>5, <1>6, <1>7 DEF M!Next

LEMMA MemoryTells ==
    ASSUME MemoryInv
    PROVE  M!HoldsNewest /\ M!LiveView
<1>1. M!HoldsNewest
  BY HoldsTheNewest DEF MemoryInv
<1>2. M!SubscribersOpen
  BY DEF MemoryInv, Registered, StreamsType, M!SubscribersOpen
<1>3. M!NoGap
  <2>1. ASSUME NEW r \in Streams, mpc[r] \in {"replay", "live"}, NEW k \in (from[r] + 1)..Len(stored)
        PROVE  \/ stored[k] \in M!ToSet(mgot[r]) \cup M!ToSet(replay[r]) \cup M!ToSet(chan[r]) \cup missed[r]
               \/ \E s \in MemorySenders : spc[s] = "forward" /\ sending[s] = stored[k]
    <3>1. Has(r, k) \/ Coming(k)
      BY <2>1 DEF MemoryInv, Follows
    <3>2. stored[k] = k
      <4>1. from[r] \in Nat /\ Len(stored) \in Nat
        BY LenProperties DEF MemoryInv, StreamsType, RingType
      <4>2. k \in 1..Len(stored)
        BY <4>1
      <4> QED  BY <4>2 DEF MemoryInv, Numbered
    <3>3. ASSUME NEW q \in Seq(Nat), Within(q, k) PROVE k \in M!ToSet(q)
      BY <3>3 DEF Within, M!ToSet
    <3>4. mgot[r] \in Seq(Nat) /\ replay[r] \in Seq(Nat) /\ chan[r] \in Seq(Nat)
      BY DEF MemoryInv, StreamsType
    <3>5. CASE Has(r, k)
      BY <3>2, <3>3, <3>4, <3>5 DEF Has
    <3>6. CASE Coming(k)
      BY <3>2, <3>6 DEF Coming
    <3> QED  BY <3>1, <3>5, <3>6
  <2> QED  BY <2>1 DEF M!NoGap
<1> QED  BY <1>1, <1>2, <1>3 DEF M!LiveView

----------------------------------------------------------------------------
(* The connection, step by step *)

LEMMA Constants ==
    /\ MaxConns \in Nat /\ Y!Conns = 1..MaxConns
    /\ Len(SyslogBatches) = 3 /\ \A b \in 1..Len(SyslogBatches) : SyslogBatches[b] \in Nat
<1>1. MaxConns \in Nat /\ Y!Conns = 1..MaxConns
  BY SyslogAssumption DEF Y!SyslogAssumption, Y!Conns
<1>2. SyslogBatches = <<2, 1, 2>>
  BY DEF SyslogBatches
<1> QED  BY <1>1, <1>2

LEMMA SyslogStarts ==
    ASSUME Y!Init
    PROVE  SyslogInv
<1>1. <<>> \in Seq(Part) /\ Len(<<>>) = 0
  BY EmptySeq
<1>2. SyslogType
  BY <1>1, Constants DEF Y!Init, SyslogType
<1>3. wire = [c \in Y!Conns |-> <<>>]
  BY DEF Y!Init
<1>4. Fresh /\ KeptClean /\ InBatch /\ Written /\ Answers
  BY <1>3 DEF Y!Init, Fresh, KeptClean, InBatch, Written, Answers
<1>6. Failing
  BY DEF Y!Init, Failing
<1>7. Blamed
  BY DEF Y!Init, Blamed
<1>5. TornEnds
  BY <1>1, <1>3 DEF TornEnds, TornLast
<1> QED  BY <1>2, <1>4, <1>5, <1>6, <1>7 DEF SyslogInv

(* Nothing that went through is taken back. *)
LEMMA SameWires ==
    ASSUME UNCHANGED wire, UNCHANGED yrefused
    PROVE  /\ \A b, k : Through(b, k)' <=> Through(b, k)
           /\ TornEnds' <=> TornEnds
  BY DEF Through, TornEnds

LEMMA SyslogStutters ==
    ASSUME SyslogInv, UNCHANGED Y!vars
    PROVE  SyslogInv'
<1>1. UNCHANGED <<network, conn, dialled, ypc, ybatch, yattempt, at, yfailed, wire, peer, yacked,
                  yrefused, yfaults>>
  BY DEF Y!vars
<1>2. (\A b, k : Through(b, k)' <=> Through(b, k)) /\ (TornEnds' <=> TornEnds)
  BY <1>1, SameWires
<1>3. SyslogType' /\ Fresh'
  BY <1>1 DEF SyslogInv, SyslogType, Fresh
<1>6. Failing' /\ KeptClean' /\ InBatch'
  BY <1>1 DEF SyslogInv, Failing, KeptClean, InBatch
<1>4. Written' /\ Answers'
  BY <1>1, <1>2 DEF SyslogInv, Written, Answers
<1>5. Blamed'
  BY <1>1 DEF SyslogInv, Blamed
<1> QED  BY <1>2, <1>3, <1>4, <1>5, <1>6 DEF SyslogInv

LEMMA ProbeKeeps ==
    ASSUME SyslogInv, Y!Probe
    PROVE  SyslogInv'
<1>1. /\ ypc = "idle" /\ ybatch <= Len(SyslogBatches) /\ ypc' = "write" /\ at' = 1
      /\ conn' \in {0, conn}
      /\ UNCHANGED <<network, dialled, ybatch, yattempt, yfailed, wire, peer, yacked, yrefused, yfaults>>
  BY DEF Y!Probe, Y!env
<1>2. (\A b, k : Through(b, k)' <=> Through(b, k)) /\ (TornEnds' <=> TornEnds)
  BY <1>1, SameWires
<1>3. SyslogType' /\ Failing' /\ Fresh'
  BY <1>1 DEF SyslogInv, SyslogType, Failing, Fresh
<1>4. KeptClean'
  BY <1>1 DEF SyslogInv, KeptClean
<1>5. ybatch \in 1..Len(SyslogBatches)
  BY <1>1, Constants DEF SyslogInv, SyslogType
<1>6. InBatch' /\ Written'
  BY <1>1, <1>5 DEF InBatch, Written
<1>7. Answers' /\ Blamed'
  BY <1>1, <1>2 DEF SyslogInv, Answers, Blamed
<1> QED  BY <1>2, <1>3, <1>4, <1>6, <1>7 DEF SyslogInv

LEMMA DialKeeps ==
    ASSUME SyslogInv, Y!Dial
    PROVE  SyslogInv'
<1>1. /\ ypc = "write" /\ conn = 0
      /\ UNCHANGED <<network, ybatch, yattempt, at, wire, peer, yacked, yrefused>>
      /\ \/ /\ dialled < MaxConns /\ dialled' = dialled + 1 /\ conn' = dialled + 1
            /\ UNCHANGED <<ypc, yfailed, yfaults>>
         \/ /\ yfaults' = yfaults + 1 /\ ypc' = "error" /\ yfailed' = TRUE
            /\ UNCHANGED <<conn, dialled>>
  BY DEF Y!Dial, Y!Fault, Y!env
<1>2. (\A b, k : Through(b, k)' <=> Through(b, k)) /\ (TornEnds' <=> TornEnds)
  BY <1>1, SameWires
<1>3. SyslogType' /\ Failing'
  <2>1. dialled' \in 0..MaxConns /\ conn' \in 0..dialled' /\ yfaults' \in Nat
    BY <1>1, Constants DEF SyslogInv, SyslogType
  <2>2. ypc' \in {"idle", "write", "error"}
    BY <1>1
  <2>3. Failing'
    <3>1. CASE UNCHANGED <<ypc, yfailed>>
      BY <3>1 DEF SyslogInv, Failing
    <3>2. CASE ypc' = "error" /\ yfailed' = TRUE
      BY <3>2 DEF Failing
    <3> QED  BY <1>1, <3>1, <3>2
  <2> QED  BY <1>1, <2>1, <2>2, <2>3 DEF SyslogInv, SyslogType
<1>4. Fresh'
  BY <1>1, Constants DEF SyslogInv, SyslogType, Fresh
<1>5. KeptClean'
  <2>1. CASE dialled < MaxConns /\ conn' = dialled + 1
    <3>1. conn' \in Y!Conns /\ conn' > dialled
      BY <2>1, Constants DEF SyslogInv, SyslogType
    <3>2. wire'[conn'] = <<>>
      BY <1>1, <3>1 DEF SyslogInv, Fresh
    <3>3. Len(<<>>) = 0
      BY EmptySeq
    <3> QED  BY <3>2, <3>3 DEF KeptClean, Clean
  <2>2. CASE ypc' = "error"
    BY <2>2 DEF KeptClean
  <2> QED  BY <1>1, <2>1, <2>2
<1>6. InBatch' /\ Written' /\ Answers'
  BY <1>1, <1>2 DEF SyslogInv, InBatch, Written, Answers
<1>7. Blamed'
  BY <1>1 DEF SyslogInv, SyslogType, Blamed
<1> QED  BY <1>2, <1>3, <1>4, <1>5, <1>6, <1>7 DEF SyslogInv

LEMMA TooLongKeeps ==
    ASSUME SyslogInv, Y!TooLong
    PROVE  SyslogInv'
<1>1. /\ ypc = "write" /\ <<ybatch, at>> \in yrefused /\ at' = at + 1
      /\ UNCHANGED <<network, conn, dialled, ypc, ybatch, yattempt, yfailed, wire, peer, yacked, yrefused,
                    yfaults>>
  BY DEF Y!TooLong, Y!Skips, Y!Event, Y!env
<1>2. (\A b, k : Through(b, k)' <=> Through(b, k)) /\ (TornEnds' <=> TornEnds)
  BY <1>1, SameWires
<1>3. SyslogType' /\ Failing' /\ Fresh' /\ KeptClean' /\ InBatch' /\ Blamed'
  BY <1>1 DEF SyslogInv, SyslogType, Failing, Fresh, KeptClean, InBatch, Blamed
<1>4. Answers'
  BY <1>1, <1>2 DEF SyslogInv, Answers
<1>5. Written'
  <2>1. ASSUME NEW b \in {ybatch}, NEW k \in 1..(at + 1), k < at + 1 PROVE Through(b, k)
    <3>1. at \in Nat
      BY DEF SyslogInv, SyslogType
    <3>2. CASE k = at
      BY <1>1, <3>2 DEF Through
    <3>3. CASE k # at
      <4>1. k \in 1..at /\ k < at
        BY <2>1, <3>1, <3>3
      <4> QED  BY <1>1, <4>1 DEF SyslogInv, Written
    <3> QED  BY <3>2, <3>3
  <2> QED  BY <1>1, <1>2, <2>1 DEF Written
<1> QED  BY <1>2, <1>3, <1>4, <1>5 DEF SyslogInv

LEMMA AbandonKeeps ==
    ASSUME SyslogInv, Y!Abandon
    PROVE  SyslogInv'
<1>1. /\ ypc = "error" /\ yfailed' = FALSE /\ conn' = 0 /\ ypc' = "idle"
      /\ \/ yattempt' = yattempt + 1 /\ ybatch' = ybatch
         \/ yattempt' = 1 /\ ybatch' = ybatch + 1
      /\ UNCHANGED <<network, dialled, at, wire, peer, yacked, yrefused, yfaults>>
  BY DEF Y!Abandon, Y!Reset, Y!Failed, Y!Answered, Y!env
<1>2. (\A b, k : Through(b, k)' <=> Through(b, k)) /\ (TornEnds' <=> TornEnds)
  BY <1>1, SameWires
<1>3. SyslogType' /\ Fresh'
  <2>1. conn' \in 0..dialled' /\ ybatch' \in Nat \ {0} /\ yattempt' \in Nat
    BY <1>1 DEF SyslogInv, SyslogType
  <2> QED  BY <1>1, <2>1 DEF SyslogInv, SyslogType, Fresh
<1>6. Failing' /\ KeptClean' /\ InBatch' /\ Written'
  BY <1>1 DEF SyslogInv, Failing, KeptClean, InBatch, Written
<1>4. Answers'
  BY <1>1, <1>2 DEF SyslogInv, Answers
<1>5. Blamed'
  <2>1. yfailed
    BY <1>1 DEF SyslogInv, Failing
  <2> QED  BY <1>1, <2>1 DEF SyslogInv, Blamed
<1> QED  BY <1>2, <1>3, <1>4, <1>5, <1>6 DEF SyslogInv

(* A batch is answered when the last of its frames went through. *)
LEMMA SentKeeps ==
    ASSUME SyslogInv, Y!Sent
    PROVE  SyslogInv'
<1>1. /\ ypc = "write" /\ at > SyslogBatches[ybatch] /\ yacked' = yacked \cup {ybatch}
      /\ ypc' = "idle" /\ ybatch' = ybatch + 1 /\ yattempt' = 1
      /\ UNCHANGED <<network, conn, dialled, at, yfailed, wire, peer, yrefused, yfaults>>
  BY DEF Y!Sent, Y!Answered, Y!env
<1>2. (\A b, k : Through(b, k)' <=> Through(b, k)) /\ (TornEnds' <=> TornEnds)
  BY <1>1, SameWires
<1>3. SyslogType' /\ Failing' /\ Fresh' /\ KeptClean' /\ InBatch' /\ Written'
  BY <1>1 DEF SyslogInv, SyslogType, Failing, Fresh, KeptClean, InBatch, Written
<1>4. ~yfailed
  BY <1>1 DEF SyslogInv, Failing
<1>5. Blamed'
  BY <1>1, <1>4 DEF Blamed
<1>6. ybatch \in 1..Len(SyslogBatches) /\ SyslogBatches[ybatch] \in Nat /\ at \in Nat
  BY <1>1, Constants DEF SyslogInv, InBatch, SyslogType
<1>7. ASSUME NEW b \in {ybatch}, NEW k \in 1..SyslogBatches[b] PROVE Through(b, k)
  <2>1. k \in 1..at /\ k < at
    BY <1>1, <1>6
  <2> QED  BY <1>1, <2>1 DEF SyslogInv, Written
<1>8. Answers'
  BY <1>1, <1>2, <1>6, <1>7 DEF SyslogInv, Answers
<1> QED  BY <1>2, <1>3, <1>5, <1>8 DEF SyslogInv

LEMMA CloseKeeps ==
    ASSUME SyslogInv, Y!Close
    PROVE  SyslogInv'
<1>1. /\ ypc = "idle" /\ conn' = 0
      /\ UNCHANGED <<network, dialled, ypc, ybatch, yattempt, at, yfailed, wire, peer, yacked, yrefused,
                    yfaults>>
  BY DEF Y!Close, Y!env
<1>2. (\A b, k : Through(b, k)' <=> Through(b, k)) /\ (TornEnds' <=> TornEnds)
  BY <1>1, SameWires
<1>3. SyslogType' /\ Failing' /\ Fresh' /\ KeptClean' /\ InBatch' /\ Written' /\ Blamed'
  BY <1>1 DEF SyslogInv, SyslogType, Failing, Fresh, KeptClean, InBatch, Written, Blamed
<1>4. Answers'
  BY <1>1, <1>2 DEF SyslogInv, Answers
<1> QED  BY <1>2, <1>3, <1>4 DEF SyslogInv

LEMMA PeerKeeps ==
    ASSUME SyslogInv, Y!PeerLeaves
    PROVE  SyslogInv'
<1>1. /\ \E c \in 1..dialled : peer[c] = "open" /\ peer' = [peer EXCEPT ![c] = "gone"]
      /\ UNCHANGED <<network, conn, dialled, ypc, ybatch, yattempt, at, yfailed, wire, yacked, yrefused,
                    yfaults>>
  BY DEF Y!PeerLeaves, Y!env
<1>2. (\A b, k : Through(b, k)' <=> Through(b, k)) /\ (TornEnds' <=> TornEnds)
  BY <1>1, SameWires
<1>3. peer' \in [Y!Conns -> {"open", "gone"}] /\ \A c \in Y!Conns : peer[c] = "gone" => peer'[c] = "gone"
  BY <1>1 DEF SyslogInv, SyslogType
<1>4. SyslogType' /\ Failing' /\ Fresh' /\ KeptClean' /\ InBatch'
  BY <1>1, <1>3 DEF SyslogInv, SyslogType, Failing, Fresh, KeptClean, InBatch
<1>5. Blamed'
  BY <1>1, <1>3 DEF SyslogInv, Blamed
<1>6. Written' /\ Answers'
  BY <1>1, <1>2 DEF SyslogInv, Written, Answers
<1> QED  BY <1>2, <1>4, <1>5, <1>6 DEF SyslogInv

(* A part goes to the end of the connection's wire, which was clean. *)
LEMMA Gives ==
    ASSUME SyslogInv, conn # 0, ypc = "write", NEW p \in Part,
           wire' = [wire EXCEPT ![conn] = Append(@, p)],
           UNCHANGED <<dialled, yrefused>>
    PROVE  /\ wire' \in [Y!Conns -> Seq(Part)] /\ Fresh' /\ TornEnds'
           /\ p[2] # "torn" => Clean(wire'[conn])
           /\ \A b, k : Through(b, k) => Through(b, k)'
           /\ \A b, k : p \in {<<<<b, k>>, "whole">>, <<<<b, k>>, "summary">>} => Through(b, k)'
<1>1. conn \in Y!Conns /\ conn \in Nat /\ conn <= dialled /\ dialled \in Nat
  BY Constants DEF SyslogInv, SyslogType
<1>. PICK c \in Y!Conns : c = conn
  BY <1>1
<1>2. wire[c] \in Seq(Part)
  BY DEF SyslogInv, SyslogType
<1>. PICK w : w = wire[c]
  OBVIOUS
<1>. PICK l \in Nat : l = Len(w)
  BY <1>2, LenProperties
<1>3. /\ Append(w, p) \in Seq(Part) /\ Len(Append(w, p)) = l + 1
      /\ \A i \in 1..l : Append(w, p)[i] = w[i]
      /\ Append(w, p)[l + 1] = p
  BY <1>2, AppendProperties
<1>4. /\ wire' \in [Y!Conns -> Seq(Part)] /\ wire'[c] = Append(w, p)
      /\ \A d \in Y!Conns : d # c => wire'[d] = wire[d]
  BY <1>2, <1>3 DEF SyslogInv, SyslogType
<1>5. Clean(w)
  BY DEF SyslogInv, KeptClean
<1>6. Fresh'
  BY <1>1, <1>4 DEF SyslogInv, Fresh
<1>7. ASSUME NEW i \in 1..(l + 1), Torn(Append(w, p), i) PROVE i = l + 1 /\ p[2] = "torn"
  <2>1. CASE i \in 1..l
    <3>1. Append(w, p)[i] = w[i]
      BY <1>3, <2>1
    <3> QED  BY <1>5, <1>7, <2>1, <3>1 DEF Clean, Torn
  <2>2. CASE i = l + 1
    BY <1>3, <1>7, <2>2 DEF Torn
  <2> QED  BY <2>1, <2>2
<1>8. TornEnds'
  <2>1. TornLast(Append(w, p))
    BY <1>3, <1>7 DEF TornLast
  <2>2. ASSUME NEW d \in Y!Conns PROVE TornLast(wire'[d])
    <3>1. CASE d = c
      BY <1>4, <2>1, <3>1
    <3>2. CASE d # c
      BY <1>4, <3>2 DEF SyslogInv, TornEnds
    <3> QED  BY <3>1, <3>2
  <2> QED  BY <2>2 DEF TornEnds
<1>9. p[2] # "torn" => Clean(wire'[conn])
  BY <1>3, <1>4, <1>7 DEF Clean
<1>10. ASSUME NEW e, On(w, e) PROVE On(Append(w, p), e)
  <2>1. PICK j \in 1..l : w[j] = <<e, "whole">> \/ w[j] = <<e, "summary">>
    BY <1>10 DEF On
  <2>2. j \in 1..(l + 1) /\ Append(w, p)[j] = w[j]
    BY <1>3, <2>1
  <2> QED  BY <1>3, <2>1, <2>2 DEF On
<1>11. ASSUME NEW b, NEW k, Through(b, k) PROVE Through(b, k)'
  <2>1. CASE <<b, k>> \in yrefused
    BY <2>1 DEF Through
  <2>2. ASSUME NEW d \in Y!Conns, On(wire[d], <<b, k>>) PROVE On(wire'[d], <<b, k>>)
    BY <1>4, <1>10, <2>2
  <2> QED  BY <1>11, <2>1, <2>2 DEF Through
<1>12. ASSUME NEW b, NEW k, p \in {<<<<b, k>>, "whole">>, <<<<b, k>>, "summary">>} PROVE Through(b, k)'
  <2>1. l + 1 \in 1..Len(Append(w, p))
    BY <1>3
  <2>2. On(Append(w, p), <<b, k>>)
    BY <1>3, <1>12, <2>1 DEF On
  <2> QED  BY <1>4, <2>2 DEF Through
<1> QED  BY <1>4, <1>6, <1>8, <1>9, <1>11, <1>12

LEMMA WriteKeeps ==
    ASSUME SyslogInv, Y!Write
    PROVE  SyslogInv'
<1>1. /\ ypc = "write" /\ conn # 0 /\ at' = at + 1
      /\ wire' = [wire EXCEPT ![conn] = Append(@, Y!Frame)]
      /\ UNCHANGED <<network, conn, dialled, ypc, ybatch, yattempt, yfailed, peer, yacked, yrefused, yfaults>>
  BY DEF Y!Write, Y!Give, Y!env
<1>2. ybatch \in Nat /\ at \in Nat
  BY DEF SyslogInv, SyslogType
<1>3. Y!Frame \in {<<<<ybatch, at>>, "whole">>, <<<<ybatch, at>>, "summary">>}
  BY DEF Y!Frame, Y!Event
<1>. PICK p : p = Y!Frame
  OBVIOUS
<1>4. p \in Part /\ p[2] # "torn"
  BY <1>2, <1>3 DEF Part
<1>5. /\ wire' \in [Y!Conns -> Seq(Part)] /\ Fresh' /\ TornEnds'
      /\ Clean(wire'[conn])
      /\ \A b, k : Through(b, k) => Through(b, k)'
      /\ \A b, k : p \in {<<<<b, k>>, "whole">>, <<<<b, k>>, "summary">>} => Through(b, k)'
  BY <1>1, <1>4, Gives
<1>6. SyslogType'
  BY <1>1, <1>5 DEF SyslogInv, SyslogType
<1>7. Failing' /\ InBatch' /\ Blamed'
  BY <1>1 DEF SyslogInv, Failing, InBatch, Blamed
<1>8. KeptClean'
  BY <1>1, <1>5 DEF KeptClean
<1>9. Answers'
  BY <1>1, <1>5 DEF SyslogInv, Answers
<1>10. Written'
  <2>1. ASSUME NEW b \in {ybatch}, NEW k \in 1..(at + 1), k < at + 1 PROVE Through(b, k)'
    <3>1. CASE k = at
      BY <1>3, <1>5, <3>1
    <3>2. CASE k # at
      <4>1. k \in 1..at /\ k < at
        BY <1>2, <2>1, <3>2
      <4> QED  BY <1>1, <1>5, <4>1 DEF SyslogInv, Written
    <3> QED  BY <3>1, <3>2
  <2> QED  BY <1>1, <2>1 DEF Written
<1> QED  BY <1>5, <1>6, <1>7, <1>8, <1>9, <1>10 DEF SyslogInv

(* The torn frame may be the last of its connection, which is given up next. *)
LEMMA WriteFailsKeeps ==
    ASSUME SyslogInv, Y!WriteFails
    PROVE  SyslogInv'
<1>1. /\ ypc = "write" /\ conn # 0 /\ ypc' = "error" /\ yfailed' = TRUE
      /\ (Y!Dead(conn) /\ yfaults' = yfaults) \/ yfaults' = yfaults + 1
      /\ wire' = wire \/ wire' = [wire EXCEPT ![conn] = Append(@, <<Y!Event, "torn">>)]
      /\ UNCHANGED <<network, conn, dialled, ybatch, yattempt, at, peer, yacked, yrefused>>
  BY DEF Y!WriteFails, Y!Give, Y!Fault, Y!env
<1>2. /\ wire' \in [Y!Conns -> Seq(Part)] /\ Fresh' /\ TornEnds'
      /\ \A b, k : Through(b, k) => Through(b, k)'
  <2>1. CASE wire' = wire
    <3>1. (\A b, k : Through(b, k)' <=> Through(b, k)) /\ (TornEnds' <=> TornEnds)
      BY <1>1, <2>1, SameWires
    <3> QED  BY <1>1, <2>1, <3>1 DEF SyslogInv, SyslogType, Fresh
  <2>2. CASE wire' = [wire EXCEPT ![conn] = Append(@, <<Y!Event, "torn">>)]
    <3>1. PICK p \in Part : p = <<Y!Event, "torn">>
      BY DEF Part, Y!Event, SyslogInv, SyslogType
    <3> QED  BY <1>1, <2>2, <3>1, Gives
  <2> QED  BY <1>1, <2>1, <2>2
<1>3. yfaults' \in Nat
  BY <1>1 DEF SyslogInv, SyslogType
<1>4. SyslogType'
  BY <1>1, <1>2, <1>3 DEF SyslogInv, SyslogType
<1>5. Failing'
  BY <1>1 DEF Failing
<1>6. KeptClean' /\ InBatch' /\ Written'
  BY <1>1 DEF KeptClean, InBatch, Written
<1>7. Answers'
  BY <1>1, <1>2 DEF SyslogInv, Answers
<1>8. Blamed'
  <2>1. CASE Y!Dead(conn)
    <3>1. conn \in Y!Conns /\ peer[conn] = "gone"
      BY <2>1, Constants DEF SyslogInv, SyslogType, Y!Dead
    <3> QED  BY <1>1, <3>1 DEF Blamed
  <2>2. CASE yfaults' = yfaults + 1
    <3>1. yfaults' > 0
      BY <2>2 DEF SyslogInv, SyslogType
    <3> QED  BY <3>1 DEF Blamed
  <2> QED  BY <1>1, <2>1, <2>2
<1> QED  BY <1>2, <1>4, <1>5, <1>6, <1>7, <1>8 DEF SyslogInv

LEMMA SyslogNext ==
    ASSUME SyslogInv, [Y!Next]_Y!vars
    PROVE  SyslogInv'
<1>1. CASE UNCHANGED Y!vars
  BY <1>1, SyslogStutters
<1>2. CASE Y!Probe
  BY <1>2, ProbeKeeps
<1>3. CASE Y!Dial
  BY <1>3, DialKeeps
<1>4. CASE Y!Write
  BY <1>4, WriteKeeps
<1>5. CASE Y!WriteFails
  BY <1>5, WriteFailsKeeps
<1>6. CASE Y!TooLong
  BY <1>6, TooLongKeeps
<1>7. CASE Y!Abandon
  BY <1>7, AbandonKeeps
<1>8. CASE Y!Sent
  BY <1>8, SentKeeps
<1>9. CASE Y!Close
  BY <1>9, CloseKeeps
<1>10. CASE Y!PeerLeaves
  BY <1>10, PeerKeeps
<1> QED  BY <1>1, <1>2, <1>3, <1>4, <1>5, <1>6, <1>7, <1>8, <1>9, <1>10 DEF Y!Next

LEMMA SyslogTells ==
    ASSUME SyslogInv
    PROVE  Y!FramesWhole
<1>1. Y!NothingAfterATornFrame
  BY DEF SyslogInv, TornEnds, TornLast, Torn, Y!NothingAfterATornFrame
<1>2. Y!RefusedAlone
  <2>1. \A c \in Y!Conns : c # 0
    BY Constants
  <2> QED  BY <2>1 DEF SyslogInv, Blamed, Y!RefusedAlone, Y!Dead
<1>3. Y!AckedGiven
  <2>1. ASSUME NEW b \in yacked, NEW k \in 1..SyslogBatches[b]
        PROVE  \/ <<b, k>> \in yrefused
               \/ \E part \in {"whole", "summary"} : <<<<b, k>>, part>> \in Y!Given
    <3>1. Through(b, k)
      BY DEF SyslogInv, Answers
    <3>2. ASSUME NEW c \in Y!Conns, On(wire[c], <<b, k>>)
          PROVE  \E part \in {"whole", "summary"} : <<<<b, k>>, part>> \in Y!Given
      <4>1. PICK j \in 1..Len(wire[c]), part \in {"whole", "summary"} : wire[c][j] = <<<<b, k>>, part>>
        BY <3>2 DEF On
      <4>2. wire[c][j] \in Y!Given
        BY <4>1 DEF Y!Given
      <4> QED  BY <4>1, <4>2
    <3> QED  BY <3>1, <3>2 DEF Through
  <2> QED  BY <2>1 DEF Y!AckedGiven
<1> QED  BY <1>1, <1>2, <1>3 DEF Y!FramesWhole

----------------------------------------------------------------------------
(* In every behaviour of the composition, whichever scene it plays. *)

SceneInv ==
    /\ scene = "memory" => MemoryInv
    /\ scene = "syslog" => SyslogInv
    /\ scene = "journal" => JournalInv

LEMMA SceneInvariant == SceneSpec => []SceneInv
<1>1. SceneInit => SceneInv
  BY MemoryStarts, SyslogStarts, JournalStarts DEF SceneInit, Plays, SceneInv
<1>2. SceneInv /\ [SceneNext]_sceneVars => SceneInv'
  <2> SUFFICES ASSUME SceneInv, [SceneNext]_sceneVars PROVE SceneInv'
    OBVIOUS
  <2>1. scene' = scene
    BY DEF SceneNext, sceneVars
  <2>2. CASE scene = "memory"
    <3>1. [M!Next]_M!vars
      BY <2>2 DEF SceneNext, sceneVars, memory, M!vars
    <3> QED  BY <2>1, <2>2, <3>1, MemoryNext DEF SceneInv
  <2>3. CASE scene = "syslog"
    <3>1. [Y!Next]_Y!vars
      BY <2>3 DEF SceneNext, sceneVars, syslog, Y!vars
    <3> QED  BY <2>1, <2>3, <3>1, SyslogNext DEF SceneInv
  <2>4. CASE scene = "journal"
    <3>1. [J!Next]_J!vars
      BY <2>4 DEF SceneNext, sceneVars, journal, J!vars, J!file, J!instance, J!ghosts
    <3> QED  BY <2>1, <2>4, <3>1, JournalSteps DEF SceneInv
  <2>5. CASE scene \notin {"memory", "syslog", "journal"}
    BY <2>1, <2>5 DEF SceneInv
  <2> QED  BY <2>2, <2>3, <2>4, <2>5
<1> QED  BY <1>1, <1>2, PTL DEF SceneSpec

(* drain/memory, whatever number of goroutines send and of clients watch: the   *)
(* ring is the newest events in order, no event falls between a stream's replay *)
(* and its live view, and fanOut meets no closed channel.                       *)
THEOREM Shows == SceneSpec => []MemoryShows
<1>1. SceneInv => MemoryShows
  BY MemoryTells DEF SceneInv, MemoryShows
<1> QED  BY <1>1, SceneInvariant, PTL

(* drain/syslog, however often its peer leaves and its writes fail: no frame    *)
(* follows a torn one, an answered batch was written frame by frame, and a      *)
(* refused datagram fails nothing else.                                         *)
THEOREM Frames == SceneSpec => []FramesWhole
<1>1. SceneInv => FramesWhole
  BY SyslogTells DEF SceneInv, FramesWhole
<1> QED  BY <1>1, SceneInvariant, PTL

(* audit/journal.go, for any number of instances on one path and however often  *)
(* they crash, fail or find the file edited: one instance writes, and remembers *)
(* what the file says; the lines chain after every crash; a record whose Send   *)
(* returned without a report is in the file once from then on; and while        *)
(* nothing stops, a record is in the file or was reported.                      *)
THEOREM JournalChains == SceneSpec => []JournalHolds
<1>1. SceneInv => JournalHolds
  BY JournalTells DEF SceneInv, JournalHolds
<1> QED  BY <1>1, SceneInvariant, PTL

(* audit/verify.go, of any file and any one edit: Verify refuses a line that was *)
(* edited, deleted, repeated or swapped with its neighbour, unless only the end  *)
(* was cut off; and ensureOpen opens no file whose lines do not chain.           *)
THEOREM EditsShow == SceneSpec => DamageShows
<1>1. SceneInv /\ [SceneNext]_sceneVars => (scene = "journal" => J!DamageTold)
  <2> SUFFICES ASSUME SceneInv, [SceneNext]_sceneVars, scene = "journal" PROVE J!DamageTold
    OBVIOUS
  <2>1. [J!Next]_J!vars
    BY DEF SceneNext, sceneVars, journal, J!vars, J!file, J!instance, J!ghosts
  <2> QED  BY <2>1, DamageIsTold DEF SceneInv
<1>2. SceneInv /\ [SceneNext]_sceneVars => [scene = "journal" => J!DamageTold]_sceneVars
  BY <1>1
<1> QED  BY <1>2, SceneInvariant, PTL DEF SceneSpec, DamageShows
=============================================================================
