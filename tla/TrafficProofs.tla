---------------------------- MODULE TrafficProofs -----------------------------
(***************************************************************************)
(* What holds of the adapters that carry requests in and calls out, for    *)
(* any number of requests, buffers and operations, whichever adapter runs. *)
(* Exchanges: the event says what the client got, and a body buffer has    *)
(* one user.  Calls: one call per operation, failed exactly when the       *)
(* program was told so.  MCP requests: one event each, ended once by its   *)
(* own answer or by expiry, and a bounded table between their two hooks.   *)
(***************************************************************************)
EXTENDS MCUnits, Integers, FiniteSetTheorems, SequenceTheorems, TLAPS

----------------------------------------------------------------------------
(* Exchanges: what each request has answered and reported, and whose each body     *)
(* buffer is.                                                                      *)

Serving == {"body", "handler", "finish", "emitted"}
ExchangeType ==
    /\ adapter \in HttpAdapters /\ captures \in BOOLEAN /\ owned \in [Requests -> BOOLEAN]
    /\ pc \in [Requests -> Serving \cup {"absent", "start", "done"}]
    /\ wrote \in [Requests -> BOOLEAN] /\ status \in [Requests -> X!Codes \cup Informational \cup {101}]
    /\ DOMAIN wire = Requests /\ written \in [Requests -> Nat]
    /\ DOMAIN error = Requests /\ DOMAIN level = Requests /\ DOMAIN event = Requests
    /\ emitted \in [Requests -> Nat] /\ again \in [Requests -> BOOLEAN]
BufferType ==
    /\ pool \subseteq Buffers /\ filler \in [Buffers -> Requests \cup {None}]
    /\ respBody \in [Requests -> Buffers \cup {None}] /\ reqBody \in [Requests -> Buffers \cup {None}]
    /\ rest \in [Requests -> Buffers \cup {None}]

(* What a request holds at each of its steps. *)
Owes(r) ==
    /\ pc[r] \in {"absent", "start", "done"} => respBody[r] = None
    /\ pc[r] \in {"absent", "start", "body", "done"} => reqBody[r] = None /\ rest[r] = None
    /\ captures /\ X!Wrapped /\ pc[r] \in Serving => respBody[r] # None
    /\ rest[r] # None => rest[r] = reqBody[r]
(* A buffer that a request holds is its own; a free one was filled before. *)
Holds(r) ==
    /\ \A b \in {respBody[r], reqBody[r]} \ {None} : filler[b] = r /\ b \notin pool
    /\ respBody[r] # None => respBody[r] # reqBody[r]
Filled == \A b \in pool : filler[b] # None

(* What the writer kept of the answer, and what went out. *)
Sent(r) == wire[r] = status[r] \/ status[r] \in Informational
Answering(r) ==
    /\ pc[r] \in {"absent", "start", "body"} => ~wrote[r] /\ wire[r] = None /\ status[r] = 200
    /\ ~X!Direct /\ pc[r] # "done" => wire[r] = None
    /\ X!Direct /\ pc[r] # "done" =>
           /\ ~wrote[r] => wire[r] = None
           /\ wrote[r] => Sent(r)
    /\ X!Wrapped /\ ~wrote[r] => status[r] = 200
    /\ pc[r] = "emitted" /\ X!Direct /\ ~X!Wrapped => wrote[r]
    /\ pc[r] = "done" => wire[r] = Cutoff \/ Sent(r)
Reported(r) ==
    /\ pc[r] \notin {"emitted", "done"} => emitted[r] = 0
    /\ pc[r] \in {"emitted", "done"} =>
           /\ event[r].status = status[r] /\ emitted[r] = IF owned[r] THEN 1 ELSE 0
           /\ error[r] # None => event[r].failed /\ event[r].level # "info"
           /\ captures /\ X!Wrapped /\ written[r] > MaxBody => event[r].cut

ExchangeInv ==
    /\ ExchangeType /\ BufferType /\ Filled
    /\ \A r \in Requests : Owes(r) /\ Holds(r) /\ Answering(r) /\ Reported(r)


LEMMA HttpKinds ==
    ASSUME adapter \in HttpAdapters
    PROVE  /\ X!Adapter.rest => X!Adapter.keeps
           /\ X!Wrapped <=> X!Adapter.writer = "wrapped"
           /\ X!Direct <=> X!Adapter.writer # "buffered"
           /\ X!Adapter.writer \in {"wrapped", "gin", "buffered"}
<1> DEFINE Fits(p) == (p.rest => p.keeps) /\ p.writer \in {"wrapped", "gin", "buffered"}
<1>1. adapter \in DOMAIN X!Policy
  BY ExchangeAssumption DEF X!ExchangeAssumption
<1>2. X!NetHTTP.rest /\ X!NetHTTP.keeps /\ X!NetHTTP.writer = "wrapped"
      /\ DOMAIN X!NetHTTP = {"writer", "rest", "keeps", "repanics", "aborts"}
  BY DEF X!NetHTTP
<1>3. Fits(X!NetHTTP) /\ Fits(X!Gin)
  BY <1>2 DEF X!Gin
<1>4. ~X!FastHTTP.rest /\ X!FastHTTP.writer = "buffered"
      /\ DOMAIN X!FastHTTP = {"writer", "rest", "keeps", "repanics", "aborts"}
  BY <1>2 DEF X!FastHTTP
<1>5. Fits(X!FastHTTP) /\ Fits(X!Hertz)
  BY <1>4 DEF X!Hertz
<1>6. X!Adapter \in {X!NetHTTP, X!Gin, X!FastHTTP, X!Hertz}
  BY <1>1 DEF X!Adapter, X!Policy, X!Chi, X!Echo, X!Echo5, X!GoZero, X!HTTPRouter, X!Kratos, X!GCF,
              X!Fiber, X!Fiber3
<1>7. Fits(X!Adapter)
  <2> HIDE DEF Fits
  <2> QED  BY <1>3, <1>5, <1>6
<1> QED  BY <1>7 DEF X!Wrapped, X!Direct

LEMMA NoValue ==
    /\ None \notin Requests /\ None \notin Buffers
    /\ None \notin {101, 200, 404, 500} /\ MaxBody \in Nat
<1> QED  BY ExchangeAssumption DEF X!ExchangeAssumption

LEMMA ExchangeStarts == X!Init => ExchangeInv
<1> SUFFICES ASSUME X!Init PROVE ExchangeInv
  OBVIOUS
<1>1. PICK here \in SUBSET Requests :
          pc = [r \in Requests |-> IF r \in here THEN "start" ELSE "absent"]
  BY DEF X!Init
<1>2. ExchangeType
  BY <1>1 DEF X!Init, ExchangeType, Serving, X!Codes
<1>3. BufferType /\ Filled
  BY DEF X!Init, BufferType, Filled
<1>4. ASSUME NEW r \in Requests PROVE Owes(r) /\ Holds(r) /\ Answering(r) /\ Reported(r)
  BY <1>1, <1>4 DEF X!Init, Owes, Holds, Answering, Reported, Serving
<1> QED  BY <1>2, <1>3, <1>4 DEF ExchangeInv

(* A step of one request leaves the others as they were. *)
LEMMA OthersServed ==
    ASSUME NEW q \in Requests, UNCHANGED <<adapter, captures, owned>>,
           pc'[q] = pc[q], wrote'[q] = wrote[q], status'[q] = status[q], wire'[q] = wire[q],
           written'[q] = written[q], error'[q] = error[q], event'[q] = event[q],
           emitted'[q] = emitted[q], respBody'[q] = respBody[q], reqBody'[q] = reqBody[q],
           rest'[q] = rest[q]
    PROVE  /\ Owes(q) => Owes(q)'
           /\ Answering(q) => Answering(q)'
           /\ Reported(q) => Reported(q)'
<1>1. (X!Wrapped' <=> X!Wrapped) /\ (X!Direct' <=> X!Direct)
  BY DEF X!Wrapped, X!Direct, X!Adapter, X!Policy
<1>2. Owes(q) => Owes(q)'
  BY <1>1 DEF Owes
<1>3. Answering(q) => Answering(q)'
  BY <1>1 DEF Answering, Sent
<1>4. Reported(q) => Reported(q)'
  BY <1>1 DEF Reported
<1> QED  BY <1>2, <1>3, <1>4

(* What the handler does to its answer, and not to its buffers. *)
LEMMA HandlingKeeps ==
    ASSUME ExchangeInv, NEW r \in Requests, pc[r] = "handler",
           pc' \in {pc, [pc EXCEPT ![r] = "finish"]},
           UNCHANGED <<adapter, captures, owned, event, emitted>>, UNCHANGED X!bodies,
           wrote' \in [Requests -> BOOLEAN], status' \in [Requests -> X!Codes \cup Informational \cup {101}],
           DOMAIN wire' = Requests, written' \in [Requests -> Nat], DOMAIN error' = Requests,
           DOMAIN level' = Requests, again' \in [Requests -> BOOLEAN],
           \A q \in Requests \ {r} : /\ wrote'[q] = wrote[q] /\ status'[q] = status[q] /\ wire'[q] = wire[q]
                                     /\ written'[q] = written[q] /\ error'[q] = error[q],
           Answering(r)'
    PROVE  ExchangeInv'
<1>1. /\ ExchangeType /\ BufferType /\ Filled
      /\ \A q \in Requests : Owes(q) /\ Holds(q) /\ Answering(q) /\ Reported(q)
  BY DEF ExchangeInv
<1>2. /\ pc'[r] \in {"handler", "finish"} /\ \A q \in Requests \ {r} : pc'[q] = pc[q]
      /\ pc' \in [Requests -> Serving \cup {"absent", "start", "done"}]
  BY <1>1 DEF ExchangeType, Serving
<1>3. UNCHANGED <<reqBody, respBody, rest, pool, filler>>
  BY DEF X!bodies
<1>4. ExchangeType' /\ BufferType' /\ Filled'
  BY <1>1, <1>2, <1>3 DEF ExchangeType, BufferType, Filled
<1>5. \A q \in Requests : Holds(q)'
  BY <1>1, <1>3 DEF Holds
<1>6. \A q \in Requests \ {r} : Owes(q)' /\ Answering(q)' /\ Reported(q)'
  BY <1>1, <1>2, <1>3, OthersServed
<1>7. Owes(r)'
  <2>1. X!Wrapped' <=> X!Wrapped
    BY DEF X!Wrapped, X!Adapter, X!Policy
  <2> QED  BY <1>1, <1>2, <1>3, <2>1 DEF Owes, Serving
<1>8. Reported(r)'
  BY <1>1, <1>2 DEF Reported
<1> QED  BY <1>4, <1>5, <1>6, <1>7, <1>8 DEF ExchangeInv

LEMMA HeaderAnswers ==
    ASSUME ExchangeInv, NEW r \in Requests, pc[r] = "handler", pc'[r] \in {"handler", "finish"},
           NEW given \in X!Codes \cup (IF X!Wrapped THEN Informational ELSE {}),
           X!Header(r, given), UNCHANGED adapter
    PROVE  /\ wrote' \in [Requests -> BOOLEAN] /\ DOMAIN wire' = Requests
           /\ status' \in [Requests -> X!Codes \cup Informational \cup {101}]
           /\ \A q \in Requests \ {r} : wrote'[q] = wrote[q] /\ status'[q] = status[q] /\ wire'[q] = wire[q]
           /\ Answering(r)'
<1>1. /\ wrote \in [Requests -> BOOLEAN] /\ DOMAIN wire = Requests /\ adapter \in HttpAdapters
      /\ status \in [Requests -> X!Codes \cup Informational \cup {101}]
      /\ Answering(r)
  BY DEF ExchangeInv, ExchangeType
<1>2. /\ X!Wrapped' <=> X!Wrapped
      /\ X!Direct' <=> X!Direct
      /\ X!Wrapped <=> X!Adapter.writer = "wrapped"
      /\ X!Direct <=> X!Adapter.writer # "buffered"
      /\ X!Adapter.writer \in {"wrapped", "gin", "buffered"}
  BY <1>1, HttpKinds DEF X!Wrapped, X!Direct, X!Adapter, X!Policy
<1>3. CASE (X!Wrapped /\ wrote[r]) \/ (X!Adapter.writer = "gin" /\ wrote[r])
  BY <1>1, <1>2, <1>3 DEF X!Header, Answering, Sent
<1>4. CASE X!Wrapped /\ ~wrote[r]
  <2>1. /\ wrote' = [wrote EXCEPT ![r] = TRUE] /\ status' = [status EXCEPT ![r] = given]
        /\ wire' = [wire EXCEPT ![r] = IF @ = None /\ given \notin Informational THEN given ELSE @]
    BY <1>2, <1>4 DEF X!Header, X!Commit
  <2>2. wire[r] = None /\ pc'[r] # "done" /\ pc'[r] # "emitted" /\ X!Direct /\ X!Direct' /\ X!Wrapped'
    <3>1. X!Direct /\ X!Direct' /\ X!Wrapped'
      BY <1>2, <1>4
    <3>2. wire[r] = None
      BY <1>1, <1>4, <3>1 DEF Answering
    <3> QED  BY <3>1, <3>2
  <2>3. wrote'[r] /\ status'[r] = given /\ (given \notin Informational => wire'[r] = given)
    BY <1>1, <2>1, <2>2
  <2>4. Answering(r)'
    BY <2>2, <2>3 DEF Answering, Sent
  <2> QED  BY <1>1, <2>1, <2>4
<1>5. CASE ~X!Wrapped /\ X!Adapter.writer = "gin" /\ ~wrote[r]
  <2>1. UNCHANGED <<wrote, wire>> /\ status' = [status EXCEPT ![r] = given]
    BY <1>5 DEF X!Header
  <2> QED  BY <1>1, <1>2, <1>5, <2>1 DEF Answering
<1>6. CASE ~X!Wrapped /\ X!Adapter.writer # "gin"
  <2>1. UNCHANGED <<wrote, wire>> /\ status' = [status EXCEPT ![r] = given]
    BY <1>2, <1>6 DEF X!Header
  <2> QED  BY <1>1, <1>2, <1>6, <2>1 DEF Answering, Sent
<1> QED  BY <1>2, <1>3, <1>4, <1>5, <1>6

LEMMA WriteHeaderKeeps ==
    ASSUME ExchangeInv, NEW r \in Requests, X!WriteHeader(r)
    PROVE  ExchangeInv'
<1>1. PICK given \in X!Codes \cup (IF X!Wrapped THEN Informational ELSE {}) : X!Header(r, given)
  BY DEF X!WriteHeader
<1>2. /\ pc[r] = "handler" /\ pc' = pc /\ UNCHANGED <<adapter, captures, owned, event, emitted, again>>
      /\ UNCHANGED X!bodies /\ UNCHANGED <<written, error, level>>
  BY DEF X!WriteHeader, X!Handling, X!config, X!record, X!outcome
<1>3. ExchangeType
  BY DEF ExchangeInv
<1>4. /\ wrote' \in [Requests -> BOOLEAN] /\ DOMAIN wire' = Requests
      /\ status' \in [Requests -> X!Codes \cup Informational \cup {101}]
      /\ \A q \in Requests \ {r} : wrote'[q] = wrote[q] /\ status'[q] = status[q] /\ wire'[q] = wire[q]
      /\ Answering(r)'
  BY <1>1, <1>2, HeaderAnswers
<1> QED  BY <1>2, <1>3, <1>4, HandlingKeeps DEF ExchangeType

LEMMA WriteKeeps ==
    ASSUME ExchangeInv, NEW r \in Requests, X!Write(r)
    PROVE  ExchangeInv'
<1>1. /\ pc[r] = "handler" /\ pc' = pc /\ UNCHANGED <<adapter, captures, owned, event, emitted, again>>
      /\ UNCHANGED X!bodies /\ UNCHANGED <<status, error, level>>
      /\ \E n \in 0..1 : written' = [written EXCEPT ![r] = @ + n]
  BY DEF X!Write, X!Handling, X!config, X!record, X!outcome
<1>2. ExchangeType /\ Answering(r)
  BY DEF ExchangeInv
<1>3. /\ written' \in [Requests -> Nat] /\ \A q \in Requests \ {r} : written'[q] = written[q]
  BY <1>1, <1>2 DEF ExchangeType
<1>4. (X!Wrapped' <=> X!Wrapped) /\ (X!Direct' <=> X!Direct)
  BY <1>1 DEF X!Wrapped, X!Direct, X!Adapter, X!Policy
<1>5. /\ wrote' \in [Requests -> BOOLEAN] /\ DOMAIN wire' = Requests
      /\ \A q \in Requests \ {r} : wrote'[q] = wrote[q] /\ wire'[q] = wire[q]
      /\ Answering(r)'
  <2>1. CASE X!Direct
    <3>1. /\ wrote' = [wrote EXCEPT ![r] = TRUE]
          /\ wire' = [wire EXCEPT ![r] =
                 IF @ = None /\ (IF wrote[r] THEN 200 ELSE status[r]) \notin Informational
                 THEN IF wrote[r] THEN 200 ELSE status[r] ELSE @]
      BY <2>1 DEF X!Write, X!Commit
    <3>2. wrote'[r] /\ Sent(r)'
      <4>1. CASE wrote[r]
        <5>1. Sent(r) /\ status[r] \in X!Codes \cup Informational \cup {101}
          BY <1>1, <1>2, <2>1, <4>1 DEF Answering, ExchangeType
        <5>2. wire[r] = None => status[r] \in Informational
          BY <5>1, NoValue DEF Sent, X!Codes
        <5> QED  BY <1>1, <1>2, <3>1, <5>1, <5>2 DEF Sent, ExchangeType
      <4>2. CASE ~wrote[r]
        <5>1. wire[r] = None
          BY <1>1, <1>2, <2>1, <4>2 DEF Answering
        <5> QED  BY <1>1, <1>2, <3>1, <4>2, <5>1 DEF Sent, ExchangeType
      <4> QED  BY <4>1, <4>2
    <3>3. Answering(r)'
      BY <1>1, <1>4, <2>1, <3>2 DEF Answering
    <3> QED  BY <1>2, <3>1, <3>3 DEF ExchangeType
  <2>2. CASE ~X!Direct
    <3>1. UNCHANGED <<wrote, wire>>
      BY <2>2 DEF X!Write
    <3> QED  BY <1>1, <1>2, <1>4, <2>2, <3>1 DEF Answering, Sent, ExchangeType
  <2> QED  BY <2>1, <2>2
<1> QED  BY <1>1, <1>2, <1>3, <1>5, HandlingKeeps DEF ExchangeType

LEMMA HijackKeeps ==
    ASSUME ExchangeInv, NEW r \in Requests, X!Hijack(r)
    PROVE  ExchangeInv'
<1>1. /\ pc[r] = "handler" /\ pc' = pc /\ UNCHANGED <<adapter, captures, owned, event, emitted, again>>
      /\ UNCHANGED X!bodies /\ UNCHANGED <<written, error, level>>
      /\ wrote' = [wrote EXCEPT ![r] = TRUE]
      /\ status' = [status EXCEPT ![r] = 101] /\ wire' = [wire EXCEPT ![r] = 101] /\ X!Wrapped
  BY DEF X!Hijack, X!Handling, X!config, X!record, X!outcome
<1>2. ExchangeType
  BY DEF ExchangeInv
<1>3. X!Direct'
  BY <1>1, <1>2, HttpKinds DEF ExchangeType, X!Wrapped, X!Direct, X!Adapter, X!Policy
<1>4. Answering(r)'
  BY <1>1, <1>2, <1>3 DEF Answering, Sent, ExchangeType
<1>5. status' \in [Requests -> X!Codes \cup Informational \cup {101}]
  BY <1>1, <1>2 DEF ExchangeType
<1> QED  BY <1>1, <1>2, <1>4, <1>5, HandlingKeeps DEF ExchangeType

LEMMA LevelNamed ==
    ASSUME ExchangeInv, NEW r \in Requests, X!NameLevel(r) \/ X!Finish(r)
    PROVE  ExchangeInv'
<1>1. /\ pc[r] = "handler" /\ pc' \in {pc, [pc EXCEPT ![r] = "finish"]}
      /\ UNCHANGED <<adapter, captures, owned, event, emitted, again>> /\ UNCHANGED X!bodies
      /\ UNCHANGED <<wrote, status, wire, written, error>> /\ DOMAIN level' = DOMAIN level
  BY DEF X!NameLevel, X!Finish, X!Handling, X!config, X!answer, X!record, X!outcome
<1>2. ExchangeType /\ Answering(r)
  BY DEF ExchangeInv
<1>3. (X!Wrapped' <=> X!Wrapped) /\ (X!Direct' <=> X!Direct) /\ pc'[r] \in {"handler", "finish"}
  BY <1>1, <1>2 DEF X!Wrapped, X!Direct, X!Adapter, X!Policy, ExchangeType
<1>4. Answering(r)'
  BY <1>1, <1>2, <1>3 DEF Answering, Sent
<1> QED  BY <1>1, <1>2, <1>4, HandlingKeeps DEF ExchangeType

LEMMA FailKeeps ==
    ASSUME ExchangeInv, NEW r \in Requests, X!Fail(r)
    PROVE  ExchangeInv'
<1>1. PICK given \in {404, 500} : error' = [error EXCEPT ![r] = given] /\ X!Header(r, given)
  BY DEF X!Fail
<1>2. /\ pc[r] = "handler" /\ pc' = [pc EXCEPT ![r] = "finish"]
      /\ UNCHANGED <<adapter, captures, owned, event, emitted, again>>
      /\ UNCHANGED X!bodies /\ UNCHANGED <<written, level>>
  BY DEF X!Fail, X!Handling, X!config, X!outcome
<1>3. ExchangeType
  BY DEF ExchangeInv
<1>4. /\ wrote' \in [Requests -> BOOLEAN] /\ DOMAIN wire' = Requests
      /\ status' \in [Requests -> X!Codes \cup Informational \cup {101}]
      /\ \A q \in Requests \ {r} : wrote'[q] = wrote[q] /\ status'[q] = status[q] /\ wire'[q] = wire[q]
      /\ Answering(r)'
  <2>1. pc'[r] = "finish" /\ given \in X!Codes
    BY <1>2, <1>3 DEF ExchangeType, X!Codes
  <2> QED  BY <1>1, <1>2, <2>1, HeaderAnswers
<1> QED  BY <1>1, <1>2, <1>3, <1>4, HandlingKeeps DEF ExchangeType

LEMMA PanicKeeps ==
    ASSUME ExchangeInv, NEW r \in Requests, X!Panic(r)
    PROVE  ExchangeInv'
<1>1. PICK abort \in BOOLEAN, repanic \in BOOLEAN :
          /\ again' = [again EXCEPT ![r] = X!Continues(abort, repanic)]
          /\ IF ~X!Continues(abort, repanic) /\ X!Untouched(r) THEN X!Header(r, 500)
             ELSE UNCHANGED <<wrote, status, wire>>
  BY DEF X!Panic
<1>2. /\ pc[r] = "handler" /\ pc' = [pc EXCEPT ![r] = "finish"] /\ error' = [error EXCEPT ![r] = 0]
      /\ UNCHANGED <<adapter, captures, owned, event, emitted>>
      /\ UNCHANGED X!bodies /\ UNCHANGED <<written, level>>
  BY DEF X!Panic, X!Handling, X!config
<1>3. ExchangeType /\ Answering(r)
  BY DEF ExchangeInv
<1>4. (X!Wrapped' <=> X!Wrapped) /\ (X!Direct' <=> X!Direct) /\ pc'[r] = "finish"
  BY <1>2, <1>3 DEF X!Wrapped, X!Direct, X!Adapter, X!Policy, ExchangeType
<1>5. /\ wrote' \in [Requests -> BOOLEAN] /\ DOMAIN wire' = Requests
      /\ status' \in [Requests -> X!Codes \cup Informational \cup {101}]
      /\ \A q \in Requests \ {r} : wrote'[q] = wrote[q] /\ status'[q] = status[q] /\ wire'[q] = wire[q]
      /\ Answering(r)'
  <2>1. CASE X!Header(r, 500)
    <3>1. 500 \in X!Codes
      BY DEF X!Codes
    <3> QED  BY <1>2, <1>4, <2>1, <3>1, HeaderAnswers
  <2>2. CASE UNCHANGED <<wrote, status, wire>>
    BY <1>2, <1>3, <1>4, <2>2 DEF Answering, Sent, ExchangeType
  <2> QED  BY <1>1, <2>1, <2>2
<1>6. again' \in [Requests -> BOOLEAN]
  BY <1>1, <1>3 DEF ExchangeType, X!Continues
<1> QED  BY <1>2, <1>3, <1>5, <1>6, HandlingKeeps DEF ExchangeType

(* A buffer that sync.Pool hands out is nobody's. *)
LEMMA GetsFree ==
    ASSUME ExchangeInv, NEW b \in X!Get
    PROVE  /\ b \in Buffers
           /\ \A q \in Requests : b \notin {respBody[q], reqBody[q], rest[q]}
<1>1. /\ BufferType /\ Filled /\ \A q \in Requests : Owes(q) /\ Holds(q)
  BY DEF ExchangeInv
<1>2. b \in Buffers /\ (b \in pool \/ filler[b] = None)
  <2>1. CASE b \in pool
    BY <1>1, <2>1 DEF BufferType
  <2>2. CASE b \notin pool
    <3>1. X!New # {} /\ b = CHOOSE x \in X!New : TRUE
      BY <2>2 DEF X!Get
    <3>2. b \in X!New
      BY <3>1
    <3> QED  BY <3>2 DEF X!New
  <2> QED  BY <2>1, <2>2
<1>3. ASSUME NEW q \in Requests PROVE b \notin {respBody[q], reqBody[q], rest[q]}
  <2>1. b # None
    BY <1>2, NoValue
  <2>2. b \notin {respBody[q], reqBody[q]}
    BY <1>1, <1>2, <2>1, NoValue DEF Holds
  <2> QED  BY <1>1, <2>1, <2>2 DEF Owes
<1> QED  BY <1>2, <1>3

LEMMA StartKeeps ==
    ASSUME ExchangeInv, NEW r \in Requests, X!Start(r)
    PROVE  ExchangeInv'
<1>1. /\ pc[r] = "start" /\ pc' = [pc EXCEPT ![r] = "body"]
      /\ UNCHANGED <<adapter, captures, length, owned, wrote, status, wire, written, error, level>>
      /\ UNCHANGED <<reqBody, rest, again, event, emitted>>
  BY DEF X!Start, X!config, X!answer, X!record, X!outcome
<1>2. /\ ExchangeType /\ BufferType /\ Filled
      /\ \A q \in Requests : Owes(q) /\ Holds(q) /\ Answering(q) /\ Reported(q)
  BY DEF ExchangeInv
<1>3. /\ pc'[r] = "body" /\ \A q \in Requests \ {r} : pc'[q] = pc[q]
      /\ (X!Wrapped' <=> X!Wrapped) /\ (X!Direct' <=> X!Direct)
  BY <1>1, <1>2 DEF ExchangeType, X!Wrapped, X!Direct, X!Adapter, X!Policy
<1>4. ExchangeType'
  BY <1>1, <1>2 DEF ExchangeType, Serving
<1>5. respBody[r] = None /\ reqBody[r] = None /\ rest[r] = None
  BY <1>1, <1>2 DEF Owes
<1>6. Answering(r)' /\ Reported(r)'
  BY <1>1, <1>2, <1>3 DEF Answering, Sent, Reported
<1>7. CASE captures /\ X!Wrapped
  <2>1. PICK b \in X!Get : /\ respBody' = [respBody EXCEPT ![r] = b]
                           /\ filler' = [filler EXCEPT ![b] = r]
                           /\ pool' = pool \ {b}
    BY <1>7 DEF X!Start
  <2>2. /\ b \in Buffers /\ b # None
        /\ \A q \in Requests : b \notin {respBody[q], reqBody[q], rest[q]}
    BY GetsFree, NoValue
  <2>3. BufferType' /\ Filled'
    BY <1>1, <1>2, <2>1, <2>2, NoValue DEF BufferType, Filled
  <2>4. Owes(r)'
    BY <1>1, <1>2, <1>3, <1>5, <2>1, <2>2 DEF Owes, BufferType
  <2>5. \A q \in Requests : Holds(q)'
    BY <1>1, <1>2, <1>5, <2>1, <2>2 DEF Holds, BufferType
  <2>6. \A q \in Requests \ {r} : Owes(q)' /\ Answering(q)' /\ Reported(q)'
    BY <1>1, <1>2, <1>3, <2>1, OthersServed
  <2> QED  BY <1>4, <1>6, <2>3, <2>4, <2>5, <2>6 DEF ExchangeInv
<1>8. CASE ~(captures /\ X!Wrapped)
  <2>1. UNCHANGED <<respBody, filler, pool>>
    BY <1>8 DEF X!Start
  <2>2. BufferType' /\ Filled' /\ \A q \in Requests : Holds(q)'
    BY <1>1, <1>2, <2>1 DEF BufferType, Filled, Holds
  <2>3. Owes(r)'
    BY <1>1, <1>3, <1>5, <1>8, <2>1 DEF Owes
  <2>4. \A q \in Requests \ {r} : Owes(q)' /\ Answering(q)' /\ Reported(q)'
    BY <1>1, <1>2, <1>3, <2>1, OthersServed
  <2> QED  BY <1>4, <1>6, <2>2, <2>3, <2>4 DEF ExchangeInv
<1> QED  BY <1>7, <1>8

LEMMA ReadBodyKeeps ==
    ASSUME ExchangeInv, NEW r \in Requests, X!ReadBody(r)
    PROVE  ExchangeInv'
<1>1. /\ pc[r] = "body" /\ pc' = [pc EXCEPT ![r] = "handler"]
      /\ UNCHANGED <<adapter, captures, length, owned, wrote, status, wire, written, error, level>>
      /\ UNCHANGED <<respBody, again, event, emitted>>
  BY DEF X!ReadBody, X!config, X!answer, X!record, X!outcome
<1>2. /\ ExchangeType /\ BufferType /\ Filled
      /\ \A q \in Requests : Owes(q) /\ Holds(q) /\ Answering(q) /\ Reported(q)
  BY DEF ExchangeInv
<1>3. /\ pc'[r] = "handler" /\ \A q \in Requests \ {r} : pc'[q] = pc[q]
      /\ (X!Wrapped' <=> X!Wrapped) /\ (X!Direct' <=> X!Direct)
  BY <1>1, <1>2 DEF ExchangeType, X!Wrapped, X!Direct, X!Adapter, X!Policy
<1>4. ExchangeType'
  BY <1>1, <1>2 DEF ExchangeType, Serving
<1>5. reqBody[r] = None /\ rest[r] = None /\ (captures /\ X!Wrapped => respBody[r] # None)
  BY <1>1, <1>2 DEF Owes, Serving
<1>6. Answering(r)' /\ Reported(r)'
  BY <1>1, <1>2, <1>3 DEF Answering, Sent, Reported
<1>7. CASE X!ReadsBody(r)
  <2>1. PICK b \in X!Get :
          /\ filler' = [filler EXCEPT ![b] = r]
          /\ rest' = [rest EXCEPT ![r] = IF X!Adapter.rest THEN b ELSE None]
          /\ IF X!Kept THEN reqBody' = [reqBody EXCEPT ![r] = b] /\ pool' = pool \ {b}
             ELSE UNCHANGED reqBody /\ pool' = pool \cup {b}
    BY <1>7 DEF X!ReadBody
  <2>2. /\ b \in Buffers /\ b # None
        /\ \A q \in Requests : b \notin {respBody[q], reqBody[q], rest[q]}
    BY GetsFree, NoValue
  <2>3. \A q \in Requests \ {r} : reqBody'[q] = reqBody[q] /\ rest'[q] = rest[q]
    BY <1>2, <2>1 DEF BufferType
  <2>4. \A q \in Requests \ {r} : Owes(q)' /\ Answering(q)' /\ Reported(q)'
    BY <1>1, <1>2, <1>3, <2>3, OthersServed
  <2>5. CASE X!Kept
    <3>1. BufferType' /\ Filled'
      BY <1>1, <1>2, <2>1, <2>2, <2>5, NoValue DEF BufferType, Filled
    <3>2. Owes(r)'
      BY <1>1, <1>2, <1>3, <1>5, <2>1, <2>2, <2>5 DEF Owes, BufferType
    <3>3. \A q \in Requests : Holds(q)'
      BY <1>1, <1>2, <1>5, <2>1, <2>2, <2>5 DEF Holds, BufferType
    <3> QED  BY <1>4, <1>6, <2>4, <3>1, <3>2, <3>3 DEF ExchangeInv
  <2>6. CASE ~X!Kept
    <3>1. ~X!Adapter.rest
      BY <1>2, <2>6, HttpKinds DEF X!Kept, ExchangeType
    <3>2. BufferType' /\ Filled'
      BY <1>1, <1>2, <2>1, <2>2, <2>6, NoValue DEF BufferType, Filled
    <3>3. Owes(r)'
      BY <1>1, <1>2, <1>3, <1>5, <2>1, <2>6, <3>1 DEF Owes, BufferType
    <3>4. \A q \in Requests : Holds(q)'
      BY <1>1, <1>2, <2>1, <2>2, <2>6 DEF Holds, BufferType
    <3> QED  BY <1>4, <1>6, <2>4, <3>2, <3>3, <3>4 DEF ExchangeInv
  <2> QED  BY <2>5, <2>6
<1>8. CASE ~X!ReadsBody(r)
  <2>1. UNCHANGED <<filler, rest, reqBody, pool>>
    BY <1>8 DEF X!ReadBody
  <2>2. BufferType' /\ Filled' /\ \A q \in Requests : Holds(q)'
    BY <1>1, <1>2, <2>1 DEF BufferType, Filled, Holds
  <2>3. Owes(r)'
    BY <1>1, <1>3, <1>5, <2>1 DEF Owes
  <2>4. \A q \in Requests \ {r} : Owes(q)' /\ Answering(q)' /\ Reported(q)'
    BY <1>1, <1>2, <1>3, <2>1, OthersServed
  <2> QED  BY <1>4, <1>6, <2>2, <2>3, <2>4 DEF ExchangeInv
<1> QED  BY <1>7, <1>8

LEMMA EndKeepsExchange ==
    ASSUME ExchangeInv, NEW r \in Requests, X!End(r)
    PROVE  ExchangeInv'
<1>1. /\ pc[r] = "finish" /\ pc' = [pc EXCEPT ![r] = "emitted"]
      /\ UNCHANGED <<adapter, captures, owned, status, written, error, again>> /\ UNCHANGED X!bodies
      /\ emitted' = [emitted EXCEPT ![r] = IF owned[r] THEN @ + 1 ELSE @]
  BY DEF X!End, X!config
<1>2. /\ ExchangeType /\ BufferType /\ Filled
      /\ \A q \in Requests : Owes(q) /\ Holds(q) /\ Answering(q) /\ Reported(q)
  BY DEF ExchangeInv
<1>3. /\ pc'[r] = "emitted" /\ \A q \in Requests \ {r} : pc'[q] = pc[q]
      /\ (X!Wrapped' <=> X!Wrapped) /\ (X!Direct' <=> X!Direct)
      /\ X!Wrapped <=> X!Adapter.writer = "wrapped"
      /\ X!Direct <=> X!Adapter.writer # "buffered"
      /\ X!Adapter.writer \in {"wrapped", "gin", "buffered"}
  BY <1>1, <1>2, HttpKinds DEF ExchangeType, X!Wrapped, X!Direct, X!Adapter, X!Policy
<1>4. UNCHANGED <<reqBody, respBody, rest, pool, filler>>
  BY <1>1 DEF X!bodies
<1>5. /\ level' = [level EXCEPT ![r] =
             IF X!LevelFor(status[r], error[r]) = "none" THEN @ ELSE X!LevelFor(status[r], error[r])]
      /\ event' = [event EXCEPT ![r] =
             [status |-> status[r], level |-> level'[r],
              cut |-> respBody[r] # None /\ X!Cut(written[r]), failed |-> error[r] # None]]
  BY DEF X!End
<1>6. /\ wrote' \in [Requests -> BOOLEAN] /\ DOMAIN wire' = Requests
      /\ \A q \in Requests \ {r} : wrote'[q] = wrote[q] /\ wire'[q] = wire[q]
      /\ Answering(r)'
  <2>1. CASE X!Adapter.writer = "gin" /\ ~wrote[r]
    <3>1. /\ wrote' = [wrote EXCEPT ![r] = TRUE]
          /\ wire' = [wire EXCEPT ![r] = IF @ = None /\ status[r] \notin Informational THEN status[r] ELSE @]
      BY <2>1 DEF X!End, X!Commit
    <3>2. wire[r] = None /\ X!Direct /\ ~X!Wrapped
      BY <1>1, <1>2, <1>3, <2>1 DEF Answering
    <3>3. wrote'[r] /\ Sent(r)'
      BY <1>1, <1>2, <3>1, <3>2 DEF Sent, ExchangeType
    <3> QED  BY <1>2, <1>3, <3>1, <3>2, <3>3 DEF Answering, ExchangeType
  <2>2. CASE ~(X!Adapter.writer = "gin" /\ ~wrote[r])
    <3>1. UNCHANGED <<wrote, wire>>
      BY <2>2 DEF X!End
    <3>2. X!Direct /\ ~X!Wrapped => wrote[r]
      BY <1>3, <2>2
    <3> QED  BY <1>1, <1>2, <1>3, <3>1, <3>2 DEF Answering, Sent, ExchangeType
  <2> QED  BY <2>1, <2>2
<1>7. Reported(r)'
  <2>1. event'[r] = [status |-> status[r], level |-> level'[r],
                     cut |-> respBody[r] # None /\ X!Cut(written[r]), failed |-> error[r] # None]
    BY <1>2, <1>5 DEF ExchangeType
  <2>2. error[r] # None => level'[r] # "info"
    BY <1>2, <1>5 DEF ExchangeType, X!LevelFor
  <2>3. captures /\ X!Wrapped /\ written[r] > MaxBody => respBody[r] # None /\ X!Cut(written[r])
    BY <1>1, <1>2, ExchangeAssumption DEF Owes, Serving, X!Cut, ExchangeType, X!ExchangeAssumption
  <2>4. emitted'[r] = IF owned[r] THEN 1 ELSE 0
    BY <1>1, <1>2 DEF Reported, ExchangeType
  <2>5. /\ event'[r].status = status[r]
        /\ event'[r].level = level'[r]
        /\ error[r] # None => event'[r].failed
        /\ captures /\ X!Wrapped /\ written[r] > MaxBody => event'[r].cut
    <3>1. /\ event'[r].status = status[r]
          /\ event'[r].level = level'[r]
          /\ event'[r].cut = (respBody[r] # None /\ X!Cut(written[r]))
          /\ event'[r].failed = (error[r] # None)
      BY <2>1
    <3> QED  BY <2>3, <3>1
  <2>6. /\ pc'[r] = "emitted" /\ status'[r] = status[r] /\ error'[r] = error[r] /\ owned'[r] = owned[r]
        /\ (captures' <=> captures) /\ written'[r] = written[r]
    BY <1>1, <1>3
  <2>7. Reported(r)' = (/\ pc'[r] \notin {"emitted", "done"} => emitted'[r] = 0
                        /\ pc'[r] \in {"emitted", "done"} =>
                             /\ event'[r].status = status'[r] /\ emitted'[r] = IF owned'[r] THEN 1 ELSE 0
                             /\ error'[r] # None => event'[r].failed /\ event'[r].level # "info"
                             /\ captures' /\ X!Wrapped' /\ written'[r] > MaxBody => event'[r].cut)
    BY DEF Reported
  <2>8. captures' /\ X!Wrapped' /\ written'[r] > MaxBody => event'[r].cut
    BY <1>3, <2>5, <2>6
  <2>9. /\ event'[r].status = status'[r] /\ emitted'[r] = IF owned'[r] THEN 1 ELSE 0
        /\ error'[r] # None => event'[r].failed /\ event'[r].level # "info"
    BY <2>2, <2>4, <2>5, <2>6
  <2> QED  BY <2>6, <2>7, <2>8, <2>9
<1>8. ExchangeType' /\ BufferType' /\ Filled'
  <2>1. DOMAIN level' = Requests /\ DOMAIN event' = Requests /\ DOMAIN error' = Requests
    BY <1>1, <1>2, <1>5 DEF ExchangeType
  <2>2. emitted' \in [Requests -> Nat]
    BY <1>1, <1>2 DEF ExchangeType
  <2>3. pc' \in [Requests -> Serving \cup {"absent", "start", "done"}]
    BY <1>1, <1>2 DEF ExchangeType, Serving
  <2>4. /\ adapter' \in HttpAdapters /\ captures' \in BOOLEAN /\ owned' \in [Requests -> BOOLEAN]
        /\ status' \in [Requests -> X!Codes \cup Informational \cup {101}]
        /\ written' \in [Requests -> Nat] /\ again' \in [Requests -> BOOLEAN]
    BY <1>1, <1>2 DEF ExchangeType
  <2>5. BufferType' /\ Filled'
    BY <1>2, <1>4 DEF BufferType, Filled
  <2> QED  BY <1>6, <2>1, <2>2, <2>3, <2>4, <2>5 DEF ExchangeType
<1>9. (\A q \in Requests : Holds(q)') /\ Owes(r)'
  BY <1>1, <1>2, <1>3, <1>4 DEF Holds, Owes, Serving
<1>10. \A q \in Requests \ {r} : Owes(q)' /\ Answering(q)' /\ Reported(q)'
  <2>1. \A q \in Requests \ {r} : event'[q] = event[q] /\ emitted'[q] = emitted[q]
    BY <1>1, <1>2, <1>5 DEF ExchangeType
  <2> QED  BY <1>1, <1>2, <1>3, <1>4, <1>6, <2>1, OthersServed
<1> QED  BY <1>6, <1>7, <1>8, <1>9, <1>10 DEF ExchangeInv

LEMMA ReturnKeeps ==
    ASSUME ExchangeInv, NEW r \in Requests, X!Return(r)
    PROVE  ExchangeInv'
<1>1. /\ pc[r] = "emitted" /\ pc' = [pc EXCEPT ![r] = "done"]
      /\ UNCHANGED <<adapter, captures, owned, wrote, status, written, error, level>>
      /\ UNCHANGED <<filler, again, event, emitted>>
      /\ pool' = pool \cup X!Released(r)
      /\ reqBody' = [reqBody EXCEPT ![r] = None] /\ respBody' = [respBody EXCEPT ![r] = None]
      /\ rest' = [rest EXCEPT ![r] = None]
      /\ wire' = [wire EXCEPT ![r] = IF @ # None THEN @ ELSE IF again[r] THEN Cutoff
                                      ELSE IF X!Wrapped THEN 200 ELSE status[r]]
  BY DEF X!Return, X!config, X!record, X!outcome
<1>2. /\ ExchangeType /\ BufferType /\ Filled
      /\ \A q \in Requests : Owes(q) /\ Holds(q) /\ Answering(q) /\ Reported(q)
  BY DEF ExchangeInv
<1>3. /\ pc'[r] = "done" /\ \A q \in Requests \ {r} : pc'[q] = pc[q]
      /\ (X!Wrapped' <=> X!Wrapped) /\ (X!Direct' <=> X!Direct) /\ (X!Wrapped => X!Direct)
  BY <1>1, <1>2, HttpKinds DEF ExchangeType, X!Wrapped, X!Direct, X!Adapter, X!Policy
<1>4. ExchangeType'
  BY <1>1, <1>2 DEF ExchangeType, Serving
<1>5. \A b \in X!Released(r) : b \in Buffers /\ filler[b] = r
  BY <1>2 DEF X!Released, Holds, BufferType
<1>6. BufferType' /\ Filled'
  BY <1>1, <1>2, <1>5, NoValue DEF BufferType, Filled
<1>7. \A q \in Requests : Holds(q)'
  BY <1>1, <1>2, <1>5, NoValue DEF Holds, BufferType
<1>8. Owes(r)'
  BY <1>1, <1>2, <1>3 DEF Owes, Serving, BufferType
<1>9. Answering(r)'
  <2>1. wire'[r] = Cutoff \/ Sent(r)'
    <3>1. CASE wire[r] # None
      <4>1. wire'[r] = wire[r]
        BY <1>1, <1>2, <3>1 DEF ExchangeType
      <4>2. Sent(r)
        BY <1>1, <1>2, <3>1 DEF Answering
      <4> QED  BY <1>1, <4>1, <4>2 DEF Sent
    <3>2. CASE wire[r] = None /\ X!Wrapped
      <4>1. wire'[r] \in {Cutoff, 200}
        BY <1>1, <1>2, <3>2 DEF ExchangeType
      <4>2. status[r] = 200 \/ status[r] \in Informational
        <5>1. CASE wrote[r]
          <6>1. Sent(r) /\ status[r] \in X!Codes \cup Informational \cup {101}
            BY <1>1, <1>2, <1>3, <3>2, <5>1 DEF Answering, ExchangeType
          <6> QED  BY <3>2, <6>1, NoValue DEF Sent, X!Codes
        <5>2. CASE ~wrote[r]
          BY <1>2, <3>2, <5>2 DEF Answering
        <5> QED  BY <5>1, <5>2
      <4> QED  BY <1>1, <4>1, <4>2 DEF Sent
    <3>3. CASE wire[r] = None /\ ~X!Wrapped
      BY <1>1, <1>2, <3>3 DEF Sent, ExchangeType
    <3> QED  BY <3>1, <3>2, <3>3
  <2> QED  BY <1>1, <1>2, <1>3, <2>1 DEF Answering
<1>10. Reported(r)'
  BY <1>1, <1>2, <1>3 DEF Reported
<1>11. \A q \in Requests \ {r} : Owes(q)' /\ Answering(q)' /\ Reported(q)'
  <2>1. \A q \in Requests \ {r} : /\ reqBody'[q] = reqBody[q] /\ respBody'[q] = respBody[q]
                                  /\ rest'[q] = rest[q] /\ wire'[q] = wire[q]
    BY <1>1, <1>2 DEF BufferType, ExchangeType
  <2> QED  BY <1>1, <1>2, <1>3, <2>1, OthersServed
<1> QED  BY <1>4, <1>6, <1>7, <1>8, <1>9, <1>10, <1>11 DEF ExchangeInv

LEMMA ExchangeStutters ==
    ASSUME ExchangeInv, UNCHANGED X!vars
    PROVE  ExchangeInv'
<1>1. /\ UNCHANGED <<adapter, captures, length, owned, pc, steps, wrote, status, wire, written>>
      /\ UNCHANGED <<error, level, named, reqBody, respBody, rest, pool, filler, again, event, emitted>>
  BY DEF X!vars, X!config, X!answer, X!record, X!bodies, X!outcome
<1>2. /\ ExchangeType /\ BufferType /\ Filled
      /\ \A q \in Requests : Owes(q) /\ Holds(q) /\ Answering(q) /\ Reported(q)
  BY DEF ExchangeInv
<1>3. ExchangeType' /\ BufferType' /\ Filled' /\ \A q \in Requests : Holds(q)'
  BY <1>1, <1>2 DEF ExchangeType, BufferType, Filled, Holds
<1>4. \A q \in Requests : Owes(q)' /\ Answering(q)' /\ Reported(q)'
  BY <1>1, <1>2, OthersServed
<1> QED  BY <1>3, <1>4 DEF ExchangeInv

LEMMA ExchangeNext ==
    ASSUME ExchangeInv, [X!Next]_X!vars
    PROVE  ExchangeInv'
<1>1. CASE X!Next
  <2>1. PICK r \in Requests : \/ X!Start(r) \/ X!ReadBody(r) \/ X!Handle(r) \/ X!Finish(r)
                              \/ X!End(r) \/ X!Return(r)
    BY <1>1 DEF X!Next
  <2> QED  BY <2>1, StartKeeps, ReadBodyKeeps, WriteHeaderKeeps, WriteKeeps, HijackKeeps, LevelNamed,
              FailKeeps, PanicKeeps, EndKeepsExchange, ReturnKeeps DEF X!Handle
<1> QED  BY <1>1, ExchangeStutters

(* What an exchange promises, from the invariant. *)
LEMMA ExchangeTells ==
    ASSUME ExchangeInv
    PROVE  X!BuffersOwned /\ (Informational = {} => X!EventMatchesWire)
<1>1. \A r \in Requests : Owes(r) /\ Holds(r) /\ Answering(r) /\ Reported(r)
  BY DEF ExchangeInv
<1>2. X!BuffersOwned
  BY <1>1 DEF X!BuffersOwned, Owes, Holds
<1>3. Informational = {} => X!EventMatchesWire
  BY <1>1 DEF X!EventMatchesWire, Answering, Sent, Reported
<1> QED  BY <1>2, <1>3

----------------------------------------------------------------------------
(* Calls: where each operation is, what it has told the program, and what the    *)
(* event has of it.                                                               *)

Way(o) == C!P(o).ends
CallType ==
    /\ client \in [C!Ops -> CallAdapters \cup {None}] /\ cpc \in [C!Ops -> {"idle", "open", "over"}]
    /\ DOMAIN outer = C!Ops /\ live \in [C!Ops -> BOOLEAN] /\ ended \in [C!Ops -> BOOLEAN]
    /\ pending \in [C!Ops -> Nat] /\ err \in [C!Ops -> BOOLEAN] /\ done \in [C!Ops -> BOOLEAN]
    /\ broke \in [C!Ops -> BOOLEAN] /\ gaveUp \in [C!Ops -> BOOLEAN] /\ sealed \in BOOLEAN
RecordType ==
    /\ calls \in Seq([op : C!Ops, bad : BOOLEAN]) /\ clate \in Nat
    /\ stats \in [C!Kinds -> [count : Nat, errors : Nat]]

(* Where an operation is, and whether its call has ended. *)
Begun(o) ==
    /\ cpc[o] = "idle" => ~live[o] /\ ~ended[o] /\ ~err[o] /\ ~done[o] /\ ~broke[o] /\ ~gaveUp[o]
    /\ cpc[o] # "idle" => client[o] \in CallAdapters
    /\ outer[o] # None => outer[o] \in C!Ops /\ cpc[outer[o]] # "idle"
    /\ ended[o] => live[o]
Opened(o) == cpc[o] # "idle" =>
    /\ Way(o) # "command" /\ ~gaveUp[o] => (live[o] <=> ~C!Inner(o))
    /\ Way(o) = "command" /\ cpc[o] = "over" => (ended[o] <=> ~C!Inner(o))
    /\ gaveUp[o] => Way(o) = "result"
Finished(o) == cpc[o] # "idle" =>
    /\ Way(o) \in {"result", "report", "command"} /\ cpc[o] = "open" => ~ended[o]
    /\ Way(o) \in {"result", "report"} /\ cpc[o] = "over" /\ ~gaveUp[o] => (ended[o] <=> live[o])
    /\ Way(o) \in {"rows", "stream", "batch"} => (ended[o] <=> live[o] /\ done[o])
    /\ Way(o) \in {"rows", "stream", "batch"} /\ cpc[o] = "over" => done[o]
(* Of a batch: what it has told the program, and what is still to be reported. *)
Batched(o) == cpc[o] # "idle" /\ Way(o) = "batch" =>
    /\ pending[o] = 0 => done[o]
    /\ ~done[o] => (broke[o] <=> err[o])
    /\ done[o] /\ ~broke[o] => pending[o] = 0 /\ ~err[o]

OfKind(k)  == {i \in DOMAIN calls : C!P(calls[i].op).kind = k}
BadOf(k)   == {i \in OfKind(k) : calls[i].bad}
EndedOps   == {o \in C!Ops : ended[o]}
Entered ==
    /\ \A i \in DOMAIN calls : ended[calls[i].op] /\ (calls[i].bad <=> broke[calls[i].op])
    /\ \A i, j \in DOMAIN calls : calls[i].op = calls[j].op => i = j
Summed ==
    /\ Len(calls) + clate = Cardinality(EndedOps)
    /\ \A k \in C!Kinds : stats[k].count = Cardinality(OfKind(k)) /\ stats[k].errors = Cardinality(BadOf(k))

CallInv ==
    /\ CallType /\ RecordType /\ Entered /\ Summed
    /\ \A o \in C!Ops : Begun(o) /\ Opened(o) /\ Finished(o) /\ Batched(o)

LEMMA CallParameters ==
    /\ CallAdapters \subseteq DOMAIN C!Policy /\ MaxOps \in Nat /\ None \notin C!Ops
    /\ C!Ops \subseteq Nat /\ IsFiniteSet(C!Ops) /\ Cardinality(C!Ops) \in Nat
    /\ \A S : C!Cardinality(S) = Cardinality(S)
<1>1. MaxOps \in Nat /\ CallAdapters \subseteq DOMAIN C!Policy /\ None \notin Nat
  BY CallsAssumption DEF C!CallsAssumption
<1>2. C!Ops = 1..MaxOps /\ C!Ops \subseteq Nat
  BY <1>1 DEF C!Ops
<1>3. IsFiniteSet(C!Ops)
  BY <1>1, <1>2, FS_Interval
<1>4. \A S : C!Cardinality(S) = Cardinality(S)
  BY DEF C!Cardinality, Cardinality
<1> QED  BY <1>1, <1>2, <1>3, <1>4, FS_CardinalityType

(* What tells the adapters apart. *)
LEMMA CallKinds ==
    ASSUME NEW a \in CallAdapters
    PROVE  /\ C!Policy[a].kind \in C!Kinds
           /\ C!Policy[a].ends \in {"result", "report", "batch", "rows", "command", "stream"}
           /\ C!Policy[a].skips => C!Policy[a].ends = "result"
           /\ C!Policy[a].ends = "command" => C!Policy[a].kind = "db"
<1> DEFINE Fine(p) == /\ p.kind \in C!Kinds
                      /\ p.ends \in {"result", "report", "batch", "rows", "command", "stream"}
                      /\ p.skips => p.ends = "result"
                      /\ p.ends = "command" => p.kind = "db"
           Fields == {"kind", "ends", "misses", "nests", "alone", "skips"}
<1>1. a \in DOMAIN C!Policy
  BY CallParameters
<1>2. /\ C!Call.kind = "db" /\ C!Call.ends = "result" /\ ~C!Call.skips /\ DOMAIN C!Call = Fields
  BY DEF C!Call
<1>3. /\ C!Queued.kind = "queue" /\ C!Queued.ends = "result" /\ ~C!Queued.skips /\ DOMAIN C!Queued = Fields
  BY <1>2 DEF C!Queued
<1>4. CASE a \in {"gorm", "bun", "pgx", "exec"}
  <2>1. Fine(C!Gorm) /\ Fine(C!Bun) /\ Fine(C!Pgx) /\ Fine(C!Exec)
    BY <1>2 DEF C!Gorm, C!Bun, C!Pgx, C!Exec, C!Kinds
  <2> QED  BY <1>4, <2>1 DEF C!Policy
<1>5. CASE a \in {"rows", "mongo", "redis", "http"}
  <2>1. Fine(C!Rows) /\ Fine(C!Mongo) /\ Fine(C!Redis) /\ Fine(C!HTTP)
    BY <1>2 DEF C!Rows, C!Mongo, C!Redis, C!HTTP, C!Kinds
  <2> QED  BY <1>5, <2>1 DEF C!Policy
<1>6. CASE a \in {"aws", "grpc", "twirp", "connect", "grpcstream", "connectstream"}
  <2>1. /\ Fine(C!AWS) /\ Fine(C!Grpc) /\ Fine(C!Twirp) /\ Fine(C!Connect)
        /\ Fine(C!GrpcStream) /\ Fine(C!ConnectStream)
    BY <1>2 DEF C!AWS, C!Grpc, C!Twirp, C!Connect, C!GrpcStream, C!ConnectStream, C!Kinds
  <2> QED  BY <1>6, <2>1 DEF C!Policy
<1>7. CASE a \in {"saramasync", "confluent", "amqp", "sqs", "nats", "watermill", "asynq"}
  <2>1. C!Policy[a] = C!Queued
    BY <1>7 DEF C!Policy, C!SaramaSync, C!Confluent, C!Amqp, C!Sqs, C!Nats, C!Watermill, C!Asynq
  <2> QED  BY <1>3, <2>1 DEF C!Kinds
<1>8. CASE a \in {"river", "cloudevents", "saramaasync", "pubsub", "franz", "kafkago"}
  <2>1. /\ Fine(C!River) /\ Fine(C!CloudEvents) /\ Fine(C!SaramaAsync) /\ Fine(C!Pubsub)
        /\ Fine(C!Franz) /\ Fine(C!Kafkago)
    BY <1>3 DEF C!River, C!CloudEvents, C!SaramaAsync, C!Pubsub, C!Franz, C!Kafkago, C!Kinds
  <2> QED  BY <1>8, <2>1 DEF C!Policy
<1> QED  BY <1>1, <1>4, <1>5, <1>6, <1>7, <1>8 DEF C!Policy

LEMMA CallStarts == C!Init => CallInv
<1> SUFFICES ASSUME C!Init PROVE CallInv
  OBVIOUS
<1>1. CallType /\ RecordType
  <2>1. CallType
    BY DEF C!Init, CallType
  <2>2. stats \in [C!Kinds -> [count : Nat, errors : Nat]]
    BY DEF C!Init
  <2>3. calls \in Seq([op : C!Ops, bad : BOOLEAN]) /\ clate \in Nat
    BY DEF C!Init
  <2> QED  BY <2>1, <2>2, <2>3 DEF RecordType
<1>2. calls = <<>> /\ DOMAIN calls = {} /\ Len(calls) = 0 /\ clate = 0
  BY DEF C!Init
<1>3. Entered
  BY <1>2 DEF Entered
<1>4. Summed
  <2>1. EndedOps = {} /\ \A k : OfKind(k) = {} /\ BadOf(k) = {}
    BY <1>2 DEF EndedOps, OfKind, BadOf, C!Init
  <2>2. Cardinality(EndedOps) = 0 /\ \A k : Cardinality(OfKind(k)) = 0 /\ Cardinality(BadOf(k)) = 0
    BY <2>1, FS_EmptySet
  <2>3. \A k \in C!Kinds : stats[k].count = 0 /\ stats[k].errors = 0
    BY DEF C!Init
  <2> QED  BY <1>2, <2>2, <2>3 DEF Summed
<1>5. ASSUME NEW o \in C!Ops PROVE Begun(o) /\ Opened(o) /\ Finished(o) /\ Batched(o)
  <2>1. /\ cpc[o] = "idle" /\ outer[o] = None /\ ~live[o] /\ ~ended[o] /\ ~err[o] /\ ~done[o]
        /\ ~broke[o] /\ ~gaveUp[o]
    BY DEF C!Init
  <2> QED  BY <2>1 DEF Begun, Opened, Finished, Batched
<1> QED  BY <1>1, <1>3, <1>4, <1>5 DEF CallInv

(* The parts of an operation that a step on another one leaves. *)
LEMMA OthersCalled ==
    ASSUME NEW o \in C!Ops, Begun(o), Opened(o), Finished(o), Batched(o),
           \A p \in C!Ops : cpc[p] # "idle" => cpc'[p] # "idle" /\ client'[p] = client[p],
           cpc'[o] = cpc[o], outer'[o] = outer[o], pending'[o] = pending[o],
           live'[o] <=> live[o], ended'[o] <=> ended[o], err'[o] <=> err[o], done'[o] <=> done[o],
           broke'[o] <=> broke[o], gaveUp'[o] <=> gaveUp[o]
    PROVE  Begun(o)' /\ Opened(o)' /\ Finished(o)' /\ Batched(o)'
<1>1. Begun(o)'
  <2>1. cpc[o] # "idle" => client'[o] \in CallAdapters
    BY DEF Begun
  <2>2. outer[o] # None => outer[o] \in C!Ops /\ cpc'[outer[o]] # "idle"
    BY DEF Begun
  <2> QED  BY <2>1, <2>2 DEF Begun
<1>2. CASE cpc[o] = "idle"
  BY <1>1, <1>2 DEF Opened, Finished, Batched
<1>3. CASE cpc[o] # "idle"
  <2>1. C!P(o)' = C!P(o) /\ Way(o)' = Way(o)
    BY <1>3 DEF C!P, Way
  <2>2. C!Inner(o)' <=> C!Inner(o)
    <3>1. outer[o] # None => C!P(outer[o])' = C!P(outer[o])
      BY DEF Begun, C!P
    <3>2. CASE outer[o] = None
      BY <3>2 DEF C!Inner
    <3>3. CASE outer[o] # None
      <4>1. C!Inner(o) <=> C!P(o).alone \/ C!P(outer[o]).kind = C!P(o).kind
        BY <3>3 DEF C!Inner
      <4>2. C!Inner(o)' <=> C!P(o)'.alone \/ C!P(outer[o])'.kind = C!P(o)'.kind
        BY <3>3 DEF C!Inner
      <4> QED  BY <2>1, <3>1, <3>3, <4>1, <4>2
    <3> QED  BY <3>2, <3>3
  <2>3. Opened(o)'
    BY <1>3, <2>1, <2>2 DEF Opened
  <2>4. Finished(o)'
    BY <1>3, <2>1 DEF Finished
  <2>5. Batched(o)'
    BY <1>3, <2>1 DEF Batched
  <2> QED  BY <1>1, <2>3, <2>4, <2>5
<1> QED  BY <1>1, <1>2, <1>3

LEMMA RecordsTyped ==
    ASSUME RecordType
    PROVE  /\ Len(calls) \in Nat /\ DOMAIN calls = 1..Len(calls) /\ clate \in Nat
           /\ \A i \in DOMAIN calls : calls[i].op \in C!Ops /\ calls[i].bad \in BOOLEAN
           /\ \A k \in C!Kinds : stats[k].count \in Nat /\ stats[k].errors \in Nat
<1>1. calls \in Seq([op : C!Ops, bad : BOOLEAN])
  BY DEF RecordType
<1>2. Len(calls) \in Nat /\ DOMAIN calls = 1..Len(calls)
  BY <1>1
<1>3. \A i \in 1..Len(calls) : calls[i] \in [op : C!Ops, bad : BOOLEAN]
  BY <1>1, ElementOfSeq
<1>4. \A i \in DOMAIN calls : calls[i].op \in C!Ops /\ calls[i].bad \in BOOLEAN
  BY <1>2, <1>3
<1>5. \A k \in C!Kinds : stats[k] \in [count : Nat, errors : Nat]
  BY DEF RecordType
<1> QED  BY <1>2, <1>4, <1>5 DEF RecordType

(* What the event has of the calls, when a step records none. *)
LEMMA NothingEntered ==
    ASSUME CallInv, UNCHANGED <<ended, calls, stats, clate>>, broke' \in [C!Ops -> BOOLEAN],
           \A o \in C!Ops : cpc[o] # "idle" => client'[o] = client[o],
           \A o \in C!Ops : ended[o] => (broke'[o] <=> broke[o])
    PROVE  RecordType' /\ Entered' /\ Summed'
<1>1. /\ RecordType /\ Entered /\ Summed /\ \A o \in C!Ops : Begun(o)
  BY DEF CallInv
<1>2. RecordType'
  BY <1>1 DEF RecordType
<1>3. \A i \in DOMAIN calls : calls[i].op \in C!Ops
  BY <1>1, RecordsTyped
<1>4. Entered'
  BY <1>1, <1>3 DEF Entered
<1>5. Summed'
  <2>1. EndedOps' = EndedOps
    BY DEF EndedOps
  <2>2. \A i \in DOMAIN calls : C!P(calls[i].op)' = C!P(calls[i].op)
    BY <1>1, <1>3 DEF Entered, Begun, C!P
  <2>3. \A k : OfKind(k)' = OfKind(k)
    BY <2>2 DEF OfKind
  <2>4. \A k : BadOf(k)' = BadOf(k)
    BY <2>3 DEF BadOf
  <2> QED  BY <1>1, <2>1, <2>3, <2>4 DEF Summed
<1> QED  BY <1>2, <1>4, <1>5

(* recordCall: an operation's call enters the event, or comes after the seal. *)
LEMMA Enters ==
    ASSUME CallInv, NEW o \in C!Ops, NEW rec \in BOOLEAN, NEW bad \in BOOLEAN, NEW kind,
           NEW more \in {0, 1}, more = 1 <=> bad,
           cpc[o] # "idle", ~ended[o], kind = C!P(o).kind,
           ended' = [ended EXCEPT ![o] = rec], UNCHANGED <<client, sealed>>,
           rec /\ ~sealed =>
               /\ calls' = Append(calls, [op |-> o, bad |-> bad])
               /\ stats' = [stats EXCEPT ![kind] = [count |-> @.count + 1, errors |-> @.errors + more]],
           ~rec \/ sealed => UNCHANGED <<calls, stats>>,
           clate' = IF rec /\ sealed THEN clate + 1 ELSE clate,
           broke' \in [C!Ops -> BOOLEAN], \A p \in C!Ops \ {o} : broke'[p] <=> broke[p],
           rec /\ ~sealed => (broke'[o] <=> bad)
    PROVE  RecordType' /\ Entered' /\ Summed'
<1>1. /\ CallType /\ RecordType /\ Entered /\ Summed /\ \A p \in C!Ops : Begun(p)
  BY DEF CallInv
<1>2. /\ Len(calls) \in Nat /\ DOMAIN calls = 1..Len(calls)
      /\ \A i \in DOMAIN calls : calls[i].op \in C!Ops /\ ended[calls[i].op] /\ calls[i].op # o
      /\ clate \in Nat
  BY <1>1, RecordsTyped DEF Entered
<1>4. \A p \in C!Ops : C!P(p)' = C!P(p)
  BY DEF C!P
<1>5. \A p \in C!Ops : ended'[p] <=> IF p = o THEN rec ELSE ended[p]
  BY <1>1 DEF CallType
<1>6. /\ IsFiniteSet(EndedOps) /\ Cardinality(EndedOps) \in Nat /\ o \notin EndedOps
      /\ Cardinality(EndedOps \cup {o}) = Cardinality(EndedOps) + 1
  <2>1. IsFiniteSet(EndedOps) /\ o \notin EndedOps
    BY CallParameters, FS_Subset DEF EndedOps
  <2> QED  BY <2>1, FS_AddElement, FS_CardinalityType
<1>10. Len(calls) + clate = Cardinality(EndedOps)
  BY <1>1 DEF Summed
<1>7. CASE ~rec \/ sealed
  <2>1. UNCHANGED <<calls, stats>> /\ clate' = IF rec /\ sealed THEN clate + 1 ELSE clate
    BY <1>2, <1>7
  <2>2. Entered'
    BY <1>1, <1>2, <1>5, <2>1 DEF Entered
  <2>3. \A k : OfKind(k)' = OfKind(k)
    BY <1>2, <1>4, <2>1 DEF OfKind
  <2>4. \A k : BadOf(k)' = BadOf(k)
    BY <2>1, <2>3 DEF BadOf
  <2>5. Len(calls') + clate' = Cardinality(EndedOps')
    <3>1. CASE rec /\ sealed
      <4>1. EndedOps' = EndedOps \cup {o} /\ clate' = clate + 1
        BY <1>5, <2>1, <3>1 DEF EndedOps
      <4>2. Cardinality(EndedOps') = Cardinality(EndedOps) + 1
        BY <1>6, <4>1
      <4>3. Len(calls') = Len(calls)
        BY <2>1
      <4> QED  BY <1>2, <1>6, <1>10, <4>1, <4>2, <4>3
    <3>2. CASE ~rec
      <4>1. EndedOps' = EndedOps /\ clate' = clate
        BY <1>5, <2>1, <3>2 DEF EndedOps
      <4> QED  BY <1>10, <2>1, <4>1
    <3> QED  BY <1>7, <3>1, <3>2
  <2> QED  BY <1>1, <2>1, <2>2, <2>3, <2>4, <2>5 DEF RecordType, Summed
<1>8. CASE rec /\ ~sealed
  <2>0. PICK n \in Nat : n = Len(calls) + 1
    BY <1>2
  <2>1. /\ calls' = Append(calls, [op |-> o, bad |-> bad]) /\ clate' = clate
        /\ stats' = [stats EXCEPT ![kind] = [count |-> @.count + 1, errors |-> @.errors + more]]
    BY <1>2, <1>8
  <2>2. /\ DOMAIN calls' = 1..n /\ Len(calls') = n /\ n \notin DOMAIN calls
        /\ \A i \in DOMAIN calls : calls'[i] = calls[i]
        /\ calls'[n] = [op |-> o, bad |-> bad]
        /\ calls' \in Seq([op : C!Ops, bad : BOOLEAN])
    <3>1. calls \in Seq([op : C!Ops, bad : BOOLEAN]) /\ [op |-> o, bad |-> bad] \in [op : C!Ops, bad : BOOLEAN]
      BY <1>1 DEF RecordType
    <3>2. /\ calls' \in Seq([op : C!Ops, bad : BOOLEAN]) /\ Len(calls') = n
          /\ \A i \in 1..Len(calls) : calls'[i] = calls[i]
          /\ calls'[n] = [op |-> o, bad |-> bad]
      BY <2>0, <2>1, <3>1, AppendProperties
    <3>3. DOMAIN calls' = 1..n /\ n \notin DOMAIN calls
      BY <1>2, <2>0, <3>2
    <3> QED  BY <1>2, <3>2, <3>3
  <2>3. DOMAIN calls' = DOMAIN calls \cup {n}
    BY <1>2, <2>0, <2>2
  <2>4. calls'[n].op = o /\ (calls'[n].bad <=> bad)
    BY <2>2
  <2>5. Entered'
    <3>1. \A i \in DOMAIN calls : calls'[i].op = calls[i].op /\ calls'[i].bad = calls[i].bad
      BY <2>2
    <3>2. \A i \in DOMAIN calls' : ended'[calls'[i].op] /\ (calls'[i].bad <=> broke'[calls'[i].op])
      BY <1>1, <1>2, <1>5, <1>8, <2>3, <2>4, <3>1 DEF Entered
    <3>3. \A i, j \in DOMAIN calls' : calls'[i].op = calls'[j].op => i = j
      BY <1>1, <1>2, <2>3, <2>4, <3>1 DEF Entered
    <3> QED  BY <3>2, <3>3 DEF Entered
  <2>6. kind \in C!Kinds
    BY <1>1, CallKinds DEF C!P, Begun
  <2>7. RecordType'
    <3>1. stats[kind].count + 1 \in Nat /\ stats[kind].errors + more \in Nat
      BY <1>1, <2>6, RecordsTyped
    <3>2. [count |-> stats[kind].count + 1, errors |-> stats[kind].errors + more] \in [count : Nat, errors : Nat]
      BY <3>1
    <3>3. stats' \in [C!Kinds -> [count : Nat, errors : Nat]]
      BY <1>1, <2>1, <2>6, <3>2 DEF RecordType
    <3> QED  BY <1>2, <2>1, <2>2, <3>3 DEF RecordType
  <2>8. Len(calls') + clate' = Cardinality(EndedOps')
    <3>1. EndedOps' = EndedOps \cup {o}
      BY <1>5, <1>8 DEF EndedOps
    <3>2. Cardinality(EndedOps') = Cardinality(EndedOps) + 1
      BY <1>6, <3>1
    <3>3. Len(calls') = Len(calls) + 1 /\ clate' = clate
      BY <2>0, <2>1, <2>2
    <3> QED  BY <1>2, <1>6, <1>10, <3>2, <3>3
  <2>9. ASSUME NEW k \in C!Kinds
        PROVE  stats'[k].count = Cardinality(OfKind(k)') /\ stats'[k].errors = Cardinality(BadOf(k)')
    <3>1. /\ IsFiniteSet(OfKind(k)) /\ n \notin OfKind(k) /\ IsFiniteSet(BadOf(k)) /\ n \notin BadOf(k)
          /\ Cardinality(OfKind(k)) \in Nat /\ Cardinality(BadOf(k)) \in Nat
      <4>1. IsFiniteSet(1..Len(calls))
        BY <1>2, FS_Interval
      <4>2. OfKind(k) \subseteq 1..Len(calls) /\ BadOf(k) \subseteq 1..Len(calls)
        BY <1>2 DEF OfKind, BadOf
      <4> QED  BY <1>2, <2>2, <4>1, <4>2, FS_Subset, FS_CardinalityType
    <3>2. /\ Cardinality(OfKind(k) \cup {n}) = Cardinality(OfKind(k)) + 1
          /\ Cardinality(BadOf(k) \cup {n}) = Cardinality(BadOf(k)) + 1
      BY <3>1, FS_AddElement
    <3>3. \A i \in DOMAIN calls : calls'[i].op = calls[i].op /\ calls'[i].bad = calls[i].bad
      BY <1>2, <2>2
    <3>4. \A i \in DOMAIN calls' : calls'[i].op \in C!Ops
      BY <1>2, <2>3, <2>4, <3>3
    <3>5. OfKind(k)' = {i \in DOMAIN calls \cup {n} : C!P(calls'[i].op).kind = k}
      <4>1. OfKind(k)' = {i \in DOMAIN calls' : (C!Policy[client'[calls'[i].op]]).kind = k}
        BY DEF OfKind, C!P
      <4>2. \A i \in DOMAIN calls' : C!Policy[client'[calls'[i].op]] = C!P(calls'[i].op)
        BY <3>4 DEF C!P
      <4> QED  BY <2>3, <4>1, <4>2
    <3>6. BadOf(k)' = {i \in OfKind(k)' : calls'[i].bad}
      BY DEF BadOf
    <3>7. CASE kind = k
      <4>1. OfKind(k)' = OfKind(k) \cup {n}
        BY <2>4, <3>3, <3>5, <3>7 DEF OfKind
      <4>2. stats'[k].count = stats[k].count + 1 /\ stats'[k].errors = stats[k].errors + more
        BY <1>1, <2>1, <3>7 DEF RecordType
      <4>3. CASE bad
        <5>1. BadOf(k)' = BadOf(k) \cup {n}
          BY <2>4, <3>3, <3>6, <4>1, <4>3 DEF BadOf, OfKind
        <5> QED  BY <1>1, <3>2, <4>1, <4>2, <4>3, <5>1 DEF Summed
      <4>4. CASE ~bad
        <5>1. BadOf(k)' = BadOf(k)
          BY <2>4, <3>3, <3>6, <4>1, <4>4 DEF BadOf, OfKind
        <5>2. more = 0
          BY <4>4
        <5> QED  BY <1>1, <3>1, <3>2, <4>1, <4>2, <5>1, <5>2 DEF Summed
      <4> QED  BY <4>3, <4>4
    <3>8. CASE kind # k
      <4>1. OfKind(k)' = OfKind(k) /\ n \notin OfKind(k)'
        BY <2>4, <3>1, <3>3, <3>5, <3>8 DEF OfKind
      <4>2. BadOf(k)' = BadOf(k)
        BY <3>3, <3>6, <4>1 DEF BadOf, OfKind
      <4>3. stats'[k] = stats[k]
        BY <1>1, <2>1, <3>8 DEF RecordType
      <4> QED  BY <1>1, <4>1, <4>2, <4>3 DEF Summed
    <3> QED  BY <3>7, <3>8
  <2> QED  BY <2>5, <2>7, <2>8, <2>9 DEF Summed
<1> QED  BY <1>7, <1>8

(* The end function, the first time it is called. *)
LEMMA EndsOnce ==
    ASSUME CallInv, NEW o \in C!Ops, NEW bad \in BOOLEAN, cpc[o] # "idle", ~ended[o],
           C!Ends(o, bad), UNCHANGED <<client, sealed>>,
           broke' \in [C!Ops -> BOOLEAN], \A p \in C!Ops \ {o} : broke'[p] <=> broke[p],
           live[o] /\ ~sealed => (broke'[o] <=> bad)
    PROVE  /\ RecordType' /\ Entered' /\ Summed'
           /\ ended' = [ended EXCEPT ![o] = live[o]]
<1>1. CallType /\ RecordType
  BY DEF CallInv
<1>2. live[o] \in BOOLEAN
  BY <1>1 DEF CallType
<1>3. C!One(bad) \in {0, 1} /\ (C!One(bad) = 1 <=> bad)
  BY DEF C!One
<1>4. C!Records(o) <=> live[o]
  BY DEF C!Records
<1>5. ended' = [ended EXCEPT ![o] = live[o]]
  <2>1. ended' = [ended EXCEPT ![o] = ended[o] \/ live[o]]
    BY DEF C!Ends
  <2>2. (ended[o] \/ live[o]) = live[o]
    BY <1>2
  <2> QED  BY <2>1, <2>2
<1>6. live[o] /\ ~sealed =>
          /\ calls' = Append(calls, [op |-> o, bad |-> bad])
          /\ stats' = [stats EXCEPT ![C!P(o).kind] = [count |-> @.count + 1, errors |-> @.errors + C!One(bad)]]
  BY <1>4 DEF C!Ends
<1>7. ~live[o] \/ sealed => UNCHANGED <<calls, stats>>
  BY <1>4 DEF C!Ends
<1>8. clate' = IF live[o] /\ sealed THEN clate + 1 ELSE clate
  <2>1. clate' = clate + C!One(C!Records(o) /\ sealed)
    BY DEF C!Ends
  <2>2. C!One(C!Records(o) /\ sealed) = IF live[o] /\ sealed THEN 1 ELSE 0
    BY <1>4 DEF C!One
  <2>3. clate \in Nat
    BY <1>1, RecordsTyped
  <2> QED  BY <2>1, <2>2, <2>3
<1>9. \A rec \in BOOLEAN, more \in {0, 1} : \A kind :
          /\ kind = C!P(o).kind /\ (more = 1 <=> bad)
          /\ ended' = [ended EXCEPT ![o] = rec]
          /\ rec /\ ~sealed =>
                 /\ calls' = Append(calls, [op |-> o, bad |-> bad])
                 /\ stats' = [stats EXCEPT ![kind] = [count |-> @.count + 1, errors |-> @.errors + more]]
          /\ ~rec \/ sealed => UNCHANGED <<calls, stats>>
          /\ clate' = IF rec /\ sealed THEN clate + 1 ELSE clate
          /\ rec /\ ~sealed => (broke'[o] <=> bad)
          => RecordType' /\ Entered' /\ Summed'
  BY Enters
<1> QED  BY <1>2, <1>3, <1>5, <1>6, <1>7, <1>8, <1>9

Elsewhere(o) == \A p \in C!Ops \ {o} :
    /\ cpc'[p] = cpc[p] /\ pending'[p] = pending[p]
    /\ (live'[p] <=> live[p]) /\ (ended'[p] <=> ended[p]) /\ (err'[p] <=> err[p])
    /\ (done'[p] <=> done[p]) /\ (broke'[p] <=> broke[p]) /\ (gaveUp'[p] <=> gaveUp[p])

(* A step of one operation that has begun. *)
LEMMA OneCall ==
    ASSUME CallInv, NEW o \in C!Ops, cpc[o] = "open", cpc'[o] # "idle", UNCHANGED <<client, outer>>,
           CallType', RecordType', Entered', Summed', Elsewhere(o),
           ended'[o] => live'[o], Opened(o)', Finished(o)', Batched(o)'
    PROVE  CallInv'
<1>1. \A p \in C!Ops : Begun(p) /\ Opened(p) /\ Finished(p) /\ Batched(p)
  BY DEF CallInv
<1>2. \A p \in C!Ops : cpc[p] # "idle" => cpc'[p] # "idle" /\ client'[p] = client[p]
  BY DEF Elsewhere
<1>3. ASSUME NEW p \in C!Ops, p # o PROVE Begun(p)' /\ Opened(p)' /\ Finished(p)' /\ Batched(p)'
  <2>1. /\ cpc'[p] = cpc[p] /\ outer'[p] = outer[p] /\ pending'[p] = pending[p]
        /\ (live'[p] <=> live[p]) /\ (ended'[p] <=> ended[p]) /\ (err'[p] <=> err[p])
        /\ (done'[p] <=> done[p]) /\ (broke'[p] <=> broke[p]) /\ (gaveUp'[p] <=> gaveUp[p])
    BY <1>3 DEF Elsewhere
  <2>2. Begun(p) /\ Opened(p) /\ Finished(p) /\ Batched(p)
    BY <1>1
  <2> QED  BY <1>2, <2>1, <2>2, OthersCalled
<1>4. Begun(o)'
  <2>1. client'[o] \in CallAdapters
    BY <1>1 DEF Begun
  <2>2. outer'[o] # None => outer'[o] \in C!Ops /\ cpc'[outer'[o]] # "idle"
    BY <1>1, <1>2 DEF Begun
  <2> QED  BY <2>1, <2>2 DEF Begun
<1> QED  BY <1>3, <1>4 DEF CallInv

(* What a step of an operation may use of it. *)
LEMMA MyCall ==
    ASSUME CallInv, NEW o \in C!Ops, cpc[o] = "open"
    PROVE  /\ Way(o) \in {"result", "report", "batch", "rows", "command", "stream"}
           /\ Way(o) = "command" => C!P(o).kind = "db"
           /\ C!P(o).skips => Way(o) = "result"
           /\ ended[o] => live[o]
           /\ Way(o) # "command" /\ ~gaveUp[o] => (live[o] <=> ~C!Inner(o))
           /\ gaveUp[o] => Way(o) = "result"
           /\ Way(o) \in {"result", "report", "command"} => ~ended[o]
           /\ Way(o) \in {"rows", "stream", "batch"} => (ended[o] <=> live[o] /\ done[o])
           /\ Way(o) = "batch" => /\ pending[o] = 0 => done[o]
                                  /\ ~done[o] => (broke[o] <=> err[o])
                                  /\ done[o] /\ ~broke[o] => pending[o] = 0 /\ ~err[o]
<1>1. Begun(o) /\ Opened(o) /\ Finished(o) /\ Batched(o)
  BY DEF CallInv
<1>2. client[o] \in CallAdapters
  BY <1>1 DEF Begun
<1>3. /\ Way(o) \in {"result", "report", "batch", "rows", "command", "stream"}
      /\ Way(o) = "command" => C!P(o).kind = "db"
      /\ C!P(o).skips => Way(o) = "result"
  BY <1>2, CallKinds DEF Way, C!P
<1>4. ended[o] => live[o]
  BY <1>1 DEF Begun
<1>5. /\ Way(o) # "command" /\ ~gaveUp[o] => (live[o] <=> ~C!Inner(o))
      /\ gaveUp[o] => Way(o) = "result"
  BY <1>1 DEF Opened
<1>6. /\ Way(o) \in {"result", "report", "command"} => ~ended[o]
      /\ Way(o) \in {"rows", "stream", "batch"} => (ended[o] <=> live[o] /\ done[o])
  BY <1>1 DEF Finished
<1>7. Way(o) = "batch" => /\ pending[o] = 0 => done[o]
                          /\ ~done[o] => (broke[o] <=> err[o])
                          /\ done[o] /\ ~broke[o] => pending[o] = 0 /\ ~err[o]
  BY <1>1 DEF Batched
<1> QED  BY <1>3, <1>4, <1>5, <1>6, <1>7

LEMMA SameCall ==
    ASSUME UNCHANGED <<client, outer>>, NEW o \in C!Ops
    PROVE  Way(o)' = Way(o) /\ (C!Inner(o)' <=> C!Inner(o))
<1>1. Way(o)' = Way(o) /\ C!P(o)' = C!P(o) /\ C!P(outer[o])' = C!P(outer[o])
  BY DEF Way, C!P
<1>2. C!Inner(o) <=> outer[o] # None /\ (C!P(o).alone \/ C!P(outer[o]).kind = C!P(o).kind)
  BY DEF C!Inner
<1>3. C!Inner(o)' <=> outer[o] # None /\ (C!P(o)'.alone \/ C!P(outer[o])'.kind = C!P(o)'.kind)
  BY DEF C!Inner
<1> QED  BY <1>1, <1>2, <1>3

LEMMA SkipKeeps ==
    ASSUME CallInv, NEW o \in C!Ops, C!Skip(o)
    PROVE  CallInv'
<1>1. /\ cpc[o] = "open" /\ C!P(o).skips
      /\ pending' = [pending EXCEPT ![o] = 0]
      /\ UNCHANGED <<client, outer, ended, err, done, calls, stats, clate, sealed>>
  BY DEF C!Skip, C!event
<1>2. \/ UNCHANGED <<cpc, live, broke, gaveUp>>
      \/ /\ cpc' = [cpc EXCEPT ![o] = "over"] /\ live' = [live EXCEPT ![o] = FALSE]
         /\ gaveUp' = [gaveUp EXCEPT ![o] = TRUE] /\ broke' = [broke EXCEPT ![o] = TRUE]
  BY DEF C!Skip, C!Returns
<1>3. Way(o) = "result" /\ ~ended[o] /\ ~ended'[o] /\ Way(o)' = "result"
  BY <1>1, MyCall, SameCall
<1>4. CallType'
  <2>1. CallType
    BY DEF CallInv
  <2> QED  BY <1>1, <1>2, <2>1 DEF CallType
<1>5. Elsewhere(o) /\ cpc'[o] \in {"open", "over"}
  <2>1. CallType
    BY DEF CallInv
  <2> QED  BY <1>1, <1>2, <2>1 DEF CallType, Elsewhere
<1>6. RecordType' /\ Entered' /\ Summed'
  <2>1. \A p \in C!Ops : ended[p] => (broke'[p] <=> broke[p])
    BY <1>3, <1>5 DEF Elsewhere
  <2>2. broke' \in [C!Ops -> BOOLEAN]
    BY <1>4 DEF CallType
  <2> QED  BY <1>1, <2>1, <2>2, NothingEntered
<1>7. Opened(o)'
  <2>1. ~gaveUp'[o] => ~gaveUp[o] /\ (live'[o] <=> live[o])
    <3>1. CallType
      BY DEF CallInv
    <3> QED  BY <1>2, <3>1 DEF CallType
  <2> QED  BY <1>1, <1>3, <2>1, MyCall, SameCall DEF Opened
<1>8. Finished(o)'
  <2>1. cpc'[o] = "over" => gaveUp'[o]
    <3>1. CallType
      BY DEF CallInv
    <3> QED  BY <1>1, <1>2, <3>1 DEF CallType
  <2> QED  BY <1>3, <2>1 DEF Finished
<1>9. Batched(o)'
  BY <1>3 DEF Batched
<1> QED  BY <1>1, <1>3, <1>4, <1>5, <1>6, <1>7, <1>8, <1>9, OneCall

LEMMA AnswerCall ==
    ASSUME CallInv, NEW o \in C!Ops, C!Answer(o)
    PROVE  CallInv'
<1>1. /\ cpc[o] = "open" /\ Way(o) \in {"result", "report"}
      /\ cpc' = [cpc EXCEPT ![o] = "over"]
      /\ UNCHANGED <<client, gaveUp, outer, live, pending, err, done, sealed>>
  BY DEF C!Answer, C!Awaits, C!Returns, C!report, Way
<1>2. PICK bad \in BOOLEAN : C!Ends(o, bad) /\ broke' = [broke EXCEPT ![o] = bad]
  BY DEF C!Answer, C!Failure
<1>3. CallType
  BY DEF CallInv
<1>4. ~ended[o]
  BY <1>1, MyCall
<1>5. /\ broke' \in [C!Ops -> BOOLEAN] /\ (broke'[o] <=> bad)
      /\ \A p \in C!Ops \ {o} : broke'[p] <=> broke[p]
  BY <1>2, <1>3 DEF CallType
<1>6. RecordType' /\ Entered' /\ Summed' /\ ended' = [ended EXCEPT ![o] = live[o]]
  BY <1>1, <1>2, <1>4, <1>5, EndsOnce
<1>7. /\ cpc'[o] = "over" /\ (ended'[o] <=> live[o]) /\ (live'[o] <=> live[o])
      /\ Elsewhere(o)
  BY <1>1, <1>3, <1>5, <1>6 DEF CallType, Elsewhere
<1>8. CallType'
  BY <1>1, <1>3, <1>5, <1>6 DEF CallType
<1>9. Opened(o)' /\ Finished(o)' /\ Batched(o)'
  BY <1>1, <1>7, MyCall, SameCall DEF Opened, Finished, Batched
<1> QED  BY <1>1, <1>6, <1>7, <1>8, <1>9, OneCall

LEMMA FinishedKeeps ==
    ASSUME CallInv, NEW o \in C!Ops, C!Finished(o)
    PROVE  CallInv'
<1>1. /\ cpc[o] = "open" /\ Way(o) = "command"
      /\ cpc' = [cpc EXCEPT ![o] = "over"]
      /\ UNCHANGED <<client, gaveUp, outer, pending, err, done, sealed>>
  BY DEF C!Finished, C!Awaits, C!Returns, C!report, Way
<1>2. /\ CallType /\ ~ended[o] /\ ~gaveUp[o] /\ C!P(o).kind = "db"
      /\ clate \in Nat
  BY <1>1, MyCall, RecordsTyped DEF CallInv
<1>3. PICK opens \in BOOLEAN : opens = C!Opens(client[o], outer[o])
  BY DEF C!Opens
<1>4. opens <=> ~C!Inner(o)
  BY <1>3 DEF C!Opens, C!Inner, C!P
<1>5. PICK bad \in BOOLEAN :
         /\ live' = [live EXCEPT ![o] = opens] /\ ended' = [ended EXCEPT ![o] = opens]
         /\ IF opens /\ ~sealed
            THEN /\ calls' = Append(calls, [op |-> o, bad |-> bad])
                 /\ stats' = [stats EXCEPT !["db"] = [count |-> @.count + 1, errors |-> @.errors + C!One(bad)]]
            ELSE UNCHANGED <<calls, stats>>
         /\ clate' = clate + C!One(opens /\ sealed)
         /\ broke' = [broke EXCEPT ![o] = bad]
  BY <1>3 DEF C!Finished
<1>6. PICK more \in {0, 1} : more = C!One(bad) /\ (more = 1 <=> bad)
  BY DEF C!One
<1>7. clate' = IF opens /\ sealed THEN clate + 1 ELSE clate
  <2>1. C!One(opens /\ sealed) = IF opens /\ sealed THEN 1 ELSE 0
    BY DEF C!One
  <2> QED  BY <1>2, <1>5, <2>1
<1>8. /\ broke' \in [C!Ops -> BOOLEAN] /\ (broke'[o] <=> bad)
      /\ \A p \in C!Ops \ {o} : broke'[p] <=> broke[p]
  BY <1>2, <1>5 DEF CallType
<1>9. RecordType' /\ Entered' /\ Summed'
  <2>1. opens /\ ~sealed =>
            /\ calls' = Append(calls, [op |-> o, bad |-> bad])
            /\ stats' = [stats EXCEPT !["db"] = [count |-> @.count + 1, errors |-> @.errors + more]]
    BY <1>5, <1>6
  <2>2. ~opens \/ sealed => UNCHANGED <<calls, stats>>
    BY <1>5
  <2>3. more = 1 <=> bad
    BY <1>6
  <2>4. cpc[o] # "idle" /\ UNCHANGED <<client, sealed>> /\ ended' = [ended EXCEPT ![o] = opens]
    BY <1>1, <1>5
  <2> QED  BY <1>2, <1>7, <1>8, <2>1, <2>2, <2>3, <2>4, Enters
<1>10. /\ cpc'[o] = "over" /\ (ended'[o] <=> opens) /\ (live'[o] <=> opens)
       /\ (gaveUp'[o] <=> gaveUp[o]) /\ Elsewhere(o)
  BY <1>1, <1>2, <1>5, <1>8 DEF CallType, Elsewhere
<1>11. CallType'
  BY <1>1, <1>2, <1>5, <1>8 DEF CallType
<1>12. Opened(o)' /\ Finished(o)' /\ Batched(o)'
  BY <1>1, <1>2, <1>4, <1>10, SameCall DEF Opened, Finished, Batched
<1> QED  BY <1>1, <1>9, <1>10, <1>11, <1>12, OneCall

LEMMA PanicsCall ==
    ASSUME CallInv, NEW o \in C!Ops, C!Panics(o)
    PROVE  CallInv'
<1>1. /\ cpc[o] = "open" /\ Way(o) = "result"
      /\ gaveUp' = [gaveUp EXCEPT ![o] = TRUE] /\ cpc' = [cpc EXCEPT ![o] = "over"]
      /\ UNCHANGED <<client, outer, live, ended, pending, err, done, calls, stats, clate, sealed, broke>>
  BY DEF C!Panics, C!Awaits, C!Returns, C!handle, C!report, C!event, Way
<1>2. CallType /\ ~ended[o]
  BY <1>1, MyCall DEF CallInv
<1>3. RecordType' /\ Entered' /\ Summed'
  BY <1>1, <1>2, NothingEntered DEF CallType
<1>4. cpc'[o] = "over" /\ gaveUp'[o] /\ ~ended'[o] /\ Elsewhere(o)
  BY <1>1, <1>2 DEF CallType, Elsewhere
<1>5. CallType'
  BY <1>1, <1>2 DEF CallType
<1>6. Opened(o)' /\ Finished(o)' /\ Batched(o)'
  BY <1>1, <1>4, SameCall DEF Opened, Finished, Batched
<1> QED  BY <1>1, <1>3, <1>4, <1>5, <1>6, OneCall

LEMMA NextFailsKeeps ==
    ASSUME CallInv, NEW o \in C!Ops, C!NextFails(o)
    PROVE  CallInv'
<1>1. /\ cpc[o] = "open" /\ Way(o) = "rows" /\ err' = [err EXCEPT ![o] = TRUE]
      /\ UNCHANGED <<client, cpc, gaveUp, outer, live, ended, pending, done, calls, stats, clate, sealed, broke>>
  BY DEF C!NextFails, C!Awaits, C!running, C!handle, C!event, Way
<1>2. CallType
  BY DEF CallInv
<1>3. RecordType' /\ Entered' /\ Summed'
  BY <1>1, <1>2, NothingEntered DEF CallType
<1>4. cpc'[o] = "open" /\ (ended'[o] => live'[o]) /\ Elsewhere(o)
  BY <1>1, <1>2, MyCall DEF CallType, Elsewhere
<1>5. CallType'
  BY <1>1, <1>2 DEF CallType
<1>6. Opened(o)' /\ Finished(o)' /\ Batched(o)'
  BY <1>1, <1>4, MyCall, SameCall DEF Opened, Finished, Batched
<1> QED  BY <1>1, <1>3, <1>4, <1>5, <1>6, OneCall

LEMMA CloseKeeps ==
    ASSUME CallInv, NEW o \in C!Ops, C!Close(o)
    PROVE  CallInv'
<1>1. /\ cpc[o] = "open" /\ Way(o) = "rows"
      /\ done' = [done EXCEPT ![o] = TRUE]
      /\ cpc' = [cpc EXCEPT ![o] = IF done[o] THEN "over" ELSE "open"]
      /\ UNCHANGED <<client, gaveUp, outer, live, pending, err, sealed>>
  BY DEF C!Close, C!Awaits, Way
<1>2. CallType /\ (ended[o] <=> live[o] /\ done[o])
  BY <1>1, MyCall DEF CallInv
<1>3. /\ RecordType' /\ Entered' /\ Summed' /\ (ended'[o] <=> live[o])
      /\ ended' \in [C!Ops -> BOOLEAN] /\ broke' \in [C!Ops -> BOOLEAN]
      /\ \A p \in C!Ops \ {o} : (ended'[p] <=> ended[p]) /\ (broke'[p] <=> broke[p])
  <2>1. CASE done[o]
    <3>1. UNCHANGED <<ended, calls, stats, clate, broke>>
      BY <2>1 DEF C!Close, C!event
    <3> QED  BY <1>1, <1>2, <2>1, <3>1, NothingEntered DEF CallType
  <2>2. CASE ~done[o]
    <3>1. PICK bad \in BOOLEAN : C!Ends(o, bad) /\ broke' = [broke EXCEPT ![o] = bad]
      BY <2>2 DEF C!Close
    <3>2. /\ broke' \in [C!Ops -> BOOLEAN] /\ (broke'[o] <=> bad)
          /\ \A p \in C!Ops \ {o} : broke'[p] <=> broke[p]
      BY <1>2, <3>1 DEF CallType
    <3>3. RecordType' /\ Entered' /\ Summed' /\ ended' = [ended EXCEPT ![o] = live[o]]
      BY <1>1, <1>2, <2>2, <3>1, <3>2, EndsOnce
    <3> QED  BY <1>2, <3>2, <3>3 DEF CallType
  <2> QED  BY <2>1, <2>2
<1>4. /\ cpc'[o] \in {"open", "over"} /\ done'[o] /\ (live'[o] <=> live[o]) /\ (gaveUp'[o] <=> gaveUp[o])
      /\ Elsewhere(o)
  BY <1>1, <1>2, <1>3 DEF CallType, Elsewhere
<1>5. CallType'
  BY <1>1, <1>2, <1>3 DEF CallType
<1>6. Opened(o)' /\ Finished(o)' /\ Batched(o)'
  BY <1>1, <1>3, <1>4, MyCall, SameCall DEF Opened, Finished, Batched
<1> QED  BY <1>1, <1>3, <1>4, <1>5, <1>6, OneCall

LEMMA StreamEndsKeeps ==
    ASSUME CallInv, NEW o \in C!Ops, C!StreamEnds(o)
    PROVE  CallInv'
<1>1. /\ cpc[o] = "open" /\ Way(o) = "stream"
      /\ done' = [done EXCEPT ![o] = TRUE]
      /\ cpc' = [cpc EXCEPT ![o] = IF done[o] THEN "over" ELSE "open"]
      /\ UNCHANGED <<client, gaveUp, outer, live, pending, err, sealed>>
  BY DEF C!StreamEnds, C!Awaits, Way
<1>2. CallType /\ (ended[o] <=> live[o] /\ done[o])
  BY <1>1, MyCall DEF CallInv
<1>3. /\ RecordType' /\ Entered' /\ Summed' /\ (ended'[o] <=> live[o])
      /\ ended' \in [C!Ops -> BOOLEAN] /\ broke' \in [C!Ops -> BOOLEAN]
      /\ \A p \in C!Ops \ {o} : (ended'[p] <=> ended[p]) /\ (broke'[p] <=> broke[p])
  <2>1. CASE done[o]
    <3>1. UNCHANGED <<ended, calls, stats, clate, broke>>
      BY <2>1 DEF C!StreamEnds, C!event
    <3> QED  BY <1>1, <1>2, <2>1, <3>1, NothingEntered DEF CallType
  <2>2. CASE ~done[o]
    <3>1. PICK bad \in BOOLEAN : C!Ends(o, bad) /\ broke' = [broke EXCEPT ![o] = bad]
      BY <2>2 DEF C!StreamEnds
    <3>2. /\ broke' \in [C!Ops -> BOOLEAN] /\ (broke'[o] <=> bad)
          /\ \A p \in C!Ops \ {o} : broke'[p] <=> broke[p]
      BY <1>2, <3>1 DEF CallType
    <3>3. RecordType' /\ Entered' /\ Summed' /\ ended' = [ended EXCEPT ![o] = live[o]]
      BY <1>1, <1>2, <2>2, <3>1, <3>2, EndsOnce
    <3> QED  BY <1>2, <3>2, <3>3 DEF CallType
  <2> QED  BY <2>1, <2>2
<1>4. /\ cpc'[o] \in {"open", "over"} /\ done'[o] /\ (live'[o] <=> live[o]) /\ (gaveUp'[o] <=> gaveUp[o])
      /\ Elsewhere(o)
  BY <1>1, <1>2, <1>3 DEF CallType, Elsewhere
<1>5. CallType'
  BY <1>1, <1>2, <1>3 DEF CallType
<1>6. Opened(o)' /\ Finished(o)' /\ Batched(o)'
  BY <1>1, <1>3, <1>4, MyCall, SameCall DEF Opened, Finished, Batched
<1> QED  BY <1>1, <1>3, <1>4, <1>5, <1>6, OneCall

LEMMA ReportKeeps ==
    ASSUME CallInv, NEW o \in C!Ops, C!Report(o)
    PROVE  CallInv'
<1>1. /\ cpc[o] = "open" /\ Way(o) = "batch" /\ pending[o] > 0
      /\ UNCHANGED <<client, cpc, gaveUp, outer, live, sealed>>
  BY DEF C!Report, C!Awaits, C!running, Way
<1>2. /\ CallType /\ (ended[o] <=> live[o] /\ done[o])
      /\ ~done[o] => (broke[o] <=> err[o])
      /\ done[o] /\ ~broke[o] => pending[o] = 0 /\ ~err[o]
  BY <1>1, MyCall DEF CallInv
<1>3. PICK n \in 1..pending[o], fail \in BOOLEAN :
         /\ err[o] => fail
         /\ pending' = [pending EXCEPT ![o] = pending[o] - n] /\ err' = [err EXCEPT ![o] = fail]
         /\ broke' = [broke EXCEPT ![o] = broke[o] \/ fail]
         /\ IF ~done[o] /\ pending[o] - n = 0
            THEN done' = [done EXCEPT ![o] = TRUE] /\ C!Ends(o, fail)
            ELSE UNCHANGED <<done, ended, calls, stats, clate>>
  <2>1. PICK n \in 1..pending[o], bad \in BOOLEAN :
           /\ pending' = [pending EXCEPT ![o] = pending[o] - n]
           /\ err' = [err EXCEPT ![o] = err[o] \/ bad]
           /\ broke' = [broke EXCEPT ![o] = broke[o] \/ (err[o] \/ bad)]
           /\ IF ~done[o] /\ pending[o] - n = 0
              THEN done' = [done EXCEPT ![o] = TRUE] /\ C!Ends(o, err[o] \/ bad)
              ELSE UNCHANGED <<done, ended, calls, stats, clate>>
    BY DEF C!Report, C!Finishes, C!event
  <2>2. PICK fail \in BOOLEAN : fail = (err[o] \/ bad)
    OBVIOUS
  <2> QED  BY <2>1, <2>2
<1>4. /\ pending' \in [C!Ops -> Nat] /\ err' \in [C!Ops -> BOOLEAN] /\ broke' \in [C!Ops -> BOOLEAN]
      /\ pending'[o] = pending[o] - n /\ (err'[o] <=> fail) /\ (broke'[o] <=> broke[o] \/ fail)
      /\ \A p \in C!Ops \ {o} : pending'[p] = pending[p] /\ (err'[p] <=> err[p]) /\ (broke'[p] <=> broke[p])
  <2>1. pending[o] \in Nat /\ pending[o] - n \in Nat
    BY <1>2 DEF CallType
  <2>2. pending' \in [C!Ops -> Nat] /\ pending'[o] = pending[o] - n /\ \A p \in C!Ops \ {o} : pending'[p] = pending[p]
    BY <1>2, <1>3, <2>1 DEF CallType
  <2>3. /\ err' \in [C!Ops -> BOOLEAN] /\ broke' \in [C!Ops -> BOOLEAN]
        /\ (err'[o] <=> fail) /\ (broke'[o] <=> broke[o] \/ fail)
        /\ \A p \in C!Ops \ {o} : (err'[p] <=> err[p]) /\ (broke'[p] <=> broke[p])
    BY <1>2, <1>3 DEF CallType
  <2> QED  BY <2>2, <2>3
<1>5. /\ RecordType' /\ Entered' /\ Summed'
      /\ ended' \in [C!Ops -> BOOLEAN] /\ done' \in [C!Ops -> BOOLEAN]
      /\ (ended'[o] <=> live[o] /\ done'[o]) /\ (done[o] => done'[o])
      /\ done'[o] <=> done[o] \/ pending'[o] = 0
      /\ \A p \in C!Ops \ {o} : (ended'[p] <=> ended[p]) /\ (done'[p] <=> done[p])
  <2>1. CASE ~done[o] /\ pending[o] - n = 0
    <3>1. done' = [done EXCEPT ![o] = TRUE] /\ C!Ends(o, fail)
      BY <1>3, <2>1
    <3>2. broke'[o] <=> fail
      BY <1>2, <1>3, <1>4, <2>1
    <3>3. \A p \in C!Ops \ {o} : broke'[p] <=> broke[p]
      BY <1>4
    <3>4. RecordType' /\ Entered' /\ Summed' /\ ended' = [ended EXCEPT ![o] = live[o]]
      BY <1>1, <1>2, <1>4, <2>1, <3>1, <3>2, <3>3, EndsOnce
    <3>5. pending'[o] = 0
      BY <1>4, <2>1
    <3> QED  BY <1>2, <2>1, <3>1, <3>4, <3>5 DEF CallType
  <2>2. CASE ~(~done[o] /\ pending[o] - n = 0)
    <3>1. UNCHANGED <<done, ended, calls, stats, clate>>
      BY <1>3, <2>2
    <3>2. \A p \in C!Ops : ended[p] => (broke'[p] <=> broke[p])
      BY <1>1, <1>2, <1>4
    <3>3. RecordType' /\ Entered' /\ Summed'
      BY <1>1, <1>4, <3>1, <3>2, NothingEntered
    <3>4. pending'[o] = 0 => done[o]
      BY <1>4, <2>2
    <3> QED  BY <1>2, <3>1, <3>3, <3>4 DEF CallType
  <2> QED  BY <2>1, <2>2
<1>6. (cpc'[o] = "open") /\ (live'[o] <=> live[o]) /\ (gaveUp'[o] <=> gaveUp[o]) /\ Elsewhere(o)
  BY <1>1, <1>4, <1>5 DEF Elsewhere
<1>7. CallType'
  BY <1>1, <1>2, <1>4, <1>5 DEF CallType
<1>8. Opened(o)' /\ Finished(o)'
  BY <1>1, <1>5, <1>6, MyCall, SameCall DEF Opened, Finished
<1>9. Batched(o)'
  <2>1. ~done'[o] => (broke'[o] <=> err'[o])
    BY <1>2, <1>3, <1>4, <1>5
  <2>2. done'[o] /\ ~broke'[o] => pending'[o] = 0 /\ ~err'[o]
    <3>1. ~broke'[o] => ~broke[o] /\ ~err'[o]
      BY <1>4
    <3>2. done[o] => broke[o]
      BY <1>1, <1>2
    <3> QED  BY <1>5, <3>1, <3>2
  <2> QED  BY <1>5, <2>1, <2>2 DEF Batched
<1> QED  BY <1>1, <1>5, <1>6, <1>7, <1>8, <1>9, OneCall

LEMMA WrittenKeeps ==
    ASSUME CallInv, NEW o \in C!Ops, C!Written(o)
    PROVE  CallInv'
<1>1. /\ cpc[o] = "open" /\ Way(o) = "batch"
      /\ cpc' = [cpc EXCEPT ![o] = IF pending[o] = 0 THEN "over" ELSE cpc[o]]
      /\ UNCHANGED <<client, gaveUp, outer, live, pending, err, sealed>>
  BY DEF C!Written, C!Awaits, Way
<1>2. /\ CallType /\ (ended[o] <=> live[o] /\ done[o])
      /\ pending[o] = 0 => done[o]
      /\ ~done[o] => (broke[o] <=> err[o])
      /\ done[o] /\ ~broke[o] => pending[o] = 0 /\ ~err[o]
  BY <1>1, MyCall DEF CallInv
<1>3. PICK bad \in BOOLEAN :
         /\ pending[o] > 0 => bad /\ ~done[o]
         /\ pending[o] = 0 => (bad <=> err[o])
         /\ IF bad /\ ~done[o] THEN C!Ends(o, TRUE) /\ done' = [done EXCEPT ![o] = TRUE]
            ELSE UNCHANGED <<done, ended, calls, stats, clate>>
         /\ broke' = [broke EXCEPT ![o] = broke[o] \/ bad]
  BY DEF C!Written, C!event
<1>4. /\ broke' \in [C!Ops -> BOOLEAN] /\ (broke'[o] <=> broke[o] \/ bad)
      /\ \A p \in C!Ops \ {o} : broke'[p] <=> broke[p]
  BY <1>2, <1>3 DEF CallType
<1>5. pending[o] = 0 \/ pending[o] > 0
  BY <1>2 DEF CallType
<1>6. /\ RecordType' /\ Entered' /\ Summed'
      /\ ended' \in [C!Ops -> BOOLEAN] /\ done' \in [C!Ops -> BOOLEAN]
      /\ (ended'[o] <=> live[o] /\ done'[o]) /\ done'[o]
      /\ \A p \in C!Ops \ {o} : (ended'[p] <=> ended[p]) /\ (done'[p] <=> done[p])
  <2>1. CASE bad /\ ~done[o]
    <3>1. C!Ends(o, TRUE) /\ done' = [done EXCEPT ![o] = TRUE] /\ (broke'[o] <=> TRUE)
      BY <1>3, <1>4, <2>1
    <3>2. RecordType' /\ Entered' /\ Summed' /\ ended' = [ended EXCEPT ![o] = live[o]]
      BY <1>1, <1>2, <1>4, <2>1, <3>1, EndsOnce
    <3> QED  BY <1>2, <3>1, <3>2 DEF CallType
  <2>2. CASE ~(bad /\ ~done[o])
    <3>1. UNCHANGED <<done, ended, calls, stats, clate>>
      BY <1>3, <2>2
    <3>2. done[o] /\ pending[o] = 0 /\ (bad <=> err[o])
      BY <1>2, <1>3, <1>5, <2>2
    <3>3. broke'[o] <=> broke[o]
      BY <1>2, <1>4, <3>2
    <3>4. RecordType' /\ Entered' /\ Summed'
      BY <1>1, <1>4, <3>1, <3>3, NothingEntered
    <3> QED  BY <1>2, <3>1, <3>2, <3>4 DEF CallType
  <2> QED  BY <2>1, <2>2
<1>7. /\ cpc'[o] \in {"open", "over"} /\ (live'[o] <=> live[o]) /\ (gaveUp'[o] <=> gaveUp[o])
      /\ (err'[o] <=> err[o]) /\ pending'[o] = pending[o] /\ Elsewhere(o)
  BY <1>1, <1>2, <1>4, <1>6 DEF CallType, Elsewhere
<1>8. CallType'
  BY <1>1, <1>2, <1>4, <1>6 DEF CallType
<1>9. Opened(o)' /\ Finished(o)'
  BY <1>1, <1>6, <1>7, MyCall, SameCall DEF Opened, Finished
<1>10. Batched(o)'
  <2>1. ~broke'[o] => pending[o] = 0 /\ ~err[o]
    <3>1. ~broke'[o] => ~broke[o] /\ ~bad
      BY <1>4
    <3>2. ~bad => pending[o] = 0
      BY <1>3, <1>5
    <3> QED  BY <1>3, <3>1, <3>2
  <2> QED  BY <1>6, <1>7, <2>1 DEF Batched
<1> QED  BY <1>1, <1>6, <1>7, <1>8, <1>9, <1>10, OneCall

LEMMA BeginKeeps ==
    ASSUME CallInv, NEW o \in C!Ops, C!Begin(o)
    PROVE  CallInv'
<1>1. /\ cpc[o] = "idle" /\ cpc' = [cpc EXCEPT ![o] = "open"]
      /\ UNCHANGED <<ended, err, done, calls, stats, clate, sealed, broke, gaveUp>>
  BY DEF C!Begin, C!event
<1>2. /\ CallType /\ \A p \in C!Ops : Begun(p) /\ Opened(p) /\ Finished(p) /\ Batched(p)
  BY DEF CallInv
<1>3. ~ended[o] /\ ~err[o] /\ ~done[o] /\ ~broke[o] /\ ~gaveUp[o]
  BY <1>1, <1>2 DEF Begun
<1>4. PICK a \in CallAdapters, p \in {None} \cup {q \in C!Ops : cpc[q] = "open" /\ C!P(q).nests} :
         LET in == IF p = None THEN None ELSE C!Held(p)
         IN  /\ client' = [client EXCEPT ![o] = a]
             /\ outer' = [outer EXCEPT ![o] = in]
             /\ live' = [live EXCEPT ![o] = C!Policy[a].ends # "command" /\ C!Opens(a, in)]
             /\ \E n \in IF C!Policy[a].ends = "batch" THEN 1..MaxMessages ELSE {1} :
                    pending' = [pending EXCEPT ![o] = n]
  BY DEF C!Begin
<1>5. PICK in : in = IF p = None THEN None ELSE C!Held(p)
  OBVIOUS
<1>6. in # None => in \in C!Ops /\ in # o /\ cpc[in] # "idle"
  <2>1. CASE p = None
    BY <1>5, <2>1
  <2>2. CASE p # None
    <3>1. p \in C!Ops /\ cpc[p] = "open" /\ in = IF live[p] THEN p ELSE outer[p]
      BY <1>5, <2>2 DEF C!Held
    <3> QED  BY <1>1, <1>2, <3>1 DEF Begun
  <2> QED  BY <2>1, <2>2
<1>7. PICK opens \in BOOLEAN, n \in Nat \ {0} :
         /\ opens <=> C!Policy[a].ends # "command" /\ C!Opens(a, in)
         /\ client' = [client EXCEPT ![o] = a] /\ outer' = [outer EXCEPT ![o] = in]
         /\ live' = [live EXCEPT ![o] = opens] /\ pending' = [pending EXCEPT ![o] = n]
  <2>1. PICK n \in IF C!Policy[a].ends = "batch" THEN 1..MaxMessages ELSE {1} :
           pending' = [pending EXCEPT ![o] = n]
    BY <1>4
  <2>2. n \in Nat \ {0}
    BY <2>1
  <2>3. PICK opens \in BOOLEAN : opens = (C!Policy[a].ends # "command" /\ C!Opens(a, in))
    OBVIOUS
  <2> QED  BY <1>4, <1>5, <2>1, <2>2, <2>3
<1>8. CallType'
  BY <1>1, <1>2, <1>7 DEF CallType
<1>9. \A q \in C!Ops : cpc[q] # "idle" => cpc'[q] # "idle" /\ client'[q] = client[q]
  BY <1>1, <1>2, <1>7 DEF CallType
<1>10. RecordType' /\ Entered' /\ Summed'
  BY <1>1, <1>2, <1>9, NothingEntered DEF CallType
<1>11. ASSUME NEW q \in C!Ops, q # o PROVE Begun(q)' /\ Opened(q)' /\ Finished(q)' /\ Batched(q)'
  <2>1. /\ cpc'[q] = cpc[q] /\ outer'[q] = outer[q] /\ pending'[q] = pending[q]
        /\ (live'[q] <=> live[q]) /\ (ended'[q] <=> ended[q]) /\ (err'[q] <=> err[q])
        /\ (done'[q] <=> done[q]) /\ (broke'[q] <=> broke[q]) /\ (gaveUp'[q] <=> gaveUp[q])
    BY <1>1, <1>2, <1>7, <1>11 DEF CallType
  <2> QED  BY <1>2, <1>9, <2>1, OthersCalled
<1>12. /\ client'[o] = a /\ outer'[o] = in /\ (live'[o] <=> opens) /\ pending'[o] = n /\ cpc'[o] = "open"
       /\ ~ended'[o] /\ ~err'[o] /\ ~done'[o] /\ ~broke'[o] /\ ~gaveUp'[o]
  BY <1>1, <1>2, <1>3, <1>7 DEF CallType
<1>13. Begun(o)'
  BY <1>1, <1>6, <1>9, <1>12 DEF Begun
<1>14. Way(o)' = C!Policy[a].ends /\ C!P(o)' = C!Policy[a]
  BY <1>12 DEF Way, C!P
<1>15. in # None => C!P(in)' = C!P(in)
  BY <1>6, <1>9 DEF C!P
<1>16. C!Opens(a, in) <=> ~C!Inner(o)'
  <2>1. C!Inner(o)' <=> in # None /\ (C!P(o)'.alone \/ C!P(outer[o])'.kind = C!P(o)'.kind)
    BY <1>12 DEF C!Inner
  <2>2. C!P(outer[o])' = C!P(in)'
    BY <1>12 DEF C!P
  <2>3. C!Opens(a, in) <=> in = None \/ (~C!Policy[a].alone /\ C!P(in).kind # C!Policy[a].kind)
    BY DEF C!Opens
  <2> QED  BY <1>14, <1>15, <2>1, <2>2, <2>3
<1>17. Opened(o)'
  BY <1>7, <1>12, <1>14, <1>16 DEF Opened
<1>18. Finished(o)' /\ Batched(o)'
  BY <1>7, <1>12 DEF Finished, Batched
<1> QED  BY <1>8, <1>10, <1>11, <1>13, <1>17, <1>18 DEF CallInv

LEMMA CallStutters ==
    ASSUME CallInv, UNCHANGED C!vars \/ C!Seal
    PROVE  CallInv'
<1>1. /\ UNCHANGED <<client, cpc, gaveUp, outer, live, ended, pending, err, done, calls, stats, clate, broke>>
      /\ sealed' = sealed \/ sealed' = TRUE
  BY DEF C!vars, C!running, C!handle, C!report, C!event, C!Seal
<1>2. CallType /\ \A p \in C!Ops : Begun(p) /\ Opened(p) /\ Finished(p) /\ Batched(p)
  BY DEF CallInv
<1>3. CallType'
  BY <1>1, <1>2 DEF CallType
<1>4. RecordType' /\ Entered' /\ Summed'
  BY <1>1, <1>2, NothingEntered DEF CallType
<1>5. ASSUME NEW p \in C!Ops PROVE Begun(p)' /\ Opened(p)' /\ Finished(p)' /\ Batched(p)'
  BY <1>1, <1>2, OthersCalled
<1> QED  BY <1>3, <1>4, <1>5 DEF CallInv

LEMMA CallNext ==
    ASSUME CallInv, [C!Next]_C!vars
    PROVE  CallInv'
<1>1. CASE \E o \in C!Ops : \/ C!Begin(o) \/ C!Skip(o) \/ C!Answer(o) \/ C!Finished(o) \/ C!Panics(o)
                            \/ C!NextFails(o) \/ C!Close(o) \/ C!Report(o) \/ C!Written(o) \/ C!StreamEnds(o)
  BY <1>1, BeginKeeps, SkipKeeps, AnswerCall, FinishedKeeps, PanicsCall, NextFailsKeeps, CloseKeeps,
     ReportKeeps, WrittenKeeps, StreamEndsKeeps
<1>2. CASE C!Seal \/ UNCHANGED C!vars
  BY <1>2, CallStutters
<1> QED  BY <1>1, <1>2 DEF C!Next

(* What the calls of an event promise, from the invariant. *)
LEMMA CallsFollow ==
    ASSUME CallInv
    PROVE  C!CallsCounted /\ C!ResultTells
<1>1. /\ RecordType /\ Entered /\ Summed
      /\ \A o \in C!Ops : Begun(o) /\ Opened(o) /\ Finished(o) /\ Batched(o)
  BY DEF CallInv
<1>2. \A i \in DOMAIN calls : calls[i].op \in C!Ops /\ calls[i].bad \in BOOLEAN
  BY <1>1, RecordsTyped
<1>3. C!ResultTells
  <2>1. \A i \in DOMAIN calls : broke[calls[i].op] \in BOOLEAN
    BY <1>2 DEF CallInv, CallType
  <2> QED  BY <1>1, <1>2, <2>1 DEF Entered, C!ResultTells
<1>4. \A o \in C!Ops : C!Cardinality(C!Recorded(o)) <= 1
  <2>1. SUFFICES ASSUME NEW o \in C!Ops PROVE Cardinality(C!Recorded(o)) <= 1
    BY CallParameters
  <2>2. \A i, j \in C!Recorded(o) : i = j
    BY <1>1 DEF Entered, C!Recorded
  <2>3. CASE C!Recorded(o) = {}
    BY <2>3, FS_EmptySet
  <2>4. CASE C!Recorded(o) # {}
    <3>1. PICK i : C!Recorded(o) = {i}
      BY <2>2, <2>4
    <3> QED  BY <3>1, FS_Singleton
  <2> QED  BY <2>3, <2>4
<1>5. \A o \in C!Ops : cpc[o] = "over" /\ ~gaveUp[o] => (ended[o] <=> ~C!Inner(o))
  <2>1. SUFFICES ASSUME NEW o \in C!Ops, cpc[o] = "over", ~gaveUp[o] PROVE ended[o] <=> ~C!Inner(o)
    OBVIOUS
  <2>2. Way(o) \in {"result", "report", "batch", "rows", "command", "stream"}
    BY <1>1, <2>1, CallKinds DEF Begun, Way, C!P
  <2> QED  BY <1>1, <2>1, <2>2 DEF Opened, Finished
<1>6. Len(calls) + clate = C!Cardinality({o \in C!Ops : ended[o]})
  BY <1>1, CallParameters DEF Summed, EndedOps
<1>7. ASSUME NEW k \in C!Kinds
      PROVE  LET mine == {i \in DOMAIN calls : C!P(calls[i].op).kind = k}
             IN  /\ stats[k].count = C!Cardinality(mine)
                 /\ stats[k].errors = C!Cardinality({i \in mine : calls[i].bad})
  BY <1>1, CallParameters DEF Summed, OfKind, BadOf
<1> QED  BY <1>3, <1>4, <1>5, <1>6, <1>7 DEF C!CallsCounted

----------------------------------------------------------------------------
(* MCP requests: where the event of each request is between its two hooks, how far *)
(* it has come, and who ended it.                                                  *)

RequestPlaces == {"new", "store", "sweep", "handler", "after", "record", "returned", "panicked"}
Gone == {"returned", "panicked"}

RequestType ==
    /\ skind \in {"hooks", "middleware"} /\ key \in [Clients -> M!Keys]
    /\ spc \in [Clients -> RequestPlaces] /\ DOMAIN sresult = Clients /\ DOMAIN sevent = Clients
    /\ DOMAIN seen = Clients /\ reports \in Nat
TableType ==
    /\ entries \in [M!Keys -> Clients \cup {None}] /\ IsFiniteSet(M!Held)
    /\ byCtx \subseteq Clients /\ old \subseteq byCtx
    /\ hand \in [Clients -> SUBSET Clients]
    /\ replaced \subseteq Clients /\ srefused \subseteq Clients /\ IsFiniteSet(srefused)
    /\ missed \subseteq Clients

(* The middleware keeps nothing between two hooks. *)
Bare == skind = "middleware" =>
    /\ M!Held = {} /\ byCtx = {}
    /\ \A r \in Clients : hand[r] = {} /\ spc[r] \notin {"store", "sweep", "after"}

(* Where the event of a request is: stored under its own key, in one hand, nowhere. *)
StoredOwn == \A k \in M!Held : key[entries[k]] = k
Kept(e) == e \in M!Stored \cup M!InHand
Apart ==
    /\ M!Stored \cap M!InHand = {}
    /\ \A r, q \in Clients : hand[r] \cap hand[q] # {} => r = q
Grips(r) ==
    /\ hand[r] # {} => spc[r] \in {"sweep", "record"}
    /\ spc[r] = "record" /\ skind = "hooks" => \E e \in Clients : hand[r] = {e} /\ key[e] = key[r]
Known == \A e \in byCtx : e \in M!Stored \cup replaced

(* How far the event of a request has come. *)
Fresh(r) == sevent[r] = M!Opened /\ ~Kept(r)
Life(r) ==
    /\ spc[r] = "new" => sevent[r] = None /\ ~Kept(r)
    /\ spc[r] = "store" => Fresh(r)
    /\ skind = "middleware" /\ spc[r] \in {"handler", "record"} => sevent[r] = M!Opened
    /\ Kept(r) => sevent[r] = M!Opened
    /\ sevent[r] # None => \/ sevent[r].ends = 1
                           \/ sevent[r] = M!Opened /\ (skind = "hooks" \/ spc[r] \in {"handler", "record"})
    /\ sevent[r] # None /\ skind = "hooks" /\ sevent[r].ends # 1 =>
           spc[r] = "store" \/ Kept(r) \/ r \in replaced \cup srefused
(* Who ended it. *)
Expired(r) == sevent[r].ends = 1 /\ sevent[r].by = "expiry" /\ sevent[r].level = "error"
Answered(r) ==
    /\ sevent[r].by \in Clients /\ spc[sevent[r].by] \in Gone /\ key[sevent[r].by] = key[r]
    /\ sevent[r].level = M!LevelOf(sresult[sevent[r].by]) /\ sresult[sevent[r].by] \in M!Results
EndedBy(r) == sevent[r] # None /\ sevent[r].ends = 1 => Expired(r) \/ Answered(r)
(* A request whose key is its own finds its event, unless that one expired. *)
Finds(r) ==
    /\ spc[r] \in {"sweep", "handler", "after"} /\ skind = "hooks" =>
           sevent[r] = None \/ r \in srefused \/ M!Shared(r) \/ Kept(r) \/ Expired(r)
    /\ r \in missed => /\ spc[r] = "returned" /\ skind = "hooks"
                       /\ sevent[r] = None \/ r \in srefused \/ M!Shared(r) \/ Expired(r) \/ r \in M!InHand

SessionsInv ==
    /\ RequestType /\ TableType /\ Bare /\ StoredOwn /\ Apart /\ Known
    /\ \A r \in Clients : Grips(r) /\ Life(r) /\ EndedBy(r) /\ Finds(r) /\ seen[r] \in {r, None}
    /\ Cardinality(M!Held) <= Capacity /\ reports >= Cardinality(srefused)

LEMMA SessionParameters ==
    /\ Capacity \in Nat \ {0} /\ ServerKinds \subseteq {"hooks", "middleware"} /\ None \notin Clients
    /\ \A S : M!Cardinality(S) = Cardinality(S)
<1>1. \A S : M!Cardinality(S) = Cardinality(S)
  BY DEF M!Cardinality, Cardinality
<1> QED  BY <1>1, SessionsAssumption DEF M!SessionsAssumption

LEMMA SessionsStart == M!Init => SessionsInv
<1> SUFFICES ASSUME M!Init PROVE SessionsInv
  OBVIOUS
<1>1. M!Held = {} /\ M!Stored = {} /\ M!InHand = {} /\ \A r \in Clients : ~Kept(r)
  BY DEF M!Init, M!Held, M!Stored, M!InHand, Kept
<1>2. IsFiniteSet({}) /\ Cardinality({}) = 0
  BY FS_EmptySet
<1>3. RequestType
  BY SessionParameters DEF M!Init, RequestType, RequestPlaces
<1>4. TableType
  <2>1. entries \in [M!Keys -> Clients \cup {None}] /\ hand \in [Clients -> SUBSET Clients]
    BY DEF M!Init
  <2> QED  BY <1>1, <1>2, <2>1 DEF M!Init, TableType
<1>5. Bare /\ StoredOwn /\ Apart /\ Known
  BY <1>1 DEF M!Init, Bare, StoredOwn, Apart, Known
<1>6. \A r \in Clients : Grips(r) /\ Life(r) /\ EndedBy(r) /\ Finds(r) /\ seen[r] \in {r, None}
  BY <1>1 DEF M!Init, Grips, Life, EndedBy, Finds
<1>7. Cardinality(M!Held) <= Capacity /\ reports >= Cardinality(srefused)
  BY <1>1, <1>2, SessionParameters DEF M!Init
<1> QED  BY <1>3, <1>4, <1>5, <1>6, <1>7 DEF SessionsInv

(* Steps of one request that leave the table and the events as they are. *)
LEMMA TableStays ==
    ASSUME TableType, UNCHANGED <<key, entries, hand>>
    PROVE  /\ M!Held' = M!Held /\ M!Stored' = M!Stored /\ M!InHand' = M!InHand
           /\ \A q : (Kept(q)' <=> Kept(q)) /\ (M!Shared(q)' <=> M!Shared(q))
<1>1. M!Held' = M!Held
  BY DEF M!Held, TableType
<1>2. M!Stored' = M!Stored /\ M!InHand' = M!InHand
  BY <1>1 DEF M!Stored, M!InHand
<1> QED  BY <1>1, <1>2 DEF Kept, M!Shared

LEMMA MovesOnly ==
    ASSUME SessionsInv, NEW r \in Clients, M!Notify(r) \/ M!Unparsed(r) \/ M!Abandon(r) \/ M!Handle(r)
    PROVE  SessionsInv'
<1>1. /\ M!Held' = M!Held /\ M!Stored' = M!Stored /\ M!InHand' = M!InHand
      /\ \A q : (Kept(q)' <=> Kept(q)) /\ (M!Shared(q)' <=> M!Shared(q))
  BY TableStays DEF SessionsInv, M!Notify, M!Unparsed, M!Abandon, M!Handle, M!pending
<1>2. /\ UNCHANGED <<skind, key, entries, byCtx, old, hand, sresult, sevent, reports, replaced, srefused, missed>>
      /\ \E x \in RequestPlaces : spc' = [spc EXCEPT ![r] = x]
      /\ spc'[r] \in {"returned", "after", "record"}
  BY DEF SessionsInv, RequestType, RequestPlaces, M!Notify, M!Unparsed, M!Abandon, M!Handle, M!Go, M!pending, M!history
<1>3. \A q \in Clients : q # r => spc'[q] = spc[q]
  BY <1>2 DEF SessionsInv, RequestType
<1>4. RequestType'
  BY <1>2 DEF SessionsInv, RequestType, M!Notify, M!Unparsed, M!Abandon, M!Handle
<1>5. TableType'
  BY <1>1, <1>2 DEF SessionsInv, TableType
<1>6. Bare' /\ StoredOwn' /\ Apart' /\ Known'
  <2>1. skind = "middleware" => spc'[r] # "after"
    BY DEF SessionsInv, RequestType, Bare, M!Notify, M!Unparsed, M!Abandon, M!Handle, M!Go
  <2> QED  BY <1>1, <1>2, <1>3, <2>1 DEF SessionsInv, Bare, StoredOwn, Apart, Known
<1>7. ASSUME NEW q \in Clients PROVE (Grips(q) /\ EndedBy(q) /\ seen[q] \in {q, None})'
  <2>1. Grips(q)'
    BY <1>2, <1>3 DEF SessionsInv, RequestType, Grips, M!Notify, M!Unparsed, M!Abandon, M!Handle, M!Go
  <2>2. EndedBy(q)'
    BY <1>2, <1>3 DEF SessionsInv, RequestType, EndedBy, Expired, Answered, Gone, M!Notify, M!Unparsed, M!Abandon, M!Handle, M!Go
  <2>3. seen'[q] \in {q, None}
    BY DEF SessionsInv, RequestType, M!Notify, M!Unparsed, M!Abandon, M!Handle
  <2> QED  BY <2>1, <2>2, <2>3
<1>8. ASSUME NEW q \in Clients PROVE Life(q)' /\ Finds(q)'
  <2>1. Life(q)'
    BY <1>1, <1>2, <1>3 DEF SessionsInv, RequestType, Bare, Life, Fresh, M!Opened, M!Notify, M!Unparsed, M!Abandon, M!Handle, M!Go
  <2>2. Finds(q)'
    BY <1>1, <1>2, <1>3 DEF SessionsInv, RequestType, Finds, Life, Expired, M!Notify, M!Unparsed, M!Abandon, M!Handle, M!Go
  <2> QED  BY <2>1, <2>2
<1> QED  BY <1>1, <1>2, <1>4, <1>5, <1>6, <1>7, <1>8 DEF SessionsInv

LEMMA Begins ==
    ASSUME SessionsInv, NEW r \in Clients, M!Begin(r)
    PROVE  SessionsInv'
<1>1. /\ M!Held' = M!Held /\ M!Stored' = M!Stored /\ M!InHand' = M!InHand
      /\ \A q : (Kept(q)' <=> Kept(q)) /\ (M!Shared(q)' <=> M!Shared(q))
  BY TableStays DEF SessionsInv, M!Begin, M!pending
<1>2. /\ UNCHANGED <<skind, key, entries, byCtx, old, hand, sresult, seen, reports, replaced, srefused, missed>>
      /\ spc[r] = "new" /\ spc'[r] = (IF skind = "hooks" THEN "store" ELSE "handler") /\ sevent'[r] = M!Opened
      /\ DOMAIN sevent' = Clients /\ spc' \in [Clients -> RequestPlaces]
      /\ \A q \in Clients : q # r => spc'[q] = spc[q] /\ sevent'[q] = sevent[q]
  BY DEF SessionsInv, RequestType, RequestPlaces, M!Begin, M!Go, M!pending, M!history
<1>3. RequestType' /\ TableType'
  BY <1>1, <1>2 DEF SessionsInv, RequestType, TableType
<1>4. Bare' /\ StoredOwn' /\ Apart' /\ Known'
  BY <1>1, <1>2 DEF SessionsInv, Bare, StoredOwn, Apart, Known
<1>5. ASSUME NEW q \in Clients PROVE (Grips(q) /\ EndedBy(q) /\ Life(q) /\ Finds(q) /\ seen[q] \in {q, None})'
  <2>1. Grips(q)'
    BY <1>1, <1>2 DEF SessionsInv, Grips
  <2>2. EndedBy(q)'
    BY <1>2 DEF SessionsInv, EndedBy, Expired, Answered, Gone, M!Opened
  <2>3. Life(q)'
    BY <1>1, <1>2 DEF SessionsInv, RequestType, Life, Fresh, M!Opened
  <2>4. Finds(q)'
    BY <1>1, <1>2 DEF SessionsInv, Finds, Expired
  <2> QED  BY <1>2, <2>1, <2>2, <2>3, <2>4 DEF SessionsInv
<1> QED  BY <1>1, <1>2, <1>3, <1>4, <1>5 DEF SessionsInv

LEMMA Expires ==
    ASSUME SessionsInv, NEW r \in Clients, M!Expire(r)
    PROVE  SessionsInv'
<1>1. /\ M!Held' = M!Held /\ M!Stored' = M!Stored /\ M!InHand' = M!InHand
      /\ \A q : (Kept(q)' <=> Kept(q)) /\ (M!Shared(q)' <=> M!Shared(q))
  BY TableStays DEF SessionsInv, M!Expire
<1>2. /\ UNCHANGED <<skind, key, spc, entries, byCtx, hand, sresult, sevent, seen, reports, replaced, srefused, missed>>
      /\ old' \subseteq byCtx
  BY DEF SessionsInv, TableType, M!Expire, M!history
<1>3. RequestType' /\ TableType' /\ Bare' /\ StoredOwn' /\ Apart' /\ Known'
  BY <1>1, <1>2 DEF SessionsInv, RequestType, TableType, Bare, StoredOwn, Apart, Known
<1>4. ASSUME NEW q \in Clients PROVE (Grips(q) /\ EndedBy(q) /\ Life(q) /\ Finds(q))'
  BY <1>1, <1>2 DEF SessionsInv, Grips, EndedBy, Expired, Answered, Life, Fresh, Finds
<1> QED  BY <1>1, <1>2, <1>3, <1>4 DEF SessionsInv

(* work.Handle.End of an event that is open: it ends once, for this reason. *)
Closes(e, by, lv) ==
    /\ DOMAIN sevent' = Clients /\ sevent'[e] = [ends |-> 1, by |-> by, level |-> lv]
    /\ \A q \in Clients : q # e => sevent'[q] = sevent[q]
LEMMA SessionEndsOnce ==
    ASSUME RequestType, NEW e \in Clients, NEW by, NEW lv, sevent[e] = M!Opened, sevent' = M!Ends(e, by, lv)
    PROVE  Closes(e, by, lv)
  BY DEF RequestType, M!Ends, M!Opened, Closes

LEMMA Sweeps ==
    ASSUME SessionsInv, NEW r \in Clients, M!Sweep(r)
    PROVE  SessionsInv'
<1>0. UNCHANGED <<skind, key, entries, byCtx, old, sresult, seen, reports, replaced, srefused, missed>> /\ spc[r] = "sweep"
  BY DEF M!Sweep, M!pending, M!history
<1>1. CASE hand[r] = {}
  <2>1. /\ M!Held' = M!Held /\ M!Stored' = M!Stored /\ M!InHand' = M!InHand
        /\ \A q : (Kept(q)' <=> Kept(q)) /\ (M!Shared(q)' <=> M!Shared(q))
    BY <1>0, <1>1, TableStays DEF SessionsInv, M!Sweep
  <2>2. /\ UNCHANGED <<hand, sevent>> /\ spc' \in [Clients -> RequestPlaces] /\ spc'[r] = "handler"
        /\ \A q \in Clients : q # r => spc'[q] = spc[q]
    BY <1>0, <1>1 DEF SessionsInv, RequestType, RequestPlaces, M!Sweep, M!Go
  <2>3. RequestType' /\ TableType' /\ Bare' /\ StoredOwn' /\ Apart' /\ Known'
    BY <1>0, <2>1, <2>2 DEF SessionsInv, RequestType, TableType, Bare, StoredOwn, Apart, Known
  <2>4. ASSUME NEW q \in Clients PROVE (Grips(q) /\ EndedBy(q) /\ Life(q) /\ Finds(q))'
    <3>1. Grips(q)'
      BY <1>0, <1>1, <2>2 DEF SessionsInv, Grips
    <3>2. EndedBy(q)'
      BY <1>0, <2>2 DEF SessionsInv, EndedBy, Expired, Answered, Gone
    <3>3. Life(q)'
      BY <1>0, <2>1, <2>2 DEF SessionsInv, Life, Fresh, Bare
    <3>4. Finds(q)'
      BY <1>0, <2>1, <2>2 DEF SessionsInv, Finds, Expired
    <3> QED  BY <3>1, <3>2, <3>3, <3>4
  <2> QED  BY <1>0, <2>1, <2>3, <2>4 DEF SessionsInv
<1>2. CASE hand[r] # {}
  <2>1. PICK e \in hand[r] : sevent' = M!Ends(e, "expiry", "error") /\ hand' = [hand EXCEPT ![r] = @ \ {e}]
                             /\ UNCHANGED spc
    BY <1>2 DEF M!Sweep
  <2>2. e \in Clients /\ e \in M!InHand /\ e \notin M!Stored /\ Kept(e) /\ sevent[e] = M!Opened
    BY <2>1 DEF SessionsInv, TableType, M!InHand, Kept, Apart, Life
  <2>3. Closes(e, "expiry", "error")
    BY <2>1, <2>2, SessionEndsOnce DEF SessionsInv
  <2>4. M!Held' = M!Held /\ M!Stored' = M!Stored
    BY <1>0 DEF M!Held, M!Stored
  <2>5. hand' \in [Clients -> SUBSET Clients] /\ hand'[r] = hand[r] \ {e}
        /\ \A q \in Clients : q # r => hand'[q] = hand[q]
    BY <2>1 DEF SessionsInv, TableType
  <2>6. \A q \in Clients : e \in hand[q] => q = r
    BY <2>1 DEF SessionsInv, Apart
  <2>7. \A x : x \in M!InHand' <=> x \in M!InHand /\ x # e
    BY <2>1, <2>5, <2>6 DEF M!InHand
  <2>8. \A q : (Kept(q)' <=> Kept(q) /\ q # e) /\ (M!Shared(q)' <=> M!Shared(q))
    BY <1>0, <2>2, <2>4, <2>7 DEF Kept, M!Shared
  <2>9. RequestType' /\ TableType'
    BY <1>0, <2>1, <2>3, <2>4, <2>5 DEF SessionsInv, RequestType, TableType, Closes
  <2>10. Bare' /\ StoredOwn' /\ Known'
    BY <1>0, <2>1, <2>4 DEF SessionsInv, RequestType, Bare, StoredOwn, Known
  <2>11. Apart'
    BY <2>4, <2>5, <2>7 DEF SessionsInv, Apart
  <2>12. ASSUME NEW q \in Clients PROVE (Grips(q) /\ EndedBy(q) /\ Life(q) /\ Finds(q))'
    <3>1. Grips(q)'
      BY <1>0, <2>1, <2>5 DEF SessionsInv, Grips
    <3>2. EndedBy(q)'
      BY <1>0, <2>1, <2>3 DEF SessionsInv, EndedBy, Expired, Answered, Gone, Closes
    <3>3. Life(q)'
      <4>1. CASE q = e
        BY <1>0, <2>1, <2>2, <2>3, <2>8, <4>1 DEF SessionsInv, Life, Fresh, Closes, M!Opened, Bare
      <4>2. CASE q # e
        BY <1>0, <2>1, <2>3, <2>8, <4>2 DEF SessionsInv, Life, Fresh, Closes
      <4> QED  BY <4>1, <4>2
    <3>4. Finds(q)'
      <4>1. CASE q = e
        BY <1>0, <2>1, <2>3, <2>8, <4>1 DEF SessionsInv, Finds, Expired, Closes
      <4>2. CASE q # e
        BY <1>0, <2>1, <2>3, <2>7, <2>8, <4>2 DEF SessionsInv, Finds, Expired, Closes
      <4> QED  BY <4>1, <4>2
    <3> QED  BY <3>1, <3>2, <3>3, <3>4
  <2> QED  BY <1>0, <2>4, <2>9, <2>10, <2>11, <2>12 DEF SessionsInv
<1> QED  BY <1>1, <1>2

LEMMA TakesOne ==
    ASSUME SessionsInv, NEW r \in Clients, M!Take(r)
    PROVE  SessionsInv'
<1> DEFINE e == entries[key[r]]
<1>0. /\ UNCHANGED <<skind, key, sresult, sevent, seen, reports, replaced, srefused>> /\ spc[r] = "after"
      /\ key[r] \in M!Keys /\ hand[r] = {}
      /\ skind = "hooks"
  BY DEF SessionsInv, RequestType, Grips, Bare, M!Take
<1>1. CASE e = None
  <2>1. /\ UNCHANGED <<entries, byCtx, old, hand>> /\ missed' = missed \cup {r}
        /\ spc' \in [Clients -> RequestPlaces] /\ spc'[r] = "returned"
        /\ \A q \in Clients : q # r => spc'[q] = spc[q]
    BY <1>0, <1>1 DEF SessionsInv, RequestType, RequestPlaces, M!Take, M!Takes, M!Go, M!pending
  <2>2. /\ M!Held' = M!Held /\ M!Stored' = M!Stored /\ M!InHand' = M!InHand
        /\ \A q : (Kept(q)' <=> Kept(q)) /\ (M!Shared(q)' <=> M!Shared(q))
    BY <1>0, <2>1, TableStays DEF SessionsInv
  <2>3. RequestType' /\ TableType' /\ Bare' /\ StoredOwn' /\ Apart' /\ Known'
    BY <1>0, <2>1, <2>2 DEF SessionsInv, RequestType, TableType, Bare, StoredOwn, Apart, Known
  <2>4. r \notin M!Stored
    <3> SUFFICES ASSUME NEW k \in M!Held, entries[k] = r PROVE FALSE
      BY DEF M!Stored
    <3> QED  BY <1>1 DEF SessionsInv, StoredOwn, M!Held
  <2>5. ASSUME NEW q \in Clients PROVE (Grips(q) /\ EndedBy(q) /\ Life(q) /\ Finds(q))'
    <3>1. Grips(q)'
      BY <1>0, <2>1 DEF SessionsInv, Grips
    <3>2. EndedBy(q)'
      BY <1>0, <2>1 DEF SessionsInv, EndedBy, Expired, Answered, Gone
    <3>3. Life(q)'
      BY <1>0, <2>1, <2>2 DEF SessionsInv, Life, Fresh
    <3>4. Finds(q)'
      BY <1>0, <2>1, <2>2, <2>4 DEF SessionsInv, Finds, Expired, Kept
    <3> QED  BY <3>1, <3>2, <3>3, <3>4
  <2> QED  BY <1>0, <2>2, <2>3, <2>5 DEF SessionsInv
<1>2. CASE e # None
  <2>1. /\ entries' = [entries EXCEPT ![key[r]] = None] /\ byCtx' = byCtx \ {e} /\ old' = old \ {e}
        /\ hand' = [hand EXCEPT ![r] = {e}] /\ missed' = missed
        /\ spc' \in [Clients -> RequestPlaces] /\ spc'[r] = "record"
        /\ \A q \in Clients : q # r => spc'[q] = spc[q]
    BY <1>0, <1>2 DEF SessionsInv, RequestType, RequestPlaces, M!Take, M!Takes, M!Go
  <2>2. key[r] \in M!Held /\ e \in Clients /\ e \in M!Stored /\ key[e] = key[r] /\ Kept(e)
    BY <1>0, <1>2 DEF SessionsInv, TableType, M!Held, M!Stored, StoredOwn, Kept
  <2>3. M!Held' = M!Held \ {key[r]} /\ entries' \in [M!Keys -> Clients \cup {None}]
        /\ \A k \in M!Held' : entries'[k] = entries[k]
    BY <1>0, <2>1, SessionParameters DEF SessionsInv, TableType, M!Held
  <2>4. \A x : x \in M!Stored' <=> x \in M!Stored /\ x # e
    <3>1. \A k \in M!Held : entries[k] = e => k = key[r]
      BY <2>2 DEF SessionsInv, StoredOwn
    <3>2. ASSUME NEW x \in M!Stored' PROVE x \in M!Stored /\ x # e
      BY <2>3, <3>1, <3>2 DEF M!Stored
    <3>3. ASSUME NEW x \in M!Stored, x # e PROVE x \in M!Stored'
      <4>1. PICK k \in M!Held : x = entries[k]
        BY DEF M!Stored
      <4>2. k \in M!Held' /\ entries'[k] = x
        BY <2>3, <3>3, <4>1
      <4> QED  BY <4>2 DEF M!Stored
    <3> QED  BY <3>2, <3>3
  <2>5. /\ hand' \in [Clients -> SUBSET Clients] /\ hand'[r] = {e}
        /\ \A q \in Clients : q # r => hand'[q] = hand[q]
    BY <2>1, <2>2 DEF SessionsInv, TableType
  <2>6. \A x : x \in M!InHand' <=> x \in M!InHand \/ x = e
    BY <1>0, <2>5 DEF M!InHand
  <2>7. e \notin M!InHand
    BY <2>2 DEF SessionsInv, Apart
  <2>8. \A q : (Kept(q)' <=> Kept(q)) /\ (M!Shared(q)' <=> M!Shared(q))
    BY <1>0, <2>2, <2>4, <2>6 DEF Kept, M!Shared
  <2>9. RequestType'
    BY <1>0, <2>1 DEF SessionsInv, RequestType
  <2>10. IsFiniteSet(M!Held') /\ Cardinality(M!Held') <= Cardinality(M!Held) /\ Cardinality(M!Held) \in Nat
         /\ Cardinality(M!Held') \in Nat
    BY <2>3, FS_Subset, FS_CardinalityType DEF SessionsInv, TableType
  <2>11. TableType'
    BY <1>0, <2>1, <2>3, <2>5, <2>10 DEF SessionsInv, TableType
  <2>12. Bare' /\ StoredOwn'
    BY <1>0, <2>3 DEF SessionsInv, Bare, StoredOwn
  <2>13. Known'
    BY <1>0, <2>1, <2>4 DEF SessionsInv, Known
  <2>14. Apart'
    <3>1. \A q \in Clients : e \notin hand[q]
      BY <2>7 DEF M!InHand
    <3> QED  BY <2>4, <2>5, <2>6, <3>1 DEF SessionsInv, Apart
  <2>15. ASSUME NEW q \in Clients PROVE (Grips(q) /\ EndedBy(q) /\ Life(q) /\ Finds(q))'
    <3>1. Grips(q)'
      BY <1>0, <2>1, <2>2, <2>5 DEF SessionsInv, Grips
    <3>2. EndedBy(q)'
      BY <1>0, <2>1 DEF SessionsInv, EndedBy, Expired, Answered, Gone
    <3>3. Life(q)'
      BY <1>0, <2>1, <2>8 DEF SessionsInv, Life, Fresh
    <3>4. Finds(q)'
      BY <1>0, <2>1, <2>6, <2>8 DEF SessionsInv, Finds, Expired
    <3> QED  BY <3>1, <3>2, <3>3, <3>4
  <2>16. Cardinality(M!Held') <= Capacity
    <3> DEFINE x == Cardinality(M!Held')   y == Cardinality(M!Held)
    <3>1. x \in Nat /\ y \in Nat /\ x <= y /\ y <= Capacity /\ Capacity \in Nat
      BY <2>10, SessionParameters DEF SessionsInv
    <3> HIDE DEF x, y
    <3>2. x <= Capacity
      BY <3>1
    <3> QED  BY <3>2 DEF x
  <2> QED  BY <1>0, <2>9, <2>11, <2>12, <2>13, <2>14, <2>15, <2>16 DEF SessionsInv
<1> QED  BY <1>1, <1>2

LEMMA Records ==
    ASSUME SessionsInv, NEW r \in Clients, M!Record(r)
    PROVE  SessionsInv'
<1>0. UNCHANGED <<skind, key, entries, byCtx, old, seen, reports, replaced, srefused, missed>> /\ spc[r] = "record"
  BY DEF M!Record, M!pending, M!history
<1>1. PICK x \in M!Answers(r) :
          /\ sresult' = [sresult EXCEPT ![r] = x]
          /\ \E e \in IF skind = "hooks" THEN hand[r] ELSE {r} : sevent' = M!Ends(e, r, M!LevelOf(x))
          /\ M!Go(r, IF x = "panic" THEN "panicked" ELSE "returned")
          /\ hand' = [hand EXCEPT ![r] = {}]
  BY DEF M!Record
<1>2. PICK e \in IF skind = "hooks" THEN hand[r] ELSE {r} : sevent' = M!Ends(e, r, M!LevelOf(x))
  BY <1>1
<1>3. x \in M!Results
  BY DEF M!Answers, M!Results
<1>4. e \in Clients /\ key[e] = key[r] /\ sevent[e] = M!Opened /\ e \notin M!Stored
      /\ hand[r] \subseteq {e} /\ (skind = "hooks" => e \in hand[r]) /\ (skind = "middleware" => e = r)
  <2>1. CASE skind = "hooks"
    <3>1. hand[r] = {e} /\ key[e] = key[r] /\ e \in Clients /\ e \in hand[r]
      BY <1>0, <1>2, <2>1 DEF SessionsInv, Grips
    <3>2. e \in M!InHand
      BY <3>1 DEF M!InHand
    <3> QED  BY <2>1, <3>1, <3>2 DEF SessionsInv, Apart, Life, Kept
  <2>2. CASE skind = "middleware"
    <3>1. e = r /\ hand[r] = {} /\ M!Held = {}
      BY <1>2, <2>2 DEF SessionsInv, Bare
    <3>2. M!Stored = {}
      BY <3>1 DEF M!Stored
    <3> QED  BY <1>0, <2>2, <3>1, <3>2 DEF SessionsInv, Life
  <2> QED  BY <2>1, <2>2 DEF SessionsInv, RequestType
<1>5. Closes(e, r, M!LevelOf(x))
  BY <1>2, <1>4, SessionEndsOnce DEF SessionsInv
<1>6. /\ spc' \in [Clients -> RequestPlaces] /\ spc'[r] \in Gone /\ \A q \in Clients : q # r => spc'[q] = spc[q]
      /\ DOMAIN sresult' = Clients /\ sresult'[r] = x /\ \A q \in Clients : q # r => sresult'[q] = sresult[q]
      /\ hand' \in [Clients -> SUBSET Clients] /\ hand'[r] = {} /\ \A q \in Clients : q # r => hand'[q] = hand[q]
  BY <1>0, <1>1 DEF SessionsInv, RequestType, TableType, RequestPlaces, Gone, M!Go
<1>7. M!Held' = M!Held /\ M!Stored' = M!Stored
  BY <1>0 DEF M!Held, M!Stored
<1>8. \A q \in Clients : e \in hand[q] => q = r
  BY <1>4 DEF SessionsInv, Apart, Bare, RequestType
<1>9. \A y : y \in M!InHand' <=> y \in M!InHand /\ y # e
  BY <1>4, <1>6, <1>8 DEF M!InHand
<1>10. \A q : (Kept(q)' <=> Kept(q) /\ q # e) /\ (M!Shared(q)' <=> M!Shared(q))
  BY <1>0, <1>4, <1>7, <1>9 DEF Kept, M!Shared
<1>11. RequestType' /\ TableType'
  BY <1>0, <1>5, <1>6, <1>7 DEF SessionsInv, RequestType, TableType, Closes
<1>12. Bare' /\ StoredOwn' /\ Known'
  BY <1>0, <1>6, <1>7 DEF SessionsInv, Bare, StoredOwn, Known, Gone
<1>13. Apart'
  BY <1>6, <1>7, <1>9 DEF SessionsInv, Apart
<1>14. r # e => M!Shared(e)
  BY <1>4 DEF M!Shared
<1>15. ASSUME NEW q \in Clients PROVE (Grips(q) /\ EndedBy(q) /\ Life(q) /\ Finds(q))'
  <2>1. Grips(q)'
    BY <1>0, <1>6 DEF SessionsInv, Grips, Gone
  <2>2. EndedBy(q)'
    <3>1. CASE q = e
      BY <1>0, <1>3, <1>4, <1>5, <1>6, <3>1 DEF EndedBy, Answered, Closes
    <3>2. CASE q # e
      <4>1. sevent'[q] = sevent[q]
        BY <1>5, <3>2 DEF Closes
      <4>2. Expired(q) => Expired(q)'
        BY <4>1 DEF Expired
      <4>3. Answered(q) => Answered(q)'
        BY <1>0, <1>6, <4>1 DEF Answered, Gone
      <4> QED  BY <4>1, <4>2, <4>3 DEF SessionsInv, EndedBy
    <3> QED  BY <3>1, <3>2
  <2>3. Life(q)'
    <3>1. CASE q = e
      <4>1. skind = "hooks" => Kept(e)
        BY <1>4 DEF Kept, M!InHand
      <4>2. spc[e] \notin {"new", "store"}
        BY <1>0, <1>4, <4>1 DEF SessionsInv, RequestType, Life, Fresh
      <4>3. spc'[e] \notin {"new", "store"} /\ (skind = "middleware" => spc'[e] \in Gone)
        BY <1>4, <1>6, <4>2 DEF Gone
      <4> QED  BY <1>0, <1>4, <1>5, <1>10, <3>1, <4>3 DEF Life, Closes, Gone
    <3>2. CASE q # e
      BY <1>0, <1>4, <1>5, <1>6, <1>10, <3>2 DEF SessionsInv, RequestType, Life, Fresh, Closes, Gone
    <3> QED  BY <3>1, <3>2
  <2>4. Finds(q)'
    <3>1. CASE q = e
      BY <1>0, <1>4, <1>5, <1>6, <1>9, <1>10, <1>14, <3>1 DEF SessionsInv, Finds, Expired, Closes, Gone, RequestType
    <3>2. CASE q # e
      BY <1>0, <1>4, <1>5, <1>6, <1>9, <1>10, <3>2 DEF SessionsInv, Finds, Expired, Closes, Gone
    <3> QED  BY <3>1, <3>2
  <2> QED  BY <2>1, <2>2, <2>3, <2>4
<1> QED  BY <1>0, <1>7, <1>11, <1>12, <1>13, <1>15 DEF SessionsInv

LEMMA ImageCount ==
    ASSUME NEW S \in SUBSET M!Held, IsFiniteSet(S)
    PROVE  LET T == {entries[k] : k \in S}
           IN  IsFiniteSet(T) /\ Cardinality(T) <= Cardinality(S) /\ Cardinality(T) \in Nat /\ Cardinality(S) \in Nat
<1> DEFINE T == {entries[k] : k \in S}
           f == [k \in S |-> entries[k]]
<1>1. f \in Surjection(S, T)
  BY DEF Surjection
<1>2. IsFiniteSet(T) /\ Cardinality(T) <= Cardinality(S)
  BY <1>1, FS_Surjection
<1> QED  BY <1>2, FS_CardinalityType

LEMMA Stores ==
    ASSUME SessionsInv, NEW r \in Clients, M!Store(r)
    PROVE  SessionsInv'
<1> DEFINE swept == [k \in M!Keys |-> IF k \in M!Dropped THEN None ELSE entries[k]]
           gone  == {entries[k] : k \in M!Dropped}
           full  == Cardinality(M!Held \ M!Dropped) >= Capacity
           was   == swept[key[r]]
<1>0. /\ UNCHANGED <<skind, key, sresult, sevent, seen, missed>> /\ spc[r] = "store" /\ skind = "hooks"
      /\ key[r] \in M!Keys /\ hand[r] = {} /\ sevent[r] = M!Opened /\ ~Kept(r)
  <2>1. spc[r] = "store" /\ UNCHANGED <<skind, key, sresult, sevent, seen, missed>>
    BY DEF M!Store
  <2> QED  BY <2>1 DEF SessionsInv, RequestType, Bare, Grips, Life, Fresh
<1>1. /\ entries' = IF full THEN swept ELSE [swept EXCEPT ![key[r]] = r]
      /\ byCtx' = (byCtx \ gone) \cup (IF full THEN {} ELSE {r})
      /\ old' = old \ gone
      /\ hand' = [hand EXCEPT ![r] = gone]
      /\ reports' = reports + Cardinality(gone) + (IF full THEN 1 ELSE 0)
      /\ replaced' = IF full \/ was = None THEN replaced ELSE replaced \cup {was}
      /\ srefused' = IF full THEN srefused \cup {r} ELSE srefused
  BY SessionParameters DEF M!Store, M!Without
<1>2. /\ spc' \in [Clients -> RequestPlaces] /\ spc'[r] = "sweep" /\ \A q \in Clients : q # r => spc'[q] = spc[q]
  BY <1>0 DEF SessionsInv, RequestType, RequestPlaces, M!Store, M!Go
<1>3. M!Dropped \subseteq M!Held /\ gone \subseteq M!Stored /\ gone \subseteq Clients /\ swept \in [M!Keys -> Clients \cup {None}]
  BY DEF SessionsInv, TableType, M!Dropped, M!Held, M!Stored
<1>4. /\ \A k \in M!Keys : swept[k] # None <=> k \in M!Held \ M!Dropped
      /\ \A k \in M!Held \ M!Dropped : swept[k] = entries[k]
  BY DEF M!Held
<1>5. entries' \in [M!Keys -> Clients \cup {None}]
      /\ \A k \in M!Keys : entries'[k] = IF ~full /\ k = key[r] THEN r ELSE swept[k]
  BY <1>0, <1>1, <1>3
<1> HIDE DEF full, swept
<1>6. M!Held' = (M!Held \ M!Dropped) \cup (IF full THEN {} ELSE {key[r]})
  BY <1>0, <1>4, <1>5, SessionParameters DEF M!Held
<1>7. was = None \/ (was \in Clients /\ was \in M!Stored /\ key[r] \in M!Held \ M!Dropped /\ was = entries[key[r]]
                     /\ key[was] = key[r])
  BY <1>0, <1>3, <1>4 DEF SessionsInv, StoredOwn, M!Stored
<1>8. \A j, k \in M!Held : entries[j] = entries[k] => j = k
  BY DEF SessionsInv, StoredOwn
<1> HIDE DEF was
<1>9. r \notin M!Stored /\ r \notin M!InHand /\ None \notin M!Stored /\ None \notin Clients
  BY <1>0, SessionParameters DEF Kept, M!Stored, SessionsInv, TableType, M!Held
<1>10. \A x : x \in M!Stored' <=> \/ x \in M!Stored /\ x \notin gone /\ (full \/ x # was)
                                  \/ ~full /\ x = r
  <2>1. ASSUME NEW k \in M!Held' PROVE \/ entries'[k] \in M!Stored /\ entries'[k] \notin gone /\ (full \/ entries'[k] # was)
                                       \/ ~full /\ entries'[k] = r
    <3>1. CASE ~full /\ k = key[r]
      BY <1>0, <1>5, <3>1
    <3>2. CASE full \/ k # key[r]
      <4>1. k \in M!Held \ M!Dropped /\ k \in M!Keys /\ entries'[k] = entries[k]
        BY <1>4, <1>5, <1>6, <2>1, <3>2 DEF M!Held
      <4>2. entries[k] \in M!Stored /\ entries[k] \notin gone
        BY <1>3, <1>8, <4>1 DEF M!Stored
      <4>3. entries[k] = was => k = key[r]
        BY <1>7, <1>8, <1>9, <4>1, <4>2
      <4> QED  BY <3>2, <4>1, <4>2, <4>3
    <3> QED  BY <3>1, <3>2
  <2>2. ASSUME NEW x \in M!Stored, x \notin gone, full \/ x # was PROVE x \in M!Stored'
    <3>1. PICK k \in M!Held : x = entries[k]
      BY DEF M!Stored
    <3>2. k \in M!Held \ M!Dropped /\ k \in M!Keys
      BY <2>2, <3>1 DEF M!Held
    <3>3. full \/ k # key[r]
      BY <1>4, <2>2, <3>1, <3>2 DEF was
    <3>4. entries'[k] = x /\ k \in M!Held'
      BY <1>4, <1>5, <1>6, <3>1, <3>2, <3>3
    <3> QED  BY <3>4 DEF M!Stored
  <2>3. ~full => r \in M!Stored'
    BY <1>0, <1>5, <1>6 DEF M!Stored
  <2>4. \A x : x \in M!Stored' => \E k \in M!Held' : x = entries'[k]
    BY DEF M!Stored
  <2> QED  BY <2>1, <2>2, <2>3, <2>4
<1>11. hand' \in [Clients -> SUBSET Clients] /\ hand'[r] = gone /\ \A q \in Clients : q # r => hand'[q] = hand[q]
  BY <1>1, <1>3 DEF SessionsInv, TableType
<1>12. \A x : x \in M!InHand' <=> x \in M!InHand \/ x \in gone
  BY <1>0, <1>11 DEF M!InHand
<1> HIDE DEF gone
<1>13. /\ \A q : q # r => (Kept(q)' <=> Kept(q) /\ (full \/ q # was))
       /\ Kept(r)' <=> ~full
       /\ \A q : M!Shared(q)' <=> M!Shared(q)
  <2>1. M!Stored \cap M!InHand = {} /\ r \notin gone
    BY <1>3, <1>9 DEF SessionsInv, Apart
  <2>2. was \notin gone
    <3>1. CASE was = None
      BY <1>3, <1>9, <3>1
    <3>2. CASE was # None
      BY <1>3, <1>7, <1>8, <3>2 DEF gone
    <3> QED  BY <3>1, <3>2
  <2>3. was \notin M!InHand \/ was = None
    BY <1>7, <2>1
  <2>4. \A q : q # r => (Kept(q)' <=> Kept(q) /\ (full \/ q # was))
    <3>1. None \notin M!InHand
      BY <1>9 DEF SessionsInv, TableType, M!InHand
    <3> QED  BY <1>3, <1>10, <1>12, <2>2, <2>3, <3>1 DEF Kept
  <2>5. Kept(r)' <=> ~full
    BY <1>9, <1>10, <1>12, <2>1 DEF Kept
  <2> QED  BY <1>0, <2>4, <2>5 DEF M!Shared
<1>14. /\ IsFiniteSet(M!Dropped) /\ IsFiniteSet(M!Held \ M!Dropped) /\ IsFiniteSet(M!Held') /\ Cardinality(gone) \in Nat
       /\ Cardinality(M!Held') <= Capacity
  <2>1. IsFiniteSet(M!Dropped) /\ IsFiniteSet(M!Held \ M!Dropped)
    BY <1>3, FS_Subset DEF SessionsInv, TableType
  <2>2. Cardinality(gone) \in Nat
    BY <1>3, <2>1, ImageCount DEF gone
  <2>3. IsFiniteSet(M!Held')
    BY <1>6, <2>1, FS_AddElement
  <2>4. CASE full
    <3>1. Cardinality(M!Held \ M!Dropped) <= Cardinality(M!Held) /\ M!Held \ M!Dropped \in SUBSET M!Held
      BY <1>3, FS_Subset DEF SessionsInv, TableType
    <3>2. Cardinality(M!Held \ M!Dropped) \in Nat /\ Cardinality(M!Held) \in Nat
      BY <2>1, FS_CardinalityType DEF SessionsInv, TableType
    <3>3. Cardinality(M!Held) <= Capacity /\ Capacity \in Nat
      BY SessionParameters DEF SessionsInv
    <3>4. M!Held' = M!Held \ M!Dropped
      BY <1>6, <2>4
    <3>5. Cardinality(M!Held \ M!Dropped) <= Capacity
      BY <3>1, <3>2, <3>3
    <3> QED  BY <2>1, <2>2, <2>3, <3>4, <3>5
  <2>5. CASE ~full
    <3>1. Cardinality(M!Held \ M!Dropped) \in Nat /\ Capacity \in Nat
      BY <2>1, FS_CardinalityType, SessionParameters
    <3>2. Cardinality(M!Held \ M!Dropped) + 1 <= Capacity
      BY <2>5, <3>1 DEF full
    <3>3. \/ Cardinality((M!Held \ M!Dropped) \cup {key[r]}) = Cardinality(M!Held \ M!Dropped)
          \/ Cardinality((M!Held \ M!Dropped) \cup {key[r]}) = Cardinality(M!Held \ M!Dropped) + 1
      BY <2>1, FS_AddElement
    <3>4. Cardinality((M!Held \ M!Dropped) \cup {key[r]}) <= Capacity
      BY <3>1, <3>2, <3>3
    <3>5. M!Held' = (M!Held \ M!Dropped) \cup {key[r]}
      BY <1>6, <2>5
    <3> QED  BY <2>1, <2>2, <2>3, <3>4, <3>5
  <2> QED  BY <2>4, <2>5
<1>15. /\ IsFiniteSet(srefused') /\ srefused' \subseteq Clients /\ reports' \in Nat
       /\ reports' >= Cardinality(srefused')
  <2>1. IsFiniteSet(srefused) /\ Cardinality(srefused) \in Nat /\ reports \in Nat /\ reports >= Cardinality(srefused)
        /\ srefused \subseteq Clients
    BY FS_CardinalityType DEF SessionsInv, TableType, RequestType
  <2>2. CASE full
    <3>1. IsFiniteSet(srefused \cup {r}) /\ \/ Cardinality(srefused \cup {r}) = Cardinality(srefused)
                                             \/ Cardinality(srefused \cup {r}) = Cardinality(srefused) + 1
      BY <2>1, FS_AddElement
    <3>2. srefused' = srefused \cup {r} /\ reports' = reports + Cardinality(gone) + 1
      BY <1>1, <2>2
    <3>3. reports' \in Nat /\ reports' >= Cardinality(srefused) + 1
      BY <1>14, <2>1, <3>2
    <3> QED  BY <2>1, <3>1, <3>2, <3>3
  <2>3. CASE ~full
    <3>1. srefused' = srefused /\ reports' = reports + Cardinality(gone) + 0
      BY <1>1, <2>3
    <3> QED  BY <1>14, <2>1, <3>1
  <2> QED  BY <2>2, <2>3
<1>16. RequestType'
  BY <1>0, <1>2, <1>15 DEF SessionsInv, RequestType
<1>17. byCtx' \subseteq Clients /\ old' \subseteq byCtx' /\ replaced' \subseteq Clients
  BY <1>1, <1>7 DEF SessionsInv, TableType
<1>18. TableType'
  BY <1>0, <1>5, <1>11, <1>14, <1>15, <1>17 DEF SessionsInv, TableType
<1>19. Bare' /\ StoredOwn'
  <2>1. \A k \in M!Held' : key[entries'[k]] = k
    BY <1>4, <1>5, <1>6 DEF SessionsInv, StoredOwn, M!Held
  <2> QED  BY <1>0, <2>1 DEF Bare, StoredOwn
<1>20. Known'
  <2> SUFFICES ASSUME NEW x \in byCtx' PROVE x \in M!Stored' \/ x \in replaced'
    BY DEF Known
  <2>1. CASE x = r /\ ~full
    BY <1>10, <2>1
  <2>2. CASE x \in byCtx /\ x \notin gone
    <3>1. x \in M!Stored \/ x \in replaced
      BY <2>2 DEF SessionsInv, Known
    <3>2. x \in Clients /\ x # None
      BY <1>9, <2>2 DEF SessionsInv, TableType
    <3> QED  BY <1>1, <1>10, <2>2, <3>1, <3>2
  <2> QED  BY <1>1, <2>1, <2>2
<1>21. Apart'
  <2>1. \A q \in Clients : hand[q] \cap gone = {}
    BY <1>3 DEF SessionsInv, Apart, M!InHand
  <2>2. M!Stored' \cap M!InHand' = {}
    BY <1>3, <1>9, <1>10, <1>12 DEF SessionsInv, Apart
  <2> QED  BY <1>0, <1>11, <2>1, <2>2 DEF SessionsInv, Apart
<1>22. ASSUME NEW q \in Clients PROVE (Grips(q) /\ EndedBy(q) /\ Life(q) /\ Finds(q))'
  <2>1. Grips(q)'
    BY <1>0, <1>2, <1>11 DEF SessionsInv, Grips
  <2>2. EndedBy(q)'
    BY <1>0, <1>2 DEF SessionsInv, EndedBy, Expired, Answered, Gone
  <2>3. was = q => q \in replaced' \/ full
    BY <1>1, <1>7, <1>9
  <2>4. Life(q)'
    <3>1. CASE q = r
      BY <1>0, <1>1, <1>2, <1>13, <3>1 DEF Life, M!Opened
    <3>2. CASE q # r
      BY <1>0, <1>1, <1>2, <1>13, <2>3, <3>2 DEF SessionsInv, Life, Fresh
    <3> QED  BY <3>1, <3>2
  <2>5. Finds(q)'
    <3>1. CASE q = r
      <4>1. r \notin missed
        BY <1>0 DEF SessionsInv, Finds
      <4> QED  BY <1>0, <1>1, <1>2, <1>13, <3>1, <4>1 DEF Finds
    <3>2. CASE q # r
      <4>1. was = q => M!Shared(q)
        BY <1>7, <1>9, <3>2 DEF M!Shared
      <4> QED  BY <1>0, <1>1, <1>2, <1>12, <1>13, <3>2, <4>1 DEF SessionsInv, Finds, Expired
    <3> QED  BY <3>1, <3>2
  <2> QED  BY <2>1, <2>2, <2>4, <2>5
<1> QED  BY <1>0, <1>14, <1>15, <1>16, <1>18, <1>19, <1>20, <1>21, <1>22 DEF SessionsInv

LEMMA SessionsNext == SessionsInv /\ [M!Next]_M!vars => SessionsInv'
<1> SUFFICES ASSUME SessionsInv, [M!Next]_M!vars PROVE SessionsInv'
  OBVIOUS
<1>1. CASE M!Next
  BY <1>1, MovesOnly, Begins, Expires, Sweeps, TakesOne, Records, Stores DEF M!Next
<1>2. CASE UNCHANGED M!vars
  <2>0. UNCHANGED <<skind, key, spc, entries, byCtx, old, hand, sresult, sevent, seen, reports, replaced, srefused, missed>>
    BY <1>2 DEF M!vars, M!pending, M!history
  <2>1. /\ M!Held' = M!Held /\ M!Stored' = M!Stored /\ M!InHand' = M!InHand
        /\ \A q : (Kept(q)' <=> Kept(q)) /\ (M!Shared(q)' <=> M!Shared(q))
    BY <2>0, TableStays DEF SessionsInv
  <2>2. RequestType' /\ TableType' /\ Bare' /\ StoredOwn' /\ Apart' /\ Known'
    BY <2>0, <2>1 DEF SessionsInv, RequestType, TableType, Bare, StoredOwn, Apart, Known
  <2>3. ASSUME NEW q \in Clients PROVE (Grips(q) /\ EndedBy(q) /\ Life(q) /\ Finds(q))'
    BY <2>0, <2>1 DEF SessionsInv, Grips, EndedBy, Expired, Answered, Life, Fresh, Finds
  <2> QED  BY <2>0, <2>1, <2>2, <2>3 DEF SessionsInv
<1> QED  BY <1>1, <1>2

(* What the invariant says of the events, the hooks and the table. *)
LEMMA SessionsHold == SessionsInv => M!SessionsTell
<1> SUFFICES ASSUME SessionsInv PROVE M!SessionsTell
  OBVIOUS
<1>1. M!EventPerRequest
  <2> SUFFICES ASSUME NEW r \in M!Events
               PROVE  \/ sevent[r].ends = 1 /\ r \notin M!Stored \cup M!InHand
                      \/ sevent[r].ends = 0 /\ r \in M!Stored \cup M!InHand \cup replaced \cup srefused
                      \/ sevent[r].ends = 0 /\ (spc[r] = "store" \/ (skind = "middleware" /\ M!Open(r)))
    BY DEF M!EventPerRequest
  <2>1. r \in Clients /\ sevent[r] # None /\ Life(r) /\ skind \in {"hooks", "middleware"}
    BY DEF M!Events, SessionsInv, RequestType
  <2>2. CASE sevent[r].ends = 1
    BY <2>1, <2>2 DEF Life, Kept, M!Opened
  <2>3. CASE sevent[r] = M!Opened /\ (skind = "hooks" \/ spc[r] \in {"handler", "record"})
    BY <2>1, <2>3 DEF Life, Kept, M!Opened, M!Open
  <2> QED  BY <2>1, <2>2, <2>3 DEF Life
<1>2. M!Told
  BY SessionParameters DEF SessionsInv, M!Told
<1>3. M!RightEvent
  <2>1. ASSUME NEW r \in M!Events, sevent[r].ends = 1, ~Expired(r)
        PROVE  /\ sevent[r].by = r \/ (M!Shared(r) /\ key[sevent[r].by] = key[r])
               /\ sevent[r].level = CASE sresult[sevent[r].by] \in {"ok", "input_required"} -> "info"
                                        [] sresult[sevent[r].by] \in {"tool_error", "malformed"} -> "warn"
                                        [] OTHER -> "error"
    <3>1. r \in Clients /\ Answered(r)
      BY <2>1 DEF M!Events, SessionsInv, EndedBy
    <3> QED  BY <3>1 DEF Answered, M!Shared, M!LevelOf, M!Results, M!ToolLevel
  <2>2. \A r \in Clients : seen[r] \in {r, None}
    BY DEF SessionsInv
  <2> QED  BY <2>1, <2>2 DEF M!RightEvent, Expired
<1>4. M!MissExplained
  BY DEF SessionsInv, TableType, Finds, Expired, M!MissExplained
<1>5. M!Bounded
  <2>1. IsFiniteSet(M!Held) /\ Cardinality(M!Held) <= Capacity
    BY DEF SessionsInv, TableType
  <2>2. IsFiniteSet(M!Stored) /\ Cardinality(M!Stored) <= Cardinality(M!Held) /\ Cardinality(M!Stored) \in Nat /\ Cardinality(M!Held) \in Nat
    BY <2>1, ImageCount DEF M!Stored
  <2>3. byCtx \ replaced \subseteq M!Stored
    BY DEF SessionsInv, Known
  <2>4. Cardinality(byCtx \ replaced) <= Cardinality(M!Stored) /\ Cardinality(byCtx \ replaced) \in Nat
    BY <2>2, <2>3, FS_Subset, FS_CardinalityType
  <2> QED  BY <2>1, <2>2, <2>4, SessionParameters DEF M!Bounded
<1> QED  BY <1>1, <1>2, <1>3, <1>4, <1>5 DEF M!SessionsTell

----------------------------------------------------------------------------
(* In every behaviour of the composition, whichever scene it plays. *)

TrafficInv ==
    /\ scene = "exchange" => ExchangeInv
    /\ scene = "calls" => CallInv
    /\ scene = "sessions" => SessionsInv

LEMMA TrafficInvariant == Spec => []TrafficInv
<1>1. Init => TrafficInv
  BY ExchangeStarts, CallStarts, SessionsStart DEF Init, Plays, TrafficInv
<1>2. TrafficInv /\ [Next]_vars => TrafficInv'
  <2> SUFFICES ASSUME TrafficInv, [Next]_vars PROVE TrafficInv'
    OBVIOUS
  <2>1. scene' = scene
    BY DEF Next, vars
  <2>2. CASE scene = "exchange"
    <3>1. [X!Next]_X!vars
      BY <2>2 DEF Next, vars, exchange, Consuming, X!vars, X!config, X!answer, X!record, X!bodies,
                  X!outcome
    <3> QED  BY <2>1, <2>2, <3>1, ExchangeNext DEF TrafficInv
  <2>3. CASE scene = "calls"
    <3>1. [C!Next]_C!vars
      BY <2>3 DEF Next, vars, outgoing, Consuming, C!vars, C!running, C!handle, C!report, C!event
    <3> QED  BY <2>1, <2>3, <3>1, CallNext DEF TrafficInv
  <2>4. CASE scene = "sessions"
    <3>1. [M!Next]_M!vars
      BY <2>4 DEF Next, vars, sessions, Consuming, M!vars, M!pending, M!history
    <3> QED  BY <2>1, <2>4, <3>1, SessionsNext DEF TrafficInv
  <2>5. CASE scene \notin {"exchange", "calls", "sessions"}
    BY <2>1, <2>5 DEF TrafficInv
  <2> QED  BY <2>2, <2>3, <2>4, <2>5
<1> QED  BY <1>1, <1>2, PTL DEF Spec

(* calls.go StartCall and the wrappers of store, client, queue and rpc, for any  *)
(* number of operations and messages: each operation is one call of the event    *)
(* however it nests and however often it ends, call_stats adds up, and a call    *)
(* failed exactly when the program was told so.                                  *)
THEOREM CallsTold == Spec => []CallsTell
<1>1. TrafficInv => CallsTell
  BY CallsFollow DEF TrafficInv, CallsTell
<1> QED  BY <1>1, TrafficInvariant, PTL

(* middleware/httpcore under any adapter, for any number of requests and         *)
(* buffers, and with it the calls: the event says what the client got, and no    *)
(* handler reads another request's body.  A handler that writes a 1xx code has   *)
(* its event say that one instead of the answer (StatusMatchesWire), so this     *)
(* holds of handlers that write none.                                            *)
THEOREM TrafficTold ==
    ASSUME Informational = {}
    PROVE  Spec => []TrafficTells
<1>1. TrafficInv => TrafficTells
  BY ExchangeTells, CallsFollow DEF TrafficInv, TrafficTells, RequestsTell, CallsTell
<1> QED  BY <1>1, TrafficInvariant, PTL

(* The buffers alone, whatever codes the handler writes: from the read of a body *)
(* to the end of its request, nobody else has its buffer (Core.ReturnBody).      *)
THEOREM BuffersHeld == Spec => [](scene = "exchange" => X!BuffersOwned)
<1>1. TrafficInv => (scene = "exchange" => X!BuffersOwned)
  BY ExchangeTells DEF TrafficInv
<1> QED  BY <1>1, TrafficInvariant, PTL

(* ai/mcpgo and ai/mcpsdk, for any number of requests, sessions and ids and any     *)
(* capacity of the table: an event that was started is stored, on its way or ended  *)
(* once, unless the cap refused it or its key was given away, and a refusal is      *)
(* reported; it has its own answer's level or its expiry's; an after hook that      *)
(* finds nothing has a reason; and the table is bounded.                            *)
THEOREM SessionsAnswer == Spec => []SessionsTell
<1>1. TrafficInv => SessionsTell
  BY SessionsHold DEF TrafficInv, SessionsTell
<1> QED  BY <1>1, TrafficInvariant, PTL
=============================================================================
