-------------------------- MODULE AdmissionProofs --------------------------
(***************************************************************************)
(* Theorems about Admission for every finite set of requests, every limit, *)
(* window and bound of the guard, and any number of calls of /start.       *)
(*                                                                         *)
(* The limiter's list is not the set of admitted requests: it forgets what *)
(* has left the window, lazily, and only when the client comes again.  The *)
(* invariant WindowKnown says that it still counts exactly the admitted    *)
(* requests from every instant inside the current window on.               *)
(***************************************************************************)
EXTENDS Admission, SetFacts

Phases == {"unsent", "new", "body", "service", "done"}
Codes == {"-", "200", "enqueued", "verified", "invalid", "400", "401", "409", "413", "429",
          "500", "503", "lost", "query"}
Snapshots == [started : BOOLEAN, last_status : {"None", "ok", "ephemeral", "error"},
              last_audit_hash : Requests \cup {"None"}]
LoopSteps == {"check", "run", "wait", "ended"}
Handlers == [phase : Phases, endpoint : Endpoints \cup {"-"}, at : 0 .. MaxClock,
             answer : Codes]
Guards == [current : Nat, peak : Nat, rejected_total : Nat]

GuardOK(g) == g \in Guards /\ g.current <= g.peak /\ g.peak <= max_in_flight

\* The variables as the sets they belong to.
Typed ==
    /\ clock \in 0 .. MaxClock /\ service \in BOOLEAN /\ keysEnabled \in BOOLEAN
    /\ key \in [requests_total : Nat, requests_today : Nat, day : Nat]
    /\ hits \in [Clients -> Seq(0 .. MaxClock)]
    /\ \A c \in Clients : Len(hits[c]) <= limit
    /\ GuardOK(guard)
    /\ req \in [Requests -> Handlers]
    /\ persisted \subseteq Requests
    /\ snapshot \in Snapshots
    /\ stop_event \in BOOLEAN
    /\ threads \in Seq(LoopSteps)
    /\ starts \in Nat

\* A handler that has not ended has no answer, and knows its endpoint while it
\* waits for the body or the service.
HandlersOK ==
    \A r \in Requests :
        /\ req[r].phase # "done" => req[r].answer = "-"
        /\ req[r].phase \in {"body", "service"} <=> req[r].endpoint \in Endpoints

Base == Typed /\ HandlersOK

\* The last loop created is the only one that may still run; while the stop
\* event is clear, it does.
LoopsKnown ==
    /\ \A t \in 1 .. (Len(threads) - 1) : threads[t] = "ended"
    /\ ~snapshot.started => stop_event
    /\ ~stop_event => threads # << >> /\ threads[Len(threads)] # "ended"

\* What a handler knows and what is committed, at every phase: nothing is before
\* the service is called, only /calculate and /run commit, and the answer fits.
Told(r) ==
    /\ req[r].phase \in {"unsent", "new", "body"} => r \notin persisted
    /\ (req[r].phase = "service" /\ r \in persisted) =>
           req[r].endpoint \in {"calculate", "run"}
    /\ req[r].phase = "done" =>
           /\ req[r].answer = "200" => r \in persisted
           /\ r \in persisted => req[r].answer \in {"200", "500", "lost"}

\* The hash on the dashboard is that of a handler that has ended.
AnswersKnown ==
    /\ \A r \in Requests : Told(r)
    /\ snapshot.last_audit_hash # "None" =>
           /\ req[snapshot.last_audit_hash].phase = "done"
           /\ req[snapshot.last_audit_hash].answer = "200"
    /\ snapshot.last_status = "ok" => snapshot.last_audit_hash # "None"

Sent(r) == req[r].phase \notin {"unsent", "new"}
Authenticated == {r \in Requests : Sent(r) /\ req[r].answer # "401"}

Balanced ==
    /\ guard.current = Cardinality(InsideGuard)
    /\ keysEnabled => key.requests_total = Cardinality(Authenticated)
    /\ key.requests_today <= key.requests_total

\* The entries of a list of instants from an instant on.
CountFrom(s, b) == Cardinality({i \in DOMAIN s : s[i] >= b})

\* The requests of a client the limiter let through, from an instant on.
AdmittedFrom(c, b) ==
    {r \in Requests : /\ ClientOf[r] = c /\ Sent(r)
                      /\ req[r].answer \notin {"401", "429", "query"}
                      /\ req[r].at >= b}

Ascending(s) == \A i, j \in DOMAIN s : i <= j => s[i] <= s[j]

WindowKnown ==
    /\ \A r \in Requests : req[r].at <= clock
    /\ \A c \in Clients :
          /\ Ascending(hits[c])
          /\ \A i \in DOMAIN hits[c] : hits[c][i] <= clock
          /\ \A b \in 0 .. MaxClock : clock < b + window_seconds =>
                Cardinality(AdmittedFrom(c, b)) = CountFrom(hits[c], b)

\* What a step of r's handler that reads the body, loses the client or gets the
\* service's result has in common: it ends the handler or makes it wait for the
\* service, and the guard follows the handler in and out.
OthersKept(r) == \A q \in Requests \ {r} : req'[q] = req[q]
Inside(r) == IF req[r].phase = "service" /\ req[r].endpoint \in {"calculate", "run"}
             THEN 1 ELSE 0
Recording(r) ==
    /\ snapshot'.last_status = "ok" /\ snapshot'.last_audit_hash = r
    /\ req'[r].answer = "200" /\ req'[r].phase = "done"
Handled(r) ==
    /\ req' \in [Requests -> Handlers] /\ OthersKept(r)
    /\ req[r].phase \in {"body", "service"} /\ req'[r].at = req[r].at
    /\ \/ /\ req'[r].phase = "service" /\ req'[r].endpoint \in Endpoints
          /\ req'[r].answer = "-"
       \/ /\ req'[r].phase = "done" /\ req'[r].endpoint = "-"
          /\ req'[r].answer \notin {"401", "429", "query"}
    /\ GuardOK(guard') /\ guard'.current = guard.current - Inside(r) + Inside(r)'
    /\ persisted' \in {persisted, persisted \cup {r}}
    /\ Told(r) => Told(r)'
    /\ snapshot' \in Snapshots /\ snapshot'.started = snapshot.started
    /\ snapshot' = snapshot \/ Recording(r)
    /\ UNCHANGED <<clock, service, keysEnabled, key, hits, stop_event, threads, starts>>

\* The first step of a handler: refused by the key, refused by the limiter, or
\* let through to wait for its body.
Live(r) == DropExpired(hits[ClientOf[r]])
KeyTicks == key' = IF keysEnabled THEN tick(key) ELSE key
Ended(r, code) == req'[r] = [phase |-> "done", endpoint |-> "-", at |-> clock, answer |-> code]
Arrived(r) ==
    /\ req[r].phase = "new" /\ req' \in [Requests -> Handlers] /\ OthersKept(r)
    /\ \/ Ended(r, "401") /\ UNCHANGED <<key, hits>>
       \/ /\ Ended(r, "429") /\ KeyTicks /\ Len(Live(r)) >= limit
          /\ hits' = [hits EXCEPT ![ClientOf[r]] = Live(r)]
       \/ /\ req'[r].phase = "body" /\ req'[r].endpoint \in Endpoints
          /\ req'[r].at = clock /\ req'[r].answer = "-"
          /\ KeyTicks /\ Len(Live(r)) < limit
          /\ hits' = [hits EXCEPT ![ClientOf[r]] = Append(Live(r), clock)]
    /\ UNCHANGED <<clock, service, keysEnabled, guard, persisted, snapshot, stop_event,
                   threads, starts>>

Queried(r) ==
    /\ req[r].phase = "new" /\ req' \in [Requests -> Handlers] /\ OthersKept(r)
    /\ req'[r].phase = "done" /\ req'[r].endpoint = "-" /\ req'[r].at = req[r].at
    /\ \/ req'[r].answer = "401" /\ UNCHANGED key
       \/ req'[r].answer = "query" /\ KeyTicks
    /\ UNCHANGED <<clock, service, keysEnabled, hits, guard, persisted, snapshot, stop_event,
                   threads, starts>>

RuntimeMoves ==
    /\ UNCHANGED <<clock, service, keysEnabled, key, hits, guard, req, persisted>>
    /\ Start \/ Stop \/ \E t \in 1 .. Len(threads) : LoopStep(t)

-----------------------------------------------------------------------------
(***************************************************************************)
(* The guard's counter and the end of a handler.                           *)
(***************************************************************************)

\* Max of two integers.
LEMMA MaxOfTwo ==
    ASSUME NEW a \in Int, NEW b \in Int
    PROVE  Max({a, b}) = IF a >= b THEN a ELSE b
<1> DEFINE m == IF a >= b THEN a ELSE b
<1>1. m \in {a, b} /\ \A y \in {a, b} : m >= y
  OBVIOUS
<1>2. \A x \in {a, b} : (\A y \in {a, b} : x >= y) => x = m
  OBVIOUS
<1> QED
  BY <1>1, <1>2 DEF Max

\* Entering below the bound keeps the guard within it, leaving undoes entering,
\* and a refusal moves neither current nor peak.
LEMMA GuardSteps ==
    ASSUME NEW g, GuardOK(g)
    PROVE  /\ g.current < max_in_flight =>
                 /\ GuardOK(acquire(g)) /\ acquire(g).current = g.current + 1
                 /\ GuardOK(release(acquire(g))) /\ release(acquire(g)).current = g.current
           /\ GuardOK(reject(g)) /\ reject(g).current = g.current
           /\ g.current > 0 => /\ GuardOK(release(g))
                               /\ release(g).current = g.current - 1
<1> USE AdmissionBounds
<1>1. ASSUME NEW h, GuardOK(h), h.current > 0
      PROVE  GuardOK(release(h)) /\ release(h).current = h.current - 1
  <2>1. Max({0, h.current - 1}) = h.current - 1
    BY <1>1, MaxOfTwo DEF GuardOK, Guards
  <2> QED
    BY <1>1, <2>1 DEF GuardOK, Guards, release
<1>2. ASSUME g.current < max_in_flight
      PROVE  GuardOK(acquire(g)) /\ acquire(g).current = g.current + 1
  <2>1. Max({g.peak, g.current + 1}) = IF g.peak >= g.current + 1 THEN g.peak
                                                               ELSE g.current + 1
    BY MaxOfTwo DEF GuardOK, Guards
  <2>2. /\ acquire(g).current = g.current + 1
        /\ acquire(g).peak = Max({g.peak, g.current + 1})
        /\ Max({g.peak, g.current + 1}) \in Nat => acquire(g) \in Guards
    <3>1. ASSUME NEW c \in Nat, NEW p
          PROVE  /\ [g EXCEPT !.current = c, !.peak = p].current = c
                 /\ [g EXCEPT !.current = c, !.peak = p].peak = p
                 /\ p \in Nat => [g EXCEPT !.current = c, !.peak = p] \in Guards
      BY DEF GuardOK, Guards
    <3>2. g.current + 1 \in Nat
      BY DEF GuardOK, Guards
    <3> QED
      BY <3>1, <3>2, Zenon DEF acquire
  <2>3. /\ g.current \in Nat /\ g.peak \in Nat /\ g.rejected_total \in Nat
        /\ g.current <= g.peak /\ g.peak <= max_in_flight /\ max_in_flight \in Nat
    BY DEF GuardOK, Guards
  <2> QED
    BY <1>2, <2>1, <2>2, <2>3 DEF GuardOK
<1>3. ASSUME g.current < max_in_flight
      PROVE  GuardOK(release(acquire(g))) /\ release(acquire(g)).current = g.current
  <2>1. g.current \in Nat
    BY DEF GuardOK, Guards
  <2> QED
    BY <1>1, <1>2, <1>3, <2>1
<1>4. GuardOK(reject(g)) /\ reject(g).current = g.current
  BY DEF GuardOK, Guards, reject
<1> QED
  BY <1>1, <1>2, <1>3, <1>4

\* A handler that ends keeps its instant of arrival and disturbs no other.
LEMMA AnswerEnds ==
    ASSUME req \in [Requests -> Handlers], NEW r \in Requests, NEW code \in Codes,
           Answer(r, code)
    PROVE  /\ req' \in [Requests -> Handlers] /\ OthersKept(r)
           /\ req'[r] = [phase |-> "done", endpoint |-> "-", at |-> req[r].at,
                         answer |-> code]
BY DEF Answer, Handlers, OthersKept, Phases

\* So does one that goes on to the service.
LEMMA ServiceBegins ==
    ASSUME req \in [Requests -> Handlers], NEW r \in Requests,
           req' = [req EXCEPT ![r].phase = "service"]
    PROVE  /\ req' \in [Requests -> Handlers] /\ OthersKept(r)
           /\ req'[r] = [phase |-> "service", endpoint |-> req[r].endpoint,
                         at |-> req[r].at, answer |-> req[r].answer]
BY DEF Handlers, OthersKept, Phases

Plain == Codes \ {"401", "429", "query"}
Refusals == Plain \ {"200"}

\* The handlers of a body: an answer from outside the guard, or the wait for the
\* service, inside it except for /verify.
LEMMA BodyRead ==
    ASSUME Base, NEW r \in Requests, NEW body \in Bodies, ReadBody(r, body)
    PROVE  \/ /\ \E code \in Refusals : Answer(r, code)
              /\ \/ guard' \in {guard, reject(guard)}
                 \/ CanAcquire /\ guard' = release(acquire(guard))
           \/ /\ req' = [req EXCEPT ![r].phase = "service"]
              /\ \/ req[r].endpoint = "verify" /\ guard' = guard
                 \/ /\ req[r].endpoint \in {"calculate", "run"}
                    /\ CanAcquire /\ guard' = acquire(guard)
<1>0. req[r].phase = "body" /\ req[r].endpoint \in Endpoints
  BY DEF ReadBody, Base, HandlersOK
<1>1. CASE BodyError(body) # "-"
  <2>1. BodyError(body) \in Refusals
    BY <1>1 DEF BodyError, Refusals, Plain, Codes, Bodies
  <2>2. Answer(r, BodyError(body)) /\ guard' = guard
    BY <1>1 DEF ReadBody
  <2> QED
    BY <2>1, <2>2
<1>c. /\ "503" \in Refusals /\ "400" \in Refusals /\ "500" \in Refusals
      /\ "enqueued" \in Refusals /\ "invalid" \in Refusals
  BY DEF Refusals, Plain, Codes
<1>2. CASE BodyError(body) = "-" /\ req[r].endpoint = "calculate"
  <2>1. calculate_begin(r, body)
    BY <1>2 DEF ReadBody
  <2> QED
    BY <1>2, <2>1, <1>c DEF calculate_begin
<1>3. CASE BodyError(body) = "-" /\ req[r].endpoint = "prove"
  <2>1. prove_all(r, body)
    BY <1>3 DEF ReadBody
  <2> QED
    BY <1>3, <2>1, <1>c DEF prove_all
<1>4. CASE BodyError(body) = "-" /\ req[r].endpoint = "verify"
  <2>1. verify_begin(r, body)
    BY <1>4 DEF ReadBody
  <2> QED
    BY <1>4, <2>1, <1>c DEF verify_begin
<1>5. CASE BodyError(body) = "-" /\ req[r].endpoint = "run"
  <2>1. run_begin(r, body)
    BY <1>5 DEF ReadBody
  <2> QED
    BY <1>5, <2>1, <1>c DEF run_begin
<1> QED
  BY <1>0, <1>1, <1>2, <1>3, <1>4, <1>5 DEF Endpoints

\* Every later step of a handler is Handled, given that the guard counts those
\* inside it.
LEMMA HandlerSteps ==
    ASSUME Base, NEW r \in Requests, Inside(r) = 1 => guard.current > 0,
           \/ \E body \in Bodies : ReadBody(r, body)
           \/ LoseClient(r) \/ ServiceCommits(r) \/ ServiceEnds(r)
    PROVE  Handled(r)
<1> USE DEF Base
<1>t. /\ req \in [Requests -> Handlers] /\ GuardOK(guard) /\ snapshot \in Snapshots
      /\ persisted \subseteq Requests /\ guard.current \in Nat
      /\ Inside(r) \in {0, 1}
  BY DEF Typed, GuardOK, Guards, Inside
<1>p. Plain \subseteq Codes /\ Refusals \subseteq Plain
  BY DEF Plain, Refusals
<1>1. CASE \E body \in Bodies : ReadBody(r, body)
  <2> PICK body \in Bodies : ReadBody(r, body)
    BY <1>1
  <2>1. req[r].phase = "body" /\ req[r].endpoint \in Endpoints /\ req[r].answer = "-"
    BY DEF ReadBody, HandlersOK
  <2>2. UNCHANGED <<clock, service, keysEnabled, key, hits, persisted, snapshot, stop_event,
                    threads, starts>>
    BY DEF ReadBody, runtimeVars
  <2>3. Inside(r) = 0
    BY <2>1 DEF Inside
  <2>4. CASE /\ \E code \in Refusals : Answer(r, code)
             /\ \/ guard' \in {guard, reject(guard)}
                \/ CanAcquire /\ guard' = release(acquire(guard))
    <3> PICK code \in Refusals : Answer(r, code)
      BY <2>4
    <3>1. /\ req' \in [Requests -> Handlers] /\ OthersKept(r)
          /\ req'[r] = [phase |-> "done", endpoint |-> "-", at |-> req[r].at,
                        answer |-> code]
      BY <1>t, <1>p, AnswerEnds
    <3>2. GuardOK(guard') /\ guard'.current = guard.current
      BY <2>4, <1>t, GuardSteps DEF CanAcquire
    <3>3. Inside(r)' = 0
      BY <3>1 DEF Inside
    <3>4. Told(r) => Told(r)'
      BY <2>1, <2>2, <3>1 DEF Told, Refusals
    <3> QED
      BY <1>t, <2>1, <2>2, <2>3, <3>1, <3>2, <3>3, <3>4 DEF Handled, Refusals, Plain
  <2>5. CASE /\ req' = [req EXCEPT ![r].phase = "service"]
             /\ \/ req[r].endpoint = "verify" /\ guard' = guard
                \/ /\ req[r].endpoint \in {"calculate", "run"}
                   /\ CanAcquire /\ guard' = acquire(guard)
    <3>1. /\ req' \in [Requests -> Handlers] /\ OthersKept(r)
          /\ req'[r] = [phase |-> "service", endpoint |-> req[r].endpoint,
                        at |-> req[r].at, answer |-> req[r].answer]
      BY <1>t, <2>5, ServiceBegins
    <3>2. GuardOK(guard') /\ guard'.current = guard.current + Inside(r)'
      <4>1. CASE req[r].endpoint = "verify" /\ guard' = guard
        <5>1. Inside(r)' = 0
          BY <4>1, <3>1 DEF Inside
        <5> QED
          BY <4>1, <5>1, <1>t
      <4>2. CASE req[r].endpoint \in {"calculate", "run"} /\ CanAcquire /\ guard' = acquire(guard)
        <5>1. Inside(r)' = 1
          BY <4>2, <3>1 DEF Inside
        <5> QED
          BY <4>2, <5>1, <1>t, GuardSteps DEF CanAcquire
      <4> QED
        BY <2>5, <4>1, <4>2
    <3>3. Told(r) => Told(r)'
      BY <2>1, <2>2, <3>1 DEF Told
    <3> QED
      BY <1>t, <2>1, <2>2, <2>3, <3>1, <3>2, <3>3 DEF Handled
  <2> QED
    BY <2>4, <2>5, BodyRead
<1>2. CASE LoseClient(r)
  <2>1. req[r].phase = "body" /\ Answer(r, "lost") /\ "lost" \in Plain /\ Inside(r) = 0
    BY <1>2 DEF LoseClient, Plain, Codes, Inside
  <2>2. /\ req' \in [Requests -> Handlers] /\ OthersKept(r)
        /\ req'[r] = [phase |-> "done", endpoint |-> "-", at |-> req[r].at,
                      answer |-> "lost"]
    BY <1>t, <1>p, <2>1, AnswerEnds
  <2>3. Inside(r)' = 0
    BY <2>2 DEF Inside
  <2>4. Told(r) => Told(r)'
    BY <1>2, <2>1, <2>2 DEF LoseClient, Told
  <2> QED
    BY <1>2, <1>t, <2>1, <2>2, <2>3, <2>4 DEF Handled, LoseClient, runtimeVars
<1>3. CASE ServiceEnds(r)
  <2>1. PICK outcome \in Outcomes \cup {"cancelled"} :
            /\ req[r].phase = "service" /\ guard' = LeaveGuard(r, outcome)
            /\ (outcome \in Outcomes /\ ServiceReturns(r, outcome)) \/ Cancel(r)
    BY <1>3 DEF ServiceEnds, ServiceReturns, Cancel
  <2>2. GuardOK(guard') /\ guard'.current = guard.current - Inside(r)
    BY <1>t, <2>1, GuardSteps DEF LeaveGuard, Inside
  <2>3. UNCHANGED <<clock, service, keysEnabled, key, hits, stop_event, threads, starts>>
    BY <2>1 DEF ServiceReturns, Cancel, runtimeVars
  <2>4. \E code \in Plain :
            /\ Answer(r, code)
            /\ persisted' \in {persisted, persisted \cup {r}}
            /\ Told(r) => /\ code = "200" => r \in persisted'
                          /\ r \in persisted' => code \in {"200", "500", "lost"}
            /\ \/ snapshot' = snapshot
               \/ code = "200" /\ record_response("ok", r)
    <3>1. CASE Cancel(r)
      BY <1>t, <3>1 DEF Cancel, Plain, Codes, runtimeVars
    <3>2. CASE ServiceReturns(r, outcome) /\ req[r].endpoint = "verify"
      <4>1. Told(r) => r \notin persisted
        BY <2>1, <3>2 DEF Told
      <4> QED
        BY <1>t, <3>2, <4>1 DEF ServiceReturns, Plain, Codes
    <3>3. CASE ServiceReturns(r, outcome) /\ req[r].endpoint # "verify" /\ outcome \in Outcomes
      <4>1. /\ ExceptionCode(outcome) \in Plain
            /\ ExceptionCode(outcome) = "200" <=> outcome = "ok"
            /\ outcome = "error" => ExceptionCode(outcome) = "500"
        BY <3>3 DEF ExceptionCode, Outcomes, Plain, Codes
      <4>2. /\ persisted' \in {persisted, persisted \cup {r}}
            /\ outcome = "ok" => r \in persisted'
            /\ r \in persisted' => outcome \in {"ok", "error"}
        BY <3>3 DEF ServiceReturns, CanEnd, Outcomes
      <4>3. /\ ExceptionCode(outcome) = "200" => r \in persisted'
            /\ r \in persisted' => ExceptionCode(outcome) \in {"200", "500", "lost"}
        BY <4>1, <4>2
      <4> QED
        BY <3>3, <4>1, <4>2, <4>3 DEF ServiceReturns, Recorded
    <3> QED
      BY <2>1, <3>1, <3>2, <3>3
  <2>5. PICK code \in Plain :
            /\ Answer(r, code)
            /\ persisted' \in {persisted, persisted \cup {r}}
            /\ Told(r) => /\ code = "200" => r \in persisted'
                          /\ r \in persisted' => code \in {"200", "500", "lost"}
            /\ \/ snapshot' = snapshot
               \/ code = "200" /\ record_response("ok", r)
    BY <2>4
  <2>6. /\ req' \in [Requests -> Handlers] /\ OthersKept(r)
        /\ req'[r] = [phase |-> "done", endpoint |-> "-", at |-> req[r].at,
                      answer |-> code]
    BY <1>t, <1>p, <2>5, AnswerEnds
  <2>7. Inside(r)' = 0
    BY <2>6 DEF Inside
  <2>8. /\ snapshot' \in Snapshots /\ snapshot'.started = snapshot.started
        /\ snapshot' = snapshot \/ Recording(r)
    <3>1. CASE snapshot' = snapshot
      BY <1>t, <3>1
    <3>2. CASE code = "200" /\ record_response("ok", r)
      <4>1. /\ snapshot' \in Snapshots /\ snapshot'.started = snapshot.started
            /\ snapshot'.last_status = "ok" /\ snapshot'.last_audit_hash = r
        BY <1>t, <3>2 DEF Snapshots, record_response
      <4> QED
        BY <4>1, <3>2, <2>6 DEF Recording
    <3> QED
      BY <2>5, <3>1, <3>2
  <2>9. Told(r) => Told(r)'
    BY <2>5, <2>6 DEF Told
  <2> QED
    BY <1>t, <2>1, <2>2, <2>3, <2>5, <2>6, <2>7, <2>8, <2>9 DEF Handled, Plain
<1>4. CASE ServiceCommits(r)
  <2>1. /\ req[r].phase = "service" /\ req[r].endpoint \in Endpoints /\ req[r].answer = "-"
        /\ req' = req /\ guard' = guard /\ snapshot' = snapshot
        /\ persisted' = persisted \cup {r}
    BY <1>4 DEF ServiceCommits, guardVars, runtimeVars, HandlersOK, Endpoints
  <2>2. Told(r) => Told(r)'
    BY <1>4, <2>1 DEF ServiceCommits, Told
  <2>3. Inside(r)' = Inside(r)
    BY <2>1 DEF Inside
  <2> QED
    BY <1>4, <1>t, <2>1, <2>2, <2>3 DEF Handled, ServiceCommits, guardVars, runtimeVars, OthersKept
<1> QED
  BY <1>1, <1>2, <1>3, <1>4

-----------------------------------------------------------------------------
(***************************************************************************)
(* The limiter's list: the entries DropExpired takes off its head, and     *)
(* what is counted from an instant on.                                     *)
(***************************************************************************)

\* DropExpired takes entries off the head, all of them expired, and stops at the
\* first that is not.
LEMMA DropHead ==
    ASSUME clock \in 0 .. MaxClock, NEW times \in Seq(0 .. MaxClock)
    PROVE  \E m \in 0 .. Len(times) :
              /\ DropExpired(times) \in Seq(0 .. MaxClock)
              /\ Len(DropExpired(times)) = Len(times) - m
              /\ \A i \in 1 .. (Len(times) - m) : DropExpired(times)[i] = times[i + m]
              /\ \A i \in 1 .. m : clock - times[i] >= window_seconds
              /\ m < Len(times) => clock - times[m + 1] < window_seconds
<1> USE AdmissionBounds
<1> DEFINE kept == {i \in 1 .. Len(times) : clock - times[i] < window_seconds}
<1>t. /\ \A i \in 1 .. Len(times) : times[i] \in 0 .. MaxClock
      /\ Len(times) \in Nat
  OBVIOUS
<1>1. CASE kept = {}
  <2>1. DropExpired(times) = << >>
    BY <1>1 DEF DropExpired
  <2>2. \A i \in 1 .. Len(times) : clock - times[i] >= window_seconds
    BY <1>1, <1>t
  <2> WITNESS Len(times) \in 0 .. Len(times)
  <2> QED
    BY <2>1, <2>2, <1>t
<1>2. CASE kept # {}
  <2>1. kept \in SUBSET Nat
    OBVIOUS
  <2>2. \E k \in kept : \A y \in kept : k <= y
    BY <1>2, <2>1, LeastElement
  <2> HIDE DEF kept
  <2>3. Min(kept) \in kept /\ \A y \in kept : Min(kept) <= y
    BY <2>2 DEF Min
  <2> DEFINE k == Min(kept)
  <2>4. DropExpired(times) = SubSeq(times, k, Len(times))
    BY <1>2 DEF DropExpired, kept
  <2> HIDE DEF k
  <2>5. k \in kept /\ \A y \in kept : k <= y
    BY <2>3 DEF k
  <2>6. k \in 1 .. Len(times) /\ clock - times[k] < window_seconds
    BY <2>5 DEF kept
  <2>7. \A i \in 1 .. (k - 1) : clock - times[i] >= window_seconds
    <3> SUFFICES ASSUME NEW i \in 1 .. (k - 1) PROVE clock - times[i] >= window_seconds
      OBVIOUS
    <3>1. i \in 1 .. Len(times) /\ i \notin kept
      BY <2>5, <2>6, <1>t
    <3>2. ~(clock - times[i] < window_seconds)
      BY <3>1 DEF kept
    <3> QED
      BY <3>1, <3>2, <1>t
  <2>8. /\ SubSeq(times, k, Len(times)) \in Seq(0 .. MaxClock)
        /\ Len(SubSeq(times, k, Len(times))) = Len(times) - (k - 1)
        /\ \A i \in 1 .. (Len(times) - (k - 1)) :
               SubSeq(times, k, Len(times))[i] = times[i + (k - 1)]
    BY <2>6, <1>t
  <2>9. k - 1 \in 0 .. Len(times)
    BY <2>6, <1>t
  <2> WITNESS k - 1 \in 0 .. Len(times)
  <2> QED
    BY <2>4, <2>6, <2>7, <2>8, <1>t
<1> QED
  BY <1>1, <1>2

\* The entries of a list from an instant on are finitely many, at most its
\* length, and all of it if none is earlier.
LEMMA CountBounded ==
    ASSUME NEW s \in Seq(Nat), NEW b \in Nat
    PROVE  /\ IsFiniteSet({i \in DOMAIN s : s[i] >= b})
           /\ CountFrom(s, b) \in Nat /\ CountFrom(s, b) <= Len(s)
           /\ (\A i \in DOMAIN s : s[i] >= b) => CountFrom(s, b) = Len(s)
<1>1. IsFiniteSet(1 .. Len(s)) /\ Cardinality(1 .. Len(s)) = Len(s) /\ DOMAIN s = 1 .. Len(s)
  <2>1. Len(s) \in Nat /\ DOMAIN s = 1 .. Len(s)
    OBVIOUS
  <2>2. /\ IsFiniteSet(1 .. Len(s))
        /\ Cardinality(1 .. Len(s)) = IF 1 > Len(s) THEN 0 ELSE Len(s) - 1 + 1
    BY <2>1, FS_Interval
  <2> QED
    BY <2>1, <2>2
<1> DEFINE I == {i \in DOMAIN s : s[i] >= b}
<1>2. I \in SUBSET (1 .. Len(s))
  BY <1>1
<1>3. IsFiniteSet(I) /\ Cardinality(I) <= Cardinality(1 .. Len(s)) /\ Cardinality(I) \in Nat
  BY <1>1, <1>2, FS_Subset, FS_CardinalityType
<1>4. (\A i \in DOMAIN s : s[i] >= b) => I = 1 .. Len(s)
  BY <1>1
<1> QED
  BY <1>1, <1>3, <1>4 DEF CountFrom

\* A new entry at the end is counted if it is late enough.
LEMMA CountAppended ==
    ASSUME NEW s \in Seq(Nat), NEW b \in Nat, NEW x \in Nat
    PROVE  CountFrom(Append(s, x), b) = CountFrom(s, b) + (IF x >= b THEN 1 ELSE 0)
<1> DEFINE I == {i \in DOMAIN s : s[i] >= b}
           J == {i \in DOMAIN Append(s, x) : Append(s, x)[i] >= b}
           n == Len(s) + 1
<1>1. /\ DOMAIN s = 1 .. Len(s) /\ DOMAIN Append(s, x) = 1 .. n /\ Len(s) \in Nat
      /\ \A i \in 1 .. Len(s) : Append(s, x)[i] = s[i]
      /\ Append(s, x)[n] = x
  OBVIOUS
<1>2. \A y : y # n => (y \in I <=> y \in J)
  BY <1>1
<1>3. n \notin I /\ (n \in J <=> x >= b)
  BY <1>1
<1>4. IsFiniteSet(I)
  BY CountBounded
<1> HIDE DEF I, J, n
<1>5. /\ Cardinality(I) \in Nat
      /\ Cardinality(J) = Cardinality(I) - (IF n \in I THEN 1 ELSE 0)
                                         + (IF n \in J THEN 1 ELSE 0)
  BY <1>2, <1>4, OneMemberChanges
<1>6. Cardinality(J) = Cardinality(I) + (IF x >= b THEN 1 ELSE 0)
  BY <1>3, <1>5
<1> QED
  BY <1>6 DEF CountFrom, I, J

\* Taking entries off the head that are too early changes no count.
LEMMA CountShifted ==
    ASSUME NEW s \in Seq(Nat), NEW u \in Seq(Nat), NEW b \in Nat, NEW m \in 0 .. Len(s),
           Len(u) = Len(s) - m, \A i \in 1 .. (Len(s) - m) : u[i] = s[i + m],
           \A i \in 1 .. m : s[i] < b
    PROVE  CountFrom(u, b) = CountFrom(s, b)
<1> DEFINE I == {i \in DOMAIN u : u[i] >= b}
           J == {i \in DOMAIN s : s[i] >= b}
           f == [i \in I |-> i + m]
<1>1. /\ DOMAIN s = 1 .. Len(s) /\ DOMAIN u = 1 .. (Len(s) - m) /\ Len(s) \in Nat
      /\ m \in Nat /\ \A i \in DOMAIN s : s[i] \in Nat
  OBVIOUS
<1>2. \A i \in I : i \in Int /\ i + m \in J
  <2> SUFFICES ASSUME NEW i \in I PROVE i \in Int /\ i + m \in J
    OBVIOUS
  <2>1. i \in 1 .. (Len(s) - m) /\ u[i] >= b /\ i \in Int
    BY <1>1
  <2>2. i + m \in DOMAIN s /\ s[i + m] = u[i]
    BY <2>1, <1>1
  <2> QED
    BY <2>1, <2>2
<1>3. \A j \in J : j - m \in I /\ (j - m) + m = j
  <2> SUFFICES ASSUME NEW j \in J PROVE j - m \in I /\ (j - m) + m = j
    OBVIOUS
  <2>1. j \in 1 .. Len(s) /\ s[j] >= b /\ s[j] \in Nat
    BY <1>1
  <2>2. ~(j \in 1 .. m)
    BY <2>1
  <2>3. j - m \in 1 .. (Len(s) - m) /\ (j - m) + m = j
    BY <2>1, <2>2, <1>1
  <2>4. u[j - m] = s[j]
    BY <2>3
  <2> QED
    BY <2>1, <2>3, <2>4, <1>1
<1>4. IsFiniteSet(I)
  BY CountBounded
<1> HIDE DEF I, J
<1>5. f \in [I -> J]
  BY <1>2
<1>6. \A x, y \in I : f[x] = f[y] => x = y
  BY <1>1, <1>2
<1>7. \A j \in J : \E i \in I : f[i] = j
  BY <1>3
<1> HIDE DEF f
<1>8. f \in Bijection(I, J)
  BY <1>5, <1>6, <1>7 DEF Bijection, Injection, Surjection, IsInjective
<1>9. Cardinality(J) = Cardinality(I)
  BY <1>4, <1>8, FS_Bijection DEF ExistsBijection
<1> QED
  BY <1>9 DEF CountFrom, I, J

-----------------------------------------------------------------------------
(***************************************************************************)
(* What the steps of Next do.                                              *)
(***************************************************************************)

\* Arrive and Query as the cases above.
LEMMA ArrivalSteps ==
    ASSUME Base, NEW r \in Requests, NEW endpoint \in Endpoints, NEW presented,
           Arrive(r, endpoint, presented)
    PROVE  Arrived(r)
<1> DEFINE auth == _require_api_key(presented)
           admitted == auth /\ allow(ClientOf[r])
<1>b. auth \in BOOLEAN /\ (allow(ClientOf[r]) <=> Len(Live(r)) < limit)
  BY DEF _require_api_key, allow, Live
<1>t. clock \in 0 .. MaxClock /\ req \in [Requests -> Handlers]
      /\ ClientOf[r] \in Clients /\ hits[ClientOf[r]] \in Seq(0 .. MaxClock)
  BY DEF Base, Typed, Clients
<1>0. Len(Live(r)) \in Nat /\ limit \in Nat
  BY <1>t, DropHead, AdmissionBounds DEF Live
<1>1. /\ req[r].phase = "new"
      /\ UNCHANGED <<clock, service, keysEnabled, guard, persisted, snapshot, stop_event,
                     threads, starts>>
  BY DEF Arrive, runtimeVars
<1>2. ASSUME NEW e \in Handlers, req' = [req EXCEPT ![r] = e]
      PROVE  req' \in [Requests -> Handlers] /\ OthersKept(r) /\ req'[r] = e
  BY <1>t, <1>2 DEF OthersKept
<1>3. CASE ~auth
  <2> DEFINE e == [phase |-> "done", endpoint |-> "-", at |-> clock, answer |-> "401"]
  <2>1. req' = [req EXCEPT ![r] = e] /\ UNCHANGED <<key, hits>>
    BY <1>3 DEF Arrive
  <2>2. e \in Handlers
    BY <1>t DEF Handlers, Phases, Codes
  <2> QED
    BY <1>1, <1>2, <2>1, <2>2 DEF Arrived, Ended
<1>4. CASE auth /\ ~allow(ClientOf[r])
  <2> DEFINE e == [phase |-> "done", endpoint |-> "-", at |-> clock, answer |-> "429"]
  <2>1. req' = [req EXCEPT ![r] = e]
    BY <1>4 DEF Arrive
  <2>2. e \in Handlers
    BY <1>t DEF Handlers, Phases, Codes
  <2>3. KeyTicks /\ hits' = [hits EXCEPT ![ClientOf[r]] = Live(r)]
    BY <1>4 DEF Arrive, KeyTicks, Live
  <2>4. Len(Live(r)) >= limit
    BY <1>4, <1>b, <1>0
  <2> QED
    BY <1>1, <1>2, <2>1, <2>2, <2>3, <2>4 DEF Arrived, Ended
<1>5. CASE auth /\ allow(ClientOf[r])
  <2> DEFINE e == [phase |-> "body", endpoint |-> endpoint, at |-> clock, answer |-> "-"]
  <2>1. req' = [req EXCEPT ![r] = e]
    BY <1>5 DEF Arrive
  <2>2. e \in Handlers
    BY <1>t DEF Handlers, Phases, Codes
  <2>3. KeyTicks /\ hits' = [hits EXCEPT ![ClientOf[r]] = Append(Live(r), clock)]
    BY <1>5 DEF Arrive, KeyTicks, Live
  <2> QED
    BY <1>1, <1>2, <1>5, <1>b, <2>1, <2>2, <2>3 DEF Arrived
<1> QED
  BY <1>3, <1>4, <1>5

\* Query as its case above.
LEMMA QuerySteps ==
    ASSUME Base, NEW r \in Requests, NEW presented, Query(r, presented)
    PROVE  Queried(r)
<1>1. /\ req[r].phase = "new"
      /\ UNCHANGED <<clock, service, keysEnabled, hits, guard, persisted, snapshot, stop_event,
                     threads, starts>>
  BY DEF Query, runtimeVars
<1>t. req \in [Requests -> Handlers] /\ "query" \in Codes /\ "401" \in Codes
  BY DEF Base, Typed, Codes
<1>2. CASE _require_api_key(presented)
  <2>1. Answer(r, "query") /\ KeyTicks
    BY <1>2 DEF Query, KeyTicks
  <2>2. /\ req' \in [Requests -> Handlers] /\ OthersKept(r)
        /\ req'[r] = [phase |-> "done", endpoint |-> "-", at |-> req[r].at,
                      answer |-> "query"]
    BY <1>t, <2>1, AnswerEnds
  <2> QED
    BY <1>1, <2>1, <2>2 DEF Queried
<1>3. CASE ~_require_api_key(presented)
  <2>1. Answer(r, "401") /\ UNCHANGED key
    BY <1>3 DEF Query
  <2>2. /\ req' \in [Requests -> Handlers] /\ OthersKept(r)
        /\ req'[r] = [phase |-> "done", endpoint |-> "-", at |-> req[r].at,
                      answer |-> "401"]
    BY <1>t, <2>1, AnswerEnds
  <2> QED
    BY <1>1, <2>1, <2>2 DEF Queried
<1> QED
  BY <1>2, <1>3

\* The guard counts a handler that is inside it.
LEMMA InsideIsCounted ==
    ASSUME Base, Balanced, NEW r \in Requests, Inside(r) = 1
    PROVE  guard.current > 0
<1>1. r \in InsideGuard /\ InsideGuard \in SUBSET Requests
  BY DEF Inside, InsideGuard
<1>2. IsFiniteSet(InsideGuard) /\ Cardinality(InsideGuard) \in Nat
  BY <1>1, FS_Subset, FS_CardinalityType, AdmissionBounds
<1>3. Cardinality(InsideGuard) # 0
  BY <1>1, <1>2, FS_EmptySet
<1> QED
  BY <1>2, <1>3 DEF Balanced

\* A step of Next, by what it touches.
LEMMA Steps ==
    ASSUME Base, Balanced, [AdmissionNext]_vars
    PROVE  \/ UNCHANGED vars
           \/ Tick
           \/ \E r \in Requests : Arrived(r) \/ Queried(r) \/ Handled(r)
           \/ RuntimeMoves
<1>1. CASE UNCHANGED vars
  BY <1>1
<1>2. CASE Tick
  BY <1>2
<1>3. ASSUME NEW r \in Requests, NEW endpoint \in Endpoints, NEW presented \in PresentedKeys,
             Arrive(r, endpoint, presented)
      PROVE  Arrived(r)
  BY <1>3, ArrivalSteps
<1>4. ASSUME NEW r \in Requests, NEW presented \in PresentedKeys, Query(r, presented)
      PROVE  Queried(r)
  BY <1>4, QuerySteps
<1>5. ASSUME NEW r \in Requests,
             \/ \E body \in Bodies : ReadBody(r, body)
             \/ LoseClient(r) \/ ServiceCommits(r) \/ ServiceEnds(r)
      PROVE  Handled(r)
  BY <1>5, HandlerSteps, InsideIsCounted
<1>6. CASE Start \/ Stop \/ \E t \in 1 .. Len(threads) : LoopStep(t)
  BY <1>6 DEF RuntimeMoves, Start, Stop, LoopStep, LoopCheck, run_once, LoopWait, guardVars
<1> QED
  BY <1>1, <1>2, <1>3, <1>4, <1>5, <1>6 DEF AdmissionNext

-----------------------------------------------------------------------------
(***************************************************************************)
(* The parts of the invariant.                                             *)
(***************************************************************************)

\* The record of an API key after a request.
LEMMA KeyTicked ==
    ASSUME Typed, KeyTicks
    PROVE  /\ key' \in [requests_total : Nat, requests_today : Nat, day : Nat]
           /\ keysEnabled => key'.requests_total = key.requests_total + 1
           /\ key.requests_today <= key.requests_total =>
                 key'.requests_today <= key'.requests_total
<1>1. clock \in Nat /\ DayLength \in Nat /\ DayLength > 0
      /\ key \in [requests_total : Nat, requests_today : Nat, day : Nat]
  BY AdmissionBounds DEF Typed
<1>2. clock \div DayLength \in Nat
  BY <1>1
<1>3. CASE keysEnabled
  <2> DEFINE d == clock \div DayLength
  <2>1. key' = [requests_total |-> key.requests_total + 1,
                requests_today |-> (IF key.day = d THEN key.requests_today ELSE 0) + 1,
                day |-> d]
    BY <1>3 DEF KeyTicks, tick
  <2> HIDE DEF d
  <2>2. d \in Nat
    BY <1>2 DEF d
  <2> QED
    BY <1>1, <2>1, <2>2
<1>4. CASE ~keysEnabled
  BY <1>1, <1>4 DEF KeyTicks
<1> QED
  BY <1>3, <1>4

\* The limiter's lists after an arrival.
LEMMA HitsTyped ==
    ASSUME Typed, NEW r \in Requests, Arrived(r)
    PROVE  /\ hits' \in [Clients -> Seq(0 .. MaxClock)]
           /\ \A c \in Clients : Len(hits'[c]) <= limit
<1> USE AdmissionBounds
<1> DEFINE c == ClientOf[r]
<1>1. /\ clock \in 0 .. MaxClock /\ hits \in [Clients -> Seq(0 .. MaxClock)]
      /\ c \in Clients /\ \A d \in Clients : Len(hits[d]) <= limit
  BY DEF Typed, Clients
<1> HIDE DEF c
<1>2. /\ Live(r) \in Seq(0 .. MaxClock) /\ Len(Live(r)) \in Nat
      /\ Len(Live(r)) <= Len(hits[c]) /\ Len(hits[c]) \in Nat
  <2>1. hits[c] \in Seq(0 .. MaxClock)
    BY <1>1
  <2>2. PICK m \in 0 .. Len(hits[c]) :
            /\ DropExpired(hits[c]) \in Seq(0 .. MaxClock)
            /\ Len(DropExpired(hits[c])) = Len(hits[c]) - m
    BY <1>1, <2>1, DropHead
  <2> QED
    BY <2>1, <2>2 DEF Live, c
<1>3. CASE hits' = hits
  BY <1>1, <1>3
<1>4. ASSUME NEW u \in Seq(0 .. MaxClock), Len(u) <= limit, hits' = [hits EXCEPT ![c] = u]
      PROVE  /\ hits' \in [Clients -> Seq(0 .. MaxClock)]
             /\ \A d \in Clients : Len(hits'[d]) <= limit
  BY <1>1, <1>4
<1>5. Len(Live(r)) <= limit
  BY <1>1, <1>2
<1>6. Len(Live(r)) < limit => /\ Append(Live(r), clock) \in Seq(0 .. MaxClock)
                              /\ Len(Append(Live(r), clock)) <= limit
  BY <1>1, <1>2
<1> QED
  BY <1>2, <1>3, <1>4, <1>5, <1>6 DEF Arrived, c

\* The types and the shape of the handlers are kept.
LEMMA BaseStep ==
    ASSUME Base, Balanced, [AdmissionNext]_vars
    PROVE  Base'
<1> USE DEF Base
<1>1. CASE UNCHANGED vars
  BY <1>1 DEF vars, guardVars, runtimeVars, Typed, HandlersOK
<1>2. CASE Tick
  <2>1. clock' \in 0 .. MaxClock
    BY <1>2, AdmissionBounds DEF Tick, Typed
  <2> QED
    BY <1>2, <2>1 DEF Tick, Typed, HandlersOK, runtimeVars
<1>3. ASSUME NEW r \in Requests, Arrived(r) PROVE Base'
  <2>1. key' \in [requests_total : Nat, requests_today : Nat, day : Nat]
    BY <1>3, KeyTicked DEF Arrived, Typed
  <2>2. Typed'
    BY <1>3, <2>1, HitsTyped DEF Arrived, Typed
  <2>3. HandlersOK'
    BY <1>3 DEF Arrived, OthersKept, HandlersOK, Ended, Endpoints
  <2> QED
    BY <2>2, <2>3
<1>4. ASSUME NEW r \in Requests, Queried(r) PROVE Base'
  <2>1. key' \in [requests_total : Nat, requests_today : Nat, day : Nat]
    BY <1>4, KeyTicked DEF Queried, Typed
  <2>2. Typed'
    BY <1>4, <2>1 DEF Queried, Typed
  <2>3. HandlersOK'
    BY <1>4 DEF Queried, OthersKept, HandlersOK, Endpoints
  <2> QED
    BY <2>2, <2>3
<1>5. ASSUME NEW r \in Requests, Handled(r) PROVE Base'
  <2>0. persisted' \subseteq Requests
    BY <1>5 DEF Handled, Typed
  <2>1. Typed'
    BY <1>5, <2>0 DEF Handled, Typed
  <2>2. HandlersOK'
    BY <1>5 DEF Handled, OthersKept, HandlersOK, Endpoints
  <2> QED
    BY <2>1, <2>2
<1>6. CASE RuntimeMoves
  <2>1. snapshot' \in Snapshots
    BY <1>6 DEF RuntimeMoves, Start, Stop, LoopStep, LoopCheck, run_once, LoopWait, Typed,
               Snapshots, record_response
  <2>2. threads' \in Seq(LoopSteps) /\ stop_event' \in BOOLEAN /\ starts' \in Nat
    <3>t. threads \in Seq(LoopSteps) /\ stop_event \in BOOLEAN /\ starts \in Nat
          /\ "check" \in LoopSteps
      BY DEF Typed, LoopSteps
    <3>1. CASE Start
      <4>1. starts' = starts - 1 /\ starts > 0
        BY <3>1 DEF Start
      <4>2. \/ threads' = threads /\ stop_event' = stop_event
            \/ threads' = Append(threads, "check") /\ stop_event' = FALSE
        BY <3>1 DEF Start
      <4>3. Append(threads, "check") \in Seq(LoopSteps)
        BY <3>t
      <4>4. starts' \in Nat
        BY <3>t, <4>1
      <4>5. threads' \in Seq(LoopSteps) /\ stop_event' \in BOOLEAN
        BY <3>t, <4>2, <4>3, Zenon
      <4> QED
        BY <4>4, <4>5
    <3>2. CASE Stop
      BY <3>t, <3>2 DEF Stop
    <3>3. ASSUME NEW t \in 1 .. Len(threads), LoopStep(t)
          PROVE  /\ threads' \in Seq(LoopSteps) /\ stop_event' \in BOOLEAN
                 /\ starts' \in Nat
      <4>1. PICK st \in LoopSteps : threads' = [threads EXCEPT ![t] = st]
        BY <3>3 DEF LoopStep, LoopCheck, run_once, LoopWait, LoopSteps
      <4>2. threads' \in Seq(LoopSteps)
        BY <3>t, <4>1
      <4>3. stop_event' = stop_event /\ starts' = starts
        BY <3>3 DEF LoopStep, LoopCheck, run_once, LoopWait
      <4> QED
        BY <3>t, <4>2, <4>3
    <3> QED
      BY <1>6, <3>1, <3>2, <3>3 DEF RuntimeMoves
  <2> QED
    BY <1>6, <2>1, <2>2 DEF RuntimeMoves, Typed, HandlersOK
<1> QED
  BY <1>1, <1>2, <1>3, <1>4, <1>5, <1>6, Steps

\* At most one loop may run: a new one is created only when the last has ended.
LEMMA LoopsStep ==
    ASSUME Base, Balanced, LoopsKnown, [AdmissionNext]_vars
    PROVE  LoopsKnown'
<1>t. threads \in Seq(LoopSteps) /\ stop_event \in BOOLEAN /\ snapshot \in Snapshots
  BY DEF Base, Typed
<1>1. CASE snapshot'.started = snapshot.started /\ UNCHANGED <<threads, stop_event>>
  BY <1>1 DEF LoopsKnown
<1>2. CASE Start
  <2>1. snapshot'.started
    BY <1>2, <1>t DEF Start, Snapshots
  <2>2. CASE ThreadFound
    BY <1>2, <2>1, <2>2 DEF Start, LoopsKnown, ThreadFound, Alive
  <2>3. CASE ~ThreadFound
    <3>1. threads' = Append(threads, "check")
      BY <1>2, <2>3 DEF Start
    <3>2. \A t \in 1 .. Len(threads) : threads[t] = "ended"
      BY <1>t, <2>3 DEF ThreadFound, Alive, LoopsKnown
    <3>3. /\ Len(threads') = Len(threads) + 1 /\ Len(threads) \in Nat
          /\ threads'[Len(threads) + 1] = "check"
          /\ \A t \in 1 .. Len(threads) : threads'[t] = threads[t]
          /\ threads' # << >>
      BY <3>1, <1>t
    <3> QED
      BY <2>1, <3>2, <3>3 DEF LoopsKnown
  <2> QED
    BY <2>2, <2>3
<1>3. CASE Stop
  BY <1>3, <1>t DEF Stop, LoopsKnown
<1>4. ASSUME NEW t \in 1 .. Len(threads), LoopStep(t) PROVE LoopsKnown'
  <2>1. snapshot'.started = snapshot.started /\ stop_event' = stop_event
    BY <1>4, <1>t DEF LoopStep, LoopCheck, run_once, LoopWait, record_response, Snapshots
  <2>2. /\ threads[t] # "ended"
        /\ \E st \in LoopSteps : /\ threads' = [threads EXCEPT ![t] = st]
                                 /\ st = "ended" => stop_event
    BY <1>4, <1>t DEF LoopStep, LoopCheck, run_once, LoopWait, LoopContinues, LoopSteps
  <2>3. t = Len(threads) /\ Len(threads) \in Nat
    BY <2>2, <1>t DEF LoopsKnown
  <2> QED
    BY <1>t, <2>1, <2>2, <2>3 DEF LoopsKnown
<1>5. CASE \E r \in Requests : Arrived(r) \/ Queried(r) \/ Handled(r)
  BY <1>1, <1>5 DEF Arrived, Queried, Handled
<1>6. CASE UNCHANGED vars \/ Tick
  BY <1>1, <1>6 DEF vars, runtimeVars, Tick
<1> QED
  BY <1>2, <1>3, <1>4, <1>5, <1>6, Steps DEF RuntimeMoves

\* What a client was told keeps agreeing with what is committed, and a response
\* is recorded only when its handler ends with 200.
LEMMA AnswersStep ==
    ASSUME Base, Balanced, AnswersKnown, [AdmissionNext]_vars
    PROVE  AnswersKnown'
<1>t. snapshot \in Snapshots
  BY DEF Base, Typed
<1>1. CASE UNCHANGED <<snapshot, persisted, req>>
  BY <1>1 DEF AnswersKnown, Told
<1>2. ASSUME NEW r \in Requests, OthersKept(r), Told(r)',
             persisted' \in {persisted, persisted \cup {r}}
      PROVE  \A q \in Requests : Told(q)'
  <2> SUFFICES ASSUME NEW q \in Requests, q # r PROVE Told(q)'
    BY <1>2
  <2>1. req'[q] = req[q] /\ (q \in persisted' <=> q \in persisted)
    BY <1>2 DEF OthersKept
  <2> QED
    BY <2>1 DEF AnswersKnown, Told
<1>3. ASSUME NEW r \in Requests, req[r].phase # "done", OthersKept(r), snapshot' = snapshot
      PROVE  /\ snapshot'.last_audit_hash # "None" =>
                    /\ req'[snapshot'.last_audit_hash].phase = "done"
                    /\ req'[snapshot'.last_audit_hash].answer = "200"
             /\ snapshot'.last_status = "ok" => snapshot'.last_audit_hash # "None"
  BY <1>t, <1>3 DEF AnswersKnown, OthersKept, Snapshots
<1>4. ASSUME NEW r \in Requests, Handled(r) PROVE AnswersKnown'
  <2>0. /\ OthersKept(r) /\ persisted' \in {persisted, persisted \cup {r}}
        /\ Told(r) => Told(r)'
    BY <1>4 DEF Handled
  <2>1. \A q \in Requests : Told(q)'
    <3>1. Told(r)
      BY DEF AnswersKnown
    <3> QED
      BY <1>2, <2>0, <3>1
  <2>2. CASE snapshot' = snapshot
    BY <1>3, <1>4, <2>1, <2>2 DEF Handled, AnswersKnown
  <2>3. CASE Recording(r)
    BY <2>1, <2>3, NoneAssumption DEF Recording, AnswersKnown
  <2> QED
    BY <1>4, <2>2, <2>3 DEF Handled
<1>5. ASSUME NEW r \in Requests, Arrived(r) \/ Queried(r) PROVE AnswersKnown'
  <2>1. /\ req[r].phase = "new" /\ OthersKept(r) /\ snapshot' = snapshot
        /\ persisted' = persisted /\ req'[r].phase \in {"done", "body"}
        /\ req'[r].answer # "200"
    BY <1>5 DEF Arrived, Queried, Ended
  <2>2. Told(r)'
    BY <2>1 DEF AnswersKnown, Told
  <2>3. \A q \in Requests : Told(q)'
    BY <1>2, <2>1, <2>2
  <2> QED
    BY <1>3, <2>1, <2>3 DEF AnswersKnown
<1>6. CASE RuntimeMoves
  <2>1. \/ /\ snapshot'.last_audit_hash = snapshot.last_audit_hash
           /\ snapshot'.last_status \in {snapshot.last_status, "error"}
        \/ snapshot'.last_audit_hash = "None" /\ snapshot'.last_status = "ephemeral"
    BY <1>6, <1>t DEF RuntimeMoves, Start, Stop, LoopStep, LoopCheck, run_once, LoopWait,
                     record_response, Snapshots
  <2> QED
    BY <1>6, <2>1 DEF RuntimeMoves, AnswersKnown, Told
<1> QED
  BY <1>1, <1>4, <1>5, <1>6, Steps DEF vars, guardVars, runtimeVars, Tick

\* A set of requests of which only r can enter or leave.
LEMMA RequestsCounted ==
    ASSUME NEW S \in SUBSET Requests, NEW T \in SUBSET Requests, NEW r,
           \A q \in Requests \ {r} : q \in S <=> q \in T
    PROVE  /\ Cardinality(S) \in Nat /\ Cardinality(T) \in Nat
           /\ Cardinality(T) = Cardinality(S) - (IF r \in S THEN 1 ELSE 0)
                                              + (IF r \in T THEN 1 ELSE 0)
<1>1. IsFiniteSet(S)
  BY FS_Subset, AdmissionBounds
<1>2. \A q : q # r => (q \in S <=> q \in T)
  OBVIOUS
<1> QED
  BY <1>1, <1>2, OneMemberChanges

\* The guard's counter and the key's total follow the handlers.
LEMMA BalancedStep ==
    ASSUME Base, Balanced, [AdmissionNext]_vars
    PROVE  Balanced'
<1>t. /\ guard.current \in Nat /\ key.requests_total \in Nat /\ key.requests_today \in Nat
  BY DEF Base, Typed, GuardOK, Guards
<1>s. /\ InsideGuard \in SUBSET Requests /\ InsideGuard' \in SUBSET Requests
      /\ Authenticated \in SUBSET Requests /\ Authenticated' \in SUBSET Requests
  BY DEF InsideGuard, Authenticated
<1>1. CASE UNCHANGED <<guard, key, req, keysEnabled>>
  BY <1>1 DEF Balanced, InsideGuard, Authenticated, Sent
<1>2. ASSUME NEW r \in Requests, OthersKept(r)
      PROVE  /\ \A q \in Requests \ {r} : q \in InsideGuard <=> q \in InsideGuard'
             /\ \A q \in Requests \ {r} : q \in Authenticated <=> q \in Authenticated'
  BY <1>2 DEF OthersKept, InsideGuard, Authenticated, Sent
<1>3. ASSUME NEW r \in Requests, Handled(r) PROVE Balanced'
  <2>1. /\ r \in InsideGuard <=> Inside(r) = 1
        /\ r \in InsideGuard' <=> Inside(r)' = 1
        /\ Inside(r) \in {0, 1} /\ Inside(r)' \in {0, 1}
    BY DEF InsideGuard, Inside
  <2>2. r \in Authenticated /\ r \in Authenticated'
    BY <1>3 DEF Handled, Authenticated, Sent, Base, HandlersOK
  <2>3. guard'.current = guard.current - Inside(r) + Inside(r)' /\ key' = key
        /\ keysEnabled' = keysEnabled
    BY <1>3 DEF Handled
  <2>4. /\ Cardinality(InsideGuard) \in Nat /\ Cardinality(InsideGuard') \in Nat
        /\ Cardinality(InsideGuard') = Cardinality(InsideGuard)
              - (IF r \in InsideGuard THEN 1 ELSE 0) + (IF r \in InsideGuard' THEN 1 ELSE 0)
    BY <1>3, <1>2, <1>s, RequestsCounted DEF Handled
  <2>5. Cardinality(Authenticated') = Cardinality(Authenticated)
    <3>1. Authenticated' = Authenticated
      BY <1>3, <1>2, <1>s, <2>2 DEF Handled
    <3> QED
      BY <3>1
  <2>6. guard'.current = Cardinality(InsideGuard')
    BY <1>t, <2>1, <2>3, <2>4 DEF Balanced
  <2> QED
    BY <2>3, <2>5, <2>6 DEF Balanced
<1>4. ASSUME NEW r \in Requests, Arrived(r) \/ Queried(r) PROVE Balanced'
  <2>1. r \notin InsideGuard /\ r \notin InsideGuard' /\ r \notin Authenticated
    BY <1>4 DEF Arrived, Queried, Ended, InsideGuard, Authenticated, Sent
  <2>2. InsideGuard' = InsideGuard /\ guard' = guard /\ keysEnabled' = keysEnabled
    <3>1. OthersKept(r) /\ guard' = guard /\ keysEnabled' = keysEnabled
      BY <1>4 DEF Arrived, Queried
    <3>2. \A q \in Requests : q \in InsideGuard <=> q \in InsideGuard'
      BY <1>2, <2>1, <3>1
    <3> QED
      BY <1>s, <3>1, <3>2
  <2>3. \/ r \notin Authenticated' /\ key' = key
        \/ r \in Authenticated' /\ KeyTicks
    BY <1>4 DEF Arrived, Queried, Ended, Authenticated, Sent
  <2>4. /\ Cardinality(Authenticated) \in Nat
        /\ Cardinality(Authenticated') = Cardinality(Authenticated)
              - (IF r \in Authenticated THEN 1 ELSE 0)
              + (IF r \in Authenticated' THEN 1 ELSE 0)
    BY <1>4, <1>2, <1>s, RequestsCounted DEF Arrived, Queried
  <2>5. CASE r \notin Authenticated' /\ key' = key
    BY <2>1, <2>2, <2>4, <2>5 DEF Balanced
  <2>6. CASE r \in Authenticated' /\ KeyTicks
    <3>1. /\ keysEnabled => key'.requests_total = key.requests_total + 1
          /\ key'.requests_today <= key'.requests_total
      BY <2>6, KeyTicked DEF Base, Balanced
    <3> QED
      BY <2>1, <2>2, <2>4, <2>6, <3>1 DEF Balanced
  <2> QED
    BY <2>3, <2>5, <2>6
<1> QED
  BY <1>1, <1>3, <1>4, Steps DEF vars, guardVars, runtimeVars, Tick, RuntimeMoves

\* The list of the client of an arrival, once its expired head is gone: it is
\* still in order, lies inside the window, and counts what it counted.
LEMMA LiveFacts ==
    ASSUME Base, WindowKnown, NEW r \in Requests
    PROVE  /\ Live(r) \in Seq(0 .. MaxClock) /\ Ascending(Live(r))
           /\ \A i \in DOMAIN Live(r) :
                 Live(r)[i] <= clock /\ clock - Live(r)[i] < window_seconds
           /\ \A b \in 0 .. MaxClock : clock < b + window_seconds =>
                 CountFrom(Live(r), b) = CountFrom(hits[ClientOf[r]], b)
<1> USE AdmissionBounds
<1> DEFINE s == hits[ClientOf[r]]
           u == Live(r)
<1>1. /\ clock \in 0 .. MaxClock /\ s \in Seq(0 .. MaxClock) /\ Ascending(s)
      /\ \A i \in DOMAIN s : s[i] <= clock
  BY DEF Base, Typed, WindowKnown, Clients
<1>2. PICK m \in 0 .. Len(s) :
          /\ u \in Seq(0 .. MaxClock) /\ Len(u) = Len(s) - m
          /\ \A i \in 1 .. (Len(s) - m) : u[i] = s[i + m]
          /\ \A i \in 1 .. m : clock - s[i] >= window_seconds
          /\ m < Len(s) => clock - s[m + 1] < window_seconds
  BY <1>1, DropHead DEF Live
<1> HIDE DEF s, u
<1>3. /\ Len(s) \in Nat /\ DOMAIN s = 1 .. Len(s) /\ DOMAIN u = 1 .. (Len(s) - m)
      /\ \A i \in DOMAIN s : s[i] \in Nat
      /\ m \in Nat /\ m <= Len(s)
  <2>1. Len(s) \in Nat /\ DOMAIN s = 1 .. Len(s) /\ \A i \in DOMAIN s : s[i] \in 0 .. MaxClock
    BY <1>1
  <2>2. DOMAIN u = 1 .. Len(u)
    BY <1>2
  <2> QED
    BY <1>2, <2>1, <2>2
<1>4. \A i \in DOMAIN u : u[i] = s[i + m] /\ i + m \in DOMAIN s /\ i \in Nat /\ i >= 1
  BY <1>2, <1>3
<1>5. Ascending(u)
  <2> SUFFICES ASSUME NEW i \in DOMAIN u, NEW j \in DOMAIN u, i <= j PROVE u[i] <= u[j]
    BY DEF Ascending
  <2>1. i + m <= j + m
    BY <1>3, <1>4
  <2> QED
    BY <1>1, <1>4, <2>1 DEF Ascending
<1>6. \A i \in DOMAIN u : u[i] <= clock /\ clock - u[i] < window_seconds
  <2> SUFFICES ASSUME NEW i \in DOMAIN u
               PROVE  u[i] <= clock /\ clock - u[i] < window_seconds
    OBVIOUS
  <2>1. m + 1 \in DOMAIN s /\ m + 1 <= i + m /\ m < Len(s)
    BY <1>3, <1>4
  <2>2. s[m + 1] <= s[i + m]
    BY <1>1, <1>4, <2>1 DEF Ascending
  <2>3. clock - s[m + 1] < window_seconds
    BY <1>2, <2>1
  <2> QED
    BY <1>1, <1>3, <1>4, <2>1, <2>2, <2>3
<1>7. ASSUME NEW b \in 0 .. MaxClock, clock < b + window_seconds
      PROVE  CountFrom(u, b) = CountFrom(s, b)
  <2>1. \A i \in 1 .. m : s[i] < b
    <3> SUFFICES ASSUME NEW i \in 1 .. m PROVE s[i] < b
      OBVIOUS
    <3>1. i \in DOMAIN s /\ s[i] \in Nat /\ clock - s[i] >= window_seconds
      BY <1>2, <1>3
    <3> QED
      BY <1>1, <1>7, <3>1
  <2>2. s \in Seq(Nat) /\ u \in Seq(Nat) /\ b \in Nat
    BY <1>1, <1>2
  <2> QED
    BY <1>2, <2>1, <2>2, CountShifted
<1> QED
  BY <1>2, <1>5, <1>6, <1>7 DEF s, u

\* A list that is in order and a new last entry.
LEMMA AscendingAppended ==
    ASSUME NEW s \in Seq(Nat), NEW x \in Nat, Ascending(s), \A i \in DOMAIN s : s[i] <= x
    PROVE  /\ Ascending(Append(s, x))
           /\ \A i \in DOMAIN Append(s, x) : Append(s, x)[i] <= x
<1>1. /\ Len(s) \in Nat /\ DOMAIN s = 1 .. Len(s)
      /\ DOMAIN Append(s, x) = 1 .. (Len(s) + 1)
      /\ \A i \in 1 .. Len(s) : Append(s, x)[i] = s[i]
      /\ Append(s, x)[Len(s) + 1] = x
  OBVIOUS
<1>2. \A i \in DOMAIN Append(s, x) : Append(s, x)[i] <= x
  BY <1>1
<1>3. ASSUME NEW i \in DOMAIN Append(s, x), NEW j \in DOMAIN Append(s, x), i <= j
      PROVE  Append(s, x)[i] <= Append(s, x)[j]
  <2>1. CASE j = Len(s) + 1
    BY <1>1, <1>2, <2>1
  <2>2. CASE j # Len(s) + 1
    <3>1. i \in DOMAIN s /\ j \in DOMAIN s
      BY <1>1, <1>3, <2>2
    <3> QED
      BY <1>1, <1>3, <3>1 DEF Ascending
  <2> QED
    BY <2>1, <2>2
<1> QED
  BY <1>2, <1>3 DEF Ascending

\* The limiter's list keeps counting the admitted requests of the window.
LEMMA WindowStep ==
    ASSUME Base, Balanced, WindowKnown, [AdmissionNext]_vars
    PROVE  WindowKnown'
<1> USE AdmissionBounds
<1>t. /\ clock \in 0 .. MaxClock /\ hits \in [Clients -> Seq(0 .. MaxClock)]
      /\ req \in [Requests -> Handlers]
      /\ \A q \in Requests : req[q].at \in Nat
  BY DEF Base, Typed, Handlers
<1>1. CASE UNCHANGED <<clock, hits, req>>
  BY <1>1 DEF WindowKnown, AdmittedFrom, Sent
<1>2. CASE Tick
  <2>1. clock' = clock + 1 /\ UNCHANGED <<hits, req>>
    BY <1>2 DEF Tick
  <2>2. \A c : \A b : AdmittedFrom(c, b)' = AdmittedFrom(c, b)
    BY <2>1 DEF AdmittedFrom, Sent
  <2>3. \A q \in Requests : req'[q].at <= clock'
    BY <1>t, <2>1 DEF WindowKnown
  <2>4. ASSUME NEW c \in Clients
        PROVE  /\ Ascending(hits'[c])
               /\ \A i \in DOMAIN hits'[c] : hits'[c][i] <= clock'
               /\ \A b \in 0 .. MaxClock : clock' < b + window_seconds =>
                     Cardinality(AdmittedFrom(c, b)') = CountFrom(hits'[c], b)
    <3>1. \A i \in DOMAIN hits[c] : hits[c][i] \in Nat /\ hits[c][i] <= clock
      BY <1>t DEF WindowKnown
    <3>2. \A b \in 0 .. MaxClock : clock' < b + window_seconds => clock < b + window_seconds
      BY <1>t, <2>1
    <3> QED
      BY <1>t, <2>1, <2>2, <3>1, <3>2 DEF WindowKnown
  <2> QED
    BY <2>3, <2>4 DEF WindowKnown
<1>3. ASSUME NEW r \in Requests, OthersKept(r), req'[r].at = req[r].at,
             Sent(r)' /\ req'[r].answer \notin {"401", "429", "query"}
                <=> Sent(r) /\ req[r].answer \notin {"401", "429", "query"},
             UNCHANGED <<clock, hits>>
      PROVE  WindowKnown'
  <2>1. \A c : \A b : AdmittedFrom(c, b)' = AdmittedFrom(c, b)
    BY <1>3 DEF AdmittedFrom, Sent, OthersKept
  <2>2. \A q \in Requests : req'[q].at <= clock
    BY <1>3 DEF WindowKnown, OthersKept
  <2> QED
    BY <1>3, <2>1, <2>2 DEF WindowKnown
<1>4. ASSUME NEW r \in Requests, Handled(r) \/ Queried(r) PROVE WindowKnown'
  <2>1. Sent(r)' /\ req'[r].answer \notin {"401", "429", "query"}
           <=> Sent(r) /\ req[r].answer \notin {"401", "429", "query"}
    BY <1>4 DEF Handled, Queried, Sent, Base, HandlersOK
  <2>2. OthersKept(r) /\ req'[r].at = req[r].at /\ UNCHANGED <<clock, hits>>
    BY <1>4 DEF Handled, Queried
  <2> QED
    BY <1>3, <2>1, <2>2
<1>5. ASSUME NEW r \in Requests, Arrived(r) PROVE WindowKnown'
  <2> DEFINE c0 == ClientOf[r]
  <2>0. /\ OthersKept(r) /\ req[r].phase = "new" /\ req'[r].at = clock /\ clock' = clock
        /\ c0 \in Clients
    BY <1>5 DEF Arrived, Ended, Clients
  <2>1. \A q \in Requests : req'[q].at <= clock'
    BY <1>t, <2>0 DEF WindowKnown, OthersKept
  <2>2. /\ Live(r) \in Seq(0 .. MaxClock) /\ Ascending(Live(r))
        /\ \A i \in DOMAIN Live(r) : Live(r)[i] <= clock
        /\ \A b \in 0 .. MaxClock : clock < b + window_seconds =>
              CountFrom(Live(r), b) = CountFrom(hits[c0], b)
    BY LiveFacts
  <2>3. CASE req'[r].answer \in {"401", "429"}
    <3>1. \A c : \A b : AdmittedFrom(c, b)' = AdmittedFrom(c, b)
      BY <2>0, <2>3 DEF AdmittedFrom, Sent, OthersKept
    <3>2. hits' = hits \/ hits' = [hits EXCEPT ![c0] = Live(r)]
      BY <1>5, <2>3 DEF Arrived
    <3>3. ASSUME NEW c \in Clients
          PROVE  /\ Ascending(hits'[c])
                 /\ \A i \in DOMAIN hits'[c] : hits'[c][i] <= clock'
                 /\ \A b \in 0 .. MaxClock : clock' < b + window_seconds =>
                       Cardinality(AdmittedFrom(c, b)') = CountFrom(hits'[c], b)
      <4>1. CASE hits'[c] = hits[c]
        BY <4>1, <2>0, <3>1 DEF WindowKnown
      <4>2. CASE c = c0 /\ hits'[c] = Live(r)
        BY <4>2, <2>0, <2>2, <3>1 DEF WindowKnown
      <4> QED
        BY <1>t, <3>2, <4>1, <4>2
    <3> QED
      BY <2>1, <3>3 DEF WindowKnown
  <2>4. CASE req'[r].phase = "body" /\ req'[r].answer = "-"
    <3>1. hits' = [hits EXCEPT ![c0] = Append(Live(r), clock)]
      BY <1>5, <2>4 DEF Arrived, Ended
    <3>2. \A c \in Clients \ {c0} : \A b : AdmittedFrom(c, b)' = AdmittedFrom(c, b)
      BY <2>0 DEF AdmittedFrom, Sent, OthersKept
    <3>3. ASSUME NEW c \in Clients \ {c0}
          PROVE  /\ Ascending(hits'[c])
                 /\ \A i \in DOMAIN hits'[c] : hits'[c][i] <= clock'
                 /\ \A b \in 0 .. MaxClock : clock' < b + window_seconds =>
                       Cardinality(AdmittedFrom(c, b)') = CountFrom(hits'[c], b)
      <4>1. hits'[c] = hits[c]
        BY <1>t, <3>1
      <4> QED
        BY <4>1, <2>0, <3>2 DEF WindowKnown
    <3>4. hits'[c0] = Append(Live(r), clock)
      BY <1>t, <2>0, <3>1
    <3>5. Live(r) \in Seq(Nat) /\ clock \in Nat
      BY <1>t, <2>2
    <3>6. Ascending(hits'[c0]) /\ \A i \in DOMAIN hits'[c0] : hits'[c0][i] <= clock'
      BY <2>0, <2>2, <3>4, <3>5, AscendingAppended
    <3>7. ASSUME NEW b \in 0 .. MaxClock, clock' < b + window_seconds
          PROVE  Cardinality(AdmittedFrom(c0, b)') = CountFrom(hits'[c0], b)
      <4> DEFINE A == AdmittedFrom(c0, b)
                 B == AdmittedFrom(c0, b)'
      <4>1. A \in SUBSET Requests /\ B \in SUBSET Requests
        BY DEF AdmittedFrom
      <4>2. \A q \in Requests \ {r} : q \in A <=> q \in B
        BY <2>0 DEF AdmittedFrom, Sent, OthersKept
      <4>3. r \notin A /\ (r \in B <=> clock >= b)
        BY <2>0, <2>4 DEF AdmittedFrom, Sent
      <4> HIDE DEF A, B
      <4>4. /\ Cardinality(A) \in Nat
            /\ Cardinality(B) = Cardinality(A) - (IF r \in A THEN 1 ELSE 0)
                                               + (IF r \in B THEN 1 ELSE 0)
        BY <4>1, <4>2, RequestsCounted
      <4>5. Cardinality(A) = CountFrom(Live(r), b)
        BY <2>0, <2>2, <3>7 DEF A, WindowKnown
      <4>6. CountFrom(hits'[c0], b) = CountFrom(Live(r), b) + (IF clock >= b THEN 1 ELSE 0)
        BY <3>4, <3>5, CountAppended
      <4>7. Cardinality(B) = CountFrom(hits'[c0], b)
        BY <4>3, <4>4, <4>5, <4>6
      <4> QED
        BY <4>7 DEF B
    <3> QED
      BY <2>1, <3>3, <3>6, <3>7 DEF WindowKnown
  <2> QED
    BY <1>5, <2>3, <2>4 DEF Arrived, Ended
<1> QED
  BY <1>1, <1>2, <1>4, <1>5, Steps DEF vars, guardVars, RuntimeMoves

-----------------------------------------------------------------------------
(***************************************************************************)
(* The windows of the limiter.                                             *)
(***************************************************************************)

\* The first instant of the window that ends now.
Opening == IF clock >= window_seconds THEN (clock - window_seconds) + 1 ELSE 0

\* The windows that end now or later hold at most `limit' requests.
LateWindows ==
    \A c \in Clients : \A moment \in clock .. MaxClock :
        Cardinality(AdmittedIn(c, moment)) <= limit

\* The window that ends now starts at Opening.
LEMMA OpeningFacts ==
    ASSUME Base
    PROVE  /\ Opening \in 0 .. MaxClock /\ clock < Opening + window_seconds
           /\ \A x \in Nat : clock - x < window_seconds <=> x >= Opening
<1>1. clock \in 0 .. MaxClock /\ MaxClock \in Nat /\ window_seconds \in Nat
      /\ window_seconds > 0
  BY AdmissionBounds DEF Base, Typed
<1> QED
  BY <1>1 DEF Opening

\* The list is at most `limit' long, and counts those windows.
LEMMA LateWindowsBounded == (Base /\ WindowKnown) => LateWindows
<1> USE AdmissionBounds
<1> SUFFICES ASSUME Base, WindowKnown, NEW c \in Clients, NEW moment \in clock .. MaxClock
             PROVE  Cardinality(AdmittedIn(c, moment)) <= limit
  BY DEF LateWindows
<1>1. /\ clock \in 0 .. MaxClock /\ hits[c] \in Seq(0 .. MaxClock) /\ Len(hits[c]) <= limit
      /\ \A r \in Requests : req[r].at \in Nat
  BY DEF Base, Typed, Handlers
<1>2. /\ Opening \in 0 .. MaxClock /\ clock < Opening + window_seconds
      /\ \A x \in Nat : clock - x < window_seconds <=> x >= Opening
  BY OpeningFacts
<1>3. AdmittedIn(c, moment) \in SUBSET AdmittedFrom(c, Opening)
  <2> SUFFICES ASSUME NEW r \in AdmittedIn(c, moment) PROVE r \in AdmittedFrom(c, Opening)
    OBVIOUS
  <2>1. r \in Requests /\ moment - req[r].at < window_seconds
    BY DEF AdmittedIn
  <2>2. clock - req[r].at < window_seconds
    BY <1>1, <2>1
  <2> QED
    BY <1>1, <1>2, <2>1, <2>2 DEF AdmittedIn, AdmittedFrom, Sent
<1>4. IsFiniteSet(AdmittedFrom(c, Opening))
  BY FS_Subset DEF AdmittedFrom
<1>5. /\ Cardinality(AdmittedIn(c, moment)) \in Nat
      /\ Cardinality(AdmittedIn(c, moment)) <= Cardinality(AdmittedFrom(c, Opening))
  BY <1>3, <1>4, FS_Subset, FS_CardinalityType
<1>6. Cardinality(AdmittedFrom(c, Opening)) = CountFrom(hits[c], Opening)
  BY <1>2 DEF WindowKnown
<1>7. hits[c] \in Seq(Nat) /\ Opening \in Nat /\ Len(hits[c]) \in Nat
  BY <1>1, <1>2
<1>8. CountFrom(hits[c], Opening) \in Nat /\ CountFrom(hits[c], Opening) <= Len(hits[c])
  BY <1>7, CountBounded
<1> QED
  BY <1>1, <1>5, <1>6, <1>7, <1>8

\* A request the limiter refuses finds the window full.
LEMMA RefusedWhenFull ==
    ASSUME Base, WindowKnown, NEW r \in Requests, Len(Live(r)) >= limit
    PROVE  Cardinality(AdmittedIn(ClientOf[r], clock)) >= limit
<1> USE AdmissionBounds
<1> DEFINE c == ClientOf[r]
<1>1. /\ clock \in 0 .. MaxClock /\ c \in Clients
      /\ \A q \in Requests : req[q].at \in Nat /\ req[q].at <= clock
  BY DEF Base, Typed, Handlers, Clients, WindowKnown
<1>2. /\ Opening \in 0 .. MaxClock /\ clock < Opening + window_seconds
      /\ \A x \in Nat : clock - x < window_seconds <=> x >= Opening
  BY OpeningFacts
<1>3. /\ Live(r) \in Seq(0 .. MaxClock)
      /\ \A i \in DOMAIN Live(r) : clock - Live(r)[i] < window_seconds
      /\ CountFrom(Live(r), Opening) = CountFrom(hits[c], Opening)
  BY <1>2, LiveFacts
<1>4. Live(r) \in Seq(Nat) /\ Opening \in Nat /\ \A i \in DOMAIN Live(r) : Live(r)[i] \in Nat
  BY <1>2, <1>3
<1>5. CountFrom(Live(r), Opening) = Len(Live(r))
  <2>1. \A i \in DOMAIN Live(r) : Live(r)[i] >= Opening
    BY <1>2, <1>3, <1>4
  <2> QED
    BY <1>4, <2>1, CountBounded
<1>6. Cardinality(AdmittedFrom(c, Opening)) = CountFrom(hits[c], Opening)
  BY <1>1, <1>2 DEF WindowKnown
<1>7. AdmittedIn(c, clock) = AdmittedFrom(c, Opening)
  BY <1>1, <1>2 DEF AdmittedIn, AdmittedFrom, Sent
<1> QED
  BY <1>3, <1>5, <1>6, <1>7

\* RateWindowExact is kept: an arrival can only fill the windows from now on, and
\* after a refusal nobody of the same client is let through at the same instant.
LEMMA RateStep ==
    ASSUME Base, Balanced, WindowKnown, RateWindowExact, LateWindows', [AdmissionNext]_vars
    PROVE  RateWindowExact'
<1> USE AdmissionBounds
<1>t. /\ clock \in 0 .. MaxClock
      /\ \A q \in Requests : req[q].at \in Nat /\ req[q].at <= clock
  BY DEF Base, Typed, Handlers, WindowKnown
<1>1. ASSUME \A c : \A moment : AdmittedIn(c, moment)' = AdmittedIn(c, moment),
             \A q \in Requests : req'[q].answer = "429" =>
                 req[q].answer = "429" /\ req'[q].at = req[q].at
      PROVE  RateWindowExact'
  BY <1>1 DEF RateWindowExact
<1>2. CASE UNCHANGED req
  BY <1>1, <1>2 DEF AdmittedIn
<1>3. ASSUME NEW r \in Requests, Handled(r) \/ Queried(r) PROVE RateWindowExact'
  <2>1. /\ OthersKept(r) /\ req'[r].at = req[r].at /\ req'[r].answer # "429"
        /\ Sent(r)' /\ req'[r].answer \notin {"401", "429", "query"}
              <=> Sent(r) /\ req[r].answer \notin {"401", "429", "query"}
    BY <1>3 DEF Handled, Queried, Sent, Base, HandlersOK
  <2>2. \A c : \A moment : AdmittedIn(c, moment)' = AdmittedIn(c, moment)
    BY <2>1 DEF AdmittedIn, Sent, OthersKept
  <2> QED
    BY <1>1, <2>1, <2>2 DEF OthersKept
<1>4. ASSUME NEW r \in Requests, Arrived(r) PROVE RateWindowExact'
  <2> DEFINE c0 == ClientOf[r]
  <2>0. /\ OthersKept(r) /\ req[r].phase = "new" /\ req'[r].at = clock /\ clock' = clock
        /\ c0 \in Clients
    BY <1>4 DEF Arrived, Ended, Clients
  <2>1. CASE req'[r].answer = "401"
    <3>1. \A c : \A moment : AdmittedIn(c, moment)' = AdmittedIn(c, moment)
      BY <2>0, <2>1 DEF AdmittedIn, OthersKept
    <3> QED
      BY <1>1, <2>0, <2>1, <3>1 DEF OthersKept
  <2>2. CASE req'[r].answer = "429"
    <3>1. \A c : \A moment : AdmittedIn(c, moment)' = AdmittedIn(c, moment)
      BY <2>0, <2>2 DEF AdmittedIn, OthersKept
    <3>2. Len(Live(r)) >= limit
      BY <1>4, <2>2 DEF Arrived, Ended
    <3>3. Cardinality(AdmittedIn(c0, clock)) >= limit
      BY <3>2, RefusedWhenFull
    <3>4. Cardinality(AdmittedIn(c0, clock)) <= limit
      BY <1>t, <2>0 DEF RateWindowExact
    <3>5. AdmittedIn(c0, clock) \in SUBSET Requests
      BY DEF AdmittedIn
    <3>6. Cardinality(AdmittedIn(c0, clock)) \in Nat
      BY <3>5, FS_Subset, FS_CardinalityType
    <3>7. Cardinality(AdmittedIn(c0, clock)) = limit
      BY <3>3, <3>4, <3>6
    <3>8. ASSUME NEW q \in Requests, req'[q].answer = "429"
          PROVE  Cardinality(AdmittedIn(ClientOf[q], req[q].at)') = limit
      <4>1. CASE q = r
        BY <2>0, <3>1, <3>7, <4>1
      <4>2. CASE q # r
        BY <2>0, <3>1, <3>8, <4>2 DEF OthersKept, RateWindowExact
      <4> QED
        BY <4>1, <4>2
    <3>9. \A c \in Clients, moment \in 0 .. MaxClock :
              Cardinality(AdmittedIn(c, moment)') <= limit
      BY <3>1 DEF RateWindowExact
    <3> QED
      BY <3>8, <3>9 DEF RateWindowExact
  <2>3. CASE req'[r].phase = "body" /\ req'[r].answer = "-"
    <3>1. ASSUME NEW c \in Clients, NEW moment \in Nat, c # c0 \/ moment < clock
          PROVE  AdmittedIn(c, moment)' = AdmittedIn(c, moment)
      <4>1. ~(clock <= moment) \/ c # c0
        BY <1>t, <3>1
      <4> QED
        BY <2>0, <4>1 DEF AdmittedIn, OthersKept
    <3>2. ASSUME NEW c \in Clients, NEW moment \in 0 .. MaxClock
          PROVE  Cardinality(AdmittedIn(c, moment)') <= limit
      <4>1. CASE moment < clock
        BY <3>1, <4>1 DEF RateWindowExact
      <4>2. CASE moment >= clock
        <5>1. moment \in clock' .. MaxClock
          BY <1>t, <2>0, <4>2
        <5> QED
          BY <5>1 DEF LateWindows
      <4> QED
        BY <1>t, <4>1, <4>2
    <3>3. ASSUME NEW q \in Requests, req'[q].answer = "429"
          PROVE  Cardinality(AdmittedIn(ClientOf[q], req[q].at)') = limit
      <4>1. /\ q # r /\ req'[q] = req[q] /\ req[q].at \in Nat /\ req[q].at <= clock
            /\ Cardinality(AdmittedIn(ClientOf[q], req[q].at)) = limit
            /\ ClientOf[q] \in Clients
        BY <1>t, <2>0, <2>3, <3>3 DEF OthersKept, RateWindowExact, Clients
      <4>2. CASE ClientOf[q] # c0 \/ req[q].at < clock
        BY <3>1, <4>1, <4>2
      <4>3. CASE ClientOf[q] = c0 /\ req[q].at = clock
        <5> DEFINE A == AdmittedIn(c0, clock)
                   B == AdmittedIn(c0, clock)'
        <5>1. /\ A \in SUBSET Requests /\ B \in SUBSET Requests
              /\ r \notin A /\ \A p \in Requests \ {r} : p \in A <=> p \in B
          BY <2>0 DEF AdmittedIn, OthersKept
        <5>2. r \in B
          <6>1. clock <= clock /\ clock - clock < window_seconds
            BY <1>t
          <6> QED
            BY <2>0, <2>3, <6>1 DEF AdmittedIn
        <5>3. Cardinality(A) = limit
          BY <4>1, <4>3
        <5>4. Cardinality(B) <= limit
          BY <1>t, <2>0, <3>2
        <5> HIDE DEF A, B
        <5>5. Cardinality(B) = Cardinality(A) - (IF r \in A THEN 1 ELSE 0)
                                              + (IF r \in B THEN 1 ELSE 0)
          BY <5>1, RequestsCounted
        <5> QED
          BY <5>1, <5>2, <5>3, <5>4, <5>5
      <4> QED
        BY <1>t, <4>1, <4>2, <4>3
    <3> QED
      BY <3>2, <3>3 DEF RateWindowExact
  <2> QED
    BY <1>4, <2>1, <2>2, <2>3 DEF Arrived, Ended
<1> QED
  BY <1>2, <1>3, <1>4, Steps DEF vars, guardVars, Tick, RuntimeMoves

-----------------------------------------------------------------------------
(***************************************************************************)
(* The theorems.                                                           *)
(***************************************************************************)

IInv == Base /\ Balanced /\ LoopsKnown /\ AnswersKnown /\ WindowKnown

\* After lifespan nothing has arrived, nothing is counted and no loop runs.
LEMMA InitialState == AdmissionInit => IInv /\ RateWindowExact
<1> USE AdmissionBounds
<1> SUFFICES ASSUME AdmissionInit PROVE IInv /\ RateWindowExact
  OBVIOUS
<1>1. PICK w \in Workloads :
          /\ req = [r \in Requests |->
                       [phase |-> IF r \in w.requests THEN "new" ELSE "unsent",
                        endpoint |-> "-", at |-> 0, answer |-> "-"]]
          /\ starts = w.starts /\ service = w.service /\ keysEnabled = w.keysEnabled
  BY DEF AdmissionInit
<1>2. starts \in Nat /\ service \in BOOLEAN /\ keysEnabled \in BOOLEAN
  BY <1>1, WorkloadAssumption
<1>3. \A r \in Requests : /\ req[r].phase \in {"new", "unsent"} /\ req[r].endpoint = "-"
                          /\ req[r].at = 0 /\ req[r].answer = "-"
  BY <1>1
<1>4. req \in [Requests -> Handlers]
  BY <1>1 DEF Handlers, Phases, Codes
<1>5. Typed
  <2>1. key \in [requests_total : Nat, requests_today : Nat, day : Nat]
    BY DEF AdmissionInit
  <2>2. hits \in [Clients -> Seq(0 .. MaxClock)] /\ \A c \in Clients : Len(hits[c]) <= limit
    BY DEF AdmissionInit
  <2>3. GuardOK(guard) /\ snapshot \in Snapshots /\ threads \in Seq(LoopSteps)
    BY DEF AdmissionInit, GuardOK, Guards, Snapshots
  <2> QED
    BY <1>2, <1>4, <2>1, <2>2, <2>3 DEF AdmissionInit, Typed
<1>6. HandlersOK
  BY <1>3 DEF HandlersOK, Endpoints
<1>7. Balanced
  <2>1. InsideGuard = {} /\ Authenticated = {}
    BY <1>3 DEF InsideGuard, Authenticated, Sent
  <2> QED
    BY <2>1, FS_EmptySet DEF Balanced, AdmissionInit
<1>8. LoopsKnown /\ AnswersKnown
  BY <1>3 DEF AdmissionInit, LoopsKnown, AnswersKnown, Told
<1>9. \A c : \A b : AdmittedFrom(c, b) = {} /\ AdmittedIn(c, b) = {}
  BY <1>3 DEF AdmittedFrom, AdmittedIn, Sent
<1>10. WindowKnown
  <2>1. \A c \in Clients : hits[c] = << >>
    BY DEF AdmissionInit
  <2>2. \A b : CountFrom(<< >>, b) = 0
    <3> SUFFICES ASSUME NEW b PROVE Cardinality({i \in DOMAIN << >> : << >>[i] >= b}) = 0
      BY DEF CountFrom
    <3>1. {i \in DOMAIN << >> : << >>[i] >= b} = {}
      OBVIOUS
    <3> QED
      BY <3>1, FS_EmptySet
  <2>3. Ascending(<< >>)
    BY DEF Ascending
  <2>4. \A r \in Requests : req[r].at <= clock
    BY <1>3 DEF AdmissionInit
  <2>5. ASSUME NEW c \in Clients
        PROVE  /\ Ascending(hits[c])
               /\ \A i \in DOMAIN hits[c] : hits[c][i] <= clock
               /\ \A b \in 0 .. MaxClock : clock < b + window_seconds =>
                     Cardinality(AdmittedFrom(c, b)) = CountFrom(hits[c], b)
    <3>1. hits[c] = << >> /\ DOMAIN << >> = {}
      BY <2>1
    <3>2. \A b : Cardinality(AdmittedFrom(c, b)) = 0
      BY <1>9, FS_EmptySet
    <3>3. Ascending(hits[c]) /\ \A b : CountFrom(hits[c], b) = 0
      BY <3>1, <2>2, <2>3, Zenon
    <3>4. \A i \in DOMAIN hits[c] : hits[c][i] <= clock
      BY <3>1
    <3> QED
      BY <3>2, <3>3, <3>4
  <2> QED
    BY <2>4, <2>5 DEF WindowKnown
<1>11. RateWindowExact
  BY <1>3, <1>9, FS_EmptySet DEF RateWindowExact
<1> QED
  BY <1>5, <1>6, <1>7, <1>8, <1>10, <1>11 DEF IInv, Base

\* The handlers, the guard, the key, the loops, the dashboard and the limiter's
\* lists stay as IInv describes, whatever arrives and however it is interleaved.
THEOREM AdmissionInvariance == AdmissionSpec => []IInv
<1>1. AdmissionInit => IInv
  BY InitialState
<1>2. IInv /\ [AdmissionNext]_vars => IInv'
  BY BaseStep, BalancedStep, LoopsStep, AnswersStep, WindowStep DEF IInv
<1> QED
  BY <1>1, <1>2, PTL DEF AdmissionSpec

\* Requests, counters, hits, snapshot and threads keep their types; the guard's
\* peak never passes max_in_flight and a client's list never passes limit.
THEOREM AdmissionTypes == AdmissionSpec => []AdmissionTypeOK
<1>1. IInv => AdmissionTypeOK
  <2> SUFFICES ASSUME Typed PROVE AdmissionTypeOK
    BY DEF IInv, Base
  <2>1. \A c \in Clients : Len(hits[c]) <= limit /\ \A i \in 1 .. Len(hits[c]) :
                                                       hits[c][i] \in 0 .. MaxClock
    <3> SUFFICES ASSUME NEW c \in Clients
                 PROVE  Len(hits[c]) <= limit /\ \A i \in 1 .. Len(hits[c]) :
                                                    hits[c][i] \in 0 .. MaxClock
      OBVIOUS
    <3>1. hits[c] \in Seq(0 .. MaxClock) /\ Len(hits[c]) <= limit
      BY DEF Typed
    <3>2. ASSUME NEW s \in Seq(0 .. MaxClock)
          PROVE  \A i \in 1 .. Len(s) : s[i] \in 0 .. MaxClock
      BY AdmissionBounds
    <3> QED
      BY <3>1, <3>2, Zenon
  <2>2. /\ guard.current \in 0 .. guard.peak /\ guard.peak \in 0 .. max_in_flight
        /\ guard.rejected_total \in Nat
    BY AdmissionBounds DEF Typed, GuardOK, Guards
  <2>3. req \in [Requests -> [phase : {"unsent", "new", "body", "service", "done"},
                              endpoint : Endpoints \cup {"-"}, at : 0 .. MaxClock,
                              answer : {"-", "200", "enqueued", "verified", "invalid",
                                        "400", "401", "409", "413", "429", "500",
                                        "503", "lost", "query"}]]
    BY Zenon DEF Typed, Handlers, Phases, Codes
  <2>4. /\ snapshot.started \in BOOLEAN
        /\ snapshot.last_status \in {"None", "ok", "ephemeral", "error"}
        /\ snapshot.last_audit_hash \in Requests \cup {"None"}
    BY DEF Typed, Snapshots
  <2>5. \A t \in 1 .. Len(threads) : threads[t] \in {"check", "run", "wait", "ended"}
    BY DEF Typed, LoopSteps
  <2> QED
    BY <2>1, <2>2, <2>3, <2>4, <2>5 DEF Typed, AdmissionTypeOK
<1> QED
  BY <1>1, AdmissionInvariance, PTL

\* QueueDepthGuard counts exactly the handlers that wait for the service inside
\* it, within its bound, and the API key's total the authenticated requests.
THEOREM GuardIsBalanced == AdmissionSpec => []CountersBalanced
<1>1. IInv => CountersBalanced
  <2> SUFFICES ASSUME IInv PROVE CountersBalanced
    OBVIOUS
  <2>1. Authenticated = {r \in Requests : req[r].phase \notin {"unsent", "new"}
                                          /\ req[r].answer # "401"}
    BY DEF Authenticated, Sent
  <2>2. guard.current <= max_in_flight
    BY AdmissionBounds DEF IInv, Base, Typed, GuardOK, Guards
  <2> QED
    BY <2>1, <2>2 DEF IInv, Balanced, CountersBalanced
<1> QED
  BY <1>1, AdmissionInvariance, PTL

\* The runtime has at most one live loop however /start, /stop and the loop
\* interleave; a stopped one was told to end, and a clear event has a loop.
THEOREM OneLoop == AdmissionSpec => []RuntimeConsistent
<1>1. IInv => RuntimeConsistent
  <2> SUFFICES ASSUME IInv PROVE RuntimeConsistent
    OBVIOUS
  <2>1. threads \in Seq(LoopSteps) /\ Len(threads) \in Nat
    BY DEF IInv, Base, Typed
  <2>2. LiveThreads \in SUBSET {Len(threads)}
    BY <2>1 DEF LiveThreads, Alive, IInv, LoopsKnown
  <2>3. Cardinality(LiveThreads) <= 1
    <3>1. IsFiniteSet({Len(threads)}) /\ Cardinality({Len(threads)}) = 1
      BY FS_Singleton
    <3> QED
      BY <2>2, <3>1, FS_Subset
  <2>4. ~stop_event => LiveThreads # {}
    BY <2>1 DEF LiveThreads, Alive, IInv, LoopsKnown
  <2> QED
    BY <2>3, <2>4 DEF RuntimeConsistent, IInv, LoopsKnown
<1> QED
  BY <1>1, AdmissionInvariance, PTL

\* 200 means committed evidence, any other answer but 500 and a lost connection
\* means none, wherever between the commit and the answer an error falls; the
\* runtime shows only the audit hash of evidence whose client was told 200.
THEOREM AnswersFollowCommits == AdmissionSpec => []AnswersTellCommit
<1>1. IInv => AnswersTellCommit
  BY DEF IInv, AnswersKnown, Told, AnswersTellCommit
<1> QED
  BY <1>1, AdmissionInvariance, PTL

\* The sliding window is exact: no window holds more than limit admitted
\* requests of a client, and only a full one refuses.
THEOREM LimiterIsExact == AdmissionSpec => []RateWindowExact
<1>1. AdmissionInit => RateWindowExact
  BY InitialState
<1>2. IInv => LateWindows
  BY LateWindowsBounded DEF IInv
<1>3. IInv /\ LateWindows' /\ RateWindowExact /\ [AdmissionNext]_vars => RateWindowExact'
  BY RateStep DEF IInv
<1> QED
  BY <1>1, <1>2, <1>3, AdmissionInvariance, PTL DEF AdmissionSpec
=============================================================================
