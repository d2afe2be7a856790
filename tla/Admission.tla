------------------------------ MODULE Admission ------------------------------
(***************************************************************************)
(* The HTTP layer in front of the evidence service: API keys, the rate     *)
(* limiter and the queue-depth guard (security/), the handlers with        *)
(* their mapping of exceptions to answers (api/routes.py), and the runtime *)
(* controller with its background thread (api/runtime.py).                 *)
(*                                                                         *)
(* The handlers are coroutines of one event loop, so an action runs from   *)
(* one await to the next: arrival up to the await of the body, the body up *)
(* to the await of the service, and the service's result up to the answer. *)
(* start() and stop() are called from other threads, under the runtime's   *)
(* lock, and the loop's thread runs beside all of them.                    *)
(***************************************************************************)
EXTENDS Naturals, Sequences, FiniteSets, FiniteSetsExt

CONSTANTS Requests,         \* the requests clients may send
          ClientOf,         \* the client address of each
          Workloads,        \* what happens to a server: the requests it gets, the calls
                            \* of start(), whether it has a database and API keys
          limit,            \* RateLimiter: hits per window
          window_seconds,   \* RateLimiter: length of the window
          max_in_flight,    \* QueueDepthGuard: its bound
          MaxClock,         \* bound on the clock
          DayLength         \* clock units per day of the API-key records

ASSUME AdmissionBounds ==
    /\ limit \in Nat \ {0} /\ window_seconds \in Nat \ {0}
    /\ max_in_flight \in Nat \ {0}
    /\ MaxClock \in Nat /\ DayLength \in Nat \ {0}
    /\ IsFiniteSet(Requests)

ASSUME WorkloadAssumption ==
    Workloads \subseteq [requests : SUBSET Requests, starts : Nat,
                         service : BOOLEAN, keysEnabled : BOOLEAN]
ASSUME NoneAssumption == "None" \notin Requests

Clients == {ClientOf[r] : r \in Requests}

VARIABLES clock,        \* time(), in units of the limiter's window
          service,      \* app.state.evidence_service is not None
          keysEnabled,  \* VRL_API_KEYS registered a key
          key,          \* its ApiKeyRecord: requests_total, requests_today, day
          hits,         \* RateLimiter._hits
          guard,        \* QueueDepthGuard: current, peak, rejected_total
          req,          \* the handler of each request
          persisted,    \* the requests whose evidence is committed
          snapshot,     \* RuntimeSnapshot: started, last_status, last_audit_hash
          stop_event,   \* RuntimeController._stop_event
          threads,      \* the loop threads created so far, the last is _thread
          starts        \* calls of start() still to come

guardVars == <<clock, service, keysEnabled, key, hits, guard, req>>
runtimeVars == <<snapshot, stop_event, threads, starts>>
vars == <<guardVars, persisted, runtimeVars>>

Endpoints == {"calculate", "prove", "verify", "run"}

\* lifespan has run: the runtime is stopped and the service is there if a
\* database is configured.
AdmissionInit ==
    /\ \E w \in Workloads :
           /\ req = [r \in Requests |->
                       [phase |-> IF r \in w.requests THEN "new" ELSE "unsent",
                        endpoint |-> "-", at |-> 0, answer |-> "-"]]
           /\ starts = w.starts /\ service = w.service /\ keysEnabled = w.keysEnabled
    /\ clock = 0
    /\ key = [requests_total |-> 0, requests_today |-> 0, day |-> 0]
    /\ hits = [c \in Clients |-> <<>>]
    /\ guard = [current |-> 0, peak |-> 0, rejected_total |-> 0]
    /\ persisted = {}
    /\ snapshot = [started |-> FALSE, last_status |-> "None", last_audit_hash |-> "None"]
    /\ stop_event = TRUE /\ threads = <<>>

Tick ==
    /\ clock < MaxClock
    /\ clock' = clock + 1
    /\ UNCHANGED <<service, keysEnabled, key, hits, guard, req, persisted, runtimeVars>>

----------------------------------------------------------------------------
(* security/                                                               *)

\* ApiKeyRecord.tick: a new day resets the daily count first.
tick(record) ==
    LET today == clock \div DayLength
    IN  [requests_total |-> record.requests_total + 1,
         requests_today |-> (IF record.day = today THEN record.requests_today ELSE 0) + 1,
         day |-> today]

\* _require_api_key: the presented key is absent, unknown or registered.
_require_api_key(presented) == keysEnabled => presented = "registered"

\* Mutation: a hit exactly one window old still counts.
DropExpiredLate(times) ==
    LET kept == {i \in 1 .. Len(times) : clock - times[i] <= window_seconds}
    IN  IF kept = {} THEN <<>> ELSE SubSeq(times, Min(kept), Len(times))

\* The while loop of allow: hits leave at the head once the window has passed.
DropExpired(times) ==
    LET kept == {i \in 1 .. Len(times) : clock - times[i] < window_seconds}
    IN  IF kept = {} THEN <<>> ELSE SubSeq(times, Min(kept), Len(times))

allow(client) == Len(DropExpired(hits[client])) < limit

\* Mutation: one request too many.
CanAcquireOneMore == guard.current <= max_in_flight

\* QueueDepthGuard.acquire, which raises at the bound, and release.
CanAcquire == guard.current < max_in_flight
acquire(g) == [g EXCEPT !.current = @ + 1, !.peak = Max({@, g.current + 1})]
reject(g) == [g EXCEPT !.rejected_total = @ + 1]
release(g) == [g EXCEPT !.current = Max({0, @ - 1})]

----------------------------------------------------------------------------
(* The handlers.                                                           *)

\* The handler ends with an answer, and forgets which one it was.
Answer(r, code) == req' = [req EXCEPT ![r].phase = "done", ![r].endpoint = "-",
                                      ![r].answer = code]

\* Up to the await of the body: the key is counted before the limiter looks,
\* and a refused request has still dropped the expired hits.
Arrive(r, endpoint, presented) ==
    LET admitted == _require_api_key(presented) /\ allow(ClientOf[r])
        live == DropExpired(hits[ClientOf[r]])
    IN  /\ req[r].phase = "new"
        /\ req' = [req EXCEPT ![r] =
                     [phase |-> IF admitted THEN "body" ELSE "done",
                      endpoint |-> IF admitted THEN endpoint ELSE "-", at |-> clock,
                      answer |-> CASE ~_require_api_key(presented) -> "401"
                                   [] _require_api_key(presented) /\ ~admitted -> "429"
                                   [] admitted -> "-"]]
        /\ key' = IF keysEnabled /\ _require_api_key(presented) THEN tick(key) ELSE key
        /\ hits' = IF _require_api_key(presented)
                   THEN [hits EXCEPT ![ClientOf[r]] =
                           IF admitted THEN Append(live, clock) ELSE live]
                   ELSE hits
        /\ UNCHANGED <<clock, service, keysEnabled, guard, persisted, runtimeVars>>

\* GET /proof, /training/dataset and /training/moat: behind the key, which
\* counts them, but neither the limiter nor the guard; what they read and answer
\* changes nothing here.
Query(r, presented) ==
    /\ req[r].phase = "new"
    /\ Answer(r, IF _require_api_key(presented) THEN "query" ELSE "401")
    /\ key' = IF keysEnabled /\ _require_api_key(presented) THEN tick(key) ELSE key
    /\ UNCHANGED <<clock, service, keysEnabled, hits, guard, persisted, runtimeVars>>

\* _load_json_payload: too large 413, no JSON, no object or a payload the
\* guards refuse 400, no UTF-8 an unhandled error; an empty body is {}.
BodyError(body) == CASE body = "large" -> "413"
                     [] body = "malformed" -> "400"
                     [] body = "not_utf8" -> "500"
                     [] body \in {"empty", "invalid", "complete"} -> "-"

\* From the body to the await of the service inside the guard, for /calculate:
\* a payload the model refuses, or a missing service, leaves the guard again.
calculate_begin(r, body) ==
    IF ~CanAcquire THEN Answer(r, "503") /\ guard' = reject(guard)
    ELSE IF body # "complete" THEN Answer(r, "400") /\ guard' = release(acquire(guard))
    ELSE IF ~service THEN Answer(r, "503") /\ guard' = release(acquire(guard))
    ELSE req' = [req EXCEPT ![r].phase = "service"] /\ guard' = acquire(guard)

\* /prove builds the trace and submits it without an await, so it enters and
\* leaves the guard in one step; the submission can fail.
prove_all(r, body) ==
    IF ~CanAcquire THEN Answer(r, "503") /\ guard' = reject(guard)
    ELSE /\ guard' = release(acquire(guard))
         /\ IF ~service THEN Answer(r, "503")
            ELSE IF body # "complete" THEN Answer(r, "400")
            ELSE \E code \in {"enqueued", "500"} : Answer(r, code)

\* /verify takes no guard, and answers every failure with 200 and valid: false.
verify_begin(r, body) ==
    /\ guard' = guard
    /\ IF body = "complete" /\ service THEN req' = [req EXCEPT ![r].phase = "service"]
                                       ELSE Answer(r, "invalid")

\* /run refuses an empty payload before the guard; it has no clause for
\* HTTPException, so a missing service becomes 500; the service itself refuses
\* an invalid payload, before its first await.
run_begin(r, body) ==
    IF body = "empty" THEN Answer(r, "400") /\ guard' = guard
    ELSE IF ~CanAcquire THEN Answer(r, "503") /\ guard' = reject(guard)
    ELSE IF ~service THEN Answer(r, "500") /\ guard' = release(acquire(guard))
    ELSE IF body # "complete" THEN Answer(r, "400") /\ guard' = release(acquire(guard))
    ELSE req' = [req EXCEPT ![r].phase = "service"] /\ guard' = acquire(guard)

ReadBody(r, body) ==
    /\ req[r].phase = "body"
    /\ IF BodyError(body) # "-" THEN Answer(r, BodyError(body)) /\ guard' = guard
       ELSE CASE req[r].endpoint = "calculate" -> calculate_begin(r, body)
              [] req[r].endpoint = "prove" -> prove_all(r, body)
              [] req[r].endpoint = "verify" -> verify_begin(r, body)
              [] req[r].endpoint = "run" -> run_begin(r, body)
    /\ UNCHANGED <<clock, service, keysEnabled, key, hits, persisted, runtimeVars>>

\* The client goes away before its body is complete.
LoseClient(r) ==
    /\ req[r].phase = "body"
    /\ Answer(r, "lost")
    /\ UNCHANGED <<clock, service, keysEnabled, key, hits, guard, persisted, runtimeVars>>

\* Mutation: the guard is left behind when the service raises.
LeaveOnSuccess(r, outcome) ==
    IF req[r].endpoint \in {"calculate", "run"} /\ outcome = "ok" THEN release(guard) ELSE guard

\* guarded()'s finally clause: /calculate and /run leave the guard whatever
\* the service did.
LeaveGuard(r, outcome) ==
    IF req[r].endpoint \in {"calculate", "run"} THEN release(guard) ELSE guard

\* record_response: a persisted response with its audit hash, or an
\* ephemeral one without.
record_response(status, audit_hash) ==
    snapshot' = [snapshot EXCEPT !.last_status = status, !.last_audit_hash = audit_hash]

\* Only a response the service returned is recorded.
Recorded(r, outcome) == outcome = "ok"

\* Mutation: an error of the database is answered as a missing repository.
ExceptionCodeUnavailable(outcome) == CASE outcome = "ok" -> "200"
                                       [] outcome = "duplicate" -> "409"
                                       [] outcome \in {"unavailable", "error"} -> "503"
                                       [] outcome = "refused" -> "400"

\* The except clauses of /calculate and /run.
ExceptionCode(outcome) == CASE outcome = "ok" -> "200"
                            [] outcome = "duplicate" -> "409"
                            [] outcome = "unavailable" -> "503"
                            [] outcome = "refused" -> "400"
                            [] outcome = "error" -> "500"

\* calculate_and_persist makes the evidence durable; the handler is resumed
\* later.
ServiceCommits(r) ==
    /\ req[r].phase = "service" /\ req[r].endpoint \in {"calculate", "run"}
    /\ persisted' = persisted \cup {r}
    /\ UNCHANGED <<guardVars, runtimeVars>>

\* What calculate_and_persist may end with: it returns after its commit;
\* RepositoryUnavailableError, a refused payload and a duplicate are raised by
\* calls that persist nothing; an error of the database or a timeout may come
\* before the commit, after it, or while it is being made.
CanEnd(r, outcome) == CASE outcome = "ok" -> r \in persisted
                        [] outcome = "error" -> TRUE
                        [] OTHER -> r \notin persisted

\* The service returns or raises; "refused" is a SecurityViolation or a
\* ValidationError, "error" an integrity error or any other exception.
ServiceReturns(r, outcome) ==
    /\ req[r].phase = "service"
    /\ guard' = LeaveGuard(r, outcome)
    /\ IF req[r].endpoint = "verify"
       THEN /\ Answer(r, IF outcome = "ok" THEN "verified" ELSE "invalid")
            /\ UNCHANGED <<persisted, snapshot>>
       ELSE /\ CanEnd(r, outcome)
            /\ Answer(r, ExceptionCode(outcome))
            /\ persisted' \in IF outcome = "error" THEN {persisted, persisted \cup {r}}
                              ELSE {persisted}
            /\ IF Recorded(r, outcome) THEN record_response("ok", r) ELSE snapshot' = snapshot
    /\ UNCHANGED <<clock, service, keysEnabled, key, hits, stop_event, threads, starts>>

\* The handler's task is cancelled while it waits: the guard is left, nobody is
\* answered, and a COMMIT under way may still be made.
Cancel(r) ==
    /\ req[r].phase = "service"
    /\ guard' = LeaveGuard(r, "cancelled")
    /\ Answer(r, "lost")
    /\ persisted' \in IF req[r].endpoint = "verify" THEN {persisted}
                      ELSE {persisted, persisted \cup {r}}
    /\ UNCHANGED <<clock, service, keysEnabled, key, hits, runtimeVars>>

----------------------------------------------------------------------------
(* RuntimeController.                                                      *)

Alive(t) == threads[t] # "ended"

\* Mutation: only the reported state is looked at, not the thread.
ReportedStarted == snapshot.started

\* self._thread and self._thread.is_alive().
ThreadFound == threads # <<>> /\ Alive(Len(threads))

\* POST /start: refused without a service.  A thread that is still alive is
\* kept, and the stop event with it.
Start ==
    /\ service /\ starts > 0 /\ starts' = starts - 1
    /\ snapshot' = [snapshot EXCEPT !.started = TRUE]
    /\ IF ThreadFound THEN UNCHANGED <<stop_event, threads>>
                      ELSE stop_event' = FALSE /\ threads' = Append(threads, "check")
    /\ UNCHANGED <<guardVars, persisted>>

\* POST /stop.
Stop ==
    /\ stop_event' = TRUE
    /\ snapshot' = [snapshot EXCEPT !.started = FALSE]
    /\ UNCHANGED <<guardVars, persisted, threads, starts>>

\* Mutation: the loop never looks at the stop event again.
LoopGoesOn == TRUE

LoopContinues == ~stop_event

\* _loop: look at the event, run once (record or note the error), wait for the
\* event or the interval.
LoopCheck(t) ==
    /\ threads[t] = "check"
    /\ threads' = [threads EXCEPT ![t] = IF LoopContinues THEN "run" ELSE "ended"]
    /\ UNCHANGED <<guardVars, persisted, snapshot, stop_event, starts>>

run_once(t) ==
    /\ threads[t] = "run"
    /\ threads' = [threads EXCEPT ![t] = "wait"]
    /\ \/ record_response("ephemeral", "None")
       \/ snapshot' = [snapshot EXCEPT !.last_status = "error"]
    /\ UNCHANGED <<guardVars, persisted, stop_event, starts>>

LoopWait(t) ==
    /\ threads[t] = "wait"
    /\ threads' = [threads EXCEPT ![t] = "check"]
    /\ UNCHANGED <<guardVars, persisted, snapshot, stop_event, starts>>

LoopStep(t) == LoopCheck(t) \/ run_once(t) \/ LoopWait(t)

----------------------------------------------------------------------------
Bodies == {"large", "malformed", "not_utf8", "empty", "invalid", "complete"}
PresentedKeys == {"absent", "unknown", "registered"}
Outcomes == {"ok", "duplicate", "unavailable", "refused", "error"}

ServiceEnds(r) == (\E outcome \in Outcomes : ServiceReturns(r, outcome)) \/ Cancel(r)

AdmissionNext ==
    \/ Tick
    \/ \E r \in Requests :
          \/ \E endpoint \in Endpoints, presented \in PresentedKeys :
                Arrive(r, endpoint, presented)
          \/ \E presented \in PresentedKeys : Query(r, presented)
          \/ \E body \in Bodies : ReadBody(r, body)
          \/ LoseClient(r) \/ ServiceCommits(r) \/ ServiceEnds(r)
    \/ Start \/ Stop
    \/ \E t \in 1 .. Len(threads) : LoopStep(t)

\* The service's own time limits end every call, and the loop's thread is
\* scheduled by the operating system.  A client may never send its body.
AdmissionSpec ==
    /\ AdmissionInit /\ [][AdmissionNext]_vars
    /\ \A r \in Requests : WF_vars(ServiceEnds(r))
    /\ \A t \in 1 .. Max({w.starts : w \in Workloads} \cup {0}) :
           WF_vars(t <= Len(threads) /\ LoopStep(t))

----------------------------------------------------------------------------
(* Properties.                                                             *)

\* Requests, counters, hits, the runtime's snapshot and its threads keep their
\* types; peak_in_flight never passes the guard's bound, nor current the peak.
AdmissionTypeOK ==
    /\ clock \in 0 .. MaxClock /\ service \in BOOLEAN /\ keysEnabled \in BOOLEAN
    /\ key \in [requests_total : Nat, requests_today : Nat, day : Nat]
    /\ \A c \in Clients : Len(hits[c]) <= limit /\ \A i \in 1 .. Len(hits[c]) :
                                                     hits[c][i] \in 0 .. MaxClock
    /\ guard.current \in 0 .. guard.peak /\ guard.peak \in 0 .. max_in_flight
    /\ guard.rejected_total \in Nat
    /\ req \in [Requests -> [phase : {"unsent", "new", "body", "service", "done"},
                             endpoint : Endpoints \cup {"-"}, at : 0 .. MaxClock,
                             answer : {"-", "200", "enqueued", "verified", "invalid",
                                       "400", "401", "409", "413", "429", "500",
                                       "503", "lost", "query"}]]
    /\ persisted \subseteq Requests
    /\ snapshot.started \in BOOLEAN /\ stop_event \in BOOLEAN
    /\ snapshot.last_status \in {"None", "ok", "ephemeral", "error"}
    /\ snapshot.last_audit_hash \in Requests \cup {"None"}
    /\ \A t \in 1 .. Len(threads) : threads[t] \in {"check", "run", "wait", "ended"}

InsideGuard == {r \in Requests : req[r].phase = "service"
                                 /\ req[r].endpoint \in {"calculate", "run"}}

\* QueueDepthGuard counts exactly the /calculate and /run handlers that wait
\* for the service: every refusal, exception and cancellation has given its
\* place back, so the bound neither leaks away nor is exceeded.  The API key's
\* total counts exactly the requests that got past authentication.
CountersBalanced ==
    /\ guard.current = Cardinality(InsideGuard)
    /\ Cardinality(InsideGuard) <= max_in_flight
    /\ keysEnabled => key.requests_total =
           Cardinality({r \in Requests : req[r].phase \notin {"unsent", "new"}
                                         /\ req[r].answer # "401"})
    /\ key.requests_today <= key.requests_total

\* The requests of a client that the limiter let through and that arrived in
\* the window ending at a moment.
AdmittedIn(client, moment) ==
    {r \in Requests : /\ ClientOf[r] = client
                      /\ req[r].phase \notin {"unsent", "new"}
                      /\ req[r].answer \notin {"401", "429", "query"}
                      /\ req[r].at <= moment /\ moment - req[r].at < window_seconds}

\* No window of window_seconds, wherever it ends, holds more than `limit'
\* admitted requests of a client, and a request is refused only when the window
\* ending at its arrival holds `limit' of them.
RateWindowExact ==
    /\ \A c \in Clients, moment \in 0 .. MaxClock :
           Cardinality(AdmittedIn(c, moment)) <= limit
    /\ \A r \in Requests : req[r].answer = "429" =>
           Cardinality(AdmittedIn(ClientOf[r], req[r].at)) = limit

LiveThreads == {t \in 1 .. Len(threads) : Alive(t)}

\* However /start, /stop and the loop's steps interleave, the runtime has at
\* most one live loop; one reported as stopped has been told to end, and while
\* the stop event is clear a loop is alive.  So a runtime reported as started
\* that has no loop is one whose old thread had not yet ended when /start found
\* it.
RuntimeConsistent ==
    /\ Cardinality(LiveThreads) <= 1
    /\ ~snapshot.started => stop_event
    /\ ~stop_event => LiveThreads # {}

\* What the client of /calculate or /run is told agrees with what was
\* committed, although the commit and the answer are steps apart and an error
\* may fall between them: 200 means durable evidence, and every other answer
\* but 500 and a lost connection means none, so only these two leave a client
\* in doubt.  The audit hash the dashboard shows is that of evidence whose
\* client was told 200, and "ok" is shown only with such a hash.
AnswersTellCommit ==
    /\ \A r \in Requests : req[r].phase = "done" =>
           /\ req[r].answer = "200" => r \in persisted
           /\ r \in persisted => req[r].answer \in {"200", "500", "lost"}
    /\ snapshot.last_audit_hash # "None" => req[snapshot.last_audit_hash].answer = "200"
    /\ snapshot.last_status = "ok" => snapshot.last_audit_hash # "None"

\* A handler that waits for the service ends, and a loop that was told to stop
\* ends unless it is started again.
AdmissionProgress ==
    /\ \A r \in Requests : (req[r].phase = "service") ~> (req[r].phase = "done")
    /\ stop_event ~> (~stop_event \/ LiveThreads = {})
============================================================================
