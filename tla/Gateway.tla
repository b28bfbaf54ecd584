------------------------------- MODULE Gateway ------------------------------
(***************************************************************************)
(* The request pipeline of the gateway and the state it shares.            *)
(*                                                                         *)
(*  - store: the description store (utils/store, main.go:68), written by   *)
(*    the description synchronizer (main.go:133-170), read once per        *)
(*    request by processor.Process (processor.go:68).                      *)
(*  - one worker per in-flight HTTP request, running processor.Process     *)
(*    (processor.go:63-185).  Its steps are split at the calls that touch  *)
(*    state another actor can change concurrently: the store read together *)
(*    with the local checks and the token parse (Route), the call to the   *)
(*    external limiter (the Limit actions), and the backend call with the  *)
(*    response normalisation and the deferred audit (the Forward actions). *)
(*  - spent: the token buckets of the external limiter backend (redis_rate)*)
(*    as far as the gateway can observe them: a call is allowed while the  *)
(*    bucket of its key has fewer than burst tokens in use; Refill returns *)
(*    one token as time passes.                                            *)
(*  - audited: what the deferred audit writer emitted for each request.    *)
(***************************************************************************)
EXTENDS Policy

CONSTANTS
    Registered,     \* the services of the config, i.e. the client store
    Workers,        \* concurrent request goroutines
    Subjects,       \* subject ids a valid bearer token can carry
    SubjectPerms,   \* the permissions claim of each subject's token
    BadToken,       \* a missing, malformed or invalid bearer token
    IPs,            \* client addresses (X-Forwarded-For or remote host)
    NoPolicy,       \* a miss of the description store
    NoSubject,      \* nil *SubjectInformation
    NoKey           \* a request that took no limiter token

ASSUME GatewayAssumption ==
    /\ Registered \subseteq Services
    /\ SubjectPerms \in [Subjects -> SUBSET Perms]
    /\ Empty \notin Subjects \cup IPs
    /\ BadToken \notin Subjects
    /\ NoPolicy \notin PolicyType
    /\ NoSubject \notin Subjects \cup {Empty}

VARIABLES
    store,          \* descriptionStore: service -> description
    syncPending,    \* services the running sync round has yet to visit
    pc,             \* where each worker is in processor.Process
    req,            \* the ProcessRequest each worker serves
    snap,           \* the description pointer the worker read (line 68)
    subj,           \* the subject ParseToken returned to the worker
    admitted,       \* the limiter key a worker took a token from
    delivered,      \* the backend received the worker's request
    status,         \* the status code of the worker's response (0: none)
    audited,        \* the audit result written for the worker's request
    spent           \* tokens in use per limiter key

vars == <<store, syncPending, pc, req, snap, subj, admitted, delivered,
          status, audited, spent>>

Requests ==
    [service : Services \cup {Empty}, method : Methods \cup {Empty},
     http : HTTPMethods, token : Subjects \cup {BadToken}, ip : IPs]

NoRequest == [service |-> Empty, method |-> Empty, http |-> Unspecified,
              token |-> BadToken, ip |-> Empty]

\* ratelimit.Key, as key.string() tells keys apart: a service-level key
\* "lim_<service>:<entity>" has no method component.
Entities == IPs \cup Subjects \cup {Empty}
Keys == [service : Services, method : Methods \cup {Empty}, entity : Entities]

Stages == {"idle", "limit", "forward", "done", "crashed"}
StatusCodes == {0, 200, 400, 401, 403, 404, 405, 429, 500}
AuditResults == {"none", "ok", "error"}

TypeOK ==
    /\ store \in [Services -> Policies \cup {NoPolicy}]
    /\ syncPending \subseteq Registered
    /\ pc \in [Workers -> Stages]
    /\ req \in [Workers -> Requests \cup {NoRequest}]
    /\ snap \in [Workers -> Policies \cup {NoPolicy}]
    /\ subj \in [Workers -> Subjects \cup {NoSubject}]
    /\ admitted \in [Workers -> Keys \cup {NoKey}]
    /\ delivered \in [Workers -> BOOLEAN]
    /\ status \in [Workers -> StatusCodes]
    /\ audited \in [Workers -> AuditResults]
    /\ spent \in [Keys -> Nat]

-----------------------------------------------------------------------------
(* Helpers of processor.go.                                                *)

\* ProcessRequest.Validate: service, API method and HTTP method are set.
Validate(r) ==
    r.service # Empty /\ r.method # Empty /\ r.http # Unspecified

\* auth.ParseToken: the token's subject, or nil with an error.
ParseToken(t) == IF t \in Subjects THEN t ELSE NoSubject

\* Mutant: line 90 dropped, permissions alone no longer force a token.
NeedAuthWithoutLine90(p, m) == NeedAuthentication(p, m)

\* needAuthentication after line 90: forced when permissions are required.
NeedAuth(p, m) == NeedAuthentication(p, m) \/ Permissions(p, m) # {}

\* The status of the first guard of lines 64-105 that fails, 0 if none.
RouteStatus(r, s) ==
    LET p == store[r.service] IN
    IF ~Validate(r) THEN 400
    ELSE IF p = NoPolicy THEN 404
    ELSE IF p.methods[r.method] = NoMethod THEN 404
    ELSE IF r.http \notin p.methods[r.method].allowed THEN 405
    ELSE IF r.service \notin Registered THEN 404
    ELSE IF NeedAuth(p, r.method) /\ s = NoSubject THEN 401
    ELSE IF NeedAuth(p, r.method)
            /\ ~(Permissions(p, r.method) \subseteq SubjectPerms[s]) THEN 403
    ELSE 0

\* The limiter the worker's snapshot selects, and its isServiceLimiter.
LimiterOf(w) == SelectRateLimiter(snap[w], req[w].method)

\* The entity of lines 124-133: the client address, or the subject id
\* (the empty string when there is no subject).
Entity(w) ==
    IF LimiterOf(w)[1].by = "ip" THEN req[w].ip
    ELSE IF subj[w] # NoSubject THEN subj[w] ELSE Empty

\* The ratelimit.Key of lines 137-142.
KeyOf(w) ==
    [service |-> req[w].service,
     method  |-> IF LimiterOf(w)[2] THEN Empty ELSE req[w].method,
     entity  |-> Entity(w)]

\* Mutant: the deferred audit looks the description up again on exit.
AuditResultReread(w, result) ==
    IF NeedAudit(store[req[w].service], req[w].method) THEN result ELSE "none"

\* The deferred audit of lines 114-120: written, with the given result,
\* when the description the request read asks for audit.
AuditResult(w, result) ==
    IF NeedAudit(snap[w], req[w].method) THEN result ELSE "none"

-----------------------------------------------------------------------------
Init ==
    \* the first synchronisation (main.go:151) ran before the servers start
    /\ store \in {f \in [Services -> Policies \cup {NoPolicy}] :
                    \A s \in Services \ Registered : f[s] = NoPolicy}
    /\ syncPending = {}
    /\ pc = [w \in Workers |-> "idle"]
    /\ req = [w \in Workers |-> NoRequest]
    /\ snap = [w \in Workers |-> NoPolicy]
    /\ subj = [w \in Workers |-> NoSubject]
    /\ admitted = [w \in Workers |-> NoKey]
    /\ delivered = [w \in Workers |-> FALSE]
    /\ status = [w \in Workers |-> 0]
    /\ audited = [w \in Workers |-> "none"]
    /\ spent = [k \in Keys |-> 0]

\* Lines 64-105: a guard fails (validation, store miss, unknown method,
\* HTTP method not allowed, no client, no subject or a missing
\* permission where one is needed); the response carries the guard's
\* status and no audit is registered.
RouteReject(w, r) ==
    LET code == RouteStatus(r, ParseToken(r.token)) IN
    /\ code # 0
    /\ req' = [req EXCEPT ![w] = r]
    /\ status' = [status EXCEPT ![w] = code]
    /\ pc' = [pc EXCEPT ![w] = "done"]
    /\ UNCHANGED <<snap, subj>>

\* Lines 64-123: every guard passes; the worker keeps the description it
\* read (line 68) and the subject (line 92), the deferred audit is
\* registered, and the worker goes on to the limiter, or straight to the
\* backend when the description selects no limiter.
RouteAccept(w, r) ==
    LET s == ParseToken(r.token)
        p == store[r.service]
    IN  /\ RouteStatus(r, s) = 0
        /\ req' = [req EXCEPT ![w] = r]
        /\ snap' = [snap EXCEPT ![w] = p]
        /\ subj' = [subj EXCEPT ![w] = s]
        /\ pc' = [pc EXCEPT ![w] =
                    IF SelectRateLimiter(p, r.method)[1] = NoLimiter
                    THEN "forward" ELSE "limit"]
        /\ UNCHANGED status

\* processor.Process up to the limiter, for a request the front end hands
\* to an idle worker (gateway/handler.go:40-49).
Route(w) ==
    /\ pc[w] = "idle"
    /\ \E r \in Requests : RouteReject(w, r) \/ RouteAccept(w, r)
    /\ UNCHANGED <<store, syncPending, admitted, delivered, audited, spent>>

\* Lines 135-150: the limiter backend fails; 500, and the deferred audit
\* runs with the result still ok.
LimitError(w) ==
    /\ pc[w] = "limit"
    /\ status' = [status EXCEPT ![w] = 500]
    /\ audited' = [audited EXCEPT ![w] = AuditResult(w, "ok")]
    /\ pc' = [pc EXCEPT ![w] = "done"]
    /\ UNCHANGED <<store, syncPending, req, snap, subj, admitted, delivered,
                   spent>>

\* Mutant: the !isAllowed check of line 153 is lost; the request goes on.
LimitDenyIgnored(w) ==
    /\ pc[w] = "limit"
    /\ spent[KeyOf(w)] >= LimiterOf(w)[1].burst
    /\ pc' = [pc EXCEPT ![w] = "forward"]
    /\ UNCHANGED <<store, syncPending, req, snap, subj, admitted, delivered,
                   status, audited, spent>>

\* Lines 135-161: the bucket of the key is exhausted; 429 with Retry-After,
\* and the deferred audit runs with the result ok.
LimitDeny(w) ==
    /\ pc[w] = "limit"
    /\ spent[KeyOf(w)] >= LimiterOf(w)[1].burst
    /\ status' = [status EXCEPT ![w] = 429]
    /\ audited' = [audited EXCEPT ![w] = AuditResult(w, "ok")]
    /\ pc' = [pc EXCEPT ![w] = "done"]
    /\ UNCHANGED <<store, syncPending, req, snap, subj, admitted, delivered,
                   spent>>

\* Lines 135-148: the limiter takes a token of the key's bucket.
LimitAllow(w) ==
    /\ pc[w] = "limit"
    /\ spent[KeyOf(w)] < LimiterOf(w)[1].burst
    /\ spent' = [spent EXCEPT ![KeyOf(w)] = @ + 1]
    /\ admitted' = [admitted EXCEPT ![w] = KeyOf(w)]
    /\ pc' = [pc EXCEPT ![w] = "forward"]
    /\ UNCHANGED <<store, syncPending, req, snap, subj, delivered, status,
                   audited>>

\* Lines 164-176 with client.Process (client.go:71-79) and
\* subjectInformationToProto (adapter.go:93-97): building the outgoing
\* request dereferences the subject, so without one the goroutine panics;
\* the deferred audit still runs while the panic unwinds.
ForwardPanic(w) ==
    /\ pc[w] = "forward"
    /\ subj[w] = NoSubject
    /\ audited' = [audited EXCEPT ![w] = AuditResult(w, "ok")]
    /\ pc' = [pc EXCEPT ![w] = "crashed"]
    /\ UNCHANGED <<store, syncPending, req, snap, subj, admitted, delivered,
                   status, spent>>

\* Lines 176-180: the backend call fails or times out; 500, audit error.
ForwardError(w) ==
    /\ pc[w] = "forward"
    /\ subj[w] # NoSubject
    /\ status' = [status EXCEPT ![w] = 500]
    /\ audited' = [audited EXCEPT ![w] = AuditResult(w, "error")]
    /\ pc' = [pc EXCEPT ![w] = "done"]
    /\ UNCHANGED <<store, syncPending, req, snap, subj, admitted, delivered,
                   spent>>

\* Lines 176-184: the backend answers; SetDefaults, the response is
\* returned as the backend sent it, audit ok.
ForwardOk(w) ==
    /\ pc[w] = "forward"
    /\ subj[w] # NoSubject
    /\ delivered' = [delivered EXCEPT ![w] = TRUE]
    /\ status' = [status EXCEPT ![w] = 200]
    /\ audited' = [audited EXCEPT ![w] = AuditResult(w, "ok")]
    /\ pc' = [pc EXCEPT ![w] = "done"]
    /\ UNCHANGED <<store, syncPending, req, snap, subj, admitted, spent>>

\* The limiter backend refills one token of a bucket as time passes.
Refill(k) ==
    /\ spent[k] > 0
    /\ spent' = [spent EXCEPT ![k] = @ - 1]
    /\ UNCHANGED <<store, syncPending, pc, req, snap, subj, admitted,
                   delivered, status, audited>>

\* main.go:155-160: a ticker tick starts a round of syncFunc over the
\* client store (a tick that comes while a round runs is dropped).
SyncTick ==
    /\ syncPending = {}
    /\ syncPending' = Registered
    /\ UNCHANGED <<store, pc, req, snap, subj, admitted, delivered, status,
                   audited, spent>>

\* Mutant: the description is stored before the error is checked, so a
\* failed Description call stores nil.
SyncStepSetsOnError(s) ==
    /\ s \in syncPending
    /\ syncPending' = syncPending \ {s}
    /\ \/ \E p \in Policies : store' = [store EXCEPT ![s] = p]
       \/ store' = [store EXCEPT ![s] = NoPolicy]
    /\ UNCHANGED <<pc, req, snap, subj, admitted, delivered, status,
                   audited, spent>>

\* main.go:137-146: one iteration of syncFunc, in map order: Description
\* succeeds and the new description replaces the stored one, or fails and
\* the stored one is kept.
SyncStep(s) ==
    /\ s \in syncPending
    /\ syncPending' = syncPending \ {s}
    /\ \/ \E p \in Policies : store' = [store EXCEPT ![s] = p]
       \/ UNCHANGED store
    /\ UNCHANGED <<pc, req, snap, subj, admitted, delivered, status,
                   audited, spent>>

Next ==
    \/ \E w \in Workers :
          \/ Route(w)
          \/ LimitError(w) \/ LimitDeny(w) \/ LimitAllow(w)
          \/ ForwardPanic(w) \/ ForwardError(w) \/ ForwardOk(w)
    \/ \E k \in Keys : Refill(k)
    \/ SyncTick
    \/ \E s \in Registered : SyncStep(s)

Spec == Init /\ [][Next]_vars

-----------------------------------------------------------------------------
(* Properties.                                                             *)

\* A request reaches a backend only with a subject when the description it
\* was routed by asks for authentication, and only with a subject holding
\* every permission that description requires, whether or not it asks
\* for authentication (processor.go:87-105, line 90 included).
HeldPerms(w) == IF subj[w] = NoSubject THEN {} ELSE SubjectPerms[subj[w]]

AuthEnforced ==
    \A w \in Workers :
        delivered[w] =>
            /\ NeedAuthentication(snap[w], req[w].method) => subj[w] # NoSubject
            /\ Permissions(snap[w], req[w].method) \subseteq HeldPerms(w)

\* Whether a finished request was audited is decided by the description it
\* was routed by, even when the synchronizer replaced that description
\* while the request was at the limiter or the backend (the deferred audit
\* of processor.go:114-120 reads the pointer taken at line 68).
AuditMatchesSnapshot ==
    \A w \in Workers :
        pc[w] \in {"done", "crashed"} =>
            (audited[w] # "none" <=>
                snap[w] # NoPolicy /\ NeedAudit(snap[w], req[w].method))

\* A request whose description selects a limiter reaches the backend only
\* after the limiter let it take a token from the bucket of the key built
\* from that description, its method and its client or subject
\* (processor.go:122-162).
RateLimitAdmitted ==
    \A w \in Workers :
        delivered[w] /\ LimiterOf(w)[1] # NoLimiter => admitted[w] = KeyOf(w)

\* A backend whose Description call fails keeps the description the store
\* already holds (main.go:138-142 skip to the next client): no step ever
\* takes a service's description away, so a service once routable never
\* turns into a 404 because its backend is down at a sync.
SyncKeepsDescriptions ==
    [][\A s \in Services : store[s] # NoPolicy => store'[s] # NoPolicy]_vars

\* spec.md 4.G: audit is emitted only for requests that reached the
\* backend call, and with result ok only when the backend answered.
AuditOkOnlyWhenAnswered ==
    \A w \in Workers : audited[w] = "ok" => delivered[w]

\* spec.md 4.G and 7: the processor never fails; every request it takes
\* gets a response.
ProcessNeverPanics ==
    \A w \in Workers : pc[w] # "crashed"

\* The abstract phase of each request: a worker at the limiter or the
\* backend holds an admitted request, a finished or crashed one is closed.
Phase ==
    [w \in Workers |->
        IF pc[w] = "idle" THEN "idle"
        ELSE IF pc[w] \in {"limit", "forward"} THEN "open" ELSE "closed"]

SP == INSTANCE ServicePolicy
        WITH phase <- Phase, pol <- snap, who <- subj, sent <- delivered,
             audit <- audited

\* The pipeline implements the per-request promise of ServicePolicy: each
\* request is refused, or admitted against the description the store
\* holds at its read (processor.go:68) and judged and audited by that
\* description alone through the limiter and backend steps, while syncs
\* replace descriptions concurrently (main.go:137-146).
ServicePolicySpec == SP!Spec

=============================================================================
