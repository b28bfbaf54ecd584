---------------------------- MODULE GatewayProofs ---------------------------
(***************************************************************************)
(* Proofs about the request pipeline of Gateway: the type invariant and    *)
(* AuthEnforced hold in every reachable state, for all values of the       *)
(* constants that satisfy the module's assumptions.                        *)
(*                                                                         *)
(* Neither is inductive by itself.  A worker at the limiter or the backend *)
(* carries a request, a description and a subject fixed by Route; the     *)
(* strengthening records what Route established about them (RoutedInv,     *)
(* AuthInv) and that a delivered request is finished, so that a later      *)
(* Route of an idle worker cannot rewrite a delivered request              *)
(* (DeliveredDone).                                                        *)
(***************************************************************************)
EXTENDS Gateway, TLAPS

\* What Route established for a worker it sent on.
RoutedInv ==
    \A w \in Workers :
        pc[w] \in {"limit", "forward"} =>
            /\ req[w] \in Requests
            /\ req[w].service \in Registered
            /\ req[w].method \in Methods
            /\ snap[w] \in Policies
            /\ pc[w] = "limit" => LimiterOf(w)[1] \in Limiters

\* The authentication requirement of the worker's description is met.
AuthHolds(w) ==
    /\ NeedAuthentication(snap[w], req[w].method) => subj[w] # NoSubject
    /\ Permissions(snap[w], req[w].method) \subseteq HeldPerms(w)

AuthInv ==
    \A w \in Workers :
        pc[w] \in {"limit", "forward"} \/ delivered[w] => AuthHolds(w)

DeliveredDone ==
    \A w \in Workers : delivered[w] => pc[w] = "done"

IInv == TypeOK /\ RoutedInv /\ DeliveredDone /\ AuthInv

-----------------------------------------------------------------------------
(* Lemmas about the operators the pipeline is built from.                 *)

\* The limiter a description selects for a method is one of the declared
\* limiters or none, and the level flag is a Boolean.
LEMMA SelectRateLimiterType ==
    ASSUME NEW p \in Policies, NEW m \in Methods
    PROVE  /\ SelectRateLimiter(p, m)[1] \in Limiters \cup {NoLimiter}
           /\ SelectRateLimiter(p, m)[2] \in BOOLEAN
BY PolicyAssumption DEF SelectRateLimiter, PolicyType, MethodPolicyType

\* The routing status is a status code.
LEMMA RouteStatusType ==
    ASSUME NEW r \in Requests, NEW s
    PROVE  RouteStatus(r, s) \in StatusCodes
BY DEF RouteStatus, StatusCodes

\* What a request that passes every guard of Route satisfies.
LEMMA RouteAccepted ==
    ASSUME TypeOK, NEW r \in Requests, NEW s, RouteStatus(r, s) = 0
    PROVE  /\ r.service \in Registered
           /\ r.method \in Methods
           /\ store[r.service] \in Policies
           /\ NeedAuth(store[r.service], r.method) =>
                 /\ s # NoSubject
                 /\ Permissions(store[r.service], r.method) \subseteq SubjectPerms[s]
<1>1. Validate(r) /\ store[r.service] # NoPolicy /\ r.service \in Registered
  BY DEF RouteStatus
<1>2. r.method \in Methods
  BY <1>1 DEF Validate, Requests
<1>3. store[r.service] \in Policies
  BY <1>1, GatewayAssumption DEF TypeOK
<1>4. NeedAuth(store[r.service], r.method) =>
         /\ s # NoSubject
         /\ Permissions(store[r.service], r.method) \subseteq SubjectPerms[s]
  BY DEF RouteStatus
<1>. QED  BY <1>1, <1>2, <1>3, <1>4

\* A parsed token is a subject or none.
LEMMA ParseTokenType ==
    ASSUME NEW t
    PROVE  ParseToken(t) \in Subjects \cup {NoSubject}
BY DEF ParseToken

-----------------------------------------------------------------------------
(* The inductive invariant.                                               *)

LEMMA InitIInv == Init => IInv
<1> SUFFICES ASSUME Init PROVE IInv
  OBVIOUS
<1>1. TypeOK
  BY GatewayAssumption, NameAssumption
  DEF Init, TypeOK, NoRequest, Requests, AuditResults, StatusCodes, Stages
<1>2. RoutedInv /\ DeliveredDone /\ AuthInv
  BY DEF Init, RoutedInv, DeliveredDone, AuthInv
<1>. QED  BY <1>1, <1>2 DEF IInv

\* Route: a rejected request finishes without touching the worker's
\* description and subject, an accepted one carries what RouteAccepted
\* gives.  Idle workers have delivered nothing, so rewriting their request
\* disturbs no delivered one.
LEMMA RouteIInv ==
    ASSUME IInv, NEW w \in Workers, Route(w)
    PROVE  IInv'
<1> USE DEF IInv
<1>1. PICK r \in Requests : RouteReject(w, r) \/ RouteAccept(w, r)
  BY DEF Route
<1>2. ~delivered[w] /\ pc[w] = "idle"
  BY DEF Route, DeliveredDone, TypeOK
<1>3. CASE RouteReject(w, r)
  <2>1. TypeOK'
    BY <1>1, <1>3, RouteStatusType, ParseTokenType
    DEF Route, RouteReject, TypeOK, Stages
  <2>2. RoutedInv' /\ DeliveredDone' /\ AuthInv'
    <3>1. ASSUME NEW v \in Workers, v # w
          PROVE  /\ pc'[v] = pc[v] /\ req'[v] = req[v] /\ snap'[v] = snap[v]
                 /\ subj'[v] = subj[v] /\ delivered'[v] = delivered[v]
      <4>1. pc'[v] = pc[v] /\ req'[v] = req[v]
        BY <1>3, <3>1 DEF RouteReject, TypeOK
      <4>2. snap' = snap /\ subj' = subj /\ delivered' = delivered
        BY <1>3 DEF Route, RouteReject
      <4>. QED  BY <4>1, <4>2
    <3>2. pc'[w] = "done" /\ delivered'[w] = FALSE
      BY <1>2, <1>3 DEF Route, RouteReject, TypeOK
    <3>. QED
      BY <3>1, <3>2, <1>2
      DEF RoutedInv, DeliveredDone, AuthInv, AuthHolds, LimiterOf, HeldPerms
  <2>. QED  BY <2>1, <2>2
<1>4. CASE RouteAccept(w, r)
  <2> DEFINE s == ParseToken(r.token)
             p == store[r.service]
  <2>1. /\ r.service \in Registered /\ r.method \in Methods /\ p \in Policies
        /\ NeedAuth(p, r.method) =>
              /\ s # NoSubject
              /\ Permissions(p, r.method) \subseteq SubjectPerms[s]
    BY <1>4, RouteAccepted DEF RouteAccept, TypeOK
  <2>2. s \in Subjects \cup {NoSubject}
    BY ParseTokenType
  <2>3. /\ req' = [req EXCEPT ![w] = r]
        /\ snap' = [snap EXCEPT ![w] = p]
        /\ subj' = [subj EXCEPT ![w] = s]
        /\ pc' = [pc EXCEPT ![w] =
                    IF SelectRateLimiter(p, r.method)[1] = NoLimiter
                    THEN "forward" ELSE "limit"]
        /\ UNCHANGED <<store, syncPending, admitted, delivered, audited,
                       spent, status>>
    BY <1>4 DEF RouteAccept, Route
  <2>4. SelectRateLimiter(p, r.method)[1] \in Limiters \cup {NoLimiter}
    BY <2>1, SelectRateLimiterType
  <2>5. TypeOK'
    BY <2>1, <2>2, <2>3 DEF TypeOK, Stages
  <2>6. RoutedInv'
    BY <2>1, <2>3, <2>4 DEF RoutedInv, LimiterOf, TypeOK
  <2>7. DeliveredDone'
    BY <1>2, <2>3 DEF DeliveredDone, TypeOK
  <2>8. AuthHolds(w)'
    <3>1. CASE NeedAuth(p, r.method)
      <4>1. s # NoSubject /\ Permissions(p, r.method) \subseteq SubjectPerms[s]
        BY <2>1, <3>1
      <4>. QED  BY <4>1, <2>3 DEF AuthHolds, HeldPerms, TypeOK
    <3>2. CASE ~NeedAuth(p, r.method)
      <4>1. ~NeedAuthentication(p, r.method) /\ Permissions(p, r.method) = {}
        BY <3>2 DEF NeedAuth
      <4>. QED  BY <4>1, <2>3 DEF AuthHolds, TypeOK
    <3>. QED  BY <3>1, <3>2
  <2>9. AuthInv'
    BY <2>3, <2>8 DEF AuthInv, AuthHolds, HeldPerms, TypeOK
  <2>. QED  BY <2>5, <2>6, <2>7, <2>9
<1>. QED  BY <1>1, <1>3, <1>4

\* The routed facts survive a step that keeps requests and descriptions
\* and moves no worker into the limiter or backend stages from outside.
LEMMA FrameRouted ==
    ASSUME RoutedInv, req' = req, snap' = snap,
           \A v \in Workers :
              /\ pc'[v] \in {"limit", "forward"} => pc[v] \in {"limit", "forward"}
              /\ pc'[v] = "limit" => pc[v] = "limit"
    PROVE  RoutedInv'
BY DEF RoutedInv, LimiterOf

\* The same for the authentication facts.
LEMMA FrameAuth ==
    ASSUME AuthInv, req' = req, snap' = snap, subj' = subj,
           \A v \in Workers :
              pc'[v] \in {"limit", "forward"} \/ delivered'[v] =>
                 pc[v] \in {"limit", "forward"} \/ delivered[v]
    PROVE  AuthInv'
BY DEF AuthInv, AuthHolds, HeldPerms

\* The key of a worker at the limiter is a key of the limiter's buckets.
LEMMA KeyOfType ==
    ASSUME TypeOK, RoutedInv, NEW w \in Workers, pc[w] = "limit"
    PROVE  KeyOf(w) \in Keys
<1>1. /\ req[w] \in Requests /\ req[w].service \in Registered
      /\ req[w].method \in Methods /\ snap[w] \in Policies
      /\ LimiterOf(w)[1] \in Limiters
  BY DEF RoutedInv
<1>2. LimiterOf(w)[1].by \in RateLimitBy /\ LimiterOf(w)[2] \in BOOLEAN
  BY <1>1, PolicyAssumption, SelectRateLimiterType DEF LimiterOf, LimiterType
<1>3. Entity(w) \in Entities
  BY <1>1 DEF Entity, Entities, Requests, TypeOK
<1>. QED
  BY <1>1, <1>2, <1>3, GatewayAssumption DEF KeyOf, Keys

\* A worker at the limiter that fails or is refused finishes.
LEMMA LimitStopIInv ==
    ASSUME IInv, NEW w \in Workers, LimitError(w) \/ LimitDeny(w)
    PROVE  IInv'
<1>1. /\ pc' = [pc EXCEPT ![w] = "done"]
      /\ \E code \in {429, 500} : status' = [status EXCEPT ![w] = code]
      /\ \E res \in AuditResults : audited' = [audited EXCEPT ![w] = res]
      /\ UNCHANGED <<store, syncPending, req, snap, subj, admitted, delivered,
                     spent>>
  BY DEF LimitError, LimitDeny, AuditResult, AuditResults
<1>2. TypeOK'
  BY <1>1 DEF IInv, TypeOK, Stages, StatusCodes
<1>3. \A v \in Workers :
        /\ pc'[v] \in {"limit", "forward"} => pc[v] \in {"limit", "forward"}
        /\ pc'[v] = "limit" => pc[v] = "limit"
        /\ pc'[v] \in {"limit", "forward"} \/ delivered'[v] =>
              pc[v] \in {"limit", "forward"} \/ delivered[v]
  BY <1>1 DEF IInv, TypeOK
<1>4. DeliveredDone'
  BY <1>1 DEF IInv, DeliveredDone, TypeOK
<1>. QED  BY <1>1, <1>2, <1>3, <1>4, FrameRouted, FrameAuth DEF IInv

\* A worker the limiter admits goes on to the backend.
LEMMA LimitAllowIInv ==
    ASSUME IInv, NEW w \in Workers, LimitAllow(w)
    PROVE  IInv'
<1>1. KeyOf(w) \in Keys
  BY KeyOfType DEF IInv, LimitAllow
<1>2. TypeOK'
  BY <1>1 DEF IInv, TypeOK, LimitAllow, Stages
<1>3. \A v \in Workers :
        /\ pc'[v] \in {"limit", "forward"} => pc[v] \in {"limit", "forward"}
        /\ pc'[v] = "limit" => pc[v] = "limit"
        /\ pc'[v] \in {"limit", "forward"} \/ delivered'[v] =>
              pc[v] \in {"limit", "forward"} \/ delivered[v]
  BY DEF IInv, TypeOK, LimitAllow
<1>4. DeliveredDone'
  BY DEF IInv, DeliveredDone, TypeOK, LimitAllow
<1>. QED  BY <1>2, <1>3, <1>4, FrameRouted, FrameAuth DEF IInv, LimitAllow

\* A worker at the backend panics, fails or is answered, and finishes.
LEMMA ForwardIInv ==
    ASSUME IInv, NEW w \in Workers,
           ForwardPanic(w) \/ ForwardError(w) \/ ForwardOk(w)
    PROVE  IInv'
<1>1. /\ pc[w] = "forward"
      /\ pc' \in [Workers -> Stages]
      /\ \A v \in Workers \ {w} : pc'[v] = pc[v]
      /\ pc'[w] \in {"done", "crashed"}
      /\ status' \in [Workers -> StatusCodes]
      /\ audited' \in [Workers -> AuditResults]
      /\ delivered' \in [Workers -> BOOLEAN]
      /\ \A v \in Workers \ {w} : delivered'[v] = delivered[v]
      /\ delivered'[w] => pc'[w] = "done"
      /\ UNCHANGED <<store, syncPending, req, snap, subj, admitted, spent>>
  <2>1. CASE ForwardPanic(w)
    BY <2>1 DEF ForwardPanic, AuditResult, AuditResults, IInv, TypeOK, Stages,
                DeliveredDone
  <2>2. CASE ForwardError(w)
    BY <2>2 DEF ForwardError, AuditResult, AuditResults, StatusCodes, IInv,
                TypeOK, Stages
  <2>3. CASE ForwardOk(w)
    BY <2>3 DEF ForwardOk, AuditResult, AuditResults, StatusCodes, IInv,
                TypeOK, Stages
  <2>. QED  BY <2>1, <2>2, <2>3
<1>2. TypeOK'
  BY <1>1 DEF IInv, TypeOK
<1>3. \A v \in Workers :
        /\ pc'[v] \in {"limit", "forward"} => pc[v] \in {"limit", "forward"}
        /\ pc'[v] = "limit" => pc[v] = "limit"
        /\ pc'[v] \in {"limit", "forward"} \/ delivered'[v] =>
              pc[v] \in {"limit", "forward"} \/ delivered[v]
  BY <1>1 DEF IInv, TypeOK
<1>4. DeliveredDone'
  BY <1>1 DEF IInv, DeliveredDone, TypeOK
<1>. QED  BY <1>1, <1>2, <1>3, <1>4, FrameRouted, FrameAuth DEF IInv

\* The limiter backend and the synchronizer touch no worker.
LEMMA EnvironmentIInv ==
    ASSUME IInv,
           \/ \E k \in Keys : Refill(k)
           \/ SyncTick
           \/ \E s \in Registered : SyncStep(s)
    PROVE  IInv'
<1>1. UNCHANGED <<pc, req, snap, subj, admitted, delivered, status, audited>>
  BY DEF Refill, SyncTick, SyncStep
<1>2. TypeOK'
  BY DEF IInv, TypeOK, Refill, SyncTick, SyncStep
<1>. QED  BY <1>1, <1>2 DEF IInv, RoutedInv, DeliveredDone, AuthInv, AuthHolds,
                         HeldPerms, LimiterOf

LEMMA NextIInv == IInv /\ [Next]_vars => IInv'
<1> SUFFICES ASSUME IInv, [Next]_vars PROVE IInv'
  OBVIOUS
<1>1. CASE \E w \in Workers : Route(w)
  BY <1>1, RouteIInv
<1>2. CASE \E w \in Workers : LimitError(w) \/ LimitDeny(w)
  BY <1>2, LimitStopIInv
<1>3. CASE \E w \in Workers : LimitAllow(w)
  BY <1>3, LimitAllowIInv
<1>4. CASE \E w \in Workers : ForwardPanic(w) \/ ForwardError(w) \/ ForwardOk(w)
  BY <1>4, ForwardIInv
<1>5. CASE \/ \E k \in Keys : Refill(k)
           \/ SyncTick
           \/ \E s \in Registered : SyncStep(s)
  BY <1>5, EnvironmentIInv
<1>6. CASE UNCHANGED vars
  BY <1>6 DEF vars, IInv, TypeOK, RoutedInv, DeliveredDone, AuthInv, AuthHolds,
              HeldPerms, LimiterOf
<1>. QED  BY <1>1, <1>2, <1>3, <1>4, <1>5, <1>6 DEF Next

-----------------------------------------------------------------------------
(* The theorems.                                                          *)

\* Every reachable state is well typed: the store holds declared
\* descriptions, every worker's request, description, subject, limiter key,
\* status and audit result is of its kind, and the limiter's buckets count
\* tokens.
THEOREM TypeCorrect == Spec => []TypeOK
<1>1. Spec => []IInv
  BY InitIInv, NextIInv, PTL DEF Spec
<1>. QED  BY <1>1, PTL DEF IInv

\* No request reaches a backend without a subject when its description asks
\* for authentication, or without every permission its description
\* requires, whatever the synchronizer does to the store meanwhile
\* (processor.go:87-105, line 90 included).
THEOREM AuthEnforcedHolds == Spec => []AuthEnforced
<1>1. IInv => AuthEnforced
  BY DEF IInv, AuthInv, AuthHolds, AuthEnforced
<1>2. Spec => []IInv
  BY InitIInv, NextIInv, PTL DEF Spec
<1>. QED  BY <1>1, <1>2, PTL

-----------------------------------------------------------------------------
(* The audit follows the description the request was routed by.          *)

\* An idle worker holds no description and no audit; a routed one has not
\* been audited yet; a finished one was audited exactly when its
\* description asks for it.
AuditInv ==
    \A w \in Workers :
        /\ pc[w] = "idle" => snap[w] = NoPolicy /\ audited[w] = "none"
        /\ pc[w] \in {"limit", "forward"} => audited[w] = "none"
        /\ pc[w] \in {"done", "crashed"} =>
              (audited[w] # "none" <=>
                  snap[w] # NoPolicy /\ NeedAudit(snap[w], req[w].method))

\* A declared description is never the store's miss.
LEMMA PolicyNotMiss ==
    ASSUME NEW p \in Policies
    PROVE  p # NoPolicy
BY PolicyAssumption, GatewayAssumption

\* The deferred audit writes its result exactly when the description asks.
LEMMA AuditResultWritten ==
    ASSUME NEW w, NEW res \in {"ok", "error"}
    PROVE  AuditResult(w, res) # "none" <=> NeedAudit(snap[w], req[w].method)
BY DEF AuditResult

LEMMA InitAuditInv == Init => AuditInv
BY DEF Init, AuditInv

\* Workers other than the one that steps keep their stage, request,
\* description and audit.
LEMMA FrameAudit ==
    ASSUME AuditInv, NEW w, NEW v \in Workers, v # w,
           pc'[v] = pc[v], req'[v] = req[v], snap'[v] = snap[v],
           audited'[v] = audited[v]
    PROVE  /\ pc'[v] = "idle" => snap'[v] = NoPolicy /\ audited'[v] = "none"
           /\ pc'[v] \in {"limit", "forward"} => audited'[v] = "none"
           /\ pc'[v] \in {"done", "crashed"} =>
                 (audited'[v] # "none" <=>
                     snap'[v] # NoPolicy /\ NeedAudit(snap'[v], req'[v].method))
BY DEF AuditInv

LEMMA NextAuditInv == IInv /\ AuditInv /\ [Next]_vars => AuditInv'
<1> SUFFICES ASSUME IInv, AuditInv, [Next]_vars PROVE AuditInv'
  OBVIOUS
<1>1. CASE \E w \in Workers : Route(w)
  <2>1. PICK w \in Workers : Route(w)
    BY <1>1
  <2>2. PICK r \in Requests : RouteReject(w, r) \/ RouteAccept(w, r)
    BY <2>1 DEF Route
  <2>3. pc[w] = "idle" /\ snap[w] = NoPolicy /\ audited[w] = "none"
        /\ audited' = audited
    BY <2>1 DEF Route, AuditInv
  <2>4. CASE RouteReject(w, r)
    \* the worker finishes with the description and audit it had
    <3>1. pc' = [pc EXCEPT ![w] = "done"] /\ snap' = snap /\ req' = [req EXCEPT ![w] = r]
      BY <2>4 DEF RouteReject
    <3>. QED  BY <2>3, <3>1, FrameAudit DEF AuditInv, IInv, TypeOK
  <2>5. CASE RouteAccept(w, r)
    <3>1. /\ snap' = [snap EXCEPT ![w] = store[r.service]]
          /\ req' = [req EXCEPT ![w] = r]
          /\ pc' = [pc EXCEPT ![w] =
                      IF SelectRateLimiter(store[r.service], r.method)[1] = NoLimiter
                      THEN "forward" ELSE "limit"]
      BY <2>5 DEF RouteAccept
    <3>. QED  BY <2>3, <3>1, FrameAudit DEF AuditInv, IInv, TypeOK
  <2>. QED  BY <2>2, <2>4, <2>5
<1>2. CASE \E w \in Workers : LimitError(w) \/ LimitDeny(w)
  <2>1. PICK w \in Workers : LimitError(w) \/ LimitDeny(w)
    BY <1>2
  <2>2. /\ pc[w] = "limit" /\ snap[w] \in Policies
        /\ pc' = [pc EXCEPT ![w] = "done"]
        /\ \E res \in {"ok"} : audited' = [audited EXCEPT ![w] = AuditResult(w, res)]
        /\ UNCHANGED <<req, snap>>
    BY <2>1 DEF LimitError, LimitDeny, IInv, RoutedInv
  <2>3. snap[w] # NoPolicy
    BY <2>2, PolicyNotMiss
  <2>. QED  BY <2>2, <2>3, AuditResultWritten, FrameAudit DEF AuditInv, IInv, TypeOK
<1>3. CASE \E w \in Workers : LimitAllow(w)
  <2>1. PICK w \in Workers : LimitAllow(w)
    BY <1>3
  <2>2. pc[w] = "limit" /\ pc' = [pc EXCEPT ![w] = "forward"]
        /\ UNCHANGED <<req, snap, audited>>
    BY <2>1 DEF LimitAllow
  <2>. QED  BY <2>2, FrameAudit DEF AuditInv, IInv, TypeOK
<1>4. CASE \E w \in Workers : ForwardPanic(w) \/ ForwardError(w) \/ ForwardOk(w)
  <2>1. PICK w \in Workers : ForwardPanic(w) \/ ForwardError(w) \/ ForwardOk(w)
    BY <1>4
  <2>2. /\ pc[w] = "forward" /\ snap[w] \in Policies
        /\ pc'[w] \in {"done", "crashed"} /\ pc' \in [Workers -> Stages]
        /\ \A v \in Workers \ {w} : pc'[v] = pc[v]
        /\ \E res \in {"ok", "error"} :
              audited' = [audited EXCEPT ![w] = AuditResult(w, res)]
        /\ UNCHANGED <<req, snap>>
    <3>1. pc[w] = "forward" /\ snap[w] \in Policies
      BY <2>1 DEF ForwardPanic, ForwardError, ForwardOk, IInv, RoutedInv
    <3>2. CASE ForwardPanic(w)
      BY <3>1, <3>2 DEF ForwardPanic, IInv, TypeOK, Stages
    <3>3. CASE ForwardError(w)
      BY <3>1, <3>3 DEF ForwardError, IInv, TypeOK, Stages
    <3>4. CASE ForwardOk(w)
      BY <3>1, <3>4 DEF ForwardOk, IInv, TypeOK, Stages
    <3>. QED  BY <2>1, <3>2, <3>3, <3>4
  <2>3. snap[w] # NoPolicy
    BY <2>2, PolicyNotMiss
  <2>. QED  BY <2>2, <2>3, AuditResultWritten, FrameAudit DEF AuditInv, IInv, TypeOK
<1>5. CASE \/ \E k \in Keys : Refill(k)
           \/ SyncTick
           \/ \E s \in Registered : SyncStep(s)
  <2>1. UNCHANGED <<pc, req, snap, audited>>
    BY <1>5 DEF Refill, SyncTick, SyncStep
  <2>. QED  BY <2>1 DEF AuditInv
<1>6. CASE UNCHANGED vars
  BY <1>6 DEF vars, AuditInv
<1>. QED  BY <1>1, <1>2, <1>3, <1>4, <1>5, <1>6 DEF Next

\* Whether a finished request was audited is decided by the description it
\* read at processor.go:68, not by the store when the deferred audit runs
\* (processor.go:114-120), whatever the synchronizer does meanwhile.
THEOREM AuditMatchesSnapshotHolds == Spec => []AuditMatchesSnapshot
<1>1. Init => IInv /\ AuditInv
  BY InitIInv, InitAuditInv
<1>2. IInv /\ AuditInv /\ [Next]_vars => (IInv /\ AuditInv)'
  BY NextIInv, NextAuditInv
<1>3. Spec => [](IInv /\ AuditInv)
  BY <1>1, <1>2, PTL DEF Spec
<1>4. AuditInv => AuditMatchesSnapshot
  BY DEF AuditInv, AuditMatchesSnapshot
<1>. QED  BY <1>3, <1>4, PTL

-----------------------------------------------------------------------------
(* Admission by the limiter.                                               *)

\* A worker at the backend, or one that delivered, whose description
\* selects a limiter holds the token of the key built from that
\* description, its request and its subject.
AdmitInv ==
    \A w \in Workers :
        (pc[w] = "forward" \/ delivered[w]) /\ LimiterOf(w)[1] # NoLimiter =>
            admitted[w] = KeyOf(w)

LEMMA InitAdmitInv == Init => AdmitInv
BY DEF Init, AdmitInv

\* The limiter and the key of a worker are functions of its description,
\* request and subject alone, so a step that keeps those, its stage, its
\* delivery and its admission keeps the worker's clause of AdmitInv.
LEMMA FrameAdmit ==
    ASSUME AdmitInv, NEW v \in Workers,
           pc'[v] = pc[v], req'[v] = req[v], snap'[v] = snap[v],
           subj'[v] = subj[v], delivered'[v] = delivered[v],
           admitted'[v] = admitted[v]
    PROVE  (pc'[v] = "forward" \/ delivered'[v]) /\ LimiterOf(v)'[1] # NoLimiter =>
               admitted'[v] = KeyOf(v)'
<1>1. LimiterOf(v)' = LimiterOf(v) /\ KeyOf(v)' = KeyOf(v)
  BY DEF LimiterOf, KeyOf, Entity
<1>. QED  BY <1>1 DEF AdmitInv

LEMMA NextAdmitInv == IInv /\ AdmitInv /\ [Next]_vars => AdmitInv'
<1> SUFFICES ASSUME IInv, AdmitInv, [Next]_vars PROVE AdmitInv'
  OBVIOUS
<1>1. CASE \E w \in Workers : Route(w)
  <2>1. PICK w \in Workers : Route(w)
    BY <1>1
  <2>2. PICK r \in Requests : RouteReject(w, r) \/ RouteAccept(w, r)
    BY <2>1 DEF Route
  <2>3. pc[w] = "idle" /\ ~delivered[w] /\ UNCHANGED <<admitted, delivered>>
    BY <2>1 DEF Route, IInv, DeliveredDone, TypeOK
  \* A rejected request finishes undelivered; an accepted one reaches the
  \* backend at once only when its description selects no limiter.
  <2>4. pc'[w] = "forward" => LimiterOf(w)'[1] = NoLimiter
    <3>1. CASE RouteReject(w, r)
      BY <3>1 DEF RouteReject, IInv, TypeOK
    <3>2. CASE RouteAccept(w, r)
      BY <3>2 DEF RouteAccept, LimiterOf, IInv, TypeOK
    <3>. QED  BY <2>2, <3>1, <3>2
  <2>5. ASSUME NEW v \in Workers, v # w
        PROVE  /\ pc'[v] = pc[v] /\ req'[v] = req[v] /\ snap'[v] = snap[v]
               /\ subj'[v] = subj[v]
    <3>1. CASE RouteReject(w, r)
      BY <3>1, <2>5 DEF RouteReject, IInv, TypeOK
    <3>2. CASE RouteAccept(w, r)
      BY <3>2, <2>5 DEF RouteAccept, IInv, TypeOK
    <3>. QED  BY <2>2, <3>1, <3>2
  <2>. QED  BY <2>3, <2>4, <2>5, FrameAdmit DEF AdmitInv
<1>2. CASE \E w \in Workers : LimitAllow(w)
  \* The worker takes the token of the key it is about to be judged by.
  <2>1. PICK w \in Workers : LimitAllow(w)
    BY <1>2
  <2>2. /\ UNCHANGED <<req, snap, subj, delivered>>
        /\ admitted' = [admitted EXCEPT ![w] = KeyOf(w)]
        /\ pc' = [pc EXCEPT ![w] = "forward"]
    BY <2>1 DEF LimitAllow
  <2>3. KeyOf(w)' = KeyOf(w) /\ LimiterOf(w)' = LimiterOf(w)
    BY <2>2 DEF KeyOf, LimiterOf, Entity
  <2>. QED  BY <2>2, <2>3, FrameAdmit DEF AdmitInv, IInv, TypeOK
<1>3. CASE \E w \in Workers : LimitError(w) \/ LimitDeny(w) \/ ForwardPanic(w)
                              \/ ForwardError(w)
  \* The worker leaves the limiter or the backend without delivering.
  <2>1. PICK w \in Workers : LimitError(w) \/ LimitDeny(w) \/ ForwardPanic(w)
                             \/ ForwardError(w)
    BY <1>3
  <2>2. /\ UNCHANGED <<req, snap, subj, delivered, admitted>>
        /\ pc' = [pc EXCEPT ![w] = IF ForwardPanic(w) THEN "crashed" ELSE "done"]
    BY <2>1 DEF LimitError, LimitDeny, ForwardPanic, ForwardError
  <2>3. ~delivered[w]
    BY <2>1 DEF LimitError, LimitDeny, ForwardPanic, ForwardError, IInv,
               DeliveredDone
  <2>. QED  BY <2>2, <2>3, FrameAdmit DEF AdmitInv, IInv, TypeOK
<1>4. CASE \E w \in Workers : ForwardOk(w)
  \* Delivery happens from the backend stage, where the clause held.
  <2>1. PICK w \in Workers : ForwardOk(w)
    BY <1>4
  <2>2. /\ UNCHANGED <<req, snap, subj, admitted>>
        /\ pc[w] = "forward"
        /\ pc' = [pc EXCEPT ![w] = "done"]
        /\ delivered' = [delivered EXCEPT ![w] = TRUE]
    BY <2>1 DEF ForwardOk
  <2>3. LimiterOf(w)' = LimiterOf(w) /\ KeyOf(w)' = KeyOf(w)
    BY <2>2 DEF LimiterOf, KeyOf, Entity
  <2>. QED  BY <2>2, <2>3, FrameAdmit DEF AdmitInv, IInv, TypeOK
<1>5. CASE \/ \E k \in Keys : Refill(k)
           \/ SyncTick
           \/ \E s \in Registered : SyncStep(s)
  <2>1. UNCHANGED <<pc, req, snap, subj, delivered, admitted>>
    BY <1>5 DEF Refill, SyncTick, SyncStep
  <2>. QED  BY <2>1 DEF AdmitInv, LimiterOf, KeyOf, Entity
<1>6. CASE UNCHANGED vars
  BY <1>6 DEF vars, AdmitInv, LimiterOf, KeyOf, Entity
<1>. QED  BY <1>1, <1>2, <1>3, <1>4, <1>5, <1>6 DEF Next

\* A request whose description selects a limiter reaches the backend only
\* with the token of the key built from that description, even when the
\* synchronizer replaced the description between the store read
\* (processor.go:68) and the limiter call (processor.go:135).
THEOREM RateLimitAdmittedHolds == Spec => []RateLimitAdmitted
<1>1. Init => IInv /\ AdmitInv
  BY InitIInv, InitAdmitInv
<1>2. IInv /\ AdmitInv /\ [Next]_vars => (IInv /\ AdmitInv)'
  BY NextIInv, NextAdmitInv
<1>3. Spec => [](IInv /\ AdmitInv)
  BY <1>1, <1>2, PTL DEF Spec
<1>4. AdmitInv => RateLimitAdmitted
  BY DEF AdmitInv, RateLimitAdmitted
<1>. QED  BY <1>3, <1>4, PTL

-----------------------------------------------------------------------------
(* The synchronizer never forgets a description.                           *)

\* Only a sync step writes the store, and it writes a declared
\* description or nothing.
LEMMA NextKeepsDescriptions ==
    ASSUME TypeOK, [Next]_vars, NEW s \in Services, store[s] # NoPolicy
    PROVE  store'[s] # NoPolicy
<1>1. CASE \E t \in Registered : SyncStep(t)
  <2>1. PICK t \in Registered : SyncStep(t)
    BY <1>1
  <2>2. CASE \E p \in Policies : store' = [store EXCEPT ![t] = p]
    <3>1. PICK p \in Policies : store' = [store EXCEPT ![t] = p]
      BY <2>2
    <3>2. p # NoPolicy
      BY PolicyNotMiss
    <3>. QED  BY <3>1, <3>2 DEF TypeOK
  <2>3. CASE UNCHANGED store
    BY <2>3
  <2>. QED  BY <2>1, <2>2, <2>3 DEF SyncStep
<1>2. CASE ~\E t \in Registered : SyncStep(t)
  <2>1. UNCHANGED store
    BY <1>2 DEF Next, vars, Route, LimitError, LimitDeny, LimitAllow,
               ForwardPanic, ForwardError, ForwardOk, Refill, SyncTick
  <2>. QED  BY <2>1
<1>. QED  BY <1>1, <1>2

\* A backend that fails its Description call at a sync (main.go:138-142)
\* keeps the description the store holds: no step takes a service's
\* description away.
THEOREM SyncKeepsDescriptionsHolds == Spec => SyncKeepsDescriptions
<1>1. TypeOK /\ [Next]_vars =>
        [\A s \in Services : store[s] # NoPolicy => store'[s] # NoPolicy]_vars
  BY NextKeepsDescriptions
<1>. QED  BY <1>1, TypeCorrect, PTL DEF Spec, SyncKeepsDescriptions

=============================================================================
