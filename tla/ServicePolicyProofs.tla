------------------------- MODULE ServicePolicyProofs -------------------------
(***************************************************************************)
(* Gateway implements ServicePolicy under the mapping of Gateway.tla: the  *)
(* initial states map to initial states, Route maps to Refuse or Admit,    *)
(* the steps that finish a worker map to Close, a successful sync step to  *)
(* Sync, and every other step (the limiter taking a token, refills, ticks, *)
(* failed Description calls) to a stutter.                                 *)
(*                                                                         *)
(* Only the type invariant part of IInv is needed for the mapping, and     *)
(* DeliveredDone, so that a worker's delivery flag is still clear when it  *)
(* closes without delivering.                                              *)
(***************************************************************************)
EXTENDS GatewayProofs

LEMMA AlwaysIInv == Spec => []IInv
BY InitIInv, NextIInv, PTL DEF Spec

\* Every guard of Route passing means the description read lets the
\* token's subject in (lines 87-105, the forcing of line 90 included).
LEMMA RouteAuthorized ==
    ASSUME TypeOK, NEW r \in Requests, RouteStatus(r, ParseToken(r.token)) = 0
    PROVE  LET p == store[r.service] IN
           /\ r.service \in Registered /\ r.method \in Methods
           /\ p # NoPolicy /\ p.methods[r.method] # NoMethod
           /\ r.http \in p.methods[r.method].allowed
           /\ SP!Authorized(p, r.method, ParseToken(r.token))
<1> DEFINE p == store[r.service]
           s == ParseToken(r.token)
<1>1. r.service \in Registered /\ r.method \in Methods /\ p \in Policies
      /\ (NeedAuth(p, r.method) =>
            s # NoSubject /\ Permissions(p, r.method) \subseteq SubjectPerms[s])
  BY RouteAccepted
<1>2. p # NoPolicy /\ p.methods[r.method] # NoMethod
      /\ r.http \in p.methods[r.method].allowed
  BY DEF RouteStatus
<1>3. SP!Authorized(p, r.method, s)
  <2>1. NeedAuthentication(p, r.method) => s # NoSubject
    BY <1>1 DEF NeedAuth
  <2>2. s # NoSubject => Permissions(p, r.method) \subseteq SubjectPerms[s]
    BY <1>1 DEF NeedAuth
  <2>3. s = NoSubject => Permissions(p, r.method) = {}
    BY <1>1 DEF NeedAuth
  <2>. QED  BY <2>1, <2>2, <2>3
            DEF SP!Authorized, SP!NeedAuthentication, NeedAuthentication,
                SP!Permissions, Permissions
<1>. QED  BY <1>1, <1>2, <1>3

LEMMA InitRefines == Init => SP!Init
BY DEF Init, SP!Init, Phase, SP!NoRequest, NoRequest

\* A step that keeps every worker's stage keeps the abstract phases.
LEMMA PhaseFrame ==
    ASSUME pc' = pc
    PROVE  Phase' = Phase
BY DEF Phase

\* A worker finishing from the limiter or the backend closes its request.
LEMMA FinishIsClose ==
    ASSUME IInv, NEW w \in Workers, pc[w] \in {"limit", "forward"},
           pc' = [pc EXCEPT ![w] = IF pc[w] = "forward" THEN "crashed" ELSE "done"]
             \/ pc' = [pc EXCEPT ![w] = "done"],
           UNCHANGED <<store, req, snap, subj>>,
           delivered' = delivered \/ delivered' = [delivered EXCEPT ![w] = TRUE],
           \E res \in {"ok", "error"} :
               audited' = [audited EXCEPT ![w] = AuditResult(w, res)]
    PROVE  SP!Close(w)
<1>1. Phase[w] = "open" /\ Phase' = [Phase EXCEPT ![w] = "closed"]
  BY DEF Phase, IInv, TypeOK, Stages
<1>2. \E b \in BOOLEAN : delivered' = [delivered EXCEPT ![w] = b]
  <2>1. CASE delivered' = delivered
    <3>1. delivered[w] \in BOOLEAN /\ delivered = [delivered EXCEPT ![w] = delivered[w]]
      BY DEF IInv, TypeOK
    <3>. QED  BY <2>1, <3>1
  <2>2. CASE delivered' = [delivered EXCEPT ![w] = TRUE]
    BY <2>2
  <2>. QED  BY <2>1, <2>2
<1>3. \E res \in {"ok", "error"} :
        audited' = [audited EXCEPT ![w] =
                      IF NeedAudit(snap[w], req[w].method) THEN res ELSE "none"]
  BY DEF AuditResult
<1>4. SP!NeedAudit(snap[w], req[w].method) = NeedAudit(snap[w], req[w].method)
  BY DEF SP!NeedAudit, NeedAudit
<1>. QED  BY <1>1, <1>2, <1>3, <1>4 DEF SP!Close

LEMMA NextRefines == IInv /\ [Next]_vars => [SP!Next]_SP!avars
<1> SUFFICES ASSUME IInv, [Next]_vars PROVE [SP!Next]_SP!avars
  OBVIOUS
<1>1. CASE \E w \in Workers : Route(w)
  <2>1. PICK w \in Workers : Route(w)
    BY <1>1
  <2>2. PICK r \in Requests : RouteReject(w, r) \/ RouteAccept(w, r)
    BY <2>1 DEF Route
  <2>3. pc[w] = "idle" /\ Phase[w] = "idle"
        /\ UNCHANGED <<store, delivered, audited>>
    BY <2>1 DEF Route, Phase, IInv, TypeOK
  <2>4. CASE RouteReject(w, r)
    \* Refuse: the worker finishes with its description and subject.
    <3>1. /\ pc' = [pc EXCEPT ![w] = "done"] /\ req' = [req EXCEPT ![w] = r]
          /\ UNCHANGED <<snap, subj>>
      BY <2>4 DEF RouteReject
    <3>2. Phase' = [Phase EXCEPT ![w] = "closed"]
      BY <3>1 DEF Phase, IInv, TypeOK
    <3>3. SP!Refuse(w, r)
      BY <2>3, <3>1, <3>2 DEF SP!Refuse
    <3>. QED  BY <3>3 DEF SP!Next, SP!Requests, Requests
  <2>5. CASE RouteAccept(w, r)
    \* Admit: against the description read, with the token's subject.
    <3>1. RouteStatus(r, ParseToken(r.token)) = 0
      BY <2>5 DEF RouteAccept
    <3>2. /\ req' = [req EXCEPT ![w] = r]
          /\ snap' = [snap EXCEPT ![w] = store[r.service]]
          /\ subj' = [subj EXCEPT ![w] = ParseToken(r.token)]
          /\ pc'[w] \in {"limit", "forward"}
          /\ \A v \in Workers \ {w} : pc'[v] = pc[v]
          /\ pc' \in [Workers -> Stages]
      BY <2>5 DEF RouteAccept, IInv, TypeOK, Stages
    <3>3. Phase' = [Phase EXCEPT ![w] = "open"]
      BY <3>2 DEF Phase, IInv, TypeOK
    <3>4. ParseToken(r.token) = SP!SubjectOf(r.token)
      BY DEF ParseToken, SP!SubjectOf
    <3>5. SP!Admit(w, r)
      BY <2>3, <3>1, <3>2, <3>3, <3>4, RouteAuthorized DEF SP!Admit, IInv
    <3>. QED  BY <3>5 DEF SP!Next, SP!Requests, Requests
  <2>. QED  BY <2>2, <2>4, <2>5
<1>2. CASE \E w \in Workers : LimitError(w) \/ LimitDeny(w)
  <2>1. PICK w \in Workers : LimitError(w) \/ LimitDeny(w)
    BY <1>2
  <2>2. SP!Close(w)
    BY <2>1, FinishIsClose DEF LimitError, LimitDeny
  <2>. QED  BY <2>2 DEF SP!Next
<1>3. CASE \E w \in Workers : ForwardPanic(w) \/ ForwardError(w) \/ ForwardOk(w)
  <2>1. PICK w \in Workers : ForwardPanic(w) \/ ForwardError(w) \/ ForwardOk(w)
    BY <1>3
  <2>2. SP!Close(w)
    <3>1. CASE ForwardPanic(w)
      BY <3>1, FinishIsClose DEF ForwardPanic
    <3>2. CASE ForwardError(w)
      BY <3>2, FinishIsClose DEF ForwardError
    <3>3. CASE ForwardOk(w)
      BY <3>3, FinishIsClose DEF ForwardOk
    <3>. QED  BY <2>1, <3>1, <3>2, <3>3
  <2>. QED  BY <2>2 DEF SP!Next
<1>4. CASE \E w \in Workers : LimitAllow(w)
  \* Taking a token keeps the request open: a stutter.
  <2>1. PICK w \in Workers : LimitAllow(w)
    BY <1>4
  <2>2. Phase' = Phase
    BY <2>1 DEF LimitAllow, Phase, IInv, TypeOK
  <2>. QED  BY <2>1, <2>2 DEF LimitAllow, SP!avars
<1>5. CASE (\E k \in Keys : Refill(k)) \/ SyncTick
  <2>1. UNCHANGED <<store, pc, req, snap, subj, delivered, audited>>
    BY <1>5 DEF Refill, SyncTick
  <2>. QED  BY <2>1, PhaseFrame DEF SP!avars
<1>6. CASE \E s \in Registered : SyncStep(s)
  <2>1. PICK s \in Registered : SyncStep(s)
    BY <1>6
  <2>2. UNCHANGED <<pc, req, snap, subj, delivered, audited>>
    BY <2>1 DEF SyncStep
  <2>3. CASE \E p \in Policies : store' = [store EXCEPT ![s] = p]
    \* A successful Description call: Sync.
    <3>1. PICK p \in Policies : store' = [store EXCEPT ![s] = p]
      BY <2>3
    <3>2. SP!Sync(s, p)
      BY <2>2, <3>1, PhaseFrame DEF SP!Sync
    <3>. QED  BY <3>2 DEF SP!Next
  <2>4. CASE UNCHANGED store
    \* A failed one keeps the store: a stutter.
    BY <2>2, <2>4, PhaseFrame DEF SP!avars
  <2>. QED  BY <2>1, <2>3, <2>4 DEF SyncStep
<1>7. CASE UNCHANGED vars
  BY <1>7, PhaseFrame DEF vars, SP!avars
<1>. QED  BY <1>1, <1>2, <1>3, <1>4, <1>5, <1>6, <1>7 DEF Next

\* The gateway's pipeline, run concurrently with the synchronizer,
\* implements the per-request promise of ServicePolicy: every request is
\* refused, or admitted against the description the store held at its
\* read (processor.go:68) and only if that description lets its subject
\* in, and closed with the audit that description asks for.
THEOREM ImplementsServicePolicy == Spec => SP!Spec
<1>1. Spec => []IInv
  BY AlwaysIInv
<1>. QED  BY <1>1, InitRefines, NextRefines, PTL DEF Spec, SP!Spec

=============================================================================
