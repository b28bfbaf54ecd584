---------------------------- MODULE ServicePolicy ----------------------------
(***************************************************************************)
(* What the gateway promises for each request, with the limiter backend,   *)
(* the sync rounds and the split of processor.Process into steps left out: *)
(* a request is either refused, or admitted against the description the   *)
(* store holds at that instant, and only if that description lets the      *)
(* token's subject in; it is later closed, delivered or not, and audited   *)
(* exactly when that same description asks for it, whatever the store     *)
(* holds by then.                                                          *)
(***************************************************************************)
EXTENDS Policy

CONSTANTS
    Registered,     \* the services of the config
    Workers,        \* requests served concurrently
    Subjects,       \* subject ids a valid bearer token can carry
    SubjectPerms,   \* the permissions claim of each subject's token
    BadToken,       \* a token that carries no subject
    IPs,            \* client addresses
    NoPolicy,       \* no description stored
    NoSubject       \* no subject

VARIABLES
    store,          \* service -> description
    phase,          \* each request: "idle", "open" or "closed"
    req,            \* the request
    pol,            \* the description the request was admitted against
    who,            \* the subject it was admitted with
    sent,           \* it reached the backend
    audit           \* the audit written for it

avars == <<store, phase, req, pol, who, sent, audit>>

Requests ==
    [service : Services \cup {Empty}, method : Methods \cup {Empty},
     http : HTTPMethods, token : Subjects \cup {BadToken}, ip : IPs]

NoRequest == [service |-> Empty, method |-> Empty, http |-> Unspecified,
              token |-> BadToken, ip |-> Empty]

\* The subject a token carries.
SubjectOf(t) == IF t \in Subjects THEN t ELSE NoSubject

\* A description lets subject s call method m: authenticated when it asks
\* for it, and holding every permission it lists.
Authorized(p, m, s) ==
    /\ NeedAuthentication(p, m) => s # NoSubject
    /\ s # NoSubject => Permissions(p, m) \subseteq SubjectPerms[s]
    /\ s = NoSubject => Permissions(p, m) = {}

Init ==
    /\ store \in {f \in [Services -> Policies \cup {NoPolicy}] :
                    \A s \in Services \ Registered : f[s] = NoPolicy}
    /\ phase = [w \in Workers |-> "idle"]
    /\ req = [w \in Workers |-> NoRequest]
    /\ pol = [w \in Workers |-> NoPolicy]
    /\ who = [w \in Workers |-> NoSubject]
    /\ sent = [w \in Workers |-> FALSE]
    /\ audit = [w \in Workers |-> "none"]

\* A backend's new description replaces the stored one.
Sync(s, p) ==
    /\ store' = [store EXCEPT ![s] = p]
    /\ UNCHANGED <<phase, req, pol, who, sent, audit>>

\* A request is answered with an error and nothing else happens.
Refuse(w, r) ==
    /\ phase[w] = "idle"
    /\ phase' = [phase EXCEPT ![w] = "closed"]
    /\ req' = [req EXCEPT ![w] = r]
    /\ UNCHANGED <<store, pol, who, sent, audit>>

\* A request for a registered service, a method and an HTTP method its
\* current description declares, from a subject that description lets in.
Admit(w, r) ==
    LET p == store[r.service]
        s == SubjectOf(r.token)
    IN  /\ phase[w] = "idle"
        /\ r.service \in Registered /\ r.method \in Methods
        /\ p # NoPolicy /\ p.methods[r.method] # NoMethod
        /\ r.http \in p.methods[r.method].allowed
        /\ Authorized(p, r.method, s)
        /\ phase' = [phase EXCEPT ![w] = "open"]
        /\ req' = [req EXCEPT ![w] = r]
        /\ pol' = [pol EXCEPT ![w] = p]
        /\ who' = [who EXCEPT ![w] = s]
        /\ UNCHANGED <<store, sent, audit>>

\* An admitted request ends, delivered or not, audited by the description
\* it was admitted against.
Close(w) ==
    /\ phase[w] = "open"
    /\ phase' = [phase EXCEPT ![w] = "closed"]
    /\ \E b \in BOOLEAN : sent' = [sent EXCEPT ![w] = b]
    /\ \E res \in {"ok", "error"} :
          audit' = [audit EXCEPT ![w] =
                      IF NeedAudit(pol[w], req[w].method) THEN res ELSE "none"]
    /\ UNCHANGED <<store, req, pol, who>>

Next ==
    \/ \E s \in Registered, p \in Policies : Sync(s, p)
    \/ \E w \in Workers, r \in Requests : Refuse(w, r) \/ Admit(w, r)
    \/ \E w \in Workers : Close(w)

Spec == Init /\ [][Next]_avars

=============================================================================
