------------------------------- MODULE Policy -------------------------------
(***************************************************************************)
(* The policy model of the gateway (internal/domain/provider.go): the      *)
(* description a backend declares for itself and for each of its API       *)
(* methods, and the four resolution rules the processor applies to it.     *)
(*                                                                         *)
(* Strings are abstracted to model values: a service or method name is an  *)
(* element of Services or Methods, the empty string is Empty.  A list of   *)
(* required permissions is the set of its elements (slice.Merge            *)
(* deduplicates, and the order only decides which missing permission the   *)
(* 403 message names).  A limiter keeps the fields the gateway reads: the  *)
(* partition attribute and the burst it passes to the limiter backend.     *)
(***************************************************************************)
EXTENDS Naturals, FiniteSets

CONSTANTS
    Services,       \* backend service names
    Methods,        \* API method names
    HTTPMethods,    \* the HTTPMethod enum values a request can carry
    Unspecified,    \* HTTPMethodUnspecified, the zero value of the enum
    Perms,          \* permission names
    Empty,          \* the empty string
    NoMethod,       \* absent entry of DescriptionByMethod
    NoLimiter,      \* nil *RateLimiterDescription
    Limiters,       \* the limiter descriptions backends declare
    Policies        \* the ProviderDescriptions backends declare

ASSUME NameAssumption ==
    /\ Empty \notin Services \cup Methods
    /\ Unspecified \in HTTPMethods

\* RateLimitDescriptionBy: ENUM(ip, subject_id).
RateLimitBy == {"ip", "subject_id"}

LimiterType == [by : RateLimitBy, burst : Nat \ {0}]

MethodPolicyType ==
    [audit : BOOLEAN, limiter : Limiters \cup {NoLimiter}, auth : BOOLEAN,
     perms : SUBSET Perms, allowed : SUBSET (HTTPMethods \ {Unspecified})]

PolicyType ==
    [audit : BOOLEAN, limiter : Limiters \cup {NoLimiter}, auth : BOOLEAN,
     perms : SUBSET Perms, methods : [Methods -> MethodPolicyType \cup {NoMethod}]]

ASSUME PolicyAssumption ==
    /\ Limiters \subseteq LimiterType
    /\ NoLimiter \notin LimiterType
    /\ NoMethod \notin MethodPolicyType
    /\ Policies \subseteq PolicyType

\* NeedAudit: the service flag short-circuits, else the method's own flag.
NeedAudit(p, m) ==
    \/ p.audit
    \/ p.methods[m] # NoMethod /\ p.methods[m].audit

\* SelectRateLimiter: the method's limiter when it has one, else the
\* service's (possibly nil); the second component is isServiceLimiter.
SelectRateLimiter(p, m) ==
    IF p.methods[m] # NoMethod /\ p.methods[m].limiter # NoLimiter
    THEN <<p.methods[m].limiter, FALSE>>
    ELSE <<p.limiter, TRUE>>

\* NeedAuthentication: the service flag short-circuits, else the method's.
NeedAuthentication(p, m) ==
    \/ p.auth
    \/ p.methods[m] # NoMethod /\ p.methods[m].auth

\* Permissions: slice.Merge of the service's and the method's lists.
Permissions(p, m) ==
    IF p.methods[m] # NoMethod
    THEN p.perms \cup p.methods[m].perms
    ELSE p.perms

=============================================================================
