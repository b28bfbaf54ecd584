------------------------------- MODULE Describe -------------------------------
(***************************************************************************)
(* How a description travels from a backend to the gateway's store: the   *)
(* SDK's Description handler turns its handler settings into a             *)
(* DescriptionResponse (pkg/sdk/server.go), and the gateway's synchronizer *)
(* turns the response back into a ProviderDescription                      *)
(* (internal/clients/provider/adapter.go) before it Sets it in the store.  *)
(*                                                                         *)
(* Enumerations are strings: the SDK's and the domain's HTTP methods and   *)
(* limiter partitions share names ("get", "ip"), the protobuf values are   *)
(* the "PB_" names.  Rate and period are left out: they are copied         *)
(* field for field and no rule of the gateway reads them.                  *)
(***************************************************************************)
EXTENDS Naturals, Sequences, SequencesExt

CONSTANTS
    Methods,        \* API method names
    Perms,          \* permission names
    Bursts,         \* burst values a backend declares
    Verbs,          \* SDK HTTPMethod values a backend allows
    MaxList         \* longest permission or HTTP method list

Nil == [nil |-> TRUE]

SDKVerbs == {"unspecified", "get", "put", "post", "delete", "patch"}

ASSUME DescribeAssumption ==
    /\ Verbs \subseteq SDKVerbs
    /\ Bursts \subseteq Nat \ {0}
    /\ MaxList \in Nat

\* sdk.RateLimiterDescription, HandlerSettings and Handler.
Limiters == [by : {"ip", "subject_id"}, burst : Bursts]
Settings ==
    [audit : BOOLEAN, limiter : Limiters \cup {Nil}, auth : BOOLEAN,
     perms : BoundedSeq(Perms, MaxList)]
HandlerSpecs ==
    [audit : BOOLEAN, limiter : Limiters \cup {Nil}, auth : BOOLEAN,
     perms : BoundedSeq(Perms, MaxList), allowed : BoundedSeq(Verbs, MaxList)]

\* The SDK as New leaves it: global settings and the handlers map.
SDKs ==
    [global : Settings,
     handlers : UNION {[D -> HandlerSpecs] : D \in SUBSET Methods}]

VARIABLES
    sdk,        \* the backend's SDK configuration
    proto,      \* the DescriptionResponse on the wire, or Nil
    installed   \* the ProviderDescription the gateway built, or Nil

vars == <<sdk, proto, installed>>

-----------------------------------------------------------------------------
(* SDK side, server.go.                                                     *)

\* httpMethodToProto (lines 159-174).
SDKVerbToProto(v) ==
    CASE v = "get" -> "PB_GET" [] v = "put" -> "PB_PUT"
      [] v = "post" -> "PB_POST" [] v = "delete" -> "PB_DELETE"
      [] v = "patch" -> "PB_PATCH" [] OTHER -> "PB_UNSPECIFIED"

\* rateLimiterToProto (lines 176-195).
LimiterToProto(l) ==
    IF l = Nil THEN Nil
    ELSE [by |-> IF l.by = "ip" THEN "PB_IP" ELSE "PB_SUBJECT_ID",
          burst |-> l.burst]

\* server.Description (lines 30-54): one DescriptionMethod per handler, in
\* the map's iteration order, which Go leaves unspecified.
ToProto(s) ==
    LET H == s.handlers
        Entry(m) ==
            [method |-> m, audit |-> H[m].audit, auth |-> H[m].auth,
             limiter |-> LimiterToProto(H[m].limiter), perms |-> H[m].perms,
             allowed |-> [i \in DOMAIN H[m].allowed |->
                            SDKVerbToProto(H[m].allowed[i])]]
    IN  {[audit |-> s.global.audit, auth |-> s.global.auth,
          limiter |-> LimiterToProto(s.global.limiter),
          perms |-> s.global.perms,
          methods |-> [i \in DOMAIN order |-> Entry(order[i])]] :
            order \in SetToSeqs(DOMAIN H)}

-----------------------------------------------------------------------------
(* Gateway side, adapter.go.                                                *)

\* Mutant: the PATCH case of the switch is missing.
HTTPMethodFromProtoNoPatch(v) ==
    CASE v = "PB_GET" -> "get" [] v = "PB_PUT" -> "put"
      [] v = "PB_POST" -> "post" [] v = "PB_DELETE" -> "delete"
      [] OTHER -> "unspecified"

\* httpMethodFromProto (lines 37-52).
HTTPMethodFromProto(v) ==
    CASE v = "PB_GET" -> "get" [] v = "PB_PUT" -> "put"
      [] v = "PB_POST" -> "post" [] v = "PB_DELETE" -> "delete"
      [] v = "PB_PATCH" -> "patch" [] OTHER -> "unspecified"

\* rateLimiterFromProto and rateLimitByFromProto (lines 100-122): an
\* unknown partition falls back to ip.
LimiterFromProto(l) ==
    IF l = Nil THEN Nil
    ELSE [by |-> IF l.by = "PB_SUBJECT_ID" THEN "subject_id" ELSE "ip",
          burst |-> l.burst]

\* descriptionMethodFromProto (lines 26-35): the allowed methods become a
\* set.
MethodFromProto(e) ==
    [audit |-> e.audit, limiter |-> LimiterFromProto(e.limiter),
     auth |-> e.auth, perms |-> e.perms,
     allowed |-> {HTTPMethodFromProto(e.allowed[i]) : i \in DOMAIN e.allowed}]

\* descriptionFromProto (lines 11-24): a method listed twice keeps its last
\* entry.
DescriptionFromProto(p) ==
    LET L == p.methods
        LastEntry(m) == CHOOSE i \in DOMAIN L :
                      L[i].method = m /\ \A j \in DOMAIN L : L[j].method = m => j <= i
    IN  [audit |-> p.audit, limiter |-> LimiterFromProto(p.limiter),
         auth |-> p.auth, perms |-> p.perms,
         methods |-> [m \in {L[i].method : i \in DOMAIN L} |->
                        MethodFromProto(L[LastEntry(m)])]]

-----------------------------------------------------------------------------
Init ==
    /\ sdk \in SDKs
    /\ proto = Nil
    /\ installed = Nil

\* The synchronizer calls Description and the SDK answers.
Answer ==
    /\ proto = Nil
    /\ proto' \in ToProto(sdk)
    /\ UNCHANGED <<sdk, installed>>

\* client.Description (client.go:57-69) converts the answer; syncFunc
\* stores it (main.go:145).
Install ==
    /\ proto # Nil /\ installed = Nil
    /\ installed' = DescriptionFromProto(proto)
    /\ UNCHANGED <<sdk, proto>>

Next == Answer \/ Install

Spec == Init /\ [][Next]_vars

-----------------------------------------------------------------------------
(* Properties.                                                             *)

\* What the backend declared, as the gateway's rules should see it.
Declared(s) ==
    [audit |-> s.global.audit, limiter |-> s.global.limiter,
     auth |-> s.global.auth, perms |-> s.global.perms,
     methods |-> [m \in DOMAIN s.handlers |->
        [audit |-> s.handlers[m].audit, limiter |-> s.handlers[m].limiter,
         auth |-> s.handlers[m].auth, perms |-> s.handlers[m].perms,
         allowed |-> {s.handlers[m].allowed[i] :
                        i \in DOMAIN s.handlers[m].allowed}]]]

\* The description the gateway installs is the one the backend declared:
\* every flag, limiter, permission list and allowed HTTP method survives
\* the SDK's encoding and the adapter's decoding, in any map order.
DescriptionRoundTrip ==
    installed # Nil => installed = Declared(sdk)

=============================================================================
