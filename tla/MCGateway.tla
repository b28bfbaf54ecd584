----------------------------- MODULE MCGateway ------------------------------
(***************************************************************************)
(* A small instance of Gateway for TLC.  One registered service s1 and an  *)
(* unregistered s2 (a store miss), one API method, GET and POST besides    *)
(* the unspecified method, one permission held by alice and not by bob,    *)
(* and three descriptions a backend may declare, chosen so that a sync can *)
(* flip the audit flag, the limiter level and the authentication rule of   *)
(* m1 under a request in flight.                                           *)
(***************************************************************************)
EXTENDS Gateway, TLC

CONSTANTS s1, s2, m1, hUnspec, hGet, hPost, p1, alice, bob, ip1, w1, w2

MCServices == {s1, s2}
MCRegistered == {s1}
MCMethods == {m1}
MCHTTPMethods == {hUnspec, hGet, hPost}
MCPerms == {p1}
MCSubjects == {alice, bob}
MCSubjectPerms == [s \in MCSubjects |-> IF s = alice THEN {p1} ELSE {}]
MCIPs == {ip1}
MCWorkers == {w1, w2}

\* A method limiter by client address and a service limiter by subject.
LimIP == [by |-> "ip", burst |-> 1]
LimSubject == [by |-> "subject_id", burst |-> 1]
MCLimiters == {LimIP, LimSubject}

\* m1 audited, limited per address, needs p1 without asking for
\* authentication (the forced case of processor.go:90).
PolicyA ==
    [audit |-> FALSE, limiter |-> NoLimiter, auth |-> FALSE, perms |-> {},
     methods |-> [m \in MCMethods |->
        [audit |-> TRUE, limiter |-> LimIP, auth |-> FALSE, perms |-> {p1},
         allowed |-> {hGet}]]]

\* m1 open to anyone, limited per subject at the service level.
PolicyB ==
    [audit |-> FALSE, limiter |-> LimSubject, auth |-> FALSE, perms |-> {},
     methods |-> [m \in MCMethods |->
        [audit |-> FALSE, limiter |-> NoLimiter, auth |-> FALSE, perms |-> {},
         allowed |-> {hGet, hPost}]]]

\* Every method audited and authenticated; m1 withdrawn.
PolicyC ==
    [audit |-> TRUE, limiter |-> NoLimiter, auth |-> TRUE, perms |-> {},
     methods |-> [m \in MCMethods |-> NoMethod]]

MCPolicies == {PolicyA, PolicyB, PolicyC}

MCSymmetry == Permutations(MCWorkers)

=============================================================================
