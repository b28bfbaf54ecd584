---------------------------- MODULE RateLimitKey ----------------------------
(***************************************************************************)
(* The limiter's buckets as the external backend sees them: the processor  *)
(* builds a ratelimit.Key (processor.go:122-142), the Redis limiter turns  *)
(* it into a string (limiter.go:17-23) and redis_rate keeps one bucket per *)
(* string (redis.go:23-33).                                                *)
(*                                                                         *)
(* Names are character sequences; "lim_" is one element, since only its   *)
(* being the same in every key matters.  The entity is the client address  *)
(* (X-Forwarded-For taken as sent, or an IPv6 host) or the subject id, so  *)
(* it may hold ":".                                                        *)
(***************************************************************************)
EXTENDS Naturals, Sequences, SequencesExt

CONSTANTS
    Services,       \* service names, as character sequences
    Methods,        \* API method names, as character sequences
    EntityChars,    \* characters an entity may hold
    MaxEntity,      \* longest entity
    Burst           \* the burst of every limiter

Colon == ":"

Entities == BoundedSeq(EntityChars, MaxEntity)

\* ratelimit.Key.
Keys == [service : Services, isService : BOOLEAN, method : Methods,
         entity : Entities]

\* Mutant: the method and the entity are joined without a separator.
KeyStringNoMethodSep(k) ==
    IF k.isService THEN <<"lim_">> \o k.service \o <<Colon>> \o k.entity
    ELSE <<"lim_">> \o k.service \o <<Colon>> \o k.method \o k.entity

\* Key.string (limiter.go:17-23).
KeyString(k) ==
    IF k.isService THEN <<"lim_">> \o k.service \o <<Colon>> \o k.entity
    ELSE <<"lim_">> \o k.service \o <<Colon>> \o k.method \o <<Colon>> \o k.entity

\* The bucket a key is meant to name: a service limiter is shared by every
\* method of the service, a method limiter is the method's own.
Bucket(k) ==
    IF k.isService THEN [service |-> k.service, method |-> <<>>, entity |-> k.entity]
    ELSE [service |-> k.service, method |-> k.method, entity |-> k.entity]

Buckets == {Bucket(k) : k \in Keys}
KeyStrings == {KeyString(k) : k \in Keys}

VARIABLES
    used,       \* tokens taken per key string, in the limiter backend
    taken,      \* tokens taken per bucket the processor meant
    last        \* the last Allow call: its key and its answer

vars == <<used, taken, last>>

NoCall == [none |-> TRUE]

TypeOK ==
    /\ used \in [KeyStrings -> 0..Burst]
    /\ taken \in [Buckets -> 0..Burst]
    /\ last \in [key : Keys, allowed : BOOLEAN] \cup {NoCall}

Init ==
    /\ used = [s \in KeyStrings |-> 0]
    /\ taken = [b \in Buckets |-> 0]
    /\ last = NoCall

\* redisLimiter.Allow (redis.go:23-33) for a request's key: redis_rate
\* takes a token of the string's bucket while it has one left (Burst
\* tokens, none refilled within the run), and refuses otherwise.
Allow(k) ==
    LET s == KeyString(k) IN
    /\ IF used[s] < Burst
       THEN /\ used' = [used EXCEPT ![s] = @ + 1]
            /\ taken' = [taken EXCEPT ![Bucket(k)] = @ + 1]
            /\ last' = [key |-> k, allowed |-> TRUE]
       ELSE /\ last' = [key |-> k, allowed |-> FALSE]
            /\ UNCHANGED <<used, taken>>

Next == \E k \in Keys : Allow(k)

Spec == Init /\ [][Next]_vars

-----------------------------------------------------------------------------
(* Properties.                                                             *)

\* spec.md 3 and 4.E: a bucket is identified by its key, so a request is
\* refused only when the bucket of its own service, method and client or
\* subject is spent, never because of another client's or another
\* method's traffic.
BucketsIsolated ==
    last # NoCall /\ ~last.allowed => taken[Bucket(last.key)] >= Burst

=============================================================================
