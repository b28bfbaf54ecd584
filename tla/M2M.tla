-------------------------------- MODULE M2M ---------------------------------
(***************************************************************************)
(* The machine-to-machine token source (internal/m2m/m2m.go): a cached     *)
(* access token and the goroutine that refreshes it on a timer.            *)
(*                                                                         *)
(* Time is counted in minutes and kept relative, so that the state space   *)
(* is finite without a horizon: tokenLeft is the time until the cached     *)
(* token expires, timerLeft the time until the refresh timer fires.        *)
(* expires_in is reported by the identity provider in seconds; it is a     *)
(* whole number of minutes here (a member of ExpiresIn).                   *)
(*                                                                         *)
(* The call to the identity provider (update, line 80, through             *)
(* auth0.Client.Token on http.DefaultClient) has no timeout and runs under *)
(* the process context, which has no deadline: it is a step of its own     *)
(* (Fire starts it, RefreshOk or RefreshFail ends it), and any number of   *)
(* minutes may pass while it is in flight.                                 *)
(***************************************************************************)
EXTENDS Naturals

CONSTANTS
    ExpiresIn,      \* the token lifetimes the identity provider reports
    Margin          \* the 10 minutes calculateNextUpdate subtracts

ASSUME M2MAssumption ==
    /\ ExpiresIn \subseteq Nat \ {0}
    /\ ExpiresIn # {}
    /\ Margin \in Nat \ {0}

VARIABLES
    tokenLeft,      \* minutes until the cached token expires
    issued,         \* currentToken.ExpiresIn, the lifetime it was issued with
    timerLeft,      \* minutes until the refresh timer fires
    refresher,      \* the goroutine: in its "select", in "update", "returned"
    ctxDone,        \* the process context was cancelled
    callTime        \* minutes the pending issuer call has taken, counted up
                    \* to Margin (a history variable: no code reads it)

vars == <<tokenLeft, issued, timerLeft, refresher, ctxDone, callTime>>

TypeOK ==
    /\ tokenLeft \in Nat
    /\ issued \in ExpiresIn
    /\ timerLeft \in Nat
    /\ refresher \in {"select", "update", "returned"}
    /\ ctxDone \in BOOLEAN
    /\ callTime \in 0..Margin

\* Mutant: the timer is set to the whole lifetime, without the margin.
NextUpdateNoMargin(e) == e

\* calculateNextUpdate: expires_in minus ten minutes; a timer reset to a
\* negative duration fires at once.
CalculateNextUpdate(e) == IF e > Margin THEN e - Margin ELSE 0

\* Create and the first update (lines 29-40, 51-57): construction fails
\* unless the first fetch succeeds, then the goroutine arms its timer.
Init ==
    \E e \in ExpiresIn :
        /\ tokenLeft = e
        /\ issued = e
        /\ timerLeft = CalculateNextUpdate(e)
        /\ refresher = "select"
        /\ ctxDone = FALSE
        /\ callTime = 0

\* A minute passes, also while an issuer call is in flight.  A due timer
\* wakes the goroutine blocked in its select before time moves on: that
\* is local scheduling, not a network exchange.
Tick ==
    /\ ~(refresher = "select" /\ timerLeft = 0)
    /\ tokenLeft' = IF tokenLeft > 0 THEN tokenLeft - 1 ELSE 0
    /\ timerLeft' = IF timerLeft > 0 THEN timerLeft - 1 ELSE 0
    /\ callTime' = IF refresher = "update" /\ callTime < Margin
                      THEN callTime + 1 ELSE callTime
    /\ UNCHANGED <<issued, refresher, ctxDone>>

\* Lines 64-65, 80: the timer fires and update asks the issuer.  The select
\* picks either ready case, so a cancelled context does not prevent it.
Fire ==
    /\ refresher = "select" /\ timerLeft = 0
    /\ refresher' = "update"
    /\ callTime' = 0
    /\ UNCHANGED <<tokenLeft, issued, timerLeft, ctxDone>>

\* Lines 81-86 and 71: the issuer returns a new token, it is stored, and
\* the timer is re-armed from its expires_in.
RefreshOk ==
    /\ refresher = "update"
    /\ \E e \in ExpiresIn :
        /\ tokenLeft' = e
        /\ issued' = e
        /\ timerLeft' = CalculateNextUpdate(e)
    /\ refresher' = "select"
    /\ UNCHANGED <<ctxDone, callTime>>

\* Lines 65-68: the issuer fails (a cancelled context makes the request
\* fail too); the timer is reset to one minute and the goroutine returns.
RefreshFail ==
    /\ refresher = "update"
    /\ timerLeft' = 1
    /\ refresher' = "returned"
    /\ UNCHANGED <<tokenLeft, issued, ctxDone, callTime>>

\* SIGINT or SIGTERM cancels the process context (main.go:41).
Cancel ==
    /\ ~ctxDone
    /\ ctxDone' = TRUE
    /\ UNCHANGED <<tokenLeft, issued, timerLeft, refresher, callTime>>

\* Lines 61-63: the select takes the cancelled context and returns.
Return ==
    /\ refresher = "select" /\ ctxDone
    /\ refresher' = "returned"
    /\ UNCHANGED <<tokenLeft, issued, timerLeft, ctxDone, callTime>>

Next == Tick \/ Fire \/ RefreshOk \/ RefreshFail \/ Cancel \/ Return

\* Time passes; the refresh goroutine is scheduled; the identity provider
\* answers every call, and successfully infinitely often if asked
\* infinitely often.
Fairness ==
    /\ WF_vars(Tick) /\ WF_vars(Fire) /\ WF_vars(Return)
    /\ WF_vars(RefreshOk \/ RefreshFail) /\ SF_vars(RefreshOk)

Spec == Init /\ [][Next]_vars /\ Fairness

-----------------------------------------------------------------------------
(* Properties.                                                             *)

\* The issuer latency the margin absorbs for a token of lifetime e: the
\* margin, or the whole lifetime when that is shorter.
Headroom(e) == IF e < Margin THEN e ELSE Margin

\* Token() hands out an expired token only while an issuer call is in
\* flight, and only once that call has taken the margin (the whole
\* lifetime for a token issued for less): the timer of m2m.go:57 and 71
\* fires Margin minutes before the token of m2m.go:85 expires, however
\* long the earlier calls took.  A stopped refresher is not covered.
MarginCoversIssuerLatency ==
    /\ refresher = "select" => tokenLeft > 0
    /\ refresher = "update" /\ tokenLeft = 0 => callTime >= Headroom(issued)

\* spec.md 4.D: when a refresh fails the task retries after one minute, so
\* until shutdown an expired token is eventually replaced.
ExpiredTokenReplaced ==
    (tokenLeft = 0 /\ ~ctxDone) ~> (tokenLeft > 0 \/ ctxDone)

=============================================================================
