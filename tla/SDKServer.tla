------------------------------ MODULE SDKServer ------------------------------
(***************************************************************************)
(* The backend SDK (pkg/sdk): the gRPC provider a backend runs for the     *)
(* gateway.  New builds it from its options, RegisterHandler adds API      *)
(* methods until Run starts serving, the server answers Description and    *)
(* Process calls after the M2M check, and cancelling the context stops it  *)
(* gracefully, or forcibly once the close timeout expires.                 *)
(*                                                                         *)
(* Registrars are goroutines calling RegisterHandler; Calls are RPCs the   *)
(* gateway makes.  A handler function may block forever (it is user code  *)
(* and need not watch its context).                                        *)
(***************************************************************************)
EXTENDS FiniteSets

CONSTANTS
    Methods,        \* API method names
    Registrars,     \* goroutines calling RegisterHandler
    RegMethod,      \* the method each registrar registers
    Calls,          \* RPCs from the gateway
    Options,        \* the NewOptions a backend may pass
    Empty           \* the empty string

ASSUME SDKAssumption ==
    /\ RegMethod \in [Registrars -> Methods]
    /\ Empty \notin Methods
    /\ Options \subseteq
         [address : {Empty, "addr"}, domain : {Empty, "dom"},
          audience : {Empty, "aud"}, m2mValidation : BOOLEAN,
          settingsValid : BOOLEAN, handlers : SUBSET Methods]

VARIABLES
    run,            \* SDK.run, the atomic flag Run swaps
    handlers,       \* SDK.handlers, shared with the server by reference
    parser,         \* SDK.tokenParser # nil
    regPc,          \* where each RegisterHandler call is
    runPc,          \* where the Run call is
    server,         \* the grpc.Server: "none", "serving", "graceful", "stopped"
    ctxDone,        \* Run's context is cancelled
    call            \* the state of each RPC

vars == <<run, handlers, parser, regPc, runPc, server, ctxDone, call>>

CallStates ==
    {"none", "unauth", "notfound", "described", "busy", "hung", "ok", "aborted"}

TypeOK ==
    /\ run \in BOOLEAN
    /\ handlers \subseteq Methods
    /\ parser \in BOOLEAN
    /\ regPc \in [Registrars -> {"idle", "checked", "ok", "err"}]
    /\ runPc \in {"idle", "listening", "serving", "failed", "returned"}
    /\ server \in {"none", "serving", "graceful", "stopped"}
    /\ ctxDone \in BOOLEAN
    /\ call \in [Calls -> CallStates]

\* HandlerSettings.validate and Handler.validate (types.go): a limiter has
\* a positive rate, burst and period; a handler has a method and a function.
SettingsValid(o) == o.settingsValid

\* NewOptions.validate (with setDefault filling the address and timeout):
\* an address, domain and audience when M2M validation is asked for, and
\* valid settings.
ValidOptions(o) ==
    /\ o.address # Empty
    /\ o.m2mValidation => o.domain # Empty /\ o.audience # Empty
    /\ SettingsValid(o)

\* New creates a token parser when a domain or an audience is given,
\* whatever M2MValidation says.
ParserConfigured(o) == o.domain # Empty \/ o.audience # Empty

\* New succeeded: the handlers of the options are registered, run is clear.
Init ==
    \E o \in Options :
        /\ ValidOptions(o)
        /\ handlers = o.handlers
        /\ parser = ParserConfigured(o)
        /\ run = FALSE
        /\ regPc = [r \in Registrars |-> "idle"]
        /\ runPc = "idle"
        /\ server = "none"
        /\ ctxDone = FALSE
        /\ call = [c \in Calls |-> "none"]

-----------------------------------------------------------------------------
\* RegisterHandler, line 137: the run flag is read.
RegCheck(r) ==
    /\ regPc[r] = "idle"
    /\ regPc' = [regPc EXCEPT ![r] = IF run THEN "err" ELSE "checked"]
    /\ UNCHANGED <<run, handlers, parser, runPc, server, ctxDone, call>>

\* RegisterHandler, lines 141-151: a method already present is refused,
\* otherwise it is written into the map the server may be reading.
RegWrite(r) ==
    /\ regPc[r] = "checked"
    /\ IF RegMethod[r] \in handlers
       THEN /\ regPc' = [regPc EXCEPT ![r] = "err"]
            /\ UNCHANGED handlers
       ELSE /\ regPc' = [regPc EXCEPT ![r] = "ok"]
            /\ handlers' = handlers \cup {RegMethod[r]}
    /\ UNCHANGED <<run, parser, runPc, server, ctxDone, call>>

\* Run, line 156: the flag is swapped to true.
RunStart ==
    /\ runPc = "idle"
    /\ ~run
    /\ run' = TRUE
    /\ runPc' = "listening"
    /\ UNCHANGED <<handlers, parser, regPc, server, ctxDone, call>>

\* Lines 160-163: net.Listen fails; Run returns the error with run still set.
ListenFail ==
    /\ runPc = "listening"
    /\ runPc' = "failed"
    /\ UNCHANGED <<run, handlers, parser, regPc, server, ctxDone, call>>

\* Lines 165-205: the server is registered over the handlers map, the
\* shutdown goroutine is started and Serve runs.
ListenOk ==
    /\ runPc = "listening"
    /\ runPc' = "serving"
    /\ server' = "serving"
    /\ UNCHANGED <<run, handlers, parser, regPc, ctxDone, call>>

\* server.validateM2M (server.go:87-107) for a call carrying a valid or an
\* invalid x-m2m-token.
ValidateM2M(valid) == ~parser \/ valid

\* An RPC accepted while serving.  Description (server.go:30-54) answers
\* from the handlers map; Process (56-78) looks its method up and runs the
\* handler function.
Accept(c) ==
    /\ server = "serving"
    /\ call[c] = "none"
    /\ \E valid \in BOOLEAN, describe \in BOOLEAN, m \in Methods :
        call' = [call EXCEPT ![c] =
                    IF ~ValidateM2M(valid) THEN "unauth"
                    ELSE IF describe THEN "described"
                    ELSE IF m \notin handlers THEN "notfound"
                    ELSE "busy"]
    /\ UNCHANGED <<run, handlers, parser, regPc, runPc, server, ctxDone>>

\* The handler function returns (lines 68-84), or blocks for good.
HandlerReturn(c) ==
    /\ call[c] = "busy"
    /\ call' = [call EXCEPT ![c] = "ok"]
    /\ UNCHANGED <<run, handlers, parser, regPc, runPc, server, ctxDone>>

HandlerBlock(c) ==
    /\ call[c] = "busy"
    /\ call' = [call EXCEPT ![c] = "hung"]
    /\ UNCHANGED <<run, handlers, parser, regPc, runPc, server, ctxDone>>

\* The backend's context is cancelled (its signal handler).
Cancel ==
    /\ ~ctxDone
    /\ ctxDone' = TRUE
    /\ UNCHANGED <<run, handlers, parser, regPc, runPc, server, call>>

\* Lines 177-188: the shutdown goroutine wakes and starts GracefulStop,
\* which refuses new calls and waits for those in flight.
GracefulStart ==
    /\ ctxDone /\ server = "serving"
    /\ server' = "graceful"
    /\ UNCHANGED <<run, handlers, parser, regPc, runPc, ctxDone, call>>

InFlight == {c \in Calls : call[c] \in {"busy", "hung"}}

\* Lines 192-194: GracefulStop returned, every call has finished.
GracefulDone ==
    /\ server = "graceful" /\ InFlight = {}
    /\ server' = "stopped"
    /\ UNCHANGED <<run, handlers, parser, regPc, runPc, ctxDone, call>>

\* Mutant: the select has no case for the close timeout.
CloseTimeoutMissing == FALSE

\* Lines 195-198: the close timeout expires first; Stop closes every
\* connection and the calls in flight fail at the gateway.
CloseTimeout ==
    /\ server = "graceful"
    /\ server' = "stopped"
    /\ call' = [c \in Calls |-> IF c \in InFlight THEN "aborted" ELSE call[c]]
    /\ UNCHANGED <<run, handlers, parser, regPc, runPc, ctxDone>>

\* Lines 205-213: Serve returns once the server is stopped; so does Run.
RunReturn ==
    /\ runPc = "serving" /\ server = "stopped"
    /\ runPc' = "returned"
    /\ UNCHANGED <<run, handlers, parser, regPc, server, ctxDone, call>>

Next ==
    \/ \E r \in Registrars : RegCheck(r) \/ RegWrite(r)
    \/ RunStart \/ ListenFail \/ ListenOk
    \/ \E c \in Calls : Accept(c) \/ HandlerReturn(c) \/ HandlerBlock(c)
    \/ Cancel \/ GracefulStart \/ GracefulDone \/ CloseTimeout \/ RunReturn

\* The Go scheduler runs the Run goroutine and the shutdown goroutine, and
\* the close timer fires; handler functions get no fairness.
Fairness ==
    /\ WF_vars(ListenFail \/ ListenOk)
    /\ WF_vars(GracefulStart) /\ WF_vars(GracefulDone)
    /\ WF_vars(CloseTimeout) /\ WF_vars(RunReturn)

Spec == Init /\ [][Next]_vars /\ Fairness

-----------------------------------------------------------------------------
(* Properties.                                                             *)

\* Once the context is cancelled, a Run that is serving returns, even when
\* a handler function never does (the close timeout of sdk.go:195-198).
RunReturnsAfterCancel ==
    (ctxDone /\ runPc = "serving") ~> (runPc = "returned")

\* sdk.go:135 "All registrations must be done before Run": the handler map
\* the server reads never changes once the server is up.
NoRegistrationWhileServing ==
    [][server # "none" => handlers' = handlers]_vars

=============================================================================
