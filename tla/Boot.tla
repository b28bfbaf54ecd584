-------------------------------- MODULE Boot --------------------------------
(***************************************************************************)
(* How the gateway process starts and stops (cmd/gateway/main.go): the     *)
(* config is read, defaulted and validated (internal/config,               *)
(* internal/domain/config.go), Redis is pinged, one backend client is      *)
(* built per configured service, with an M2M token source when the         *)
(* service has an audience (initClientStore), the description store gets   *)
(* its first sync, the token parser is built, and the public and admin     *)
(* servers run until a signal or a server error.  Every early return of    *)
(* main ends the process.                                                  *)
(*                                                                         *)
(* Strings are Empty or a model value; durations are whole seconds, and a  *)
(* duration that is not set reads 0.                                       *)
(***************************************************************************)
EXTENDS Integers, Sequences

CONSTANTS
    Configs,        \* the config files the process may be started with
    Names,          \* service names
    Empty           \* the empty string

\* The defaults of config.go:13-14 (one minute).
DefaultSyncPeriod == 60
DefaultOperationTimeout == 60

ConfigServices ==
    [name : Names \cup {Empty}, address : {Empty, "addr"},
     m2mAudience : {Empty, "aud"}, timeout : Int]

\* domain.Config, the fields main reads.
ConfigRecords ==
    [publicAddress : STRING, adminAddress : STRING, auth0Domain : STRING,
     auth0Audience : STRING, auth0ClientID : STRING,
     auth0ClientSecret : STRING, redisAddress : STRING, syncPeriod : Int,
     services : Seq(ConfigServices)]

\* Empty stands for "", which none of the default addresses set by
\* Config.SetDefaults (domain/config.go:9-15, 53-55) is.
ASSUME BootAssumption ==
    /\ Empty \notin Names
    /\ Empty \notin {":7070", ":7071", "localhost:6379"}
    /\ Configs \subseteq ConfigRecords

\* The config file cannot be read or parsed (config.go:13-21).
Unreadable == [unreadable |-> TRUE]

VARIABLES
    pc,         \* where main is
    raw,        \* the config as read from the file, or Unreadable
    i,          \* the next service initClientStore visits
    clients,    \* the client store: service name -> index of its service
    sources,    \* services whose M2M refresher goroutine was started
    store,      \* the names the first sync stored a description for
    ctxDone,    \* the signal context is cancelled (main.go:41)
    exit        \* why main returned ("none" while it runs)

vars == <<pc, raw, i, clients, sources, store, ctxDone, exit>>

Phases == {"load", "redis", "clients", "sync", "parser", "serving", "exited"}
Exits == {"none", "config", "redis", "m2m", "parser", "serve", "signal"}

TypeOK ==
    /\ pc \in Phases
    /\ raw \in Configs \cup {Unreadable}
    /\ i \in Nat
    /\ DOMAIN clients \subseteq Names /\ clients \in [DOMAIN clients -> Nat]
    /\ sources \subseteq Nat
    /\ store \subseteq Names
    /\ ctxDone \in BOOLEAN
    /\ exit \in Exits

-----------------------------------------------------------------------------
(* The config, domain/config.go.                                           *)

\* Mutant: the services' defaults are never applied.
ServiceDefaultsMissing(s) == s

\* ConfigService.SetDefaults (lines 110-115).
ServiceSetDefaults(s) ==
    [s EXCEPT !.timeout = IF s.timeout <= 0 THEN DefaultOperationTimeout ELSE @]

\* Config.SetDefaults (lines 39-60): listen and Redis addresses, the sync
\* period, and every service.
SetDefaults(c) ==
    [c EXCEPT !.publicAddress = IF @ = Empty THEN ":7070" ELSE @,
              !.adminAddress = IF @ = Empty THEN ":7071" ELSE @,
              !.syncPeriod = IF @ <= 0 THEN DefaultSyncPeriod ELSE @,
              !.redisAddress = IF @ = Empty THEN "localhost:6379" ELSE @,
              !.services = [j \in DOMAIN @ |-> ServiceSetDefaults(@[j])]]

\* ConfigService.Validate (lines 117-132).
ServiceValid(s) == s.name # Empty /\ s.address # Empty /\ s.timeout > 0

\* Config.Validate (lines 62-108); which field fails only changes the
\* message.
Validate(c) ==
    /\ c.publicAddress # Empty /\ c.adminAddress # Empty
    /\ c.auth0Domain # Empty /\ c.auth0Audience # Empty
    /\ c.auth0ClientID # Empty /\ c.auth0ClientSecret # Empty
    /\ c.syncPeriod > 0 /\ c.redisAddress # Empty
    /\ \A j \in DOMAIN c.services : ServiceValid(c.services[j])

Services == IF raw = Unreadable THEN <<>> ELSE raw.services

-----------------------------------------------------------------------------
Init ==
    /\ pc = "load"
    /\ raw = Unreadable
    /\ i = 1
    /\ clients = <<>>
    /\ sources = {}
    /\ store = {}
    /\ ctxDone = FALSE
    /\ exit = "none"

Exit(why) == pc' = "exited" /\ exit' = why

\* config.FromFile (config.go:12-29, main.go:44-48): the file is read and
\* parsed, defaulted and validated, or main returns.
LoadConfig ==
    /\ pc = "load"
    /\ \/ /\ \E c \in Configs :
               /\ raw' = c
               /\ IF Validate(SetDefaults(c))
                  THEN pc' = "redis" /\ UNCHANGED exit
                  ELSE Exit("config")
       \/ raw' = Unreadable /\ Exit("config")
    /\ UNCHANGED <<i, clients, sources, store, ctxDone>>

\* redis.New (redis/redis.go:12-27, main.go:50-54): the ping succeeds, or
\* fails (always once the context is cancelled) and main returns.
RedisPing ==
    /\ pc = "redis"
    /\ \/ ~ctxDone /\ pc' = "clients" /\ UNCHANGED exit
       \/ Exit("redis")
    /\ UNCHANGED <<raw, i, clients, sources, store, ctxDone>>

\* One iteration of initClientStore (main.go:106-128): for a service with
\* an audience m2m.Create fetches the first token (auth0 Client.Token, a
\* POST under the signal context) and starts its refresher; then the
\* client is put in the map under the service's name.
ClientStep ==
    /\ pc = "clients" /\ i <= Len(Services)
    /\ LET s == Services[i] IN
       /\ s.m2mAudience # Empty => ~ctxDone
       /\ sources' = IF s.m2mAudience # Empty THEN sources \cup {i} ELSE sources
       /\ clients' = [n \in DOMAIN clients \cup {s.name} |->
                        IF n = s.name THEN i ELSE clients[n]]
       /\ i' = i + 1
    /\ UNCHANGED <<pc, raw, store, ctxDone, exit>>

\* Lines 108-112: the first token cannot be had (Auth0 down, a refused
\* status, a body that does not parse, or the context cancelled).
M2MCreateFail ==
    /\ pc = "clients" /\ i <= Len(Services)
    /\ Services[i].m2mAudience # Empty
    /\ Exit("m2m")
    /\ UNCHANGED <<raw, i, clients, sources, store, ctxDone>>

\* Line 130: every service visited, the client store is built.
ClientsDone ==
    /\ pc = "clients" /\ i > Len(Services)
    /\ pc' = "sync"
    /\ UNCHANGED <<raw, i, clients, sources, store, ctxDone, exit>>

\* descriptionStoreSync (main.go:133-170, line 151): the first round sets
\* the descriptions whose Description call succeeded (none once the
\* context is cancelled), and the ticker goroutine starts.
InitialSync ==
    /\ pc = "sync"
    /\ \E ok \in SUBSET DOMAIN clients :
          /\ ctxDone => ok = {}
          /\ store' = ok
    /\ pc' = "parser"
    /\ UNCHANGED <<raw, i, clients, sources, ctxDone, exit>>

\* auth.New (auth/auth.go:37-66, main.go:71-75): the issuer URL parses and
\* the validator is built, or main returns.
ParserNew ==
    /\ pc = "parser"
    /\ \/ pc' = "serving" /\ UNCHANGED exit
       \/ Exit("parser")
    /\ UNCHANGED <<raw, i, clients, sources, store, ctxDone>>

\* Lines 90-100 with server.Run (utils/server/server.go:48-53): a server
\* cannot listen; the errgroup cancels the other and Wait returns.
ServeFail ==
    /\ pc = "serving"
    /\ Exit("serve")
    /\ UNCHANGED <<raw, i, clients, sources, store, ctxDone>>

\* SIGINT or SIGTERM.
Signal ==
    /\ ~ctxDone
    /\ ctxDone' = TRUE
    /\ UNCHANGED <<pc, raw, i, clients, sources, store, exit>>

\* Mutant: the servers have no shutdown goroutine.
ServeStopMissing == FALSE

\* server.Run (server.go:33-56) for both servers: the context is done, the
\* shutdown goroutine calls Shutdown, ListenAndServe returns
\* ErrServerClosed, Run returns nil and so does Wait.
ServeStop ==
    /\ pc = "serving" /\ ctxDone
    /\ Exit("signal")
    /\ UNCHANGED <<raw, i, clients, sources, store, ctxDone>>

\* The steps of the main goroutine; ServeFail is the environment's (a
\* port in use), and may never happen.
Main ==
    \/ LoadConfig \/ RedisPing \/ ClientStep \/ M2MCreateFail \/ ClientsDone
    \/ InitialSync \/ ParserNew \/ ServeStop

Next == Main \/ ServeFail \/ Signal

\* The main goroutine and the servers' shutdown goroutines run whenever
\* they can; a signal may never come.
Spec == Init /\ [][Next]_vars /\ WF_vars(Main)

-----------------------------------------------------------------------------
(* Properties.                                                             *)

\* spec.md 6: the identity provider's domain, audience, client id and
\* secret, and each backend's name and address, are required; the sync
\* period and each backend's timeout default to one minute.  A config
\* passes FromFile exactly when it has what the spec requires.
SpecAccepts(c) ==
    /\ c.auth0Domain # Empty /\ c.auth0Audience # Empty
    /\ c.auth0ClientID # Empty /\ c.auth0ClientSecret # Empty
    /\ \A j \in DOMAIN c.services :
         c.services[j].name # Empty /\ c.services[j].address # Empty

ConfigCheckMatchesSpec ==
    raw # Unreadable => (exit = "config" <=> ~SpecAccepts(raw))

\* A signal ends the process whatever phase of startup it hits: the Redis
\* ping, the first M2M tokens and the first sync run under the signal
\* context, and the servers shut down when it is done.
ExitsAfterSignal ==
    ctxDone ~> pc = "exited"

\* spec.md 4.I and 6: every backend of the config gets its client; a
\* request for a configured service reaches that service's address.
EveryServiceHasClient ==
    pc \in {"sync", "parser", "serving"} =>
        \A j \in DOMAIN Services : clients[Services[j].name] = j

=============================================================================
