------------------------------ MODULE BootProofs -----------------------------
(***************************************************************************)
(* Proofs about the startup of the gateway (Boot): FromFile accepts a      *)
(* config exactly when it has what spec.md 6 requires, in every reachable  *)
(* state and for every set of configs.                                     *)
(*                                                                         *)
(* The core is a fact about two operators: validating a defaulted config   *)
(* comes down to the fields SetDefaults cannot fill (ValidateAfterDefaults).*)
(* ConfigCheckMatchesSpec is not inductive by itself: a later exit must    *)
(* not be mistaken for the config check's, so the strengthening records   *)
(* that main exits once, and that a config it went on with was accepted.   *)
(***************************************************************************)
EXTENDS Boot, TLAPS

-----------------------------------------------------------------------------
(* The config check.                                                       *)

\* A service's defaults leave a positive timeout, so a defaulted service
\* is valid exactly when its name and address are set.
LEMMA ServiceValidAfterDefaults ==
    ASSUME NEW s \in ConfigServices
    PROVE  ServiceValid(ServiceSetDefaults(s)) <=> s.name # Empty /\ s.address # Empty
BY DEF ServiceValid, ServiceSetDefaults, ConfigServices, DefaultOperationTimeout

\* Config.SetDefaults fills the listen addresses, the Redis address and the
\* sync period, and keeps every other field; it defaults every service in
\* place.
LEMMA SetDefaultsFields ==
    ASSUME NEW c \in ConfigRecords
    PROVE  LET d == SetDefaults(c) IN
           /\ d.publicAddress # Empty /\ d.adminAddress # Empty
           /\ d.redisAddress # Empty /\ d.syncPeriod > 0
           /\ d.auth0Domain = c.auth0Domain /\ d.auth0Audience = c.auth0Audience
           /\ d.auth0ClientID = c.auth0ClientID
           /\ d.auth0ClientSecret = c.auth0ClientSecret
           /\ DOMAIN d.services = DOMAIN c.services
           /\ \A j \in DOMAIN c.services :
                 d.services[j] = ServiceSetDefaults(c.services[j])
BY BootAssumption DEF SetDefaults, ConfigRecords, DefaultSyncPeriod

\* The elements of a config's service list are services.
LEMMA ConfigServicesType ==
    ASSUME NEW c \in ConfigRecords, NEW j \in DOMAIN c.services
    PROVE  c.services[j] \in ConfigServices
<1>1. c.services \in Seq(ConfigServices)
  BY DEF ConfigRecords
<1>. QED  BY <1>1

\* FromFile's SetDefaults then Validate accepts a config exactly when the
\* fields spec.md 6 calls required are set.
LEMMA ValidateAfterDefaults ==
    ASSUME NEW c \in ConfigRecords
    PROVE  Validate(SetDefaults(c)) <=> SpecAccepts(c)
<1> DEFINE d == SetDefaults(c)
<1>1. \A j \in DOMAIN d.services :
         ServiceValid(d.services[j]) <=>
            c.services[j].name # Empty /\ c.services[j].address # Empty
  BY SetDefaultsFields, ConfigServicesType, ServiceValidAfterDefaults
<1>. QED  BY <1>1, SetDefaultsFields DEF Validate, SpecAccepts

-----------------------------------------------------------------------------
(* The inductive invariant.                                                *)

\* main returns once: exit is set exactly when main has returned, and
\* before the config is loaded nothing has been read.
ExitOnce ==
    /\ exit = "none" <=> pc # "exited"
    /\ pc = "load" => raw = Unreadable

\* Past FromFile, main holds a config the spec accepts.
LoadedAccepted ==
    pc \notin {"load", "exited"} => raw \in Configs /\ SpecAccepts(raw)

BInv ==
    /\ TypeOK
    /\ i >= 1
    /\ ExitOnce
    /\ LoadedAccepted
    /\ ConfigCheckMatchesSpec

\* An unreadable file is told apart from every config.
LEMMA UnreadableNotConfig == Unreadable \notin Configs
BY BootAssumption DEF Unreadable, ConfigRecords

LEMMA InitBInv == Init => BInv
<1> SUFFICES ASSUME Init PROVE BInv
  OBVIOUS
<1>1. DOMAIN clients \subseteq Names /\ clients \in [DOMAIN clients -> Nat]
  <2>1. DOMAIN clients = {}
    BY DEF Init
  <2>. QED  BY <2>1 DEF Init
<1>2. TypeOK
  BY <1>1 DEF Init, TypeOK, Phases, Exits
<1>. QED  BY <1>2 DEF Init, BInv, ExitOnce, LoadedAccepted, ConfigCheckMatchesSpec

\* A step after FromFile that keeps the config and either stays in a later
\* phase or returns from main for a reason other than the config keeps
\* everything but the type invariant.
LEMMA LaterStep ==
    ASSUME BInv, pc \notin {"load", "exited"}, raw' = raw,
           \/ pc' \in Phases \ {"load", "exited"} /\ exit' = exit
           \/ pc' = "exited" /\ exit' \in Exits \ {"none", "config"}
    PROVE  ExitOnce' /\ LoadedAccepted' /\ ConfigCheckMatchesSpec'
BY DEF BInv, ExitOnce, LoadedAccepted, ConfigCheckMatchesSpec, Phases, Exits

LEMMA NextBInv == BInv /\ [Next]_vars => BInv'
<1> SUFFICES ASSUME BInv, [Next]_vars PROVE BInv'
  OBVIOUS
<1> USE DEF BInv
<1>1. CASE LoadConfig
  \* The config read is accepted or refused as the spec says.
  <2>1. raw = Unreadable /\ exit = "none"
    BY <1>1 DEF LoadConfig, ExitOnce
  <2>2. UNCHANGED <<i, clients, sources, store, ctxDone>>
    BY <1>1 DEF LoadConfig
  <2>3. CASE \E c \in Configs : raw' = c /\ Validate(SetDefaults(c))
                                /\ pc' = "redis" /\ exit' = exit
    <3>1. PICK c \in Configs : raw' = c /\ Validate(SetDefaults(c))
                               /\ pc' = "redis" /\ exit' = exit
      BY <2>3
    <3>2. SpecAccepts(c)
      BY <3>1, ValidateAfterDefaults, BootAssumption
    <3>3. c # Unreadable
      BY UnreadableNotConfig
    <3>. QED  BY <2>1, <2>2, <3>1, <3>2, <3>3
              DEF TypeOK, Phases, ExitOnce, LoadedAccepted, ConfigCheckMatchesSpec
  <2>4. CASE \E c \in Configs : raw' = c /\ ~Validate(SetDefaults(c))
                                /\ Exit("config")
    <3>1. PICK c \in Configs : raw' = c /\ ~Validate(SetDefaults(c))
                               /\ Exit("config")
      BY <2>4
    <3>2. ~SpecAccepts(c)
      BY <3>1, ValidateAfterDefaults, BootAssumption
    <3>. QED  BY <2>1, <2>2, <3>1, <3>2
              DEF Exit, TypeOK, Phases, Exits, ExitOnce, LoadedAccepted,
                  ConfigCheckMatchesSpec
  <2>5. CASE raw' = Unreadable /\ Exit("config")
    BY <2>1, <2>2, <2>5
    DEF Exit, TypeOK, Phases, Exits, ExitOnce, LoadedAccepted,
        ConfigCheckMatchesSpec
  <2>. QED  BY <1>1, <2>3, <2>4, <2>5 DEF LoadConfig
<1>2. CASE ClientStep
  \* The service visited is valid, so its name is a name.
  <2> DEFINE sv == Services[i]
  <2>1. pc = "clients" /\ raw \in Configs /\ SpecAccepts(raw)
    BY <1>2 DEF ClientStep, LoadedAccepted
  <2>2. raw # Unreadable /\ Services = raw.services
    BY <2>1, UnreadableNotConfig DEF Services
  <2>3. i \in DOMAIN raw.services
    BY <1>2, <2>2 DEF ClientStep, TypeOK
  <2>4. sv \in ConfigServices /\ sv.name # Empty
    BY <2>1, <2>2, <2>3, ConfigServicesType, BootAssumption DEF SpecAccepts
  <2>5. sv.name \in Names
    BY <2>4 DEF ConfigServices
  <2>6. /\ clients' = [n \in DOMAIN clients \cup {sv.name} |->
                         IF n = sv.name THEN i ELSE clients[n]]
        /\ sources' \subseteq sources \cup {i}
        /\ i' = i + 1
        /\ UNCHANGED <<pc, raw, store, ctxDone, exit>>
    BY <1>2 DEF ClientStep
  <2>7. TypeOK'
    BY <2>5, <2>6 DEF TypeOK
  <2>. QED  BY <2>6, <2>7 DEF ExitOnce, LoadedAccepted, ConfigCheckMatchesSpec,
                             TypeOK
<1>3. CASE InitialSync
  <2>1. PICK ok \in SUBSET DOMAIN clients : store' = ok
    BY <1>3 DEF InitialSync
  <2>2. pc = "sync" /\ pc' = "parser"
        /\ UNCHANGED <<raw, i, clients, sources, ctxDone, exit>>
    BY <1>3 DEF InitialSync
  <2>3. TypeOK'
    BY <2>1, <2>2 DEF TypeOK, Phases
  <2>. QED  BY <2>2, <2>3, LaterStep DEF Phases, TypeOK
<1>4. CASE RedisPing \/ M2MCreateFail \/ ClientsDone \/ ParserNew
           \/ ServeFail \/ ServeStop
  \* Phase steps that only move main on or make it return.
  <2>1. /\ pc \notin {"load", "exited"}
        /\ UNCHANGED <<raw, i, clients, sources, store, ctxDone>>
        /\ \/ pc' \in Phases \ {"load", "exited"} /\ exit' = exit
           \/ pc' = "exited" /\ exit' \in Exits \ {"none", "config"}
    BY <1>4 DEF RedisPing, M2MCreateFail, ClientsDone, ParserNew, ServeFail,
                ServeStop, Exit, Phases, Exits
  <2>2. TypeOK'
    BY <2>1 DEF TypeOK, Phases, Exits
  <2>. QED  BY <2>1, <2>2, LaterStep DEF TypeOK
<1>5. CASE Signal
  <2>1. UNCHANGED <<pc, raw, i, clients, sources, store, exit>> /\ ctxDone' = TRUE
    BY <1>5 DEF Signal
  <2>. QED  BY <2>1 DEF TypeOK, ExitOnce, LoadedAccepted, ConfigCheckMatchesSpec
<1>6. CASE UNCHANGED vars
  BY <1>6 DEF vars, TypeOK, ExitOnce, LoadedAccepted, ConfigCheckMatchesSpec
<1>. QED  BY <1>1, <1>2, <1>3, <1>4, <1>5, <1>6 DEF Next, Main

\* Every state main reaches is well typed.
THEOREM BootTypeCorrect == Spec => []TypeOK
<1>1. Spec => []BInv
  BY InitBInv, NextBInv, PTL DEF Spec
<1>. QED  BY <1>1, PTL DEF BInv

\* spec.md 6: config.FromFile (SetDefaults then Validate, config.go:23-26)
\* makes main return with the config error exactly for the configs that
\* lack a required field, whatever else happens during startup.
THEOREM ConfigCheckMatchesSpecHolds == Spec => []ConfigCheckMatchesSpec
<1>1. Spec => []BInv
  BY InitBInv, NextBInv, PTL DEF Spec
<1>. QED  BY <1>1, PTL DEF BInv

=============================================================================
