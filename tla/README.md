# TLA+ verification of the devpost-auth0 API gateway

This directory holds TLA+ models of the Go gateway in `src/`, along with the
TLC configurations that model-check them and the TLAPS proofs of their main
invariants. `PROJECT.json` lists the following for the tooling:
- the components;
- the runs;
- the mutants;
- the line map from each definition to the Go source;
- the findings;
- the hazards;
- the theorems.

## The system

A request arrives at the HTTP front end (`internal/handlers/gateway/handler.go`).
The front end splits the path into a service, an API method and a remainder,
then calls `processor.Process` (`internal/processor/processor.go:63-185`).
The processor takes these steps in order:

1. It validates the request (400).
2. It reads the service's description from the **description store** (404).
3. It checks the API method (404) and the HTTP method (405).
4. It finds the backend client (404).
5. It resolves the **policy**: authentication and permissions. Permissions
   force authentication (line 90).
6. It parses the bearer token and rejects the request with 401 or 403.
7. It registers a deferred **audit**.
8. It asks the **rate limiter** (Redis GCRA) for a token of the key's bucket
   (500 or 429).
9. It forwards the request through the **backend client**. The client attaches
   the service's **M2M token** to the call.

Two background activities share state with the request goroutines:
- **The description synchronizer** (`cmd/gateway/main.go:133-170`). At startup
  and on every ticker tick, it calls `Description` on every configured backend
  and `Set`s each result that succeeded into the store.
- **The M2M refresher** (`internal/m2m/m2m.go`), one per backend with an M2M
  audience. It keeps an access token in an atomic pointer and renews it ten
  minutes before it expires.

## Modules

| Module | Models | State / actions |
|---|---|---|
| `Policy` | `domain/provider.go` | Descriptions as records; `NeedAudit`, `SelectRateLimiter`, `NeedAuthentication`, `Permissions` (slice.Merge as set union). |
| `Gateway` | `processor.go`, `main.go` sync, `store.go`, `ratelimit/*`, `clients/provider/*` | `store`, `syncPending`; per worker `pc`, `req`, `snap`, `subj`, `admitted`, `delivered`, `status`, `audited`; limiter `spent`. |
| `M2M` | `m2m/m2m.go` | `tokenLeft`, `issued`, `timerLeft` (relative minutes), `refresher` (`select`, `update`, `returned`), `ctxDone`, history `callTime`; `Tick`, `Fire`, `RefreshOk`, `RefreshFail`, `Cancel`, `Return`. |
| `FrontEnd` | `handlers/gateway/handler.go` | `req`, `handed`, `written`; `Receive`, `RejectPath`, `Forward`, `Respond`, `Done`. Paths are character sequences; `SplitN` is `strings.SplitN`. |
| `SDKServer` | `pkg/sdk/sdk.go`, `server.go`, `types.go` | `run`, `handlers`, `parser`, `regPc`, `runPc`, `server`, `ctxDone`, `call`; `RegCheck`/`RegWrite`, `RunStart`, `ListenFail`/`ListenOk`, `Accept`, `HandlerReturn`/`HandlerBlock`, `Cancel`, `GracefulStart`, `GracefulDone`, `CloseTimeout`, `RunReturn`. |
| `Describe` | `pkg/sdk/server.go` Description, `clients/provider/adapter.go` | `sdk`, `proto`, `installed`; `Answer` (SDK encodes), `Install` (gateway decodes). |
| `ServicePolicy` | the per-request contract of `processor.Process` with the synchronizer | `store`, per request `phase`, `req`, `pol`, `who`, `sent`, `audit`; `Sync`, `Refuse`, `Admit`, `Close`. |
| `RateLimitKey` | `ratelimit/limiter.go`, `redis.go`, `getRealIP` | `used` per key string, `taken` per intended bucket, `last`; `Allow(k)`. |
| `Boot` | `cmd/gateway/main.go`, `domain/config.go`, `config/config.go`, `redis/redis.go`, `auth.New`, `utils/server` | `pc`, `raw`, `i`, `clients`, `sources`, `store`, `ctxDone`, `exit`; `LoadConfig`, `RedisPing`, `ClientStep`, `M2MCreateFail`, `ClientsDone`, `InitialSync`, `ParserNew`, `ServeFail`, `ServeStop`, `Signal`. |
| `MCGateway`, `MCM2M`, `MCFrontEnd`, `MCSDKServer`, `MCDescribe`, `MCRateLimitKey`, `MCBoot` | TLC instances | — |
| `GatewayProofs`, `ServicePolicyProofs`, `M2MProofs`, `BootProofs` | TLAPS proofs | — |

### Gateway

Each worker is one request goroutine, and it serves exactly one request. The
model splits `Process` at the three points where the goroutine touches state
that another actor changes.

**`Route(w)`** covers lines 64-123. It does the following in one step:
- it reads the store;
- it runs every local guard, in the code's order, through `RouteStatus`;
- it parses the token;
- it registers the deferred audit.

The Go store's `Get` holds a read lock, and everything else in this step is
local to the goroutine, so modelling it as one step is sound. A failing guard
ends the request with its status (`RouteReject`). Otherwise the worker keeps
two things (`RouteAccept`):
- the description pointer it read, in `snap`;
- the subject, in `subj`.

**`LimitError`, `LimitDeny` and `LimitAllow`** are the three outcomes of
`Allow`. The key is built as `key.string()` tells keys apart: a
service-level key has no method component. The Redis bucket is abstracted as
the number of tokens in use per key, and `Refill` returns one token as time
passes.

**`ForwardPanic`, `ForwardError` and `ForwardOk`** cover the backend call,
including `SetDefaults` and the deferred audit. The call builds the outgoing
request with `subjectInformationToProto`, which dereferences the subject. A
nil subject therefore panics (`ForwardPanic`).

**`SyncTick` and `SyncStep(s)`** model the ticker loop and one iteration of
`syncFunc`:
- a tick that arrives while a round is still running is dropped;
- a failed `Description` keeps the old entry.

`Init` is the state after the initial synchronous sync. The state is only
bounded by the constants: there is one request per worker, and limiter tokens
are capped by `burst`.

### M2M

Time is discrete, in minutes, and relative, so the state space is finite.
The goroutine of `updater` is in its `select`, in `update` (the call to
the identity provider), or `returned`.
- **`Tick`** lets a minute pass. It is held up only by a due timer of a
  goroutine blocked in its `select`: waking a runnable goroutine is local
  scheduling. Time does pass during an issuer call. `update` calls
  `auth0.Client.Token` on `http.DefaultClient`, which has no timeout,
  under the process context, which has no deadline, so the call may take
  any number of minutes.
- **`Fire`** is the timer case of the `select` (lines 64-65), which starts
  the call. The `select` may pick it even after cancellation.
- **`RefreshOk`** stores the new token and re-arms the timer with
  `calculateNextUpdate`, which is `expires_in - 10 min`. A non-positive
  result fires at once.
- **`RefreshFail`** models lines 65-68: the goroutine resets the timer and
  then returns. A cancelled context makes the call fail this way.
- **`Cancel`** is the signal context (`main.go:41`).
- **`Return`** is the `ctx.Done()` case of the `select` (lines 61-63).
- **`callTime`** is a history variable: it counts the minutes of the
  pending call, up to `Margin`. Only the property reads it.

Fairness: weak fairness on `Tick` (time passes) and on the goroutine's
steps (a runnable goroutine runs, and the issuer answers every call), plus
strong fairness on `RefreshOk`. The last one assumes that the identity
provider answers successfully infinitely often if asked infinitely often.
Without it, no retry policy could ever succeed.

`MarginCoversIssuerLatency` says how much issuer latency the margin buys:
- a goroutine in its `select` never holds an expired token;
- an expired token during a call means the call has taken at least
  `Margin` minutes, or the whole lifetime of a token issued for less.

A refresh slower than that does serve an expired token, and the property
allows it. A stopped refresher is not covered: that is `m2m_retry`.

### ServicePolicy: what the gateway promises per request

`ServicePolicy` leaves out the limiter backend, the sync rounds and the
split of `Process` into steps. What remains is the promise itself:
- `Refuse`: a request is answered with an error and nothing else happens.
- `Admit`: a request is admitted atomically against the description the
  store holds at that instant. This requires a registered service, a
  declared method and HTTP method, and `Authorized` (the subject is
  authenticated when asked, and holds every listed permission).
- `Close`: the request ends, delivered or not. It is audited exactly when
  the description it was admitted against (`pol`) asks for it.
- `Sync`: the store may change at any time.

`Gateway` maps onto it (the `SP` instance) as follows:
- `phase <- Phase` (idle, open at `limit`/`forward`, closed when done or
  crashed);
- `pol <- snap`, `who <- subj`, `sent <- delivered`, `audit <- audited`.

`ServicePolicySpec == SP!Spec` is a property of `gateway_safety`.

### RateLimitKey

Names are character sequences so that `Key.string` (`limiter.go:17-23`) is
modelled by what it does: it concatenates `lim_`, the service, `:`, the
method for a method limiter, `:` and the entity. `Allow` is `redis_rate`
keeping one bucket per string. `Bucket(k)` is the bucket the processor
means (a service limiter shared by every method). `taken` counts tokens per
meant bucket, `used` per string, and `BucketsIsolated` says a refusal comes
only from the request's own bucket. Entities are any strings up to a bound:
`getRealIP` takes `X-Forwarded-For` verbatim, and an IPv6 host holds `:`.

### Boot

`LoadConfig` is `FromFile`: `SetDefaults` then `Validate` (both translated
field by field), or an unreadable file; any failure returns from `main`.
`ClientStep` is one iteration of `initClientStore`: `m2m.Create` for a
service with an audience (its first `Token` call runs under the signal
context), then the client is stored under the service's name, so a later
entry with the same name replaces an earlier one. `InitialSync` is the first
`syncFunc` round (the later rounds are `Gateway`'s `SyncStep`). `ServeStop`
is `server.Run` seeing the context done and shutting down. `Signal` can
come at any time. Fairness: weak fairness on the main goroutine's steps
(with the servers' shutdown goroutines); `ServeFail` (a listen error) is
the environment's and gets none, and neither does `Signal`. Deadlock is not
checked: the process ends.

### FrontEnd

A URL path is a sequence over `Chars` and `"/"` that starts with `"/"`.
`Cuts` lists the separator positions (`SetToSortSeq`), `Pieces` cuts between
bounds, and `SplitN(s, n)` keeps at most `n - 1` cuts, so the last piece holds
the rest, separators included, as `strings.SplitN` does. `RejectPath` is
lines 20-24 (fewer than three pieces, 400). `Forward` is lines 26-49: the
pieces become service, API method and remainder, `httpMethodToDomain`
converts the verb, and `readBody` gives the body. `readBody` is modelled by
what it does: net/http never gives a server handler a nil body, so the
inverted test at line 62 always returns nothing. The processor is opaque
here (`Respond` picks a status); `Gateway` models it.

### SDKServer

`RegisterHandler` is split at the two points where it touches shared state:
`RegCheck` reads the `run` flag (line 137) and `RegWrite` checks for a
duplicate and writes the map (lines 141-151). `Run` is `RunStart` (the flag
swap), `ListenFail`/`ListenOk`, and `RunReturn`. Graceful shutdown is the
goroutine at lines 177-198: `GracefulStart` when the context is cancelled,
then either `GracefulDone` (every call finished) or `CloseTimeout` (`Stop`
aborts the calls in flight). An accepted RPC passes `validateM2M` (a parser
exists when New was given a domain or an audience, whatever
`M2MValidation` says, because that field is never read), then `Description`
answers or `Process` looks up its method and runs the handler function,
which may block forever (`HandlerBlock`).

Fairness: weak fairness on the `Run` goroutine, the shutdown goroutine and
the close timer; none on handler functions, which are user code. The run
does not check deadlock: after `Run` returns the process has nothing left
to do, and a failed `Listen` ends it too.

### Describe

The SDK's `Description` turns its handler settings into a
`DescriptionResponse` (`ToProto`, one entry per handler in any map order:
every order of `SetToSeqs`), and the gateway's `descriptionFromProto`
decodes it (`DescriptionFromProto`, a method listed twice keeping its last
entry). Enumerations are strings: the SDK and domain names (`"get"`,
`"ip"`) and the wire names (`"PB_GET"`). Rate and period are left out: both
sides copy them field for field and no gateway rule reads them.
`Declared(s)` is the reference: what the backend declared, as the
gateway's rules should see it.

## Runs

| Run | Result | Shows |
|---|---|---|
| `gateway_safety` (`MCGateway.cfg`) | pass, 40,886 states | `AuthEnforced`, `AuditMatchesSnapshot`, `RateLimitAdmitted` under concurrent re-synchronisation, and the action property `SyncKeepsDescriptions` (no step removes a stored description), and `ServicePolicySpec`: the pipeline implements `ServicePolicy`. |
| `gateway_audit_spec` | violation | 429 and limiter 500 are audited `ok` (spec 4.G says audit only what reached the backend). |
| `gateway_no_panic` | violation | An anonymous request to an open method panics at `adapter.go:95`. |
| `m2m_fresh` (`MCM2M.cfg`) | pass, 2,697 states | `MarginCoversIssuerLatency`: with issuer calls of any duration, the token expires only during a call that has taken the margin (or the lifetime of a shorter token). |
| `sdk_shutdown` (`MCSDKServer.cfg`) | pass, 2,033 states | `RunReturnsAfterCancel`: `Run` returns after the context is cancelled, even when a handler never returns. |
| `sdk_register_race` | violation | `NoRegistrationWhileServing`: a `RegisterHandler` that read `run` false writes the map after `Run` started serving (`sdk.go:137` vs `149`). |
| `frontend_split` (`MCFrontEnd.cfg`) | pass, 377 states | `PathRoundTrip`: service, method and remainder rebuild the URL path. |
| `frontend_body` | violation | `BodyForwarded`: no body reaches the processor (`handler.go:62` returns when the body is *not* nil). |
| `describe_roundtrip` (`MCDescribe.cfg`) | pass, 632,520 states | `DescriptionRoundTrip`: the description installed at the gateway equals the one declared, in every map order. |
| `ratelimit_key_collision` | violation | An anonymous request to method `a` (key `lim_s:a:`) is refused because a client sent `X-Forwarded-For: a:` to a service-limited method (key `lim_s:a:` too). |
| `boot` (`MCBoot.cfg`) | pass, 6,784 states | `ConfigCheckMatchesSpec` (FromFile accepts exactly the configs spec 6 requires) and `ExitsAfterSignal`. |
| `m2m_retry` | violation | After one failed refresh the token is never renewed (`m2m.go:68` returns), against the retry after one minute that spec 4.D and the comment on line 67 describe. |

Bounds for `MCGateway`:
- **Workers:** two, so that one request can overtake another and a sync can
  land between them.
- **Services:** one registered service and one unregistered one, to produce a
  store miss.
- **Methods:** one API method.
- **HTTP methods:** two, plus the unspecified method.
- **Permissions and subjects:** one permission, with one subject holding it and
  one lacking it.
- **Tokens:** a bad token.
- **Descriptions:** three, chosen so that a sync can flip each of the
  following for a request in flight: the audit flag, the limiter level
  (service or method), the limiter partition (IP or subject), the
  authentication rule and the method's existence.
- **Burst:** 1, so that a second request on the same key is refused.

Worker symmetry is sound because workers are interchangeable and no property
names one.

`MCFrontEnd` uses paths of up to five characters over one letter and `/`:
enough for one, two, three and four pieces, empty pieces and a remainder
holding a separator. `MCSDKServer` has two methods (one given to `New`, one
registered late by a goroutine), two RPCs (one may block while the other
is accepted) and four options (M2M checked, no domain, rejected by
`validate`, domain with `M2MValidation` off). `MCDescribe` has two methods,
one permission, a burst, the verbs GET and PATCH and lists of length at
most one; with two handlers the map has two orders. `MCRateLimitKey` has
one service, the methods `a` and `aa` (a method that is a prefix of
another) and entities of up to two characters, burst 1: every pair of keys
whose strings could meet within that length is there. `MCBoot` starts from
2,184 configs: each of the Auth0 domain, public address and sync period set
or not, and up to two services, each with or without a name, an address,
an audience and a timeout; one name, so that two services can share it.

Stated but not run. `FrontEnd!ShapeAccepted` and `Boot!EveryServiceHasClient`
are kept in their modules, and TLC refutes both on these instances:
- `/a/a` is refused. Spec 6's own text agrees with the code; only example 1
  of spec 8 disagrees.
- Two services named `a` collapse into one client. The spec never asks for
  unique names.

Both are recorded as hazards, not findings. `RateLimitKey` has only the
collision run: with entities kept free of `:`, `BucketsIsolated` holds, but
only because the instance leaves out the `:`.

`MCM2M` uses lifetimes of 5, 10, 15 and 60 minutes with the code's
10-minute margin. These cover the cases under, at, just above and well
above the margin. Calls may last any number of minutes; `callTime` stops
counting at the margin, which is all the property tells apart.

Each property of a passing run has a mutant in `PROJECT.json`: a plausible
code bug that TLC catches:
- line 90 dropped (for `AuthEnforced` and for `ServicePolicySpec`);
- the audit re-reading the store;
- the 429 check lost;
- the ten-minute margin dropped;
- the close-timeout case missing from the shutdown select;
- `strings.Split` in place of `SplitN`;
- the PATCH case missing from `httpMethodFromProto`;
- `Key.string` without the `:` between method and entity;
- the services' `SetDefaults` not applied;
- the servers without a shutdown goroutine;
- `syncFunc` storing the result before checking the error.

## Proofs

- **`GatewayProofs`.** `TypeCorrect` (`Spec => []TypeOK`) and
  `AuthEnforcedHolds` (`Spec => []AuthEnforced`) hold for all constants that
  satisfy `NameAssumption`, `PolicyAssumption` and `GatewayAssumption`.
  `AuthEnforced` is not inductive: a delivered request's `snap` and `subj`
  must already have satisfied the checks when they were fixed. The inductive
  invariant `IInv` therefore adds three conjuncts:
  - `RoutedInv`: a worker past `Route` holds a valid registered request and a
    real description, and at `limit` its description selects a limiter;
  - `AuthInv`: the authentication/permission condition holds from `Route` on,
    not only once the request is delivered;
  - `DeliveredDone`: only finished workers are delivered.

  The proof has one lemma per group of actions (`RouteIInv`,
  `LimitStopIInv`, `LimitAllowIInv`, `ForwardIInv`, `EnvironmentIInv`).
  TLC checked `IInv` on the `MCGateway` instance before it was proved.
- **`GatewayProofs`, audit.** `AuditMatchesSnapshotHolds`
  (`Spec => []AuditMatchesSnapshot`) rests on `AuditInv`, proved inductive
  on top of `IInv` (`NextAuditInv`). `AuditInv` says three things:
  - an idle worker holds no description and no audit;
  - a routed worker has not been audited;
  - a finished or crashed worker was audited exactly when its *own* snapshot
    asks for an audit.

  The synchronizer's steps leave all of this alone, because the audit reads
  `snap`, never `store`. `IInv` supplies the fact that a worker past `Route`
  holds a declared description, which is never `NoPolicy` (`PolicyNotMiss`).
- **`GatewayProofs`, admission.** `RateLimitAdmittedHolds`
  (`Spec => []RateLimitAdmitted`) rests on `AdmitInv`, also proved inductive
  on top of `IInv` (`NextAdmitInv`). It states the property not only for
  delivered workers but already for workers at the backend stage: there, a
  worker whose description selects a limiter holds the token of its own key.
  - `LimitAllow` establishes it: the key it records is `KeyOf(w)`.
  - `Route` cannot break it. It sends a worker straight to the backend only
    when the worker's snapshot selects no limiter.
  - `ForwardOk` carries it over to delivery.
  - Nothing else can break it, because `LimiterOf` and `KeyOf` read only the
    worker's own `snap`, `req` and `subj` (`FrameAdmit`).
- **`GatewayProofs`, action property.** `SyncKeepsDescriptionsHolds`
  (`Spec => SyncKeepsDescriptions`) follows from `TypeOK` alone. Only
  `SyncStep` writes the store, and it writes a declared description or
  nothing. TLC checked `AdmitInv` and `AuditInv` on `MCGateway` before they
  were proved.
- **`ServicePolicyProofs`, refinement.** `ImplementsServicePolicy` proves
  `Spec => SP!Spec` for every value of the constants. It follows the
  refinement in three lemmas:
  - `InitRefines`: the initial states map to initial states.
  - `NextRefines`: under `IInv`, each step maps to an abstract step or a
    stutter.
    - `RouteReject` is `Refuse`.
    - `RouteAccept` is `Admit`. `RouteAuthorized` shows that passing every
      guard of lines 87-105, line 90 included, is `Authorized` for the
      description read.
    - Every finishing step (limiter error, 429, backend panic, error or
      answer) is `Close` (`FinishIsClose`). The audit reads `snap`, which
      is the abstract `pol`.
    - A successful `SyncStep` is `Sync`.
    - `LimitAllow`, refills, ticks and failed `Description` calls are
      stutters.
  - `AlwaysIInv`: `IInv` is needed for the types and for `DeliveredDone`.
    The latter shows that a worker that closes without delivering still
    has its flag clear.

  TLC checks the same property on `MCGateway`.
- **`BootProofs`.** `BootTypeCorrect` and `ConfigCheckMatchesSpecHolds` hold
  for every set of configs satisfying `BootAssumption`.
  - The assumption includes one fact that makes `Empty` the empty string: no
    default address of `SetDefaults` is empty.
  - The core is the lemma `ValidateAfterDefaults`: `Validate(SetDefaults(c))`
    holds exactly when `SpecAccepts(c)`. The defaults fill every field the
    spec calls optional with a valid value (`SetDefaultsFields`,
    `ServiceValidAfterDefaults`), and `Validate` checks the rest.

  The invariant is not inductive alone: a later `Exit` must not look like
  the config check's. The strengthening `BInv` therefore adds:
  - `ExitOnce`: `exit` is set exactly when main has returned, and nothing is
    read before `LoadConfig`;
  - `LoadedAccepted`: past `FromFile`, main holds an accepted config. This
    also gives `ClientStep` a non-empty service name for the type
    invariant.

  TLC checked `BInv` on `MCBoot` first.
- **`M2MProofs`.** `MarginCoversIssuerLatencyHolds` holds for every finite
  set of positive lifetimes, every positive margin and issuer calls of
  any duration. The property is not inductive, because it says nothing of
  how far the timer is from the expiry. The strengthening `HeadroomKept`
  tracks the headroom, the margin or a shorter lifetime:
  - in the `select`, the token outlives the timer by exactly the headroom
    of its lifetime;
  - during a call, the token's remaining minutes plus the call's minutes
    equal that headroom, until the token runs out;
  - after that, the call has taken at least the headroom.

  Lemma `NextUpdateAhead` is the arithmetic fact about
  `calculateNextUpdate` behind it. TLC checked the strengthening on
  `MCM2M` first.

Some things are only model-checked:
- **Liveness and `ENABLED`.** TLAPS cannot prove these, so they stay with
  TLC: `ExpiredTokenReplaced`, `ExitsAfterSignal` and
  `RunReturnsAfterCancel`.
- **`PathRoundTrip` and `DescriptionRoundTrip`.** These are facts about
  sequence operators for every input (`SplitN` over `SetToSortSeq`, and
  `ToProto` over every map order). Proving them would need induction over
  data, which the installed provers cannot instantiate. Also, `FrontEnd` and
  `Describe` extend `SequencesExt`, which reaches `RECURSIVE` definitions,
  and that removes the SMT backend in any module that uses them.
- **`BucketsIsolated`.** It is a refuted property, so there is nothing to
  prove.

## Not modelled

- **JWT cryptography.** `ParseToken` is modelled as a map from tokens to
  subjects.
- **Metrics decorators.** They are observational only.
- **The admin handler** (a static metrics endpoint) and the HTTP server
  internals; `grpc.NewClient` in `provider.New`, which does not fail for a
  non-empty address.
- **The SDK's `Process` payload conversions** (headers, query, subject) and
  `New`'s option defaults beyond validity: plain data copies.
- **Key strings in `Gateway`.** There, limiter keys are records. The
  collision through `:` is studied separately, in `RateLimitKey`.

## Plan for later sittings

1. Composing `FrontEnd` with `Gateway`, so a rejected path and the empty
   body reach the processor model.
2. Composing `M2M` with the backend client and the SDK's `validateM2M`. After
   the refresher dies, every `Description` fails and the store is stale
   forever.
3. Proving safety invariants of `SDKServer`, the graceful-shutdown state
   machine. This first needs a check of `RunReturn`'s guard against the
   grpc-go release in use. `Serve` may return as soon as `GracefulStop`
   closes the listener, before the pending RPCs finish. The model waits
   for the server to stop, which is the same for `RunReturnsAfterCancel`,
   but not for an invariant about the order of the two.
