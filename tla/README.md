# Verification of go-svc

TLA+ specifications of [go-svc](../src/README.md), a Go library of building
blocks for HTTP services, with the TLC configurations that model-check them and
TLAPS proofs of their safety properties. Every module is translated from the
code; paths below are relative to the repository.

    tlc -config MCHost_rerun.cfg Host        # one of the runs listed below
    tlapm HostProofs.tla                     # one of the proof modules

## 1. The system and its inventory

A program that uses the library hands a service to `service.Start`. It is
wrapped in a `Host`, which runs it in a goroutine, waits for it, for an OS
signal, a `Shutdown` or a done context, and turns its error into the exit code.
The service is usually a `server.Server`, whose handler is what
`stdrouter.Build` makes of a `router.Builder`; handlers use `identity` for
sign-in and tokens, `data/page` and `data/jsoner` for their data. A service
with several parts runs them with `lifecycle.RunParallel`.

| Component | State it keeps | Operations | Interacts through | Hard about it |
|---|---|---|---|---|
| `service.Host` (`service/host.go`) | fields `shutdownCh`, `shutdownOnce`; per call of `Run` a context, two channels, two goroutines, a signal registration | `Prepare`, `Run`, `Shutdown` | three selects over four channels, a `WaitGroup`, `sync.Once`, `signal.Notify` | unlocked fields, order of Notify and Stop, the termination timer, re-running a Host |
| `service.Start` … `ExitOnError` (`service/service.go`) | none but the process | `Start`, `StartInstance`, `ExitOnError` | calls `Host` | which error becomes which exit code |
| `lifecycle.RunParallel` (`lifecycle/run_parallel.go`) | goroutines, an unbuffered channel, a count, a joined error | one function | a handler that gets a pointer to the current termination and a cancel function | goroutine leaks, lost errors, blocking |
| `lifecycle.Emit` (`lifecycle/emit.go`) | a channel with one slot, or nil | six `emit` calls | whoever reads the channel | an emitter blocks when the reader lags, for ever when it has left |
| `server.Server`, its listener (`server/*.go`) | field `listener`; `http.Server` | `Run`, `Shutdown` | `http.Server.ListenAndServe`/`Shutdown`, a context | an unlocked interface field, Shutdown with a context that is done |
| `pipeline.Run` (`pipeline/stage.go`, `flow`) | current stage, last id | one loop with `OnEnter`/`OnExit` hooks | user stages | pairing of the hooks |
| `router.Builder`, `Route` (`router/*.go`) | slice of routes, default compression, CORS options | registration by method, `File(s)`, `Extend`, `Compression`, `CORS` | `*Route` pointers into the slice | the slice moves, reuse of entries, replay by Extend |
| `router/std` | what each pattern of a built handler refers to | `Build` | `http.ServeMux`, `gzhttp`, `cors` | pattern conflicts panic, closures over `*Route` |
| `identity.RegistryProvider` | none; a registry behind an interface | `SignIn`, `SignUp`, `Refresh`, `GetTokenUser` | registry calls, token signing | steps of two calls interleave, a late step fails |
| `identity/http` endpoint and guard, `utils/jwt` | none | `Check`, `CurrentUser`, `Signup`, `Signin`, `Refresh`, `Guard` | cookies and headers, the provider | decision tables over token states |
| identity credentials, salting | none | length checks, a hash | – | – |
| `data/page` | none | `Fill`, `SetSingle`, `Selector.Or`, `FromURLValues` | – | zero and negative limits, float64 on offsets a client sends |
| `data/jsoner`, `utils/http` | none | `Decode`, `DecodeRequest`, method list | `encoding/json` | classification of decode errors |
| `utils/fs.ScanDir` | a queue of directories, shared by all iterations | iterator | `fs.FS`, the body of the loop | iterating twice, nesting, breaking out |
| `crypto`, `log`, `utils/writers` | a byte counter | wrappers | standard library | – |

What makes each of them correct:

* **Host**: whatever ends a run, the instance has been told, the signal
  goroutine joined, the registration released; nil is returned only for an
  instance that returned nil; no stop request is lost, and each of them ends
  `Run`; nothing crashes unless the fields are raced on.
* **Start**: a failure nobody asked for leaves with code 2, unless a
  `context.Canceled` is joined to it; code 0 with an unfinished instance means a
  cancellation.
* **RunParallel**: each result collected once; errors neither lost nor
  invented; no goroutine left behind; the call ends when the runners do.
* **Server**: `Run` joins its goroutine, reports failures, ends when told; after
  a `Shutdown` that returned nil nothing is in progress.
* **Router**: the builder is a table keyed by method and path; a built handler
  does not change under its user; `Build` panics only over patterns that overlap.
* **Emit**: events arrive in order, once; an emitter waits for the reader only
  when the slot is full, and never when events are disabled.
* **Pipeline**: a stage acts only between its enter and exit; enters and exits
  pair up by id.
* **Identity**: what an answer says was true during the call; every request is
  answered once, with the tokens it was given; a token names a user that has
  signed in or up; whoever a guard authorizes is the one the access token names,
  forged tokens notwithstanding; a cookie does not outlive its token.
* **Page**: the pages of a query partition it, as far as float64 is exact. **Jsoner**: a body is accepted
  only if it is one value, and refused for one reason.
* **ScanDir**: every entry is yielded once, breadth first, and only a broken
  loop or an unreadable directory loses any.

## 2. Plan

| # | Modules | What | State |
|---|---|---|---|
| 1 | `Host`, `HostProofs` | supervision of an instance, every safety property proved | done |
| 2 | `Start` (extends `Host`) | the process around a Host | done |
| 3 | `ForkJoin`, `RunParallel`, `RunParallelProofs` | fork and join, refinement proved | done |
| 4 | `Server`, `ServerProofs` | one run of the server | done |
| 5 | `RouteTable`, `RouteBuilder`, `MCRouteBuilder` | the route table and the handler built from it | done |
| 6 | `HostedServer` (extends `Start`, instantiates `Server`) | a `Server` run by a `Host` in its own process | done |
| 7 | `Emit`, `Pipeline`, `ObservedPipeline` | one-slot event channel with a reader that may leave; hook pairing; a service that uses both | done |
| 8 | `Tokens`, `Response`, `Jsoner`, `Identity`, `MCIdentity` | sign-up, sign-in, refresh, check and guard on one registry, a failing signer | done |
| 9 | `ScanDir` | the iterator and its shared queue | done |
| 10 | `Page`, `RequestJsoner`, `UtilityProofs` | pure functions, proved about for every input; every safety property of `ScanDir` proved | done |
| 11 | `ProcessProofs` | every safety property of `Start` and `HostedServer`, from the invariants of `Host` and `Server`; the Host as the Server's environment | done |
| 12 | `RouteBuilderProofs` | every safety property of the router, and the table refinement | done |
| 13 | `PipelineProofs` | pairing of the hooks and delivery of the events, for any number of stages and acts | done |
| 14 | `IdentityProofs` | every safety property of `Identity`, for any number of clients | done |
| 15 | `Supervision`, with its refinement | what a caller of `Run` is promised, as an abstract specification that `Host` implements, proved as `Refinement` of `RunParallel` is | next |
| 16 | more of `UtilityProofs`, `IdentityProofs` | `Extend` of a builder into an empty one; what `Tokens` and `Response` do with every input | next |

`Host` comes first because every program built with the library runs under it
and because its bugs would be the ones no test finds; `Server` and `RunParallel`
are what runs inside it.

## 3. The modules and the code

### Host — `service/host.go`

One action per statement of the code that another goroutine can observe.

| Code | Model |
|---|---|
| `h.shutdownCh = make(...)` (53), `h.shutdownOnce = sync.Once{}` (54) | `MakeShutdownCh`, `ResetOnce`: two steps, because `Shutdown` reads the fields without a lock in between |
| `context.WithCancel`, `setupSignalHandling` (58–61, 122–153) | `SpawnSignals` (the goroutine is started at 126) and then `Notify` (144) |
| the instance goroutine (65–67) | `SpawnInstance`, `InstanceReturns`; its send on the unbuffered `errCh` is the state `"sending"` and is completed by `ReceiveErr` |
| first select (68–75), `cancel()` (78), `wg.Wait()` (81), second select (89–107) | `Select`, `Cancel`, `Join`, `Await` |
| the signal goroutine (126–141) | `TakeSignal`, `SeeCtxDone`, `StopSignals`, `CloseSignalCh`, `SignalsDone` |
| `Shutdown` (110–120), `sync.Once.Do` | `EnterShutdown`, `OnceFastPath`, `OnceLock`, `OnceBody`, `OnceFinish` |
| the caller's context, the OS | `StartRun`, `ParentDone`, `OsSignal` |

`MaxRuns` successive calls of `Run` on one Host are modelled, each with its own
channels, context and goroutines, so that leftovers of one call meet the next.
An error is what `errors.Is` finds in it, a set: the errors of contexts that it
wraps or joins, and `"failed"` for the rest; `Instance.Run` may return any of
them whatever its own context is like. The variables `raced`, `asked` and
`early` are history: only properties read them. Facts the model shows and a reader should know:

* A `Shutdown` before line 53 finds a nil channel, returns nil and is forgotten.
* The signal goroutine is started before `signal.Notify`: if the context is done
  by then, `signal.Stop` comes first and the registration stays (`SignalsReleased`
  names that case).
* After `signal.Stop` a second signal kills the process by its default action.
* After a timeout the instance goroutine waits for ever on the unbuffered
  `errCh`, and `Run` returns `ctx.Err()`, which `ExitOnError` turns into code 0
  if it is `context.Canceled`.
* So is a failure that an unasked instance returns joined with a
  `context.Canceled` of an inner context of its own, which is what a
  `RunParallel` returns whose handler cancels: the process leaves with code 0
  (`FailureReported` says which failures get code 2).

Left out: two overlapping calls of `Run`, the nil-instance guards, logging.

### Start — `service/service.go`

Extends `Host` with the main goroutine: log records, `Prepare`, `Run`, exit
code. The Host that `Start` creates is known to nobody else, so there are no
callers of `Shutdown` then (`entry = "start"`); the owner of a Host who calls
`StartInstance` may have them (`entry = "prepare"`).

### RunParallel and ForkJoin — `lifecycle/run_parallel.go`

`Spawn`, `RunnerReturns`, `Receive` (the rendezvous on `termCh`), `Handle`,
`JoinError`, `Return`. The handler may cancel the context and, through its
pointer, alter or clear the error (history variable `altered`). `Obedient`
runners return once their context is done; the others need never return.
`ForkJoin` is what the caller is promised; `ImplementsForkJoin` is the
refinement, with a runner outstanding until its result has been joined. The
comment at line 23 speaks of a result of the handler; the handler has none.

### Server — `server/server.go`, `listener.go`, `http2_listener.go`

One call of `Run`, its serving goroutine, any number of concurrent `Shutdown`
calls. `srv.listener` is an interface, two words, written and read without a
lock, hence `"torn"` between the stores. `net/http.Server` is external: after
Shutdown has begun Serve returns `ErrServerClosed`; Shutdown waits until the
accept loop has ended and no request is in progress, or for its context. Idle
connections, a second `Run` on one Server and the handler's middleware are left
out.

### HostedServer — a Server run by a Host

Extends `Start` and instantiates `Server` with the context of the Host's first
call of `Run` and the same process. `ServerRunReturns` ties the two: the
instance goroutine returns when `Server.Run` has, with its joined result: a
`context.Canceled` hides whatever it is joined with, so a broken socket that
coincides with a cancellation leaves with code 0 (`FailureNeedsCancel` states the limits of
that). `Closers` are goroutines that call `Server.Shutdown` directly; the Host
never does. `server.Server` has no `Prepare`: some service of the user's wraps
it, and is taken to do nothing else.

### RouteBuilder and RouteTable — `router/builder.go`, `router/route.go`, `router/std/std_router.go`

`Register` is each of `Get` … `All`, `Method`, `File`, `Files` with
`ensureRoute`/`ensureFiles`; `Extend` and `ExtendRoute` the loop of `Extend`;
`RouteCompression`, `DisableCompression`, `EnableCompression` the switches;
`Build` is `stdBuilder.Build` without CORS. An `append` may or may not move the
slice: the caller's `*Route` (`kept`, `live`) and the closures of the handler
built last (`shared`, `old`) then point into the old array. A path is one value;
two paths are the same, nested (`Below`) or disjoint. `RouteTable` is the
abstract table, and `ImplementsTable` says which table operation each builder
operation is, so a reallocation, a pointer or a replay can never do anything
else. Left out: CORS, the spelling of joined paths, compression levels, the
panic of `Method` on an unknown method, routes with neither handler nor files
(`Extend` skips them), `Request`.

One consequence to know: `Extend` replays files through `Files`, which takes the
first route of the path whatever its method, and a handler replayed afterwards
with that method takes the entry back. A source with files and a handler on one
path can therefore lose its files in the copy. No document promises otherwise.

### Identity, Tokens, Response, Jsoner — `identity/*.go`, `identity/http/*.go`, `utils/jwt`, `router/std/response.go`, `data/jsoner`

| Code | Model |
|---|---|
| `ParseTokenClaims`, `ValidateTokenParseError`, `tokensFromRequest`, `AsCookie`, `createSignedTokenPair` | operators of `Tokens`: a token is a user id and an expiry, a token string adds what golang-jwt finds wrong with it |
| `Response.String`, `JSON`, headers | operators of `Response`: a count of `WriteHeader` calls and the token headers that were set when the status went out |
| `Signin`, `SignIn` | `Sign`, `FindUser`, `CompareCredentials`, `SignTokens`: one action per call of the registry |
| `Signup`, `SignUp` | `Sign`, `CheckFields`, `CreateUser`, `CreateBreaks` (the registry fails after it has stored the user), `SignTokens` |
| `Check`, `Refresh` | one action each, over every combination of access header, cookie and refresh header |
| `Guard`, `CurrentUser` | `Guard`, and `FetchUser` for `GetTokenUser` |
| the registry's owner | `DeleteUser`, `ChangePassword` |

The registry is an interface of the user's. It is modelled with one user name,
hence credentials are passwords; an operation on it is atomic and may fail; it
keeps the id of the stub it is given. `seen` is history: what the registry's
user has been since the request came. The clock is finer than the seconds of
expiries and ages of cookies (`Second` ticks), and what is less than a second is
cut off (`Whole`). Clients send tokens that the provider has issued, others that
name nobody, and forged ones that name whom they like or have no claims at all.
Facts to know:

* `AsCookie` cuts the age off to whole seconds, from an expiry that is whole
  already: the cookie dies up to a second before its token, and one whose token
  has less than a second left is dropped at once (`CookieDiesWithToken`).
* `GetUserId` of a guard's result looks at no token's validity. Behind an
  optional guard without an authorized caller it names whomever a forged token
  names; and it panics, in `Token.GetUserId`, if a token's header could not be
  decoded, since golang-jwt then leaves its claims nil (`NoClaims`). The same
  holds of an authorized caller in one case: the guard is optional and does not
  fetch, and the valid access token names nobody (`GuardNamesCaller`).

* `SignUp` creates the user before it signs: a failing signer leaves a user that
  can sign in while the caller is told of a failure, and a retry says it exists.
* The tokens of a sign-up name the stub's id, not the returned user's. A registry
  that makes ids of its own, as `tests/identity/mock_user_registry.go` does, gets
  tokens that name nobody.
* `Refresh` never asks the registry: a deleted user refreshes for ever, and so
  does any valid token put in the refresh header, an access token included.
* `CurrentUser` of a deleted user answers 200 with null. `IsAuthorized` is false
  for a valid token when the guard is mandatory and the fetch is disabled.
* A request without credentials is 400 for `Signin` and 500 for `Signup`.
* A response that fails while being written gets a second status, which net/http
  ignores and logs.

### RequestJsoner — `utils/http/jsoner.go`

`DecodeRequest` and the status of its result, as functions. Nothing sets
`MaxBytesError`: a body that is too large is refused with 400, as an unknown
error or as "multiple JSONs", and never with the 413 that `AsHTTPStatus` has for
it (`TooLargeIsBadRequest`). Unknown fields are refused by default here, and
accepted by default by `data/jsoner`.

### Page — `data/page/*.go`

The selector and the numbers of `PaginationMeta` as functions over integers. A
negative limit is not refused and makes a negative page count
(`NegativeLimitHasNoPages`); an explicit `limit=0` is a limit to `Or`, which
keeps it in place of the handler's default, and none to `Fill`
(`ZeroLimitIsEntire`). The quotients are float64: for a total or an offset below
2^53 the page is exact, whatever the limit. An offset of a client may be any
int: beyond that the operator `Inexact`, of which nothing is assumed, stands for
the outcome, and the theorems say nothing of it (it may be another page, and for
an offset that rounds to 2^63 the conversion to int is out of range).

### ScanDir — `utils/fs/scan_dir.go`

`Begin` … `Break` are the statements of the iterator; `Continue` and `Break` are
what the body of the loop may answer. Two loops over one iterator share its
queue: they may follow one another, be nested, or be pulled in turns. Breaking
off at an entry loses the rest of its directory and, if it is a directory, what
is below it; a scan that is over yields nothing more. `fs.ReadDir` is external:
`Entries` is the one list of what is in a directory (`In`) in the order of the
names, and that there is one is proved (`AllListed`). The model speaks of nodes:
on Windows `filepath.Join` makes paths that `io/fs` refuses.

### Emit, Pipeline and ObservedPipeline — `lifecycle/emit.go`, `pipeline/stage.go`

`Emit` has one action for the call and one for the send; `called` and `read`
are history: the events of each emitter, as they were emitted and as they were
read. `Pipeline` has one action per
statement of `Run`; `id` is what the stages' `Id()` returns, and two stages may
return the same. `ObservedPipeline` ties them together as a service would, the
hooks being called on the goroutine of `Run`: a hook that emits waits for the
reader, and `Run` with it. The service and its stages are the model's, since no
code of the repository uses either package; with the Emit disabled it is the
pipeline alone. Facts to know:

* A stage that breaks and names another one is told `OnExit`, and the other one
  is never entered; one that ends with nil is not told.
* Stages with one id get no hooks between them, so the stage that is exited need
  not be the one that was entered.
* A reader that leaves stops its service for ever at the second event after the
  last one it has read; in a `Host` the termination timer then decides.
* Events of different goroutines have no order: a shutdown request may be read
  before the event of the start.

## 4. The runs

| Run | Configuration | Properties | Shows |
|---|---|---|---|
| host_rerun | `MCHost_rerun.cfg` | `ReturnIsClean`, `NeverForcedUnasked`, `FirstSignalCaught`, `CrashNeedsRace`, `ShutdownNotLost` | how two successive runs end, what they return and leave behind; no crash and no lost `Shutdown` without an overlap |
| start | `MCStart.cfg` | `FailureReported`, `AbandonedOnlyOnCancel`, `StopRequestEndsProcess` | exit codes, for whatever errors are joined; two callers of `Shutdown`: every stop request ends the process |
| run_parallel | `MCRunParallel.cfg` | `NoErrorLost`, `ImplementsForkJoin`, `Returns` | all sets of up to three runners, with and without a handler |
| server | `MCServer.cfg` | `ServeIsOver`, `FailureReported`, `StaysDrained`, `CrashNeedsOverlap`, `StopEndsRun` | one run, two callers, up to two requests |
| server_graceful | `MCServer_graceful.cfg` | `GracefulShutdown` (violated) | the finding below |
| hosted_server | `MCHostedServer.cfg` | `HostedTypeOK`, `ZeroMeansAsked`, `AnswerMeansClosed`, `FailureNeedsCancel` | exit codes and leftovers of a process that serves |
| hosted_server_patient | `MCHostedServer_patient.cfg` | `ServerNeedsNoTimer` | a hosted server ends even if the termination timer never fires |
| router | `MCRouteBuilder.cfg` | `TypeOK`, `KeysUnique`, `PanicNeedsOverlap`, `HandlerIsFrozen`, `DisabledMeansOff` | every sequence of builder calls on two nested paths |
| router_table | `MCRouteBuilder_table.cfg` | `ImplementsTable` | the slice and its pointers implement the table, single files included: a file name left behind by `ensureRoute` never shows |
| identity | `MCIdentity.cfg` | `IdentityTypeOK`, `AnswersAreCurrent`, `OneResponse`, `TokensArrive`, `RefreshGoesByRefreshToken`, `GuardNamesCaller` | two clients of one registry whose owner deletes the user and changes its password |
| scan_dir | `MCScanDir.cfg` | `EveryEntryOnce`, `BreadthFirst`, `IterationEnds` | two loops over one iterator, on every tree of four nodes |
| observed_pipeline | `MCObservedPipeline.cfg` | `EventsDelivered`, `HooksPaired`, `RunIsSeen` | hooks and events of a service with three stages, a second emitter and a reader that may leave |

**Finding.** `README.md:23` promises a "server with graceful shutdown". On a done
context `Run` calls `listener.Shutdown(ctx)` with that same context
(`server.go:50`), so the wait for the requests in progress has timed out before
it begins, and `errors.Is(err, http.ErrServerClosed)` (`server.go:54`) turns the
outcome into nil. server_graceful ends with `Run` returned nil and a request in
progress.

Several properties are conjunctions of named parts: `ReturnIsClean` of
`NilMeansInstanceNil`, `InstanceTold` and `SignalsReleased`; `TokensArrive` of
`HeadersCarryTokens` and `CookieDiesWithToken`; `EveryEntryOnce` of `NeverTwice`
and `LostOnlyByBreak`; `HooksPaired` of `HooksAlternate`, `ActsInside` and
`HooksAtEnd`. `HostedTypeOK` is the type invariant of `Host`, `Start` and
`Server` together.
That no goroutine of `RunParallel` outlives the call (`NoGoroutineLeft`, proved)
is part of what `ImplementsForkJoin` says.

Every property is also shown to bite: operators marked "a bug" in the modules
(`KeepOnce`, `CancelForgotten`, `LoopVariable`, …) are the definitions beside
them as a plausible slip would have written them, and PROJECT.json says which
property fails when one takes the place of the other. No specification uses them.

### Bounds, and why they are enough

* `MaxRuns = 2`: what one run leaves behind (a done Once, a closed channel, a
  registration, a blocked goroutine) meets the next; a third meets nothing new.
* `Callers`: one caller that calls `Shutdown` again and again meets both
  unlocked assignments of two runs (`host_rerun`); two callers meet each other on
  the Once (`start`). More callers than two only queue.
* `SigBuf = 1` (32 in the code): a full buffer is reached with two signals.
* `CtxErr`: a deadline only matters where an error value is looked at.
* RunParallel: three names; one of them need not obey its context.
* `MaxActive`: one request suffices to keep a Shutdown waiting, two show that
  one ending does not release it.
* Router: `MaxRoutes = 2` on two paths, one below the other; conflicts, reuse
  and moves concern pairs of routes. `Sources` are the routes of three other
  builders, chosen for files beside a handler, a leftover method and options.
  router_table tells states apart by what the table operations go by
  (`TableView`): neither the handler that was built last nor the history has a
  part in what they do.
* Identity: two clients, so that a sign-in and a sign-up, or two of one kind,
  overlap, with the owner's steps in between; two ids, so that a user is deleted
  and made anew; seconds of two ticks, lifetimes of three and four ticks, and a
  clock that goes up to two, so that lifetimes are cut off, an access token is
  seen valid, with less than a second left and expired while its refresh token
  is valid. Clients and
  ids are interchangeable (`Symmetry`). A request that does not use the registry
  is served while no other is in progress: it shares nothing with them but the
  ids that tokens have been issued for, which only grow.
* ScanDir: four nodes make a chain of three directories, and a directory before
  and after a sibling with entries. Two loops share the queue; a third does
  nothing a second does not.
* ObservedPipeline: three stages with two ids, so that two share one; three acts,
  so that a stage is left and entered again.

The safety properties do not rest on these bounds: all of them, and both
refinements, are proved for every value of the constants (section 6). The
liveness properties and the finding are what the bounds matter for.

### Deadlock

Checked in every run except where the system may stop: a `RunParallel` call that
has returned, and a builder whose `Build` has panicked. `Host` and `Server` have
an explicit step for a dead process or a system at rest, and so has
`ObservedPipeline` for a service that has ended or waits for its channel.

## 5. Fairness

* **Host, Start**: `WF` of the goroutine of `Run` (the Go scheduler runs it, and
  the termination timer fires), of each signal goroutine and of each caller
  inside `Shutdown` (a runnable goroutine runs; a Go mutex does not starve).
  Nothing is assumed of `Instance.Run`, of signals, of the callers' decisions or
  of the parent context.
* **RunParallel**: `WF` of the calling goroutine, handler included, and of an
  obedient runner once its context is done. Nothing else of the runners.
* **Server**: `WF` of `Run`, of `Listen`, of the end of the accept loop once its
  socket has been closed, and of a caller inside `Shutdown` that can move. A
  request need never end.
* **HostedServer**: the union of these; `PatientSpec` disables the termination
  timer and asks nothing of it, to show that a server does not need it.
* **ScanDir**: `WF` of an iteration, which is ordinary code, and `SF` of the body
  of its loop: a body comes to an end, even one that ranges over the same
  iterator again and again.
* **ObservedPipeline**: `WF` of the service, its stages included; `SF` of a
  waiting send, since Go serves the senders of a channel in turn; `WF` of a
  reader that has not left.
* **RouteBuilder**, **Identity**: no fairness; they have no liveness properties.

## 6. What is proved

Every invariant of a passing run, and both refinements, are theorems. They hold
for every value of the constants that the assumptions allow, which TLC evaluates
in the runs:

| Assumption | Says |
|---|---|
| `HostAssumption`, `StartAssumption` | positive bounds; `"canceled"` is an error of a context and nil is not; `Start` calls `Run` once |
| `ServerAssumption`, `HostedAssumption` | a natural number of requests; a context's error is not `ErrServerClosed` |
| `RunParallelAssumption` | finitely many runners; the obedient ones are some of them |
| `RouteBuilderAssumption`, `SourcesAssumption` | the methods the builder itself names are there; no path is below itself; nil is no handler, file, name or option; `Extend` is given routes |
| `PipelineAssumption`, `ObservedAssumption` | no stage is nil, and no event is the absence of one |
| `IdentityAssumption`, `TokensAssumption`, `NilAssumption` | nil is no password, id, user, token or response; lifetimes and the clock are natural numbers |
| `ScanDirAssumption` | a tree has finitely many nodes, and finitely many loops range over it |

Each proof shows an inductive invariant (`IInv`, or the name given below):
`Init => IInv`, `IInv /\ [Next]_vars => IInv'`, with one step per action, and the
properties from it.

* **HostProofs**: the type invariant and the safety properties of the Host run.
  None is inductive: `NilMeansInstanceNil` needs to know
  that a rendezvous leaves the instance sent; `SignalsReleased` that the
  goroutine is past `signal.Stop` whenever `wg` is zero. `IInv` says of every
  call `r` that it has not started, is active (`Active(r)`: what holds at each
  statement of `Run`) or over, and, as long as nothing was raced on, that the
  Once has one holder and its flag agrees with the channel (`OnceInv`) — the
  argument for `ShutdownNotLost` and `CrashNeedsRace`.
* **RunParallelProofs**: `NoGoroutineLeft`, `NoErrorLost` and the refinement.
  The loop only counts; the invariant is that the count is the cardinality of
  the goroutines that are gone, so that reaching `len(runners)` is a join.
  `Refinement` shows that initial states map to initial states of `ForkJoin` and
  every step to a step or a stutter.
* **ServerProofs**: all safety properties of the server run. `StaysDrained`
  needs `DrainInv`: after a Shutdown that returned nil the accept loop is over
  or will find that it must not start. `CrashNeedsOverlap` needs that a torn
  field has a writer (`FieldInv`).

* **ProcessProofs**: `StartInv` and `HostedInv`. `StartInv` keeps of `Host`'s
  invariant what survives a process that has died, and adds what ties `main` to
  its one call of `Run`: the exit code is that of the error `Run` returned
  (`ExitsWithError`), an error is the instance's own only once it has returned,
  and a `Run` that gave up returns its context's error (`ErrorsHaveSource`).
  `FailureReported` and `AbandonedOnlyOnCancel` follow by cases over how `Run`
  ended. `CrashNeedsRace` is not kept: `main` panics by itself when it cannot
  log. For `HostedServer` the Server's state is seen through `SP`, an instance
  of `ServerProofs` whose process never dies and whose context is that of the
  Host's run; every step of the process is a step of that Server or none
  (`ServerSteps`), so `ServerProofs!IInv` carries over, and
  `HostIsEnvironment` states it as a refinement. What is added is that
  the answer the instance hands over is the result of `Server.Run`, and that a
  cancellation in it was asked for; `ZeroMeansAsked`, `AnswerMeansClosed` and
  `FailureNeedsCancel` need both invariants.
* **RouteBuilderProofs**: `KeysUnique` is inductive with the types, since a slot
  is the first route that fits (`SlotIsFirst`, from a least index that exists by
  well-foundedness). `HandlerIsFrozen` is not: `FrozenOK` says which route of
  which array a pattern refers to, whether or not the slice has moved, and that
  a registration in place only ever touches the paths it names. `Refinement` to
  `RouteTable` (`BuilderIsTable`) maps a slice with unique keys to the table it
  stands for; each operation on the slice is shown to be that of the table by
  what it does to the places of the keys (`PutPlaces`, `MergePlaces`,
  `TableOfOptions`), for `Extend` route by route.
* **PipelineProofs**: `HooksPaired` needs `LastHook`: at each statement of `Run`
  the last hook is the one that announced the stage that comes next, or entered
  the id of the one that acts. `EventsDelivered` is inductive with the types: what
  an emitter has been called with is what has been read of it, followed by what
  is in the slot, followed by what is being sent, and there is one slot.
* **IdentityProofs**: `AnswersAreCurrent` needs `CallOK`: `seen` holds what the
  registry's user has been since the request came, and between the two reads of
  a sign-in the user is the one found, or has been deleted in between. The other
  properties are about the step that answers, and follow from what tokens a
  request can carry (`NamedTokens`: one without an error is not forged), what
  the operators of `Response` do and what is cut off of a cookie's age
  (`CookieAges`).
* **UtilityProofs**: facts about functions, for every input: `PagesHoldTotal` and
  `CurrentPageExists` rest on the two inequalities that define floor and ceiling
  (`FloorHolds`, `CeilCovers`); `AcceptedIsOneValue` says which requests are
  accepted, by cases over the body. And `ScanDir`, for every tree and any
  iterations: `EveryEntryOnce` needs that a directory which waits in the queue,
  or whose entry the body of a loop has, is fresh, that is, neither read nor
  failed (`ReadOnce`), and that every entry which has not been yielded is to
  come, not reached or lost (`NothingLost`); `BreadthFirst` that the queue is in
  the order in which its directories were yielded and comes after whatever is
  being read (`QueueInOrder`, `ReadsInOrder`). Both hold wherever loops are
  broken off; the order only until two of them take turns.

Model-checked only: the liveness properties `StopRequestEndsProcess`, `Returns`,
`StopEndsRun`, `ServerNeedsNoTimer`, `IterationEnds`, `RunIsSeen` (the proof
system does not handle liveness under fairness), and the finding, which is a
counterexample. Proved without a run: `Page` and `RequestJsoner`, which have no
state.

## 7. Not modelled

* Length checks of credentials and the salted hash, `crypto`, `log`,
  `utils/writers`, the method list: no state, and nothing a unit test would not
  show.
* `stdrouter.Request` and the CORS logger: wrappers of net/http; `rs/cors`,
  `gzhttp`, golang-jwt, `encoding/json` and the registry are external, and
  modelled as far as the code here depends on what they return.
* Two overlapping calls of `Host.Run`, two calls of `Server.Run`, parallel
  iterations of one `ScanDir`: the code does not provide for them.
