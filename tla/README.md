# A TLA+ model of yggdrasil-sdk-go

The SDK lets a plugin author write handlers and leaves the rest to the
library: an AMQP or an HTTP transport carries requests, an `Adapter` wires
handlers to it and runs until it is cancelled, `sdk/reconcile` turns requests
into calls of reconcilers, `sdk/events` reports each mutation to
yggdrasil-core, `webhookhttp` receives what providers post, and `surface` serves
an adapter's pages to a console. This directory models those parts in TLA+,
checks small instances with TLC, and proves the safety properties with TLAPS for
every value of the constants.

## The system's parts

| Part | Source | Module | Status |
|---|---|---|---|
| AMQP connection lifecycle: watchdog, reconnect, subscriptions, publish channel, Close | `rpc/amqp/amqp.go` 40-664 | `AmqpTransport` | modelled, proved |
| AMQP deliveries: `deliverLoop`, settle, reply, redelivery | `rpc/amqp/amqp.go` 600-743, `adapter/adapter.go` 230-245 | `AmqpDelivery` implements `AtLeastOnce` | modelled, proved |
| HTTP transport | `rpc/http/http.go` | `HttpRpc` implements `AtMostOnce` | modelled, proved |
| The transport contract's data: requests, deliveries, envelopes, headers | `rpc/transport.go`, `rpc/amqp/amqp.go` 745-780, `rpc/http/http.go` 321-334 | `Framing` | modelled, proved |
| Adapter builder, `Run`, dial loop | `adapter/adapter.go`, `adapter/transport.go` | `AdapterRun` | modelled, proved |
| `adapter.wrap` | `adapter/adapter.go` 230-245 | in `AmqpDelivery` and `HttpRpc` | modelled |
| Registration of reconcilers, options, legacy names, dispatch | `sdk/reconcile/register.go` 20-103 and 195-299, `options.go`, `dispatch.go` | `ReconcileDispatch` implements `DispatchTable` | modelled, proved |
| Execute handler, event emission, HTTP emitter | `sdk/reconcile/register.go` 105-192 and 301-393, `sdk/events/http.go` | `ReconcileEvents` implements `EventLog` | modelled, proved |
| Resource id inference | `sdk/reconcile/register.go` 395-571 | `ResourceId` | modelled, proved |
| Webhook server | `webhookhttp/server.go` | `WebhookServer` implements `AtLeastOnce` | modelled, proved |
| Surface: validation, loading, handlers | `surface/` | `Surface` | modelled, proved |
| Webhook signatures | `sig/hmac/stripe.go` | `Signatures` | partly: Stripe, proved |
| mTLS loading | `mtls/` | - | not modelled: files and PKCS#12 decoding |

How they interact: `Adapter.Run` (AdapterRun) opens a transport and calls its
`Consume` once per capability. The transport (AmqpTransport, AmqpDelivery or
HttpRpc, with the data of Framing) calls `adapter.wrap`, which calls the handler
and replies and settles. For `execute` the handler is the one that
ReconcileDispatch installs and that looks a reconciler up; ReconcileEvents goes
on from there, calls the reconciler and posts an event to the core. The modules
meet at these interfaces: what AdapterRun calls "a transport consumes" is
`ConsumeCall` of AmqpTransport; a channel that AmqpTransport loses and re-binds
is `ChannelLost` and `Rebind` of AmqpDelivery; a redelivery of AmqpDelivery is a
second run with the same request in ReconcileEvents; an operation that
ReconcileDispatch finds is one in `Known` of ReconcileEvents. The webhook server
and the surface are used by a plugin next to its adapter and share no state with
it.

## The modules

### AmqpTransport

State: the fields of `Transport` (`conn`, `dialFn`, `closed`, `pubCh`, `subs`)
and its locks `dialMu` and `pubMu`, a program counter per goroutine, the
connection each goroutine got from `connectionForUse`, the channel and
`done` of each subscription, and the broker (which connections live, whether
dials succeed). Connections are numbered in the order they are dialled; 0 is
nil. A step is the code between two points where another goroutine can
interfere: acquiring a lock, dialling, waiting, or reading state that others
write. `connMu` protects single reads and writes and is folded into the steps.

Goroutines: the watchdog, one re-bind loop per subscription, publishers,
requesters, the caller of `Close`, callers of `Subscription.Close`. The broker
drops connections (`ConnDrop`), goes down and comes back, and closes single
channels (`ChannelReset`). Backoff durations are left out: a pause may end at
any time. `New` without a dial function followed by `SetDialFunc` covers
`NewWithDial` too. The watchdog's look at `closed` and its read of `conn` are two
steps, so that `Close` may finish between them.

### AmqpDelivery and AtLeastOnce

State: the queue (`ready`), the broker's record of unsettled deliveries
(`held`), the frames under way from the client to the broker (`wire`), the
channel with its epoch, and for each delivery slot the goroutine that handles
it. The broker delivers under the prefetch limit, requeues what a lost channel
left unsettled, and processes the frames of a channel in order. A handler may
overrun its timeout, outlive its channel, succeed or fail. Messages in `Rpc`
carry a `reply_to`; the others were sent with `Publish`. The subscription's loop
looks at `done` at two places and then re-binds without a further look, and
`Subscription.Close` closes the channel before it closes `done`: a re-bind may
overtake it, and messages are then delivered to a subscription that is closed.

`AtLeastOnce` is the promise to senders: a request is settled only after it was
answered. `KeepsPromise` is that specification, instantiated with
AmqpDelivery's `answered` and `gone`.

### HttpRpc and AtMostOnce

One endpoint. Server side: `serveHTTP` from the check of `closed` through the
semaphore, the body, the handler and the responses it writes; client side:
`Request` until the header, until the body, the deadline, a broken connection.
`Consume` and `Close` are split where they release a lock. Requests in `Wrapped`
are handled through `adapter.wrap`, the others by a bare `rpc.Handler` that
replies, nacks and returns in any order. A slot is held while the request's body
is read, and a live client may take for ever over that.

`AtMostOnce` is the promise to callers: the handler runs once at most, a reply
means that it has run, and `ErrEndpointUnknown` that it has not and never will;
any other error leaves it open. Under the mapping of `CallsAtMostOnce` a request
has run when its handler returned a result, and its outcome is what `Request`
returned.

### Framing

One request and its reply: the fields of `rpc.Request` become an AMQP publishing
or a JSON `Envelope`, then an `rpc.Delivery`, and the reply goes back. Texts are
told apart by what the code looks at: empty, opaque, an encoded Envelope, or one
of four kinds of foreign text (a JSON object without the Envelope's keys, with
some of them, with one of the wrong type, and text that is no JSON).
`encoding/json` is external and modelled by what it leaves in an Envelope: a body
goes as base64 and is exact, a string that is not UTF-8 comes out changed
(`NotUtf8`). The other side may be a client, a server or a publisher that does not
use the SDK; a publisher's table may hold a value that JSON cannot, which
`tableToStringHeaders` leaves out.

### AdapterRun

The builder calls in any order, then one `Run`: `beforeRun` of the transport
helper chosen, the dial loop with the code's attempts and pauses, the second
reading of `transport` and `afterRun`, `Consume` per capability, the wait, and
the deferred calls in reverse order. The HTTP server's goroutine, with a bind
that may fail early or late, and cancellation interleave with it.

### ReconcileDispatch and DispatchTable

`RegisterReconciler` as a sequence of steps on any number of goroutines: the
check of the names, the one-shot warning, `tableFor` under `dispatchTablesMu`
(whose first caller also writes `Adapter.handlers`), and the writes to the map,
one by one, under the table's mutex. The adapter's own `Register("execute", ...)`,
`Run`'s copy of the handlers, requests through the execute handler and through
`Dispatch` interleave with it. Names are a verb and a noun in one of three styles
(plain, padded, with capitals), because `ToLower`, `TrimSpace` and the prefixes of
`pickCanonicalForLegacy` look at nothing else.

`DispatchTable` is the promise: a registration takes effect at one moment, all
names together. The refinement shows the table as it was when the lock was taken
until the lock is released (`before`, a history variable).

### ReconcileEvents and EventLog

A run is one execution of the execute handler: lookup, reconciler, `emit`, the
emitter's attempts. Kinds of requests are sets: known or unknown operation,
observe, ensure or destroy, with an idempotency key from the caller or without,
with or without a resource id, with or without an emitter. POSTs travel on an
unreliable network and may reach the core late, after the emitter gave up; the
core deduplicates by key, refuses events without an id, and may fail before or
after it stored the row. The process may die at any step. Two runs of one
request stand for a redelivery. A synthesised key contains a nanosecond clock
and is taken to be fresh.

`EventLog` is the promise to readers of the log: a row stands for a mutation that
a run has made, a run has one row at most, and so has a request with a key; a
mutation may have none. Its rows are the core's, mapped as they are, with run,
request and key. `told` of ReconcileEvents records whether the reconciler
reported success, and gives the facts of the refinement.

### ResourceId

The ids of ensure and destroy events for payloads with the fields `ref`, `id`,
`ID`, `Id`, `<resource>_id`, `owner`, `repo`, `full_name` and `<resource>`, each
absent, empty, a text, a number or zero, and a struct with or without an `ID` of
its own. An id is represented by the fields it is made of. Texts in different
fields count as different. Ensure reads four that destroy does not (`EnsureOnly`):
the struct's `ID`, `ID`, `Id` and `full_name`. A resource named by one of these has
an id when it is ensured and none, or another, when it is destroyed, and
`SameIdWhenOneField` says nothing of it.

### WebhookServer

`Handle` at any time, `ListenAndServe` with its serve goroutine (starting, bound,
listening, closed, failed), the two branches of its select, `Shutdown` with its
5 s, the wait for the goroutine with its 6 s; and `serveRoute` per post: route,
body limit, verifier, handler, status. The provider posts an event until it sees
a 2xx, so posts of one event overlap; answers get lost. A handler says with nil
that it has processed the event, with `ErrDuplicate` that this had happened
before, and with an error nothing. `AckedWhenProcessed` instantiates
`AtLeastOnce` with the processed and the acknowledged events.

### Surface, Signatures and MCOperators

`Surface`: `Validate` as operators per loop, the loaders, `RegisterHandlers`, and
a `Manifest` as Go has it: text fields are copied, slices go on sharing their
elements with the adapter's variable. `RegisterHandlers` takes any Manifest, also
one that the adapter built itself or changed after loading, and checks nothing;
the adapter may change its own before and after. `origin`, a history variable,
tells a Manifest that is as it was loaded, and `ServedIsUsable` is about those.
`ReadActionBody` is a function of the body's size.

`Signatures`: `VerifyStripe` over headers of up to `MaxParts` parts, with integers
that wrap around at `Half` as int64 does at 2^63, so that the extremes of the skew
are within reach. For one payload and secret a MAC is the time it signs.
`SignedInWindow` excepts two corners, in which the code accepts a time outside of
the window: one 2^63 seconds before now, because its skew has no absolute value,
and, with a tolerance that exceeds what is left of the int64 after now, one before
1970 whose skew wraps around.

`MCOperators` puts these and ResourceId and Framing into one run; a behaviour is
one of one part.

## What the runs check

All runs say `CHECK_DEADLOCK FALSE`: after `Close`, a cancelled `Run` or
`ListenAndServe`, or when every request is done, the system may stop.

| Run | Instance | Shows |
|---|---|---|
| `transport_safety` | 1 subscription, 1 publisher, 1 requester, watchdog, Close, 2 faults | `OneSocket`, `DialsBounded`: a storm of reconnects dials once. `NoNilConnection`: the order of `Close` protects users of the connection. `PubChFresh`: no publish channel of an earlier connection survives a reconnect. `NoDialAfterClose`: at most the reconnect under way overtakes `Close` |
| `transport_recovery` | 1 subscription, 1 publisher, 1 fault, 1 channel reset | `Rebinds`: an open subscription comes to consume again. `GhostEndsWithItsChannel`: one that was closed during a re-bind does not outlive that channel. `CloseReturns`. `Rebinds` and `CloseReturns` hold except in `Stuck`, the circular wait of `publish_deadlock` |
| `delivery_safety` | a request and a message without reply_to, 3 delivery slots, Concurrency 2, 1 loss, Close | `SettledOnce`, `RunsBounded`, `NoOrphan`, and the refinement `KeepsPromise` |
| `delivery_liveness` | 2 requests, 2 slots, Concurrency 1, 1 loss | `RequestsComplete` |
| `http_rpc` | a wrapped and a bare request, Concurrency 1 | `HandlersBounded`, `OneResponse`, `RefusedNotRun`, `SlotsComeBack`, and the refinement `CallsAtMostOnce` |
| `adapter_run` | 2 capabilities, 30 attempts, pauses 1 to 30 s | `ReleasesAll`, `UnsubscribeFirst`, `ConsumesOnOwnConnection`, `OnlyTransportLoses`, `CancelReturns` |
| `reconcile_events` | 2 runs, 6 kinds of request, 2 attempts | the refinement `KeepsLog`, `EmissionNeverFailsCall`, `RunsEnd` |
| `dispatch` | 2 registrations of 4 kinds, 1 request of 6 kinds | the refinement `AtomicRegistration`, `VerbRespected`, `CustomStays`, `RegistrationReturns` |
| `webhook` | 2 posts, 4 events, 2 registrations of one path | the refinement `AckedWhenProcessed`, `AdmittedByItsRoute`, `NilMeansDrained`, `CancelReturns` |
| `operators` | all bounded inputs; payloads of up to 4 fields | `SameIdWhenOneField`, `NeverMissed` (resource ids), `FramingTransparent`, `ServedIsUsable`, `ActionBodyWhole` (surface), `SignedInWindow` |

Bounds. `MaxFaults` and `MaxLosses` cap what the environment does, never what
the code does: two faults are needed for one to hit the recovery from the
other. In `transport_recovery` that is a fault and a channel reset;
`transport_two_faults.cfg` checks the same properties with two faults and without
the publisher. In `delivery_safety` the second time that a channel ends is
`Close`, with the re-bind that may overtake it. Three delivery slots let handlers
of a lost channel outlive a re-bind while both messages are delivered again;
`delivery_safety` uses symmetry over the slots only, which nothing tells apart. `ExecCap` stops the count of
executions just above the bound that `RunsBounded` states. Two requests on one
HTTP slot make one wait for the other. `adapter_run` uses the code's own numbers.
The emitter's default is 3 attempts; 2 already distinguish first, last and late
ones, and keep two concurrent runs small. Two registrations are what it takes to
overwrite and to interleave, and their arguments share names, aliases and an
empty alias. Two posts of one event overlap, and sizes lie at the limit and
around it. In `operators` a body limit of 4 and sizes from 0 to 7 stand for
512 KB, payloads have at most four of the nine fields, which is enough to compare
any two rungs of a ladder, integers wrap around at 8, tolerances go up to the
largest integer, and three parts of a header allow a repeated `t=` or a second
`v1=`. The proofs do not depend on any of these.

Fairness. Goroutines that can go on do so (weak fairness per goroutine), and
nothing makes anybody call the API. Strong fairness appears three times: for the
semaphore slot of an HTTP request, because senders on a Go channel queue in
order; for the delivery of a message, because a queue is served from its head;
and for `Close` and `reconnect` when they wait for `pubMu`, because a `sync.Mutex`
is handed over to a waiter that starves. Handlers return: an assumption about
plugins that AmqpDelivery states on its own (`HandlerFairness`), HttpRpc makes too,
and WebhookServer does without: there only `ListenAndServe` and its two timers go
on. The read of an HTTP request's body ends when the client has gone; a live
client that never sends the rest keeps its slot, since the server of `ListenHTTP`
has no read timeout (`adapter/transport.go:30`), and `SlotsComeBack` is conditional on
there being none. A registration goes on once it has been called. In AmqpTransport
an outage of the broker ends. The core owes the emitter nothing, not even an answer.

## Where the code and its documentation disagree

Two runs expect a violation, and a finding in `PROJECT.json` quotes the text.

| Run | Text | What happens |
|---|---|---|
| `publish_deadlock` | `rpc/amqp/amqp.go:351-353`, `rpc/transport.go:49` | `publishChannel` holds `pubMu` while `reconnect` locks it: the publisher waits for itself, holding `dialMu`; beside a watchdog that reconnects, a publisher with `pubMu` waits for `dialMu` and the watchdog with `dialMu` for `pubMu` |
| `fire_and_forget` | `adapter/adapter.go:74-75` | without `reply_to` a success is answered with `Nack(true)`, for ever |

More statements of the documentation are definitions of the modules that TLC
refutes in the same way (`tlc -config <cfg> <module>`). Where a `.cfg` lists
several, TLC stops at the first; leave one line to see the others.

| Property | Module, cfg | Text | What happens |
|---|---|---|---|
| `CloseReleases` | AmqpTransport, `close_leak.cfg` | `rpc/transport.go:67-68` | a dial in flight during `Close` installs a connection that stays open |
| `SubCloseStops` | AmqpTransport, `ghost_consumer.cfg` | `rpc/transport.go:72-73` | `Subscription.Close` during a re-bind: the new channel consumes on |
| `CloseStopsSubscriptions` | AmqpTransport, `close_race_consume.cfg` | `rpc/transport.go:67-68` | a `Consume` that races `Close` registers after the snapshot; its loop never ends |
| `ConcurrencyCap` | MCAmqpDelivery, `concurrency_cap.cfg` | `rpc/transport.go:96`, `adapter/adapter.go:65-66` | each `deliverLoop` has its own semaphore; old and new handlers add up |
| `CloseDrains` | MCAmqpDelivery, `close_drains.cfg` | `rpc/transport.go:54-56`, `72-73` | AMQP `Subscription.Close` does not wait for handlers |
| `TimeoutSettles` | MCAmqpDelivery, `timeout_nacks.cfg` | `rpc/transport.go:90-93` | a handler that overruns its timeout is cancelled, its delivery is not nacked |
| `NoStartAfterClose` | HttpRpc, `http_docs.cfg` | `rpc/transport.go:72-73` | a request that waits for a slot starts its handler after `Close` |
| `ClosedNotServed` | HttpRpc, `http_docs.cfg` | `rpc/transport.go:33-34` | `Consume` during or after `Close` leaves a served endpoint |
| `NackVisible` | HttpRpc, `http_docs.cfg` | `rpc/http/http.go:365-366` | `wrap` replies before `Nack(false)`, so a handler error is a 200 |
| `DeadlineReported` | HttpRpc, `http_docs.cfg` | `rpc/transport.go:37-38` | a deadline while the body is read is not `ErrTimeout` |
| `BareArrives` | MCOperators, `framing_docs.cfg` | `rpc/transport.go:112` "Transports do not interpret it" | a request with nothing set arrives over HTTP with its Envelope as body |
| `RawReplyArrives` | MCOperators, `framing_docs.cfg` | `rpc/http/http.go:207-209` | a raw JSON object as reply decodes as an Envelope, and its body is lost |
| `LastCallWins` | AdapterRun, `adapter_docs.cfg` | `adapter/adapter.go:129-130` | `ListenAMQP` then `Transport`: `beforeRun` overwrites the transport |
| `BindErrorSurfaces` | AdapterRun, `adapter_docs.cfg` | `adapter/transport.go:41-44` | a bind error after 25 ms is lost |
| `DialBudget` | AdapterRun, `adapter_docs.cfg` | `adapter/transport.go:65-66` | 29 pauses add up to 751 s, not about 5 min |
| `ProviderDefaults` | MCReconcileDispatch, `dispatch_provider.cfg` | `sdk/reconcile/options.go:128-129` | without `WithProvider` events carry an empty provider |
| `DeclaredAccepted` | MCReconcileDispatch, `dispatch_case.cfg` | `sdk/reconcile/options.go:79-80` | a legacy name with capitals is stored in lower case and looked up as sent |
| `AliasFollows` | MCReconcileDispatch, `dispatch_alias.cfg` | `sdk/reconcile/options.go:81-82` | when another registration replaces the canonical name, the alias keeps the old reconciler |
| `VerbRespected` | MCReconcileDispatch, `dispatch_prefix.cfg` | `sdk/reconcile/options.go:82` | a legacy name with a canonical verb, such as `destroy_account`, has no prefix of the table and becomes an ensure |
| `LatencyIndependent` | ReconcileEvents, `events_latency.cfg` | `sdk/reconcile/options.go:113-114` | emission runs before the reply and sleeps between attempts |
| `MirrorsPrecedence` | ResourceId, `resource_id_mirror.cfg` | `CHANGELOG.md:104-105` | ensure prefers `id`, destroy `<resource>_id` |
| `LateRoutesServed` | MCWebhookServer, `webhook_docs.cfg` | `webhookhttp/server.go:150-152` | routes registered after the start get 404; a ServeMux would serve them |
| `ListenErrorReturned` | MCWebhookServer, `webhook_docs.cfg` | `webhookhttp/server.go:170-172` | a listener's error that meets a cancellation is dropped |
| `NilIsGraceful` | MCWebhookServer, `webhook_docs.cfg` | `webhookhttp/server.go:170-172` | after 5 s `Shutdown` gives up and nil is returned with posts in flight |
| `MutationIgnored` | MCOperators, `surface_mutation.cfg` | `surface/handler.go:41-42` | elements of the Manifest's slices are shared, and later writes are served |

## What is proved

Every theorem holds for all values of the constants that satisfy the named
assumption of its module (finite sets of goroutines or requests, positive
bounds, model values that differ). Every safety, action and refinement property
of the runs is proved; liveness is not. Where a statement of the documentation is
refuted, some theorems say what holds in its place.

**AmqpTransportProofs.** `AtMostOneSocket`, `OneDialPerFault`,
`NeverNilConnection`, `PubChNeverStale`, `OnlyDeadReplaced`, `CloseStopsDialling`,
all from `TypeCorrect` and `ReconnectInvariant`. None of them is inductive alone:
that a dial adds no second socket needs that nothing is open while a goroutine is
past the second look, and that only the holder of `dialMu` is there.
`ReconnectInv` says so, says that a dialled connection is newer than all that
`conn` and `Close` know, and counts each connection that died as a fault not
answered yet. The proof goes through the actions goroutine by goroutine.

`GhostsEnd` is about a consumer that outlives its `Subscription.Close`. The property
has one `[]` within another and no fairness, so a state predicate that no step
leaves carries it (`Ended`): the subscription is closed, and its loop has ended or
its channel is gone. That a later connection is not mistaken for it needs
`NumberInv`, the order in which connections were dialled.

`OneCircularWait` and `StuckIsFinal` say what the deadlock of `publish_deadlock` is
in general. `Stuck`: the holder of `dialMu` has dialled and wants `pubMu`, which is
its own or that of a publisher that waits for `dialMu`. In every other state the
holders of both mutexes go on, or wait for one who does; a transport that is
`Stuck` stays so, and whoever waits for a mutex, `Close` included, waits for ever.
So the exception that `Rebinds` and `CloseReturns` make is this one wait and its
consequences.

**AmqpDeliveryProofs.** `RequestsNeverLostSilently`, `TagsSettledOnce`,
`EndpointKeepsPromise` from `DeliveryInvariant`. The argument is about the wire:
a settlement of a request is always behind its reply in the same channel's
stream, or the reply has arrived (`WireInv`); a goroutine that is about to
settle on a living channel has its reply there (`GoroutineInv`); the epoch of a
delivery separates channels. Refinement then needs one step per action: frames
that arrive are steps of AtLeastOnce, all else stutters.

**AmqpRunsProofs.** `RunsAreBounded`, by an invariant of its own: a message is in
one place (ready, or held for one tag with one delivery that is yet to run it),
and a run is paid for by a channel that was lost or closed, in advance while the
message waits (`RunsInv`). `NoTagForgotten` on top of `DeliveryInvariant`.
`EachLoopBounded` is what holds of `ConcurrencyCap`: the handlers of one channel keep to the limit, also
after the channel is lost, because each loop counts its own. `SuccessNeverAcked`
generalises `fire_and_forget`: a message without `reply_to` leaves the queue only by
`Nack(false)`, after a handler error; no number of successes acknowledges it.

**HttpRpcProofs.** `AtMostConcurrency`, `SingleResponse`, `RefusalsAreSafe` from
`HttpInvariant`: the semaphore holds as many tokens as there are requests
between `Acquire` and the end (a cardinality argument with FiniteSetTheorems),
and where `serveHTTP` is determines what it wrote. `AtMostOnceRefinement` adds
`CallInv`, which relates what a client reads to what was written: a 200 comes
from a handler that ran, a 404 from a request that ended without. `ClosedRefuses` is
what holds of `NoStartAfterClose`: a request that has not arrived when the
subscription is closed gets a 503 if it arrives, and its handler never runs; it
rests on `ShutInv`, that only a subscription whose route is listed gets closed.

**AdapterRunProofs.** `RunReleasesAll`, `RunUsesOwnConnection`,
`SubscriptionsGoFirst` from `RunInvariant`, which relates the phase of `Run` to
what is open and to the `afterRun` it holds. `LastCallDecides` needs `LastInv`:
how the last builder call relates to `beforeRun` and `transport`. The module also
holds the proofs about Framing and Surface. `FramingIsTransparent` relates each
message under way to what it was made of (the wire is `RequestWire` or
`ReplyWire`, and what is read is `DeliveryOf` or `ReplyOf` of it), and rests on a
lemma about Envelopes: one in which something is set decodes to itself, whatever
its body, but for strings that are not UTF-8. `ConsoleGetsUsable` needs that what
the handlers hold, if it is as it was loaded, was validated, and
that `Validate`, which compares an id with those of earlier rounds, leaves no two
equal ones. `ActionsGetWholeBodies` is about the one byte read beyond the limit.

**ReconcileEventsProofs.** `RowPerRun`, `RowPerKey`, `EmissionHarmless` and
`LogRefinement` from `EventsInvariant`: every event, under way or stored, belongs
to a run whose reconciler reported success and carries the one key of that run
or request; the core's uniqueness per key does the rest. The module also holds the
proofs about ResourceId: `FirstRung` says what the first nonempty rung of a ladder
is, and `EnsureNeverMissed` and `OneFieldOneId` go through the rungs of the two
ladders.

**ReconcileDispatchProofs.** `Atomicity` from `DispatchInvariant`: the locks name
their holders, and under the table's lock the map is the one from before it
overlaid by the names written so far. `CustomHandlerStays` uses that the
installation precedes every return. `VerbsRespected` adds `VerbInv` over entries
and rests on a hypothesis, `LegacyListed`: declared legacy names begin with
`ensure` or a verb of the table at `options.go:84-87`. Without it the code makes an ensure of
the name (`dispatch_prefix.cfg`). `ReturnedIsServed` is what holds of
`DeclaredAccepted`: a request that spells a name as it is stored finds an entry from
the return of the registration on, because no step takes a name out of the map
(`DoneInv`).

**WebhookServerProofs.** `Admission`, `GracefulEnd` and the refinement
`AtLeastOnceHolds` from `WebhookInvariant`: what each stage of `serveRoute` has
established for its post, and that once `Shutdown` was called the listener
accepts nothing, a late start included. The module also holds the proof about
Signatures: `WrapOnce` says what wrapping around does to a difference of two
integers, `WindowExact` that the window is the one meant but for the two corners,
and `StripeTimesSigned` that the verdict is right for every header.

Only model-checked: the liveness properties `Rebinds`, `CloseReturns`,
`RequestsComplete`, `SlotsComeBack`, `CancelReturns` (of `Run` and of
`ListenAndServe`), `RunsEnd` and `RegistrationReturns`. Fairness and `ENABLED` are
outside the prover.

## Not modelled

- Payload bytes, logging, wording and durations. Correlation ids appear in Framing
  only; elsewhere a reply queue belongs to one request.
- Panics in handlers, several transports in one process, two `Run`s of one Adapter,
  two calls of `ListenAndServe`.
- Concurrent builder calls: `ListenHTTP` and `ListenAMQP` write without `a.mu`, and
  the documented use is a single chain of calls.
- `surface`: the data endpoint, which passes a request on and holds no state,
  `VerifiedCallerID`, a map read, and YAML decoding.
- `VerifyHubSignature256` and the helpers of `webhookhttp`: a prefix check and one
  comparison of MACs, without state or arithmetic.
- `mtls`: reads files and environment variables and decodes PKCS#12.
- `NoopEmitter`, `truncate`, `BuildEventType` and the option constructors of
  `sdk/events`: formatting and single assignments.
