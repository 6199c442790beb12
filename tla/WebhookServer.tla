---------------------------- MODULE WebhookServer ----------------------------
(***************************************************************************)
(* webhookhttp.Server: registration of routes, ListenAndServe with its     *)
(* serve goroutine and its shutdown, and serveRoute for every request that *)
(* a webhook provider posts.  A provider posts an event again until it is  *)
(* told 2xx, so several posts of one event are served, also at once.       *)
(*                                                                         *)
(* net/http.Server and the plugin's handler are external.  Handle may be   *)
(* called at any time; ListenAndServe is called once.                      *)
(***************************************************************************)
EXTENDS Integers, FiniteSets

CONSTANTS
    Events,    \* what is posted: [id, method, path, size, genuine]
    Posts,     \* HTTP requests
    Regs,      \* calls of Handle: [method, path, limit, verify, key]
    ConfigMaxBodyBytes,
    DefaultMaxBodyBytes,
    None       \* no route, no event

\* What the properties need of a registration's and an event's fields.
ASSUME WebhookAssumption ==
    /\ ConfigMaxBodyBytes \in Int /\ DefaultMaxBodyBytes \in Nat \ {0}
    /\ \A e \in Events : e.size \in Nat /\ e.genuine \in BOOLEAN
    /\ \A g \in Regs : /\ g.limit \in Int
                       /\ g.verify \in BOOLEAN /\ g.key \in BOOLEAN
    /\ None \notin Events

VARIABLES
    routes,     \* Server.routes
    mux,        \* the copy that ListenAndServe serves
    pc,         \* where ListenAndServe is; "nil" and "error" are its results
    srv,        \* the serve goroutine
    shut,       \* httpSrv.Shutdown was called
    cancelled,  \* the context is done
    timedOut,   \* Shutdown gave up after 5 s
    at,         \* where each post is
    event,      \* its event
    rt,         \* its route
    status,     \* the status written for it
    done,       \* events that the plugin has processed
    acked       \* events for which the provider saw a 2xx

serverVars == <<routes, mux, pc, srv, shut, cancelled, timedOut>>
postVars == <<at, event, rt, status>>
vars == <<serverVars, postVars, done, acked>>

Slots == {<<g.method, g.path>> : g \in Regs} \cup {<<e.method, e.path>> : e \in Events}

\* New: the configured limit, or the default.
MaxBodyBytes == IF ConfigMaxBodyBytes <= 0 THEN DefaultMaxBodyBytes ELSE ConfigMaxBodyBytes

Init ==
    /\ routes = [s \in Slots |-> None] /\ mux = [s \in Slots |-> None]
    /\ pc = "build" /\ srv = "off"
    /\ shut = FALSE /\ cancelled = FALSE /\ timedOut = FALSE
    /\ at = [d \in Posts |-> "none"]
    /\ event = [d \in Posts |-> None]
    /\ rt = [d \in Posts |-> None]
    /\ status = [d \in Posts |-> 0]
    /\ done = {} /\ acked = {}

\* Handle: a route with its options, in the place of an earlier one.
Route(g) ==
    [limit |-> IF g.limit <= 0 THEN MaxBodyBytes ELSE g.limit,
     verify |-> g.verify, key |-> g.key]

Handle(g) ==
    /\ routes' = [routes EXCEPT ![<<g.method, g.path>>] = Route(g)]
    /\ UNCHANGED <<mux, pc, srv, shut, cancelled, timedOut, postVars, done, acked>>

-----------------------------------------------------------------------------
(* ListenAndServe.                                                         *)

\* Copy the routes under the lock, build the mux, start the serve goroutine.
ListenAndServe ==
    /\ pc = "build"
    /\ mux' = routes
    /\ pc' = "serve" /\ srv' = "starting"
    /\ UNCHANGED <<routes, shut, cancelled, timedOut, postVars, done, acked>>

\* httpSrv.ListenAndServe: it binds unless Shutdown came first, looks again
\* when it registers the listener, and ends when Accept fails.
Listen ==
    /\ \/ srv = "starting" /\ srv' \in (IF shut THEN {"closed"} ELSE {"bound", "failed"})
       \/ srv = "bound" /\ srv' = IF shut THEN "closed" ELSE "listening"
       \/ srv = "listening" /\ srv' = IF shut THEN "closed" ELSE "failed"
    /\ UNCHANGED <<routes, mux, pc, shut, cancelled, timedOut, postVars, done, acked>>

Cancel ==
    /\ ~cancelled
    /\ cancelled' = TRUE
    /\ UNCHANGED <<routes, mux, pc, srv, shut, timedOut, postVars, done, acked>>

\* case <-ctx.Done(): Shutdown begins, and no listener accepts any more.
SelectDone ==
    /\ pc = "serve" /\ cancelled
    /\ pc' = "shutdown" /\ shut' = TRUE
    /\ UNCHANGED <<routes, mux, srv, cancelled, timedOut, postVars, done, acked>>

\* case err := <-serveErr
SelectErr ==
    /\ pc = "serve" /\ srv \in {"closed", "failed"}
    /\ pc' = IF srv = "closed" THEN "nil" ELSE "error"
    /\ UNCHANGED <<routes, mux, srv, shut, cancelled, timedOut, postVars, done, acked>>

\* Posts that were accepted and are not answered.
InFlight == {d \in Posts : at[d] \notin {"none", "end"}}

\* Mutant: the server is closed and not shut down.
ShutdownWaitsForNone ==
    /\ pc = "shutdown"
    /\ pc' = "drain"
    /\ UNCHANGED <<routes, mux, srv, shut, cancelled, timedOut, postVars, done, acked>>

\* Mutant: Shutdown gets a context without a deadline.
ShutdownWaitsForAll ==
    /\ pc = "shutdown" /\ InFlight = {}
    /\ pc' = "drain"
    /\ UNCHANGED <<routes, mux, srv, shut, cancelled, timedOut, postVars, done, acked>>

\* Shutdown returns when nothing is in flight, or after 5 s; its error is
\* dropped.
Shutdown ==
    /\ pc = "shutdown"
    /\ pc' = "drain" /\ timedOut' = (InFlight # {})
    /\ UNCHANGED <<routes, mux, srv, shut, cancelled, postVars, done, acked>>

\* Receive from serveErr, or 6 s; whatever the error was, the result is nil.
Drain ==
    /\ pc = "drain"
    /\ pc' = "nil"
    /\ UNCHANGED <<routes, mux, srv, shut, cancelled, timedOut, postVars, done, acked>>

-----------------------------------------------------------------------------
(* One post.                                                               *)

Goto(d, label) == at' = [at EXCEPT ![d] = label]

Write(d, code) == Goto(d, "written") /\ status' = [status EXCEPT ![d] = code]

\* The provider posts an event, for the first time or again; the listener
\* accepts the connection.
Accept(d) ==
    /\ at[d] = "none"
    /\ srv = "listening" /\ ~shut
    /\ \E e \in Events \ acked : event' = [event EXCEPT ![d] = e]
    /\ Goto(d, "conn")
    /\ UNCHANGED <<serverVars, rt, status, done, acked>>

\* A connection without a request is closed: by Shutdown, or by the client.
Hangup(d) ==
    /\ at[d] = "conn"
    /\ Goto(d, "end")
    /\ UNCHANGED <<serverVars, event, rt, status, done, acked>>

Slot(d) == <<event[d].method, event[d].path>>

\* Mutant: the request is served by the route that is registered now.
DispatchLive(d) ==
    /\ at[d] = "conn"
    /\ IF routes[Slot(d)] # None
       THEN Goto(d, "read") /\ rt' = [rt EXCEPT ![d] = routes[Slot(d)]] /\ UNCHANGED status
       ELSE Write(d, 404) /\ UNCHANGED rt
    /\ UNCHANGED <<serverVars, event, done, acked>>

\* The mux and the per-path function: the route, or 405, or 404.
Dispatch(d) ==
    /\ at[d] = "conn"
    /\ IF mux[Slot(d)] # None
       THEN Goto(d, "read") /\ rt' = [rt EXCEPT ![d] = mux[Slot(d)]] /\ UNCHANGED status
       ELSE /\ Write(d, IF \E s \in Slots : s[2] = event[d].path /\ mux[s] # None
                        THEN 405 ELSE 404)
            /\ UNCHANGED rt
    /\ UNCHANGED <<serverVars, event, done, acked>>

\* io.ReadAll(http.MaxBytesReader(...)): limit bytes pass, one more does not,
\* and the client may stop sending.
ReadBody(d) ==
    /\ at[d] = "read"
    /\ \/ event[d].size <= rt[d].limit /\ Goto(d, "verify") /\ UNCHANGED status
       \/ Write(d, 413)
    /\ UNCHANGED <<serverVars, event, rt, done, acked>>

\* opts.verify, if there is one.
Verify(d) ==
    /\ at[d] = "verify"
    /\ IF rt[d].verify /\ ~event[d].genuine
       THEN Write(d, 401) ELSE Goto(d, "run") /\ UNCHANGED status
    /\ UNCHANGED <<serverVars, event, rt, done, acked>>

\* Mutant: every error that is not terminal is acknowledged.
HandlerReturnsQuietly(d) ==
    /\ at[d] = "run"
    /\ \/ Write(d, 202) /\ done' = done \cup {event[d]}
       \/ Write(d, 400) /\ UNCHANGED done
       \/ Write(d, 200) /\ UNCHANGED done
    /\ UNCHANGED <<serverVars, event, rt, acked>>

\* The handler returns and its result becomes the status.  nil says that the
\* event is processed, ErrDuplicate that it has been (which takes the key); an
\* error says nothing.
HandlerReturns(d) ==
    /\ at[d] = "run"
    /\ \/ Write(d, 202) /\ done' = done \cup {event[d]}
       \/ rt[d].key /\ event[d] \in done /\ Write(d, 200) /\ UNCHANGED done
       \/ Write(d, 400) /\ UNCHANGED done
       \/ Write(d, 500) /\ done' \in {done, done \cup {event[d]}}
    /\ UNCHANGED <<serverVars, event, rt, acked>>

\* The response reaches the provider, or is lost: the connection broke, or the
\* handler took longer than WriteTimeout.
Respond(d) ==
    /\ at[d] = "written"
    /\ Goto(d, "end")
    /\ \/ acked' = IF status[d] \in 200..299 THEN acked \cup {event[d]} ELSE acked
       \/ UNCHANGED acked
    /\ UNCHANGED <<serverVars, event, rt, status, done>>

-----------------------------------------------------------------------------
Serving == SelectDone \/ SelectErr \/ Shutdown \/ Drain

Next ==
    \/ \E g \in Regs : Handle(g)
    \/ ListenAndServe \/ Listen \/ Cancel \/ Serving
    \/ \E d \in Posts :
        \/ Accept(d) \/ Hangup(d) \/ Dispatch(d) \/ ReadBody(d) \/ Verify(d)
        \/ HandlerReturns(d) \/ Respond(d)

Spec == Init /\ [][Next]_vars

\* ListenAndServe goes on; its two timers run.  Handlers may hang.
FairSpec == Spec /\ WF_vars(Serving)

-----------------------------------------------------------------------------
(* Properties.                                                             *)

Routes == [limit : Int, verify : BOOLEAN, key : BOOLEAN]

\* Type invariant.
TypeOK ==
    /\ routes \in [Slots -> Routes \cup {None}] /\ mux \in [Slots -> Routes \cup {None}]
    /\ pc \in {"build", "serve", "shutdown", "drain", "nil", "error"}
    /\ srv \in {"off", "starting", "bound", "listening", "closed", "failed"}
    /\ shut \in BOOLEAN /\ cancelled \in BOOLEAN /\ timedOut \in BOOLEAN
    /\ at \in [Posts -> {"none", "conn", "read", "verify", "run", "written", "end"}]
    /\ event \in [Posts -> Events \cup {None}]
    /\ rt \in [Posts -> Routes \cup {None}]
    /\ status \in [Posts -> {0, 200, 202, 400, 401, 404, 405, 413, 500}]
    /\ done \subseteq Events /\ acked \subseteq Events

\* The server implements AtLeastOnce: a provider is told to stop posting an
\* event only after a handler has processed it, whichever posts of it were
\* lost, refused, answered twice or cut off by a shutdown.
Promise == INSTANCE AtLeastOnce WITH
              Msgs <- Events, Rpc <- Events, answered <- done, gone <- acked
AckedWhenProcessed == Promise!Spec

\* A handler only sees a post that its own registration admits: the limit, the
\* verifier and the handler come from one call of Handle, the one in force when
\* the server started, though Handle may replace it while the post is served.
AdmittedByItsRoute ==
    \A d \in Posts : at[d] = "run" =>
        LET r == mux[Slot(d)] IN
            /\ r # None
            /\ event[d].size <= r.limit
            /\ r.verify => event[d].genuine
            /\ rt[d] = r

\* nil means that the context was cancelled and, unless Shutdown gave up, that
\* no post is being served and none will be, a slow start of the listener
\* included.
NilMeansDrained ==
    pc = "nil" => cancelled /\ shut /\ (timedOut \/ InFlight = {})

\* Cancellation ends ListenAndServe, even though a handler hangs.
CancelReturns == cancelled /\ pc # "build" ~> pc \in {"nil", "error"}

\* A route that was registered after the start is served.
LateRoutesServed ==
    \A d \in Posts : status[d] = 404 => routes[Slot(d)] = None

\* An error of the listener is what ListenAndServe returns.
ListenErrorReturned == srv = "failed" => pc # "nil"

\* nil means a graceful shutdown: nothing is in flight.
NilIsGraceful == pc = "nil" => InFlight = {}

=============================================================================
