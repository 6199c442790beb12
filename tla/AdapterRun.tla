------------------------------ MODULE AdapterRun ------------------------------
(***************************************************************************)
(* The life of an Adapter: the builder calls, Run with the dial loop of    *)
(* ListenAMQP or the server of ListenHTTP, the subscriptions, and the      *)
(* deferred cleanup.  Run is one thread; the goroutine of the HTTP server  *)
(* and the cancellation of the context run beside it.                      *)
(***************************************************************************)
EXTENDS Integers, FiniteSets

CONSTANTS
    Capabilities,    \* names, as Register normalises them
    MaxAttempts,     \* dialAMQPWithRetry: attempts
    InitialBackoff,  \* seconds
    MaxBackoff       \* seconds

ASSUME RunAssumption ==
    /\ IsFiniteSet(Capabilities)
    /\ MaxAttempts \in Nat \ {0}
    /\ InitialBackoff \in Nat /\ MaxBackoff \in Nat
    /\ InitialBackoff <= MaxBackoff

VARIABLES
    transport,  \* Adapter.transport: the kind of transport, or "none"
    before,     \* Adapter.beforeRun: who set it
    after,      \* Adapter.afterRun: who set it
    handlers,   \* Adapter.handlers
    last,       \* the last of Transport, ListenHTTP, ListenAMQP (history)
    pc,         \* where Run is
    tr,         \* Run's local transport
    ar,         \* Run's local afterRun
    todo,       \* handlers that Run has still to Consume
    subs,       \* open subscriptions
    attempt,    \* dial attempts
    backoff,    \* the next pause, in seconds
    slept,      \* seconds paused so far (history)
    conn,       \* the connection that Run dialled
    srv,        \* the HTTP server
    cancelled   \* the context is done

builder == <<transport, before, after, handlers, last>>
locals == <<tr, ar, todo, subs>>
dial == <<attempt, backoff, slept, conn>>
vars == <<builder, pc, locals, dial, srv, cancelled>>

Kinds == {"none", "http", "amqp", "custom"}

\* Run has returned with an error or, after cancellation, without one.
Returned == pc \in {"failed", "done"}

Init ==
    /\ transport = "none" /\ before = "none" /\ after = "none"
    /\ handlers = {} /\ last = "none"
    /\ pc = "build"
    /\ tr = "none" /\ ar = "none" /\ todo = {} /\ subs = {}
    /\ attempt = 0 /\ backoff = InitialBackoff /\ slept = 0 /\ conn = "none"
    /\ srv = "off" /\ cancelled = FALSE

-----------------------------------------------------------------------------
(* The builder.                                                            *)

\* Register may be called at any time; Run works on a copy.
Register(c) ==
    /\ handlers' = handlers \cup {c}
    /\ UNCHANGED <<transport, before, after, last, pc, locals, dial, srv, cancelled>>

Transport ==
    /\ pc = "build"
    /\ transport' = "custom" /\ last' = "custom"
    /\ UNCHANGED <<before, after, handlers, pc, locals, dial, srv, cancelled>>

\* Mutant: ListenHTTP adds its server and leaves an earlier beforeRun in place.
ListenHTTPKeepsBefore ==
    /\ pc = "build"
    /\ transport' = "http" /\ after' = "http" /\ last' = "http"
    /\ before' = IF before = "none" THEN "http" ELSE before
    /\ UNCHANGED <<handlers, pc, locals, dial, srv, cancelled>>

ListenHTTP ==
    /\ pc = "build"
    /\ transport' = "http" /\ before' = "http" /\ after' = "http" /\ last' = "http"
    /\ UNCHANGED <<handlers, pc, locals, dial, srv, cancelled>>

\* The transport, and afterRun, come with the connection.
ListenAMQP ==
    /\ pc = "build"
    /\ before' = "amqp" /\ last' = "amqp"
    /\ UNCHANGED <<transport, after, handlers, pc, locals, dial, srv, cancelled>>

-----------------------------------------------------------------------------
(* Run.                                                                    *)

\* Copy the handlers, and enter beforeRun.
RunStart ==
    /\ pc = "build"
    /\ todo' = handlers
    /\ IF handlers = {} THEN pc' = "failed" /\ UNCHANGED <<srv, attempt>>
       ELSE CASE before = "none" -> pc' = "wire" /\ UNCHANGED <<srv, attempt>>
              [] before = "http" -> pc' = "listen" /\ srv' = "starting" /\ UNCHANGED attempt
              [] before = "amqp" -> pc' = "dial" /\ attempt' = 1 /\ UNCHANGED srv
    /\ UNCHANGED <<builder, tr, ar, subs, backoff, slept, conn, cancelled>>

\* The select in ListenHTTP's beforeRun: the error, or 25 ms.
ListenWait ==
    /\ pc = "listen"
    /\ \/ srv \in {"unbound", "stopped"} /\ pc' = "failed"
       \/ pc' = "wire"
    /\ UNCHANGED <<builder, locals, dial, srv, cancelled>>

\* The goroutine in beforeRun: ListenAndServe binds, fails to, or ends later.
ListenAndServe ==
    /\ \/ srv = "starting" /\ srv' \in {"listening", "unbound"}
       \/ srv = "listening" /\ srv' = "stopped"
    /\ UNCHANGED <<builder, pc, locals, dial, cancelled>>

\* A dial answers.  The last attempt's failure ends Run; a connection becomes
\* the transport, to be closed by afterRun.
Dial ==
    /\ pc = "dial"
    /\ \/ /\ conn' = "open" /\ transport' = "amqp" /\ after' = "amqp"
          /\ pc' = "wire"
       \/ /\ pc' = IF attempt = MaxAttempts THEN "failed" ELSE "backoff"
          /\ UNCHANGED <<conn, transport, after>>
    /\ UNCHANGED <<before, handlers, last, locals, attempt, backoff, slept, srv, cancelled>>

\* Mutant: the attempts are not counted.
BackoffForever ==
    /\ pc = "backoff"
    /\ \/ cancelled /\ pc' = "failed"
       \/ pc' = "dial"
    /\ UNCHANGED <<builder, locals, dial, srv, cancelled>>

\* The pause between two attempts doubles up to the cap.
Backoff ==
    /\ pc = "backoff"
    /\ \/ cancelled /\ pc' = "failed" /\ UNCHANGED <<attempt, backoff, slept>>
       \/ /\ pc' = "dial"
          /\ attempt' = attempt + 1
          /\ slept' = slept + backoff
          /\ backoff' = IF 2 * backoff > MaxBackoff THEN MaxBackoff ELSE 2 * backoff
    /\ UNCHANGED <<builder, locals, conn, srv, cancelled>>

\* Mutant: afterRun is read together with beforeRun, before beforeRun sets it.
WireEarly ==
    /\ pc = "wire"
    /\ tr' = transport /\ ar' = IF before = "amqp" THEN "none" ELSE after
    /\ pc' = IF transport = "none" THEN "failed" ELSE "consume"
    /\ UNCHANGED <<builder, todo, subs, dial, srv, cancelled>>

\* Read transport and afterRun again; defer afterRun.
Wire ==
    /\ pc = "wire"
    /\ tr' = transport /\ ar' = after
    /\ pc' = IF transport = "none" THEN "failed" ELSE "consume"
    /\ UNCHANGED <<builder, todo, subs, dial, srv, cancelled>>

\* transport.Consume for one handler after the other, in the map's order.  An
\* error ends Run through the deferred calls.
Consume ==
    /\ pc = "consume"
    /\ \/ todo = {} /\ pc' = "serve" /\ UNCHANGED <<todo, subs>>
       \/ \E c \in todo :
            /\ todo' = todo \ {c}
            /\ \/ subs' = subs \cup {c} /\ UNCHANGED pc
               \/ pc' = "closeSubs/failed" /\ UNCHANGED subs
    /\ UNCHANGED <<builder, tr, ar, dial, srv, cancelled>>

\* Mutant: the subscriptions are left to the transport.
ServeKeepsSubs ==
    /\ pc = "serve" /\ cancelled
    /\ pc' = "after/done"
    /\ UNCHANGED <<builder, locals, dial, srv, cancelled>>

\* <-ctx.Done()
Serve ==
    /\ pc = "serve" /\ cancelled
    /\ pc' = "closeSubs/done"
    /\ UNCHANGED <<builder, locals, dial, srv, cancelled>>

\* The deferred loop over subs.
CloseSubs ==
    /\ pc \in {"closeSubs/failed", "closeSubs/done"}
    /\ IF subs = {}
       THEN pc' = (IF pc = "closeSubs/done" THEN "after/done" ELSE "after/failed")
            /\ UNCHANGED subs
       ELSE (\E c \in subs : subs' = subs \ {c}) /\ UNCHANGED pc
    /\ UNCHANGED <<builder, tr, ar, todo, dial, srv, cancelled>>

\* The deferred afterRun: Shutdown, or transport.Close.  A server that has not
\* got to listening yet will not.
AfterRun ==
    /\ pc \in {"after/failed", "after/done"}
    /\ pc' = IF pc = "after/done" THEN "done" ELSE "failed"
    /\ srv' = IF ar = "http" THEN "shut" ELSE srv
    /\ conn' = IF ar = "amqp" THEN "closed" ELSE conn
    /\ UNCHANGED <<builder, locals, attempt, backoff, slept, cancelled>>

\* The caller cancels, or WithSignalHandler's goroutine does for SIGTERM.
Cancel ==
    /\ ~cancelled
    /\ cancelled' = TRUE
    /\ UNCHANGED <<builder, pc, locals, dial, srv>>

-----------------------------------------------------------------------------
RunStep ==
    \/ ListenWait \/ Dial \/ Backoff \/ Wire \/ Consume
    \/ Serve \/ CloseSubs \/ AfterRun

Next ==
    \/ Transport \/ ListenHTTP \/ ListenAMQP
    \/ \E c \in Capabilities : Register(c)
    \/ RunStart \/ RunStep \/ ListenAndServe \/ Cancel

Spec == Init /\ [][Next]_vars

\* Run keeps running; dials, Consume, Close and Shutdown return.
FairSpec == Spec /\ WF_vars(RunStep)

-----------------------------------------------------------------------------
(* Properties.                                                             *)

\* Type invariant.
TypeOK ==
    /\ transport \in Kinds /\ last \in Kinds /\ tr \in Kinds
    /\ before \in Kinds \ {"custom"} /\ after \in Kinds \ {"custom"}
    /\ ar \in Kinds \ {"custom"}
    /\ handlers \subseteq Capabilities /\ todo \subseteq Capabilities
    /\ subs \subseteq Capabilities
    /\ pc \in {"build", "listen", "dial", "backoff", "wire", "consume", "serve",
               "closeSubs/failed", "closeSubs/done", "after/failed", "after/done",
               "failed", "done"}
    /\ attempt \in 0..MaxAttempts /\ backoff \in 0..MaxBackoff /\ slept \in Nat
    /\ conn \in {"none", "open", "closed"}
    /\ srv \in {"off", "starting", "listening", "unbound", "stopped", "shut"}
    /\ cancelled \in BOOLEAN

\* Whichever way Run returns, nothing that it opened stays open: no
\* subscription, no connection, no server that listens or still may.
ReleasesAll ==
    Returned => subs = {} /\ conn # "open" /\ srv \notin {"starting", "listening"}

\* The server and the connection go only when every subscription is closed.
UnsubscribeFirst ==
    [][(srv' = "shut" /\ srv # "shut") \/ (conn' = "closed" /\ conn # "closed")
        => subs = {}]_vars

\* A Run that serves on AMQP serves on the connection it dialled, not on one
\* left from elsewhere, and holds the afterRun that will close it.
ConsumesOnOwnConnection ==
    tr = "amqp" /\ ~Returned => conn = "open" /\ ar = "amqp"

\* Of Transport, ListenHTTP and ListenAMQP the last decides what Run serves on,
\* with one exception: a Transport that follows ListenAMQP is overwritten by the
\* connection that beforeRun dials.
OnlyTransportLoses ==
    pc = "serve" /\ tr # last => last = "custom" /\ tr = "amqp"

\* Cancellation ends Run, in the dial loop too.
CancelReturns == cancelled /\ pc # "build" ~> Returned

\* Where Run has deferred afterRun and its subscriptions' closing.
Wired == {"consume", "serve", "closeSubs/failed", "closeSubs/done", "after/failed",
          "after/done"}

\* Why these hold: what is open before Run returns, the afterRun that Run will
\* call closes, and no path leaves between the opening and the defer.
RunInv ==
    /\ pc \notin {"consume", "serve", "closeSubs/failed", "closeSubs/done"} => subs = {}
    /\ pc \in {"build", "dial", "backoff"} => srv = "off"
    /\ pc \in {"build", "dial", "backoff", "listen"} => conn = "none" /\ transport # "amqp"
    /\ pc \in {"dial", "backoff"} => before = "amqp"
    /\ before = "http" => after = "http"
    /\ pc = "backoff" => attempt < MaxAttempts
    /\ pc \in Wired => ar = after /\ tr = transport
    /\ tr # "none" => pc \in Wired \/ Returned
    /\ conn = "open" => after = "amqp" /\ srv = "off"
    /\ srv # "off" => after = "http"
    /\ after # "none" => transport # "none"
    /\ transport = "amqp" => after = "amqp" /\ (conn = "open" \/ Returned)
    /\ ReleasesAll

\* The last of Transport, ListenHTTP and ListenAMQP decides what Run serves on.
LastCallWins == pc = "serve" => tr = last

\* Run does not serve on a server that failed to bind its address.
BindErrorSurfaces == pc = "serve" => srv # "unbound"

\* The attempts take about five minutes, in which a dial that fails at once
\* adds nothing to the pauses.
DialBudget == slept <= 400

=============================================================================
