---------------------------- MODULE ReconcileEvents ----------------------------
(***************************************************************************)
(* An execute request on its way through the dispatch table: the           *)
(* reconciler's Ensure, Observe or Destroy, the MutationEvent that follows *)
(* a success, the emitter's retries, and the reply.  Several runs are      *)
(* under way at once, and one request may run several times, because the   *)
(* transport delivers it again (AmqpDelivery) or a process died.           *)
(*                                                                         *)
(* The event log of yggdrasil-core is external: it rejects an event with   *)
(* no resource_id and keeps one row for an idempotency key.                *)
(***************************************************************************)
EXTENDS Integers, FiniteSets

CONSTANTS
    Runs,         \* executions of the execute handler
    Reqs,         \* requests
    Known,        \* requests whose operation is in the table
    Observes,     \* requests for observe_*
    Ensures,      \* requests for ensure_*; the others are destroy_*
    Keyed,        \* requests that carry an idempotency key
    Nameless,     \* requests for which no resource_id can be inferred
    WithEmitter,  \* requests whose reconciler was registered with an emitter
    MaxRetries    \* httpEmitter.maxRetries: attempts for one event

ASSUME EventsAssumption ==
    /\ IsFiniteSet(Runs)
    /\ Known \subseteq Reqs /\ Observes \subseteq Reqs /\ Ensures \subseteq Reqs
    /\ Keyed \subseteq Reqs /\ Nameless \subseteq Reqs
    /\ Observes \cap Ensures = {}
    /\ WithEmitter \subseteq Reqs
    /\ MaxRetries \in Nat \ {0}

VARIABLES
    pc,       \* where each run is
    req,      \* the request it runs
    told,     \* the reconciler reported success
    key,      \* idempotency key of its event
    attempt,  \* POSTs sent for its event
    resp,     \* the answer to the POST under way
    expired,  \* the run's context is done
    wire,     \* POSTs on their way to the core
    log       \* rows of the core's event_log (external)

runVars == <<req, told, key, expired>>
postVars == <<attempt, resp, wire>>
vars == <<pc, runVars, postVars, log>>

NoReq == "none"
NoKey == <<"none">>
EnvKey(q) == <<"env", q>>        \* the caller's
GenKey(r, n) == <<"gen", r, n>>  \* synthesised by the run, after n attempts

Keys == {NoKey} \cup {EnvKey(q) : q \in Reqs}
        \cup {GenKey(r, n) : r \in Runs, n \in 0..MaxRetries}

\* A run has replied, with the body or with an error, or its process died.
Ended == {"done", "failed", "dead"}
Emitting == {"post", "wait", "backoff"}

Init ==
    /\ pc = [r \in Runs |-> "idle"]
    /\ req = [r \in Runs |-> NoReq]
    /\ told = [r \in Runs |-> FALSE]
    /\ key = [r \in Runs |-> NoKey]
    /\ attempt = [r \in Runs |-> 0]
    /\ resp = [r \in Runs |-> "none"]
    /\ expired = [r \in Runs |-> FALSE]
    /\ wire = {} /\ log = {}

Goto(r, label) == pc' = [pc EXCEPT ![r] = label]

-----------------------------------------------------------------------------
(* The handler.                                                            *)

\* buildExecuteHandler: an envelope without an operation in the table fails.
Execute(r) ==
    /\ pc[r] = "idle"
    /\ \E q \in Reqs :
        /\ req' = [req EXCEPT ![r] = q]
        /\ Goto(r, IF q \in Known THEN "call" ELSE "failed")
    /\ UNCHANGED <<told, key, expired, postVars, log>>

\* Mutant: the event is emitted whatever the reconciler returned.
ReconcileUnchecked(r) ==
    /\ pc[r] = "call"
    /\ \/ told' = [told EXCEPT ![r] = TRUE]
       \/ UNCHANGED told
    /\ Goto(r, IF req[r] \in Observes THEN "done" ELSE "emit")
    /\ UNCHANGED <<req, key, expired, postVars, log>>

\* The reconciler returns: an error (of its own, or because the input cannot be
\* parsed), or success.  What Ensure observed, json.Marshal may still refuse.
\* Observe emits nothing.
Reconcile(r) ==
    /\ pc[r] = "call"
    /\ \/ Goto(r, "failed") /\ UNCHANGED told
       \/ /\ told' = [told EXCEPT ![r] = TRUE]
          /\ \/ Goto(r, IF req[r] \in Observes THEN "done" ELSE "emit")
             \/ req[r] \in Ensures \cup Observes /\ Goto(r, "failed")
    /\ UNCHANGED <<req, key, expired, postVars, log>>

\* Mutant: the key of the envelope is not forwarded.
EmitIgnoresKey(r) ==
    /\ pc[r] = "emit"
    /\ IF req[r] \in WithEmitter
       THEN key' = [key EXCEPT ![r] = GenKey(r, 0)] /\ Goto(r, "post")
       ELSE Goto(r, "done") /\ UNCHANGED key
    /\ UNCHANGED <<req, told, expired, postVars, log>>

\* emitContext.emit: the caller's key or a synthesised one, fixed for all
\* attempts.  A synthesised key holds the time and is taken to be new.  The
\* emitter's json.Marshal may refuse what destroy observed, a text it made with
\* Go's %q.
Emit(r) ==
    /\ pc[r] = "emit"
    /\ IF req[r] \in WithEmitter
       THEN /\ key' = [key EXCEPT ![r] =
                        IF req[r] \in Keyed THEN EnvKey(req[r]) ELSE GenKey(r, 0)]
            /\ \/ Goto(r, "post")
               \/ req[r] \notin Ensures /\ Goto(r, "done")
       ELSE Goto(r, "done") /\ UNCHANGED key
    /\ UNCHANGED <<req, told, expired, postVars, log>>

-----------------------------------------------------------------------------
(* httpEmitter.Emit.                                                       *)

Event(r) == [run |-> r, req |-> req[r], key |-> key[r], attempt |-> attempt[r] + 1]

\* Mutant: every attempt synthesises its key anew.
PostNewKey(r) ==
    /\ pc[r] = "post"
    /\ wire' = IF expired[r] THEN wire ELSE wire \cup
                 {[Event(r) EXCEPT !.key = IF req[r] \in Keyed THEN @
                                           ELSE GenKey(r, attempt[r])]}
    /\ attempt' = [attempt EXCEPT ![r] = @ + 1]
    /\ Goto(r, "wait")
    /\ UNCHANGED <<runVars, resp, log>>

\* client.Do sends the request, unless the context is done already.
Post(r) ==
    /\ pc[r] = "post"
    /\ wire' = IF expired[r] THEN wire ELSE wire \cup {Event(r)}
    /\ attempt' = [attempt EXCEPT ![r] = @ + 1]
    /\ Goto(r, "wait")
    /\ UNCHANGED <<runVars, resp, log>>

\* attempt < h.maxRetries ends the loop.
Exhausted(r) == attempt[r] = MaxRetries

\* Mutant: what the emitter returns becomes the result of the call.
AnswerBubbles(r) ==
    /\ pc[r] = "wait" /\ resp[r] # "none"
    /\ Goto(r, CASE resp[r] = "2xx" -> "done"
                 [] resp[r] = "4xx" -> "failed"
                 [] OTHER -> IF Exhausted(r) THEN "failed" ELSE "backoff")
    /\ resp' = [resp EXCEPT ![r] = "none"]
    /\ UNCHANGED <<runVars, attempt, wire, log>>

\* The response: 2xx and 4xx end Emit, the rest is tried again.  emit swallows
\* the error, and the handler returns its body.
Answer(r) ==
    /\ pc[r] = "wait" /\ resp[r] # "none"
    /\ Goto(r, IF resp[r] = "5xx" /\ ~Exhausted(r) THEN "backoff" ELSE "done")
    /\ resp' = [resp EXCEPT ![r] = "none"]
    /\ UNCHANGED <<runVars, attempt, wire, log>>

\* No response: client.Do fails after the client's timeout, with the connection,
\* or with the context, and only the context ends the loop at once.  The POST
\* may have reached the core, or reach it yet.
DoFails(r) ==
    /\ pc[r] = "wait"
    /\ Goto(r, IF expired[r] \/ Exhausted(r) THEN "done" ELSE "backoff")
    /\ resp' = [resp EXCEPT ![r] = "none"]
    /\ UNCHANGED <<runVars, attempt, wire, log>>

\* Mutant: an attempt that failed is forgotten.
BackoffForgets(r) ==
    /\ pc[r] = "backoff"
    /\ IF expired[r] THEN Goto(r, "done") /\ UNCHANGED attempt
       ELSE Goto(r, "post") /\ attempt' = [attempt EXCEPT ![r] = @ - 1]
    /\ UNCHANGED <<runVars, resp, wire, log>>

\* The pause between attempts, cut short by the context.
Backoff(r) ==
    /\ pc[r] = "backoff"
    /\ \/ expired[r] /\ Goto(r, "done")
       \/ Goto(r, "post")
    /\ UNCHANGED <<runVars, postVars, log>>

-----------------------------------------------------------------------------
(* Around the handler.                                                     *)

\* The deadline that the transport set for the handler passes.
Expire(r) ==
    /\ pc[r] \notin Ended \cup {"idle"} /\ ~expired[r]
    /\ expired' = [expired EXCEPT ![r] = TRUE]
    /\ UNCHANGED <<pc, req, told, key, postVars, log>>

\* The process of the run dies.
Crash(r) ==
    /\ pc[r] \notin Ended \cup {"idle"}
    /\ Goto(r, "dead")
    /\ UNCHANGED <<runVars, postVars, log>>

\* POST /api/v1/events in the core: an answer counts only while its POST is
\* waited for.  The core may also fail, before or after it stored the row.
CoreHandles(e) ==
    /\ e \in wire
    /\ wire' = wire \ {e}
    /\ LET known == \E row \in log : row.key = e.key
           valid == e.req \notin Nameless
           stored == IF known THEN log ELSE log \cup {e}
           answers(status) ==
             resp' = IF pc[e.run] = "wait" /\ attempt[e.run] = e.attempt
                     THEN [resp EXCEPT ![e.run] = status] ELSE resp
       IN \/ valid /\ log' = stored /\ (answers("2xx") \/ answers("5xx") \/ UNCHANGED resp)
          \/ ~valid /\ answers("4xx") /\ UNCHANGED log
          \/ answers("5xx") /\ UNCHANGED log
          \/ UNCHANGED <<resp, log>>
    /\ UNCHANGED <<pc, runVars, attempt>>

-----------------------------------------------------------------------------
RunStep(r) ==
    \/ Reconcile(r) \/ Emit(r) \/ Post(r)
    \/ Answer(r) \/ DoFails(r) \/ Backoff(r)

Next ==
    \/ \E r \in Runs : Execute(r) \/ RunStep(r) \/ Expire(r) \/ Crash(r)
    \/ \E e \in wire : CoreHandles(e)

Spec == Init /\ [][Next]_vars

\* Runs go on; reconcilers return, and client.Do does within its timeout.  The
\* core owes nothing.
FairSpec == Spec /\ \A r \in Runs : WF_vars(RunStep(r))

-----------------------------------------------------------------------------
(* Properties.                                                             *)

Events == [run : Runs, req : Reqs, key : Keys, attempt : 1..MaxRetries]

\* Type invariant; an event has at most MaxRetries attempts.
TypeOK ==
    /\ pc \in [Runs -> {"idle", "call", "emit"} \cup Emitting \cup Ended]
    /\ req \in [Runs -> Reqs \cup {NoReq}]
    /\ told \in [Runs -> BOOLEAN]
    /\ key \in [Runs -> Keys]
    /\ attempt \in [Runs -> 0..MaxRetries]
    /\ resp \in [Runs -> {"none", "2xx", "4xx", "5xx"}]
    /\ expired \in [Runs -> BOOLEAN]
    /\ wire \subseteq Events /\ log \subseteq Events

\* The rows implement EventLog: each stands for an ensure or a destroy whose
\* reconciler reported success, and neither the emitter's retries nor another
\* delivery of a request with a key add a second one.
Log == INSTANCE EventLog WITH
          facts <- {[run |-> r, req |-> req[r]] : r \in {s \in Runs :
                        told[s] /\ req[s] \in Known \ Observes}},
          rows <- log
KeepsLog == Log!Spec

\* The retries of one Emit leave one row at most, though each of them may reach
\* the core, in any order and after the emitter gave up.
OneRowPerRun ==
    \A r \in Runs : Cardinality({row \in log : row.run = r}) <= 1

\* A request with an idempotency key leaves one row at most, however often it is
\* delivered, by whichever run.
OneRowPerKeyedRequest ==
    \A q \in Keyed : Cardinality({row \in log : row.req = q}) <= 1

\* Once the event is being emitted the call can only succeed: what becomes of
\* the event does not change the reply.
EmissionNeverFailsCall ==
    [][\A r \in Runs : pc[r] \in Emitting => pc'[r] # "failed"]_vars

\* Every run ends, whatever the core does, in at most MaxRetries attempts.
RunsEnd == \A r \in Runs : pc[r] # "idle" ~> pc[r] \in Ended

\* The health of the event bus costs a run no time: none that has its reply
\* ready sleeps because the bus failed.
LatencyIndependent == \A r \in Runs : pc[r] # "backoff"

=============================================================================
