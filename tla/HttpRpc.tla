------------------------------- MODULE HttpRpc -------------------------------
(***************************************************************************)
(* The HTTP transport: clients that POST requests to one endpoint, the     *)
(* subscription that serves it with a semaphore of Concurrency slots, and  *)
(* the closing of subscription and transport.  A request is served on a    *)
(* goroutine of net/http, and the client may leave at any time: it times   *)
(* out, or the connection breaks.                                          *)
(*                                                                         *)
(* The subscription's rpc.Handler is arbitrary code.  For the requests in  *)
(* Wrapped it does what adapter.wrap does around a plugin's handler (all of *)
(* them, when an Adapter consumes); for the others it replies, nacks and   *)
(* returns as it likes.                                                    *)
(***************************************************************************)
EXTENDS Integers, Sequences, FiniteSets

CONSTANTS
    Reqs,         \* requests
    Concurrency,  \* ConsumerConfig.Concurrency
    Wrapped       \* the requests handled through adapter.wrap

ASSUME HttpAssumption ==
    /\ IsFiniteSet(Reqs)
    /\ Concurrency \in Nat \ {0}
    /\ Wrapped \subseteq Reqs

VARIABLES
    route,    \* Consume: "none", "mux" once routed, "listed" once in t.subs
    subs,     \* the subscription is in t.subs
    shut,     \* subscription.closed
    tclose,   \* Transport.Close: "open", "marked", "taken", "closed"
    taken,    \* the subscription is in Close's snapshot
    sem,      \* tokens in the subscription's semaphore
    srv,      \* server side of each request
    replied,  \* serveHTTP's local variable
    writes,   \* responses written to the ResponseWriter, in order
    result,   \* what the handler returned
    client,   \* client side of each request
    late      \* the deadline of the request has passed

lifeVars == <<route, subs, shut, tclose, taken>>
srvVars == <<sem, srv, replied, writes, result>>
clientVars == <<client, late>>
vars == <<lifeVars, srvVars, clientVars>>

\* "queued" waits for a slot; "body" has one and reads the request; "ack",
\* "nack" and "requeue" are what wrap does after its reply.
SrvLabels == {"none", "queued", "body", "run", "returned", "ack", "nack",
              "requeue", "end"}

\* What a client ends with: the reply, one of the errors of Request.
Outcomes == {"reply", "remote", "unknown", "timeout", "failed"}
ClientLabels == {"idle", "waiting", "reading"} \cup Outcomes

Gone(r) == client[r] \in Outcomes

InHandler == {"run", "returned", "ack", "nack", "requeue"}
Serving == {r \in Reqs : srv[r] \in InHandler}

Init ==
    /\ route = "none" /\ subs = FALSE /\ shut = FALSE
    /\ tclose = "open" /\ taken = FALSE
    /\ sem = 0
    /\ srv = [r \in Reqs |-> "none"]
    /\ replied = [r \in Reqs |-> FALSE]
    /\ writes = [r \in Reqs |-> <<>>]
    /\ result = [r \in Reqs |-> "none"]
    /\ client = [r \in Reqs |-> "idle"]
    /\ late = [r \in Reqs |-> FALSE]

-----------------------------------------------------------------------------
(* Consume and Close.                                                      *)

\* t.Mux.HandleFunc
ConsumeRoute ==
    /\ route = "none"
    /\ route' = "mux"
    /\ UNCHANGED <<subs, shut, tclose, taken, srvVars, clientVars>>

\* t.subs = append(t.subs, sub)
ConsumeList ==
    /\ route = "mux"
    /\ route' = "listed"
    /\ subs' = TRUE
    /\ UNCHANGED <<shut, tclose, taken, srvVars, clientVars>>

\* subscription.Close, called by whoever holds the subscription.
SubClose ==
    /\ route = "listed"
    /\ ~shut
    /\ shut' = TRUE
    /\ UNCHANGED <<route, subs, tclose, taken, srvVars, clientVars>>

CloseMark ==
    /\ tclose = "open"
    /\ tclose' = "marked"
    /\ UNCHANGED <<route, subs, shut, taken, srvVars, clientVars>>

CloseTake ==
    /\ tclose = "marked"
    /\ tclose' = "taken"
    /\ taken' = subs
    /\ subs' = FALSE
    /\ UNCHANGED <<route, shut, srvVars, clientVars>>

CloseSubs ==
    /\ tclose = "taken"
    /\ tclose' = "closed"
    /\ shut' = (shut \/ taken)
    /\ UNCHANGED <<route, subs, taken, srvVars, clientVars>>

-----------------------------------------------------------------------------
(* serveHTTP.                                                              *)

At(r, label) == srv' = [srv EXCEPT ![r] = label]

\* The first write sends the header with its status; a later one would only
\* add to the body.
Respond(r, status) == writes' = [writes EXCEPT ![r] = Append(@, status)]

\* The request arrives: unknown route, closed subscription, or the queue.
Arrive(r) ==
    /\ client[r] = "waiting" /\ srv[r] = "none"
    /\ IF route = "none" THEN At(r, "end") /\ Respond(r, 404)
       ELSE IF shut THEN At(r, "end") /\ Respond(r, 503)
       ELSE At(r, "queued") /\ UNCHANGED writes
    /\ UNCHANGED <<lifeVars, sem, replied, result, clientVars>>

\* Mutant: the semaphore has one slot too many.
AcquireOneMore(r) ==
    /\ srv[r] = "queued"
    /\ sem < Concurrency + 1
    /\ sem' = sem + 1
    /\ At(r, "body")
    /\ UNCHANGED <<lifeVars, replied, writes, result, clientVars>>

\* case s.sem <- struct{}{}
Acquire(r) ==
    /\ srv[r] = "queued"
    /\ sem < Concurrency
    /\ sem' = sem + 1
    /\ At(r, "body")
    /\ UNCHANGED <<lifeVars, replied, writes, result, clientVars>>

\* case <-r.Context().Done()
Cancelled(r) ==
    /\ srv[r] = "queued"
    /\ Gone(r)
    /\ At(r, "end") /\ Respond(r, 503)
    /\ UNCHANGED <<lifeVars, sem, replied, result, clientVars>>

\* io.ReadAll(r.Body) fails only when the client has gone, and need not return
\* before: there is no read timeout.
ReadBody(r) ==
    /\ srv[r] = "body"
    /\ \/ At(r, "run") /\ UNCHANGED <<sem, writes>>
       \/ Gone(r) /\ At(r, "end") /\ Respond(r, 400) /\ sem' = sem - 1
    /\ UNCHANGED <<lifeVars, replied, result, clientVars>>

\* The plugin's handler returns to wrap.
HandlerReturns(r) ==
    /\ r \in Wrapped
    /\ srv[r] = "run"
    /\ \E v \in {"ok", "err"} : result' = [result EXCEPT ![r] = v]
    /\ At(r, "returned")
    /\ UNCHANGED <<lifeVars, sem, replied, writes, clientVars>>

\* Reply and Nack answer once; the second of them does nothing.
Once(r, status) ==
    IF replied[r] THEN UNCHANGED <<replied, writes>>
    ELSE Respond(r, status) /\ replied' = [replied EXCEPT ![r] = TRUE]

\* Mutant: Nack forgets to look whether there was a reply.
NackAlways(r) ==
    /\ srv[r] \in {"nack", "requeue"}
    /\ Respond(r, IF srv[r] = "nack" THEN 500 ELSE 503)
    /\ At(r, "end") /\ sem' = sem - 1
    /\ UNCHANGED <<lifeVars, replied, result, clientVars>>

\* Mutant: the slot is given back only after success.
NackKeepsSlot(r) ==
    /\ srv[r] \in {"nack", "requeue"}
    /\ Once(r, IF srv[r] = "nack" THEN 500 ELSE 503)
    /\ At(r, "end")
    /\ UNCHANGED <<lifeVars, sem, result, clientVars>>

\* Mutant: a reply that could not be written does not count as one.
WrapReplyRetracts(r) ==
    /\ srv[r] = "returned"
    /\ \/ /\ Once(r, 200)
          /\ At(r, IF result[r] = "ok" THEN "ack" ELSE "nack")
       \/ /\ Gone(r) /\ result[r] = "ok" /\ At(r, "requeue")
          /\ UNCHANGED <<replied, writes>>
    /\ UNCHANGED <<lifeVars, sem, result, clientVars>>

\* wrap replies, with the body or with the error envelope.  The write can fail
\* when the client has gone; replied is set either way.
WrapReply(r) ==
    /\ srv[r] = "returned"
    /\ Once(r, 200)
    /\ \/ At(r, IF result[r] = "ok" THEN "ack" ELSE "nack")
       \/ Gone(r) /\ result[r] = "ok" /\ At(r, "requeue")
    /\ UNCHANGED <<lifeVars, sem, result, clientVars>>

\* d.Ack does nothing; serveHTTP ends, and the deferred <-s.sem runs.
WrapAck(r) ==
    /\ srv[r] = "ack"
    /\ At(r, "end") /\ sem' = sem - 1
    /\ UNCHANGED <<lifeVars, replied, writes, result, clientVars>>

\* d.Nack(false) or d.Nack(true)
WrapNack(r) ==
    /\ srv[r] \in {"nack", "requeue"}
    /\ Once(r, IF srv[r] = "nack" THEN 500 ELSE 503)
    /\ At(r, "end") /\ sem' = sem - 1
    /\ UNCHANGED <<lifeVars, result, clientVars>>

\* A bare handler replies or nacks.
RawAnswer(r) ==
    /\ r \notin Wrapped
    /\ srv[r] = "run"
    /\ \E status \in {200, 500, 503} : Once(r, status)
    /\ UNCHANGED <<lifeVars, sem, srv, result, clientVars>>

\* A bare handler returns; serveHTTP answers if it did not.
RawReturns(r) ==
    /\ r \notin Wrapped
    /\ srv[r] = "run"
    /\ \E v \in {"ok", "err"} :
        /\ result' = [result EXCEPT ![r] = v]
        /\ Once(r, IF v = "ok" THEN 200 ELSE 500)
    /\ At(r, "end") /\ sem' = sem - 1
    /\ UNCHANGED <<lifeVars, clientVars>>

-----------------------------------------------------------------------------
(* Request.                                                                *)

Ends(r, outcome) == client' = [client EXCEPT ![r] = outcome]

Request(r) ==
    /\ client[r] = "idle"
    /\ Ends(r, "waiting")
    /\ UNCHANGED <<lifeVars, srvVars, late>>

\* Client.Do returns: the header of the response is there.
ResponseHeader(r) ==
    /\ client[r] = "waiting"
    /\ writes[r] # <<>>
    /\ Ends(r, "reading")
    /\ UNCHANGED <<lifeVars, srvVars, late>>

\* Mutant: only a server error is taken for an error.
ResponseBodyTrusts(r) ==
    /\ client[r] = "reading"
    /\ srv[r] = "end"
    /\ Ends(r, IF Head(writes[r]) >= 500 THEN "remote" ELSE "reply")
    /\ UNCHANGED <<lifeVars, srvVars, late>>

\* io.ReadAll returns; the status decides.
ResponseBody(r) ==
    /\ client[r] = "reading"
    /\ srv[r] = "end"
    /\ LET status == Head(writes[r]) IN
        Ends(r, IF status = 404 THEN "unknown"
                ELSE IF status >= 400 THEN "remote" ELSE "reply")
    /\ UNCHANGED <<lifeVars, srvVars, late>>

\* The context's deadline: Client.Do reports it, io.ReadAll only fails.
Deadline(r) ==
    /\ client[r] \in {"waiting", "reading"}
    /\ late' = [late EXCEPT ![r] = TRUE]
    /\ Ends(r, IF client[r] = "waiting" THEN "timeout" ELSE "failed")
    /\ UNCHANGED <<lifeVars, srvVars>>

\* The connection breaks.
ConnectionLost(r) ==
    /\ client[r] \in {"waiting", "reading"}
    /\ Ends(r, "failed")
    /\ UNCHANGED <<lifeVars, srvVars, late>>

-----------------------------------------------------------------------------
Handle(r) ==
    \/ HandlerReturns(r) \/ WrapReply(r) \/ WrapAck(r) \/ WrapNack(r)
    \/ RawReturns(r)

Next ==
    \/ ConsumeRoute \/ ConsumeList \/ SubClose
    \/ CloseMark \/ CloseTake \/ CloseSubs
    \/ \E r \in Reqs :
        \/ Request(r) \/ Arrive(r) \/ Acquire(r) \/ Cancelled(r) \/ ReadBody(r)
        \/ Handle(r) \/ RawAnswer(r)
        \/ ResponseHeader(r) \/ ResponseBody(r) \/ Deadline(r) \/ ConnectionLost(r)

Spec == Init /\ [][Next]_vars

\* Goroutines run on, handlers return, and a channel send is served in turn.  The
\* read of a body ends once the client has gone; when a live one sends all of it
\* is up to the client.
Fairness ==
    \A r \in Reqs :
        /\ SF_vars(Acquire(r))
        /\ WF_vars((Gone(r) /\ ReadBody(r)) \/ Handle(r))

FairSpec == Spec /\ Fairness

-----------------------------------------------------------------------------
(* Properties.                                                             *)

\* Type invariant.
TypeOK ==
    /\ route \in {"none", "mux", "listed"}
    /\ subs \in BOOLEAN /\ shut \in BOOLEAN /\ taken \in BOOLEAN
    /\ tclose \in {"open", "marked", "taken", "closed"}
    /\ sem \in 0..Concurrency
    /\ srv \in [Reqs -> SrvLabels]
    /\ replied \in [Reqs -> BOOLEAN]
    /\ writes \in [Reqs -> Seq({200, 400, 404, 500, 503})]
    /\ result \in [Reqs -> {"none", "ok", "err"}]
    /\ client \in [Reqs -> ClientLabels]
    /\ late \in [Reqs -> BOOLEAN]

\* No more than Concurrency handlers run, whichever way requests end: every
\* path out of serveHTTP gives back exactly the slot it took.
HandlersBounded == Cardinality(Serving) <= Concurrency

\* A response is written once: what Reply, Nack and serveHTTP itself write for
\* one request never runs together in one body.
OneResponse == \A r \in Reqs : Len(writes[r]) <= 1

\* A client of an adapter that is told 404 or 503 may send the request again:
\* its handler has not run.
RefusedNotRun ==
    \A r \in Wrapped :
        writes[r] # <<>> /\ Head(writes[r]) \in {404, 503} => result[r] = "none"

\* A call over HTTP implements AtMostOnce, whoever leaves or closes when.
Call == INSTANCE AtMostOnce WITH
           Pending <- "pending", Reply <- "reply", Unknown <- "unknown",
           Errors <- Outcomes \ {"reply", "unknown"},
           ran <- {r \in Reqs : result[r] # "none"},
           outcome <- [r \in Reqs |-> IF Gone(r) THEN client[r] ELSE "pending"]
CallsAtMostOnce == Call!Spec

\* The slots in use are those of the goroutines between Acquire and the end.
Holders == {r \in Reqs : srv[r] \in InHandler \cup {"body"}}

\* Where serveHTTP is tells what it has written.
WrittenOK(r) ==
    /\ srv[r] \in {"none", "queued", "body", "run", "returned"} =>
        /\ replied[r] => Len(writes[r]) = 1
        /\ ~replied[r] => writes[r] = <<>>
    /\ srv[r] \in {"none", "queued", "body"} => ~replied[r]
    /\ srv[r] \in {"none", "queued", "body", "run"} => result[r] = "none"
    /\ srv[r] \in {"returned", "ack", "nack", "requeue"} => r \in Wrapped
    /\ r \in Wrapped /\ srv[r] \in {"run", "returned"} => ~replied[r]
    /\ srv[r] \in {"ack", "nack", "requeue"} => replied[r] /\ writes[r] = <<200>>

WrittenInv == \A r \in Reqs : WrittenOK(r)

\* Why HandlersBounded, OneResponse and RefusedNotRun hold: the semaphore
\* counts the goroutines that hold a slot, and replied tells the truth.
HttpInv ==
    /\ sem = Cardinality(Holders)
    /\ WrittenInv /\ OneResponse /\ RefusedNotRun

\* A client that is there and has not sent all of its body: it holds a slot.
Stalling(r) == srv[r] = "body" /\ ~Gone(r)

\* Unless a live client stalls in the middle of its body for ever, a request that
\* waits for a slot gets one or is given up, however the requests that hold the
\* slots end: answered, failed, nacked, or left by their clients.
SlotsComeBack ==
    (\A q \in Reqs : []<>(~Stalling(q))) =>
        \A r \in Reqs : srv[r] = "queued" ~> srv[r] # "queued"

\* Once Close of the subscription has returned no handler starts.
NoStartAfterClose ==
    [][\A r \in Reqs : srv[r] # "run" /\ srv'[r] = "run" => ~shut]_vars

\* After Close the operations of the transport fail: no Consume, earlier, at the
\* same time or later, leaves an endpoint that is still served.
ClosedNotServed == tclose = "closed" /\ route = "listed" => shut

\* A client whose request was nacked sees the failure as a status.
NackVisible ==
    \A r \in Reqs : result[r] = "err" /\ srv[r] = "end" => Head(writes[r]) = 500

\* A request that ends because of its deadline ends with ErrTimeout.
DeadlineReported == \A r \in Reqs : late[r] => client[r] = "timeout"

=============================================================================
