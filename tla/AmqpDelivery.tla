---------------------------- MODULE AmqpDelivery ----------------------------
(***************************************************************************)
(* What happens to the messages of one endpoint: the broker's queue, the   *)
(* consumer channel of one subscription, deliverLoop with a goroutine per  *)
(* delivery, and adapter.wrap, which turns a handler's result into a reply *)
(* and an acknowledgement.  AmqpTransport describes how the channel comes  *)
(* and goes; here a channel is lost and re-bound, and channels are         *)
(* numbered by epoch.                                                      *)
(*                                                                         *)
(* Reply and Ack/Nack write frames and return before the broker has seen   *)
(* them; the frames of one channel arrive in order, or not at all once the *)
(* channel is lost.  A handler that outlives its channel replies on the    *)
(* new one but can settle only on its own.                                 *)
(***************************************************************************)
EXTENDS Integers, Sequences, FiniteSets

CONSTANTS
    Msgs,         \* requests waiting in the endpoint's queue
    Rpc,          \* those that carry a reply_to
    Deliveries,   \* identities of deliveries (tag and goroutine)
    Concurrency,  \* ConsumerConfig.Concurrency
    MaxLosses,    \* bound: channel losses
    NoMsg         \* "no message"

ASSUME DeliveryAssumption ==
    /\ Rpc \subseteq Msgs
    /\ NoMsg \notin Msgs
    /\ Concurrency \in Nat \ {0}
    /\ MaxLosses \in Nat

VARIABLES
    ready,     \* broker: messages ready for delivery
    held,      \* broker: the message of each unsettled tag of the open channel
    gone,      \* broker: messages acknowledged or discarded
    answered,  \* broker: requests for which a reply reached the reply queue
    wire,      \* frames on the open channel that the broker has not handled
    chOpen,    \* the subscription's channel is open
    epoch,     \* how many channels this subscription has had
    loop,      \* runWithReconnect: in deliverLoop, re-binding or ended
    closed,    \* subscription.Close: "no", "closing" until done is closed
    pc,        \* where each delivery is
    msg,       \* its message
    epo,       \* the epoch of the channel that delivered it
    execs,     \* how often the handler ran for a request, up to ExecCap
    losses     \* channel losses so far

brokerVars == <<ready, held, gone, answered>>
chanVars == <<chOpen, epoch, loop, closed, losses>>
vars == <<brokerVars, wire, chanVars, pc, msg, epo, execs>>

ExecCap == MaxLosses + 3

\* "picked" is the delivery deliverLoop holds while it waits for the semaphore;
\* "late" is a handler whose context has expired.
Labels == {"free", "buffered", "picked", "run", "late", "ok", "err",
           "ack", "requeue", "discard", "done"}

Holding == {"run", "late", "ok", "err", "ack", "requeue", "discard", "done"}

Frames ==
    [kind : {"reply", "ack", "requeue", "discard"}, d : Deliveries, m : Msgs]

Frame(k, d) == [kind |-> k, d |-> d, m |-> msg[d]]

\* The tags the broker waits for.
Unacked == {d \in Deliveries : held[d] # NoMsg}

\* Goroutines that hold a slot of the current deliverLoop's semaphore.
InSem == {d \in Deliveries : pc[d] \in Holding /\ epo[d] = epoch}

\* Handlers that are running, whatever loop started them.
Running == {d \in Deliveries : pc[d] \in {"run", "late"}}

Init ==
    /\ ready = Msgs
    /\ held = [d \in Deliveries |-> NoMsg]
    /\ gone = {} /\ answered = {}
    /\ wire = <<>>
    /\ chOpen = TRUE /\ epoch = 1 /\ loop = "deliver"
    /\ closed = "no" /\ losses = 0
    /\ pc = [d \in Deliveries |-> "free"]
    /\ msg = [d \in Deliveries |-> NoMsg]
    /\ epo = [d \in Deliveries |-> 0]
    /\ execs = [m \in Msgs |-> 0]

Goto(d, label) == pc' = [pc EXCEPT ![d] = label]

\* The delivery goes out of scope.
Free(d) ==
    /\ Goto(d, "free")
    /\ msg' = [msg EXCEPT ![d] = NoMsg]
    /\ epo' = [epo EXCEPT ![d] = 0]

-----------------------------------------------------------------------------
(* The broker and the client library, from how deliverLoop uses them.      *)

\* basic.deliver within the prefetch limit that setupConsumer's Qos set.
Deliver(d, m) ==
    /\ chOpen
    /\ m \in ready
    /\ pc[d] = "free" /\ held[d] = NoMsg
    /\ Cardinality(Unacked) < Concurrency
    /\ ready' = ready \ {m}
    /\ held' = [held EXCEPT ![d] = m]
    /\ msg' = [msg EXCEPT ![d] = m]
    /\ epo' = [epo EXCEPT ![d] = epoch]
    /\ Goto(d, "buffered")
    /\ UNCHANGED <<gone, answered, wire, chanVars, execs>>

\* The broker handles the next frame of the channel.
BrokerReceive ==
    /\ wire # <<>>
    /\ wire' = Tail(wire)
    /\ LET f == Head(wire) IN
        \/ /\ f.kind = "reply"
           /\ answered' = answered \cup {f.m}
           /\ UNCHANGED <<ready, held, gone>>
        \/ /\ f.kind \in {"ack", "discard"}
           /\ held' = [held EXCEPT ![f.d] = NoMsg]
           /\ gone' = gone \cup {f.m}
           /\ UNCHANGED <<ready, answered>>
        \/ /\ f.kind = "requeue"
           /\ held' = [held EXCEPT ![f.d] = NoMsg]
           /\ ready' = ready \cup {f.m}
           /\ UNCHANGED <<gone, answered>>
    /\ UNCHANGED <<chanVars, pc, msg, epo, execs>>

\* The channel ends: frames under way are lost, what was not settled is ready
\* again.
ChannelEnds ==
    /\ chOpen
    /\ chOpen' = FALSE
    /\ wire' = <<>>
    /\ ready' = ready \cup {held[d] : d \in Unacked}
    /\ held' = [d \in Deliveries |-> NoMsg]

ChannelLost ==
    /\ losses < MaxLosses
    /\ ChannelEnds
    /\ losses' = losses + 1
    /\ UNCHANGED <<gone, answered, epoch, loop, closed, pc, msg, epo, execs>>

\* A delivery of a lost channel that deliverLoop had not received is dropped.
DropBuffered(d) ==
    /\ pc[d] = "buffered"
    /\ ~chOpen
    /\ Free(d)
    /\ UNCHANGED <<brokerVars, wire, chanVars, execs>>

-----------------------------------------------------------------------------
(* The subscription.                                                       *)

\* runWithReconnect looks at done: when deliverLoop returns, its channel at an
\* end and its deliveries received, and again between attempts to re-bind.
LoopChecksDone ==
    /\ \/ /\ loop = "deliver" /\ ~chOpen
          /\ \A d \in Deliveries : pc[d] \notin {"buffered", "picked"}
       \/ loop = "retry" /\ closed = "closed"
    /\ loop' = IF closed = "closed" THEN "exit" ELSE "retry"
    /\ UNCHANGED <<brokerVars, wire, chOpen, epoch, closed, losses, pc, msg, epo,
                   execs>>

\* setupConsumer and swapChannel succeed, without another look at done: Close
\* may be under way or have returned.  The next deliverLoop starts with a
\* semaphore of its own.
Rebind ==
    /\ loop = "retry"
    /\ loop' = "deliver"
    /\ chOpen' = TRUE
    /\ epoch' = epoch + 1
    /\ UNCHANGED <<brokerVars, wire, closed, losses, pc, msg, epo, execs>>

\* subscription.Close, first half: ends the channel it finds.  That it found
\* one that has been swapped since is the second disjunct, at an earlier time.
SubClose ==
    /\ closed = "no"
    /\ closed' = "closing"
    /\ \/ ChannelEnds
       \/ ~chOpen /\ UNCHANGED <<chOpen, wire, ready, held>>
    /\ UNCHANGED <<gone, answered, epoch, loop, losses, pc, msg, epo, execs>>

\* Second half: close(s.done), and Close returns.
SubCloseDone ==
    /\ closed = "closing"
    /\ closed' = "closed"
    /\ UNCHANGED <<brokerVars, wire, chOpen, epoch, loop, losses, pc, msg, epo,
                   execs>>

\* for raw := range deliveries
Pick(d) ==
    /\ pc[d] = "buffered"
    /\ \A e \in Deliveries : pc[e] # "picked"
    /\ Goto(d, "picked")
    /\ UNCHANGED <<brokerVars, wire, chanVars, msg, epo, execs>>

\* sem <- struct{}{}; go func() { ... handler(ctx, d) ... }
StartHandler(d) ==
    /\ pc[d] = "picked"
    /\ Cardinality(InSem) < Concurrency
    /\ Goto(d, "run")
    /\ execs' = [execs EXCEPT ![msg[d]] = IF @ < ExecCap THEN @ + 1 ELSE @]
    /\ UNCHANGED <<brokerVars, wire, chanVars, msg, epo>>

\* The handler's context reaches cfg.Timeout.
HandlerTimeout(d) ==
    /\ pc[d] = "run"
    /\ Goto(d, "late")
    /\ UNCHANGED <<brokerVars, wire, chanVars, msg, epo, execs>>

HandlerReturns(d) ==
    /\ pc[d] \in {"run", "late"}
    /\ Goto(d, "ok") \/ Goto(d, "err")
    /\ UNCHANGED <<brokerVars, wire, chanVars, msg, epo, execs>>

\* d.Reply succeeds: there is a reply_to, and the subscription's current
\* channel, whichever it is, takes the frame.
CanReply(d) == msg[d] \in Rpc /\ chOpen

\* Mutant: wrap settles first and replies afterwards.
SettleBeforeReply(d) ==
    /\ pc[d] \in {"ok", "err"}
    /\ Goto(d, "done")
    /\ wire' = IF CanReply(d) /\ epo[d] = epoch
               THEN wire \o <<Frame("ack", d), Frame("reply", d)>> ELSE wire
    /\ UNCHANGED <<brokerVars, chanVars, msg, epo, execs>>

\* Mutant: wrap asks for a redelivery after a handler error.
RequeueOnError(d) ==
    /\ \/ pc[d] = "ok" /\ Goto(d, "ack")
       \/ pc[d] = "err" /\ Goto(d, "requeue")
    /\ wire' = IF CanReply(d) THEN Append(wire, Frame("reply", d)) ELSE wire
    /\ UNCHANGED <<brokerVars, chanVars, msg, epo, execs>>

\* wrap, first half: the reply.  After a handler error it is best effort.
Reply(d) ==
    /\ \/ /\ pc[d] = "ok"
          /\ Goto(d, IF CanReply(d) THEN "ack" ELSE "requeue")
       \/ pc[d] = "err" /\ Goto(d, "discard")
    /\ wire' = IF CanReply(d) THEN Append(wire, Frame("reply", d)) ELSE wire
    /\ UNCHANGED <<brokerVars, chanVars, msg, epo, execs>>

\* raw.Ack / raw.Nack reach the channel the delivery came from, if it lives.
CanSettle(d) == chOpen /\ epo[d] = epoch

\* Mutant: without settleOnce deliverLoop's fallback settles again.
SettleTwice(d) ==
    /\ pc[d] \in {"ack", "requeue", "discard"}
    /\ wire' = IF CanSettle(d)
               THEN wire \o <<Frame(pc[d], d), Frame("ack", d)>> ELSE wire
    /\ Goto(d, "done")
    /\ UNCHANGED <<brokerVars, chanVars, msg, epo, execs>>

\* Mutant: nothing is settled after a handler error.
SettleSuccessOnly(d) ==
    /\ pc[d] \in {"ack", "requeue", "discard"}
    /\ wire' = IF CanSettle(d) /\ pc[d] # "discard"
               THEN Append(wire, Frame(pc[d], d)) ELSE wire
    /\ Goto(d, "done")
    /\ UNCHANGED <<brokerVars, chanVars, msg, epo, execs>>

\* wrap, second half: Ack, Nack(true) or Nack(false), once (settleOnce); the
\* fallback of deliverLoop finds the delivery settled.
Settle(d) ==
    /\ pc[d] \in {"ack", "requeue", "discard"}
    /\ wire' = IF CanSettle(d) THEN Append(wire, Frame(pc[d], d)) ELSE wire
    /\ Goto(d, "done")
    /\ UNCHANGED <<brokerVars, chanVars, msg, epo, execs>>

\* The goroutine ends and gives its slot back.
Finish(d) ==
    /\ pc[d] = "done"
    /\ Free(d)
    /\ UNCHANGED <<brokerVars, wire, chanVars, execs>>

-----------------------------------------------------------------------------
Next ==
    \/ \E d \in Deliveries :
        \/ \E m \in Msgs : Deliver(d, m)
        \/ DropBuffered(d) \/ Pick(d) \/ StartHandler(d)
        \/ HandlerTimeout(d) \/ HandlerReturns(d)
        \/ Reply(d) \/ Settle(d) \/ Finish(d)
    \/ BrokerReceive \/ ChannelLost
    \/ LoopChecksDone \/ Rebind \/ SubClose \/ SubCloseDone

Spec == Init /\ [][Next]_vars

\* The SDK's goroutines, the client library and the broker make progress.
TransportFairness ==
    /\ \A m \in Msgs : SF_vars(\E d \in Deliveries : Deliver(d, m))
    /\ \A d \in Deliveries :
        /\ WF_vars(DropBuffered(d) \/ Pick(d))
        /\ WF_vars(StartHandler(d))
        /\ WF_vars(Reply(d) \/ Settle(d) \/ Finish(d))
    /\ WF_vars(BrokerReceive)
    /\ WF_vars(LoopChecksDone) /\ WF_vars(Rebind)
    /\ WF_vars(SubCloseDone)

\* Handlers return, at the latest when their context has expired.
HandlerFairness == \A d \in Deliveries : WF_vars(HandlerReturns(d))

TransportSpec == Spec /\ TransportFairness
FairSpec == TransportSpec /\ HandlerFairness

-----------------------------------------------------------------------------
(* Properties.                                                             *)

\* Type invariant.
TypeOK ==
    /\ ready \in SUBSET Msgs /\ gone \in SUBSET Msgs /\ answered \in SUBSET Msgs
    /\ held \in [Deliveries -> Msgs \cup {NoMsg}]
    /\ wire \in Seq(Frames)
    /\ chOpen \in BOOLEAN /\ loop \in {"deliver", "retry", "exit"}
    /\ closed \in {"no", "closing", "closed"}
    /\ epoch \in 1..(MaxLosses + 2) /\ losses \in 0..MaxLosses
    /\ pc \in [Deliveries -> Labels]
    /\ msg \in [Deliveries -> Msgs \cup {NoMsg}]
    /\ epo \in [Deliveries -> 0..(MaxLosses + 2)]
    /\ execs \in [Msgs -> 0..ExecCap]

\* No request is lost without an answer: wrap replies before it settles, on a
\* channel that keeps the order, so a request the broker has forgotten is one
\* whose reply it has already routed, whatever was lost in between.
NoSilentLoss == gone \cap Rpc \subseteq answered

Settles(f) == f.kind # "reply"

\* No delivery is settled twice, and none that the broker does not know of: the
\* broker would close the channel under all the other deliveries.
SettledOnce ==
    \A i \in 1..Len(wire) : Settles(wire[i]) =>
        /\ held[wire[i].d] = wire[i].m
        /\ \A j \in 1..Len(wire) :
            Settles(wire[j]) /\ wire[j].d = wire[i].d => i = j

\* Nothing the broker waits for is forgotten: the goroutine of an unsettled tag
\* is still on its way, or its settlement is.  Closing, losing and timing out
\* leave no tag that would take up the prefetch window for ever.
NoOrphan ==
    \A d \in Unacked :
        \/ pc[d] \notin {"free", "done"} /\ msg[d] = held[d] /\ epo[d] = epoch
        \/ \E i \in 1..Len(wire) : wire[i].d = d /\ Settles(wire[i])

\* How often the channel may have been taken from under its deliveries: each
\* loss, and Close.
Ends == losses + (IF closed = "no" THEN 0 ELSE 1)

\* A request is run again only because a channel ended under it: Nack(true)
\* cannot bring an answered request back, and a loop that re-binds while Close
\* is under way adds one run for Close, not more.
RunsBounded == \A m \in Rpc : execs[m] <= Ends + 1

ReplyAhead(w, m, n) == \E j \in 1..n : w[j].kind = "reply" /\ w[j].m = m

\* A channel that ended leaves nothing behind, and one end gives one new channel.
ChannelInv ==
    /\ chOpen \/ (wire = <<>> /\ \A d \in Deliveries : held[d] = NoMsg)
    /\ epoch <= Ends + 1
    /\ chOpen \/ epoch <= Ends

\* The loop re-binds when the deliveries of its last channel are received.
LoopInv ==
    loop # "deliver" =>
        ~chOpen /\ \A d \in Deliveries : pc[d] \notin {"buffered", "picked"}

\* Replies go only to requests that carry a reply_to.
RepliesInv == \A i \in 1..Len(wire) : wire[i].kind = "reply" => wire[i].m \in Rpc

\* Ahead of the frame that settles a request is its reply, or it has arrived.
WireInv ==
    \A i \in 1..Len(wire) : Settles(wire[i]) =>
        /\ pc[wire[i].d] \in {"done", "free"}
        /\ wire[i].m \in Rpc =>
            /\ wire[i].kind # "requeue"
            /\ wire[i].m \in answered \/ ReplyAhead(wire, wire[i].m, i - 1)

\* The broker waits for a goroutine that can settle, and its reply is ahead.
GoroutineOK(d) ==
    /\ msg[d] # NoMsg
    /\ epo[d] <= epoch
    /\ CanSettle(d) /\ pc[d] # "done" => held[d] = msg[d]
    /\ CanSettle(d) /\ msg[d] \in Rpc =>
        /\ pc[d] # "requeue"
        /\ pc[d] \in {"ack", "discard"} =>
            msg[d] \in answered \/ ReplyAhead(wire, msg[d], Len(wire))

GoroutineInv == \A d \in Deliveries : pc[d] # "free" => GoroutineOK(d)

\* Why NoSilentLoss and SettledOnce hold, as an invariant that every step
\* preserves by itself: replies stay ahead of the settling frames of wrap, and
\* settleOnce leaves each goroutine one such frame, for a tag still unsettled.
DeliveryInv ==
    /\ ChannelInv /\ LoopInv /\ RepliesInv /\ WireInv /\ GoroutineInv
    /\ NoSilentLoss /\ SettledOnce

\* The endpoint, with its broker, implements AtLeastOnce: Reply and Ack make a
\* request disappear only after an answer for it has been routed.
Promise == INSTANCE AtLeastOnce WITH answered <- answered, gone <- gone
KeepsPromise == Promise!Spec

\* Every request is eventually answered and settled, however often the channel
\* was lost, unless the subscription is closed.
RequestsComplete == \A m \in Rpc : <>(closed # "no" \/ m \in gone \cap answered)

\* A message whose handler never fails is eventually acknowledged.
FireAndForgetCompletes == 
    \A m \in Msgs \ Rpc : <>(closed # "no" \/ m \in gone)

\* No more than Concurrency handlers are in flight.
ConcurrencyCap == Cardinality(Running) <= Concurrency

\* Once Close has returned no handler is in flight.
CloseDrains == closed = "closed" => Running = {}

\* A delivery whose handler overran its timeout is settled by the transport.
TimeoutSettles ==
    \A d \in Deliveries : (pc[d] = "late") ~> (closed # "no" \/ pc[d] # "late")

=============================================================================
