--------------------------- MODULE AmqpTransport ---------------------------
(***************************************************************************)
(* The connection life cycle of rpc/amqp.Transport: the goroutines that    *)
(* share one AMQP connection (the watchdog, the loop of every              *)
(* subscription, callers of Publish and Request, the caller of Close), the *)
(* mutexes dialMu and pubMu, and a broker that drops connections, resets   *)
(* channels and goes down for a while.                                     *)
(*                                                                         *)
(* connMu, closeMu, subsMu and chMu only ever guard straight-line code     *)
(* that takes no other lock, so what they guard is one atomic step here.   *)
(* dialMu and pubMu are held across blocking calls and are variables.      *)
(*                                                                         *)
(* A connection is a positive number and 0 is Go's nil.  A channel is      *)
(* written as the connection that carries it, or 0 once it was closed by   *)
(* itself: it is open exactly when that number is in live.                 *)
(***************************************************************************)
EXTENDS Integers, Sequences

CONSTANTS
    Subs,         \* subscriptions; each is opened by one call of Consume
    Publishers,   \* goroutines that call Publish
    Requesters,   \* goroutines that call Request
    WD,           \* the watchdog goroutine
    Closer,       \* the goroutine whose call of Transport.Close is the first
    None,         \* "no goroutine": an unlocked mutex
    MaxFaults,    \* bound: connection drops and broker outages
    MaxResets     \* bound: channel resets and refused channel set-ups

Threads == Subs \cup Publishers \cup Requesters \cup {WD, Closer}

ASSUME ThreadsAssumption ==
    /\ WD # Closer
    /\ {WD, Closer} \cap (Subs \cup Publishers \cup Requesters) = {}
    /\ Subs \cap (Publishers \cup Requesters) = {}
    /\ Publishers \cap Requesters = {}
    /\ None \notin Threads

ASSUME BoundsAssumption == MaxFaults \in Nat /\ MaxResets \in Nat

VARIABLES
    pc,        \* where each goroutine is
    res,       \* each goroutine's local connection (or channel)
    conn,      \* Transport.conn
    dialFn,    \* Transport.dialFn # nil
    pubCh,     \* Transport.pubCh
    closed,    \* Transport.closed is closed
    subs,      \* Transport.subs
    dialMu,    \* the holder of dialMu
    pubMu,     \* the holder of pubMu
    subCh,     \* subscription.ch
    subClose,  \* progress of subscription.closeOnce
    spawned,   \* subscriptions whose runWithReconnect goroutine was started
    unreg,     \* spawned, but Consume has not yet appended them to subs
    rem,       \* Close's private copy of subs, what is left of it
    live,      \* connections for which IsClosed() is false
    up,        \* the broker accepts connections
    dials,     \* successful calls of dialFn made by reconnect
    faults,    \* connection faults so far
    resets     \* channel faults so far

structVars == <<conn, dialFn, pubCh, closed, subs>>
lockVars == <<dialMu, pubMu>>
subVars == <<subCh, subClose, spawned, unreg, rem>>
brokerVars == <<live, up, dials, faults, resets>>
vars == <<pc, res, structVars, lockVars, subVars, brokerVars>>

Conns == 0..(MaxFaults + 1)

Labels == {"off", "new", "idle", "cfu", "lock", "dial", "install", "resetPub",
           "have", "swap", "deliver", "backoff", "top", "look", "watch",
           "pubLock", "pub", "await", "takeSubs", "subs", "takeConn", "closeConn",
           "failed", "exit"}

\* New and NewWithDial: both start from one open connection; only the second
\* knows how to dial again, and only then does a watchdog run.
Init ==
    /\ dialFn \in BOOLEAN
    /\ pc = [t \in Threads |->
                IF t = WD THEN IF dialFn THEN "top" ELSE "off"
                ELSE IF t \in Subs THEN "new" ELSE "idle"]
    /\ res = [t \in Threads |-> 0]
    /\ conn = 1
    /\ pubCh = 0
    /\ closed = FALSE
    /\ subs = <<>>
    /\ dialMu = None
    /\ pubMu = None
    /\ subCh = [s \in Subs |-> 0]
    /\ subClose = [s \in Subs |-> "no"]
    /\ spawned = {}
    /\ unreg = {}
    /\ rem = <<>>
    /\ live = {1}
    /\ up = TRUE
    /\ dials = 0
    /\ faults = 0
    /\ resets = 0

Goto(t, label) == pc' = [pc EXCEPT ![t] = label]

Keep(t, c) == res' = [res EXCEPT ![t] = c]

\* The local connection goes out of scope.
Forget(t) == Keep(t, 0)

\* Where a goroutine continues when connectionForUse, reconnect or the channel
\* set-up returned an error: the two loops back off and retry, Consume gives
\* up, Publish and Request return.
AfterError(t) ==
    IF t = WD \/ t \in spawned THEN "backoff"
    ELSE IF t \in Subs THEN "failed" ELSE "idle"

\* The deferred unlock of pubMu, when it is publishChannel that returns.
PubMuAfterReturn(t) == IF pubMu = t THEN None ELSE pubMu

ReturnError(t) ==
    /\ Goto(t, AfterError(t))
    /\ Forget(t)
    /\ pubMu' = PubMuAfterReturn(t)

\* SetDialFunc(f) with f # nil; the first call starts the watchdog.
SetDialFunc ==
    /\ ~dialFn
    /\ dialFn' = TRUE
    /\ Goto(WD, "top")
    /\ UNCHANGED <<res, conn, pubCh, closed, subs, lockVars, subVars, brokerVars>>

-----------------------------------------------------------------------------
(* connectionForUse and reconnect: run by every goroutine.                 *)

\* Mutant: connectionForUse does not look at closed.
ConnectionForUseIgnoresClosed(t) ==
    /\ pc[t] = "cfu"
    /\ Goto(t, IF conn \in live \/ ~dialFn THEN "have" ELSE "lock")
    /\ Keep(t, conn)
    /\ UNCHANGED <<structVars, lockVars, subVars, brokerVars>>

ConnectionForUse(t) ==
    /\ pc[t] = "cfu"
    /\ \/ /\ conn \in live
          /\ Keep(t, conn)
          /\ Goto(t, "have")
          /\ UNCHANGED pubMu
       \/ /\ conn \notin live /\ closed            \* ErrClosed
          /\ ReturnError(t)
       \/ /\ conn \notin live /\ ~closed /\ ~dialFn  \* legacy: the dead one
          /\ Keep(t, conn)
          /\ Goto(t, "have")
          /\ UNCHANGED pubMu
       \/ /\ conn \notin live /\ ~closed /\ dialFn
          /\ Goto(t, "lock")
          /\ UNCHANGED <<res, pubMu>>
    /\ UNCHANGED <<structVars, dialMu, subVars, brokerVars>>

\* What reconnect's caller does with the connection it returns: the watchdog
\* loops, everybody else goes on to open a channel.
ReturnConn(t, c) ==
    IF t = WD THEN Goto(t, "top") /\ Forget(t) ELSE Goto(t, "have") /\ Keep(t, c)

\* Mutant: reconnect dials without looking at conn again.
ReconnectWithoutRecheck(t) ==
    /\ pc[t] = "lock"
    /\ dialMu = None
    /\ \/ closed /\ ReturnError(t) /\ UNCHANGED dialMu
       \/ ~closed /\ dialMu' = t /\ Goto(t, "dial") /\ UNCHANGED <<res, pubMu>>
    /\ UNCHANGED <<structVars, subVars, brokerVars>>

\* Mutant: reconnect looks at conn again and not at closed.
ReconnectIgnoresClosed(t) ==
    /\ pc[t] = "lock"
    /\ dialMu = None
    /\ \/ conn \in live /\ ReturnConn(t, conn) /\ UNCHANGED lockVars
       \/ conn \notin live /\ dialMu' = t /\ Goto(t, "dial") /\ UNCHANGED <<res, pubMu>>
    /\ UNCHANGED <<structVars, subVars, brokerVars>>

\* reconnect up to the dial: lock dialMu, look again, look at closed.
ReconnectLock(t) ==
    /\ pc[t] = "lock"
    /\ dialMu = None
    /\ \/ /\ conn \in live
          /\ ReturnConn(t, conn)
          /\ UNCHANGED lockVars
       \/ /\ conn \notin live /\ closed            \* ErrClosed
          /\ ReturnError(t)
          /\ UNCHANGED dialMu
       \/ /\ conn \notin live /\ ~closed
          /\ dialMu' = t
          /\ Goto(t, "dial")
          /\ UNCHANGED <<res, pubMu>>
    /\ UNCHANGED <<structVars, subVars, brokerVars>>

\* dialFn(): a fresh socket if the broker is up, an error otherwise.
Dial(t) ==
    /\ pc[t] = "dial"
    /\ \/ /\ up
          /\ dials' = dials + 1
          /\ live' = live \cup {dials + 2}
          /\ Keep(t, dials + 2)
          /\ Goto(t, "install")
          /\ UNCHANGED lockVars
       \/ /\ ~up
          /\ dialMu' = None
          /\ ReturnError(t)
          /\ UNCHANGED <<dials, live>>
    /\ UNCHANGED <<structVars, subVars, up, faults, resets>>

\* Under connMu: close the connection that is there, install the new one.
Install(t) ==
    /\ pc[t] = "install"
    /\ live' = live \ {conn}
    /\ conn' = res[t]
    /\ Goto(t, "resetPub")
    /\ UNCHANGED <<res, dialFn, pubCh, closed, subs, lockVars, subVars,
                   up, dials, faults, resets>>

\* Mutant: reconnect leaves the old publish channel in place.
ResetPubSkipped(t) ==
    /\ pc[t] = "resetPub"
    /\ dialMu' = None
    /\ ReturnConn(t, res[t])
    /\ UNCHANGED <<structVars, pubMu, subVars, brokerVars>>

\* Still holding dialMu, lock pubMu and drop the publish channel; then return.
ResetPub(t) ==
    /\ pc[t] = "resetPub"
    /\ pubMu = None
    /\ pubCh' = 0
    /\ dialMu' = None
    /\ ReturnConn(t, res[t])
    /\ UNCHANGED <<conn, dialFn, closed, subs, pubMu, subVars, brokerVars>>

Reconnect(t) == ReconnectLock(t) \/ Dial(t) \/ Install(t) \/ ResetPub(t)

-----------------------------------------------------------------------------
(* The watchdog.                                                           *)

\* The select on closed at the head of the loop ...
WatchdogTop ==
    /\ pc[WD] = "top"
    /\ Goto(WD, IF closed THEN "exit" ELSE "look")
    /\ UNCHANGED <<res, structVars, lockVars, subVars, brokerVars>>

\* ... and, later, the read of conn: NotifyClose if it is open, else reconnect.
WatchdogLook ==
    /\ pc[WD] = "look"
    /\ \/ conn \in live /\ Keep(WD, conn) /\ Goto(WD, "watch")
       \/ conn \notin live /\ Goto(WD, "lock") /\ UNCHANGED res
    /\ UNCHANGED <<structVars, lockVars, subVars, brokerVars>>

\* Mutant: the watchdog waits for NotifyClose and not for closed.
WatchdogWakeDeaf ==
    /\ pc[WD] = "watch"
    /\ res[WD] \notin live /\ Goto(WD, "top")
    /\ Forget(WD)
    /\ UNCHANGED <<structVars, lockVars, subVars, brokerVars>>

WatchdogWake ==
    /\ pc[WD] = "watch"
    /\ \/ closed /\ Goto(WD, "exit")
       \/ res[WD] \notin live /\ Goto(WD, "top")
    /\ Forget(WD)
    /\ UNCHANGED <<structVars, lockVars, subVars, brokerVars>>

\* The dial failed: wait for the back-off timer or for Close.
WatchdogBackoff ==
    /\ pc[WD] = "backoff"
    /\ \/ closed /\ Goto(WD, "exit")
       \/ Goto(WD, "top")
    /\ UNCHANGED <<res, structVars, lockVars, subVars, brokerVars>>

Watchdog ==
    WatchdogTop \/ WatchdogLook \/ WatchdogWake \/ WatchdogBackoff \/ Reconnect(WD)

-----------------------------------------------------------------------------
(* Consume, the subscription's goroutine, subscription.Close.              *)

ConsumeCall(s) ==
    /\ pc[s] = "new"
    /\ Goto(s, "cfu")
    /\ UNCHANGED <<res, structVars, lockVars, subVars, brokerVars>>

\* setupConsumer once it has a connection: Channel, QueueDeclare, Qos and
\* Consume all succeed.  Consume then starts the goroutine; a rebinding
\* goroutine has the new channel in a local variable until it swaps it in.
SetupConsumer(s) ==
    /\ pc[s] = "have"
    /\ res[s] \in live
    /\ \/ /\ s \notin spawned
          /\ subCh' = [subCh EXCEPT ![s] = res[s]]
          /\ spawned' = spawned \cup {s}
          /\ unreg' = unreg \cup {s}
          /\ Goto(s, "deliver")
          /\ Forget(s)
       \/ /\ s \in spawned
          /\ Goto(s, "swap")
          /\ UNCHANGED <<res, subCh, spawned, unreg>>
    /\ UNCHANGED <<structVars, lockVars, subClose, rem, brokerVars>>

\* setupConsumer fails: the connection is dead, or one of the calls is refused.
SetupConsumerFails(s) ==
    /\ pc[s] = "have"
    /\ \/ res[s] \notin live /\ UNCHANGED resets
       \/ /\ res[s] \in live
          /\ resets < MaxResets
          /\ resets' = resets + 1
    /\ ReturnError(s)
    /\ UNCHANGED <<structVars, dialMu, subVars, live, up, dials, faults>>

\* The end of Consume: the new subscription is appended to Transport.subs.
Register(s) ==
    /\ s \in unreg
    /\ unreg' = unreg \ {s}
    /\ subs' = Append(subs, s)
    /\ UNCHANGED <<pc, res, conn, dialFn, pubCh, closed, lockVars,
                   subCh, subClose, spawned, rem, brokerVars>>

\* Mutant: the goroutine ends when its deliveries end.
DeliverLoopEndsForGood(s) ==
    /\ pc[s] = "deliver"
    /\ subCh[s] \notin live
    /\ Goto(s, "exit")
    /\ UNCHANGED <<res, structVars, lockVars, subVars, brokerVars>>

\* Mutant: the loop does not look at done when its deliveries end.
DeliverLoopEndsDeaf(s) ==
    /\ pc[s] = "deliver"
    /\ subCh[s] \notin live
    /\ Goto(s, "backoff")
    /\ UNCHANGED <<res, structVars, lockVars, subVars, brokerVars>>

\* deliverLoop returns because the channel is gone; done decides what is next.
DeliverLoopEnds(s) ==
    /\ pc[s] = "deliver"
    /\ subCh[s] \notin live
    /\ Goto(s, IF subClose[s] = "closed" THEN "exit" ELSE "backoff")
    /\ UNCHANGED <<res, structVars, lockVars, subVars, brokerVars>>

\* select on done and the back-off timer; with both ready either may win.
SubBackoff(s) ==
    /\ pc[s] = "backoff"
    /\ \/ subClose[s] = "closed" /\ Goto(s, "exit")
       \/ Goto(s, "cfu")
    /\ UNCHANGED <<res, structVars, lockVars, subVars, brokerVars>>

SwapChannel(s) ==
    /\ pc[s] = "swap"
    /\ subCh' = [subCh EXCEPT ![s] = res[s]]
    /\ Goto(s, "deliver")
    /\ Forget(s)
    /\ UNCHANGED <<structVars, lockVars, subClose, spawned, unreg, rem,
                   brokerVars>>

\* closeOnce, first half: close the channel that s.ch holds now.
SubCloseChannel(s) ==
    /\ subClose[s] = "no"
    /\ subClose' = [subClose EXCEPT ![s] = "closing"]
    /\ subCh' = [subCh EXCEPT ![s] = 0]

\* A caller that has its Subscription closes it.
SubCloseCall(s) ==
    /\ s \in spawned \ unreg
    /\ SubCloseChannel(s)
    /\ UNCHANGED <<pc, res, structVars, lockVars, spawned, unreg, rem, brokerVars>>

\* closeOnce, second half: close(done).
SubCloseDone(s) ==
    /\ subClose[s] = "closing"
    /\ subClose' = [subClose EXCEPT ![s] = "closed"]
    /\ UNCHANGED <<pc, res, structVars, lockVars, subCh, spawned, unreg, rem,
                   brokerVars>>

Subscription(s) ==
    \/ ConnectionForUse(s) \/ Reconnect(s)
    \/ SetupConsumer(s) \/ SetupConsumerFails(s)
    \/ DeliverLoopEnds(s) \/ SubBackoff(s) \/ SwapChannel(s)

-----------------------------------------------------------------------------
(* Publish and Request.                                                    *)

PublishCall(p) ==
    /\ pc[p] = "idle"
    /\ Goto(p, "pubLock")
    /\ UNCHANGED <<res, structVars, lockVars, subVars, brokerVars>>

\* publishChannel: lock pubMu; an open channel is returned at once, otherwise
\* pubMu stays locked while connectionForUse runs.
PublishChannel(p) ==
    /\ pc[p] = "pubLock"
    /\ pubMu = None
    /\ \/ /\ pubCh \in live
          /\ Keep(p, pubCh)
          /\ Goto(p, "pub")
          /\ UNCHANGED pubMu
       \/ /\ pubCh \notin live
          /\ pubMu' = p
          /\ Goto(p, "cfu")
          /\ UNCHANGED res
    /\ UNCHANGED <<structVars, dialMu, subVars, brokerVars>>

\* publishChannel has a connection: open the channel, store it, unlock.
PublishOpenChannel(p) ==
    /\ pc[p] = "have"
    /\ \/ /\ res[p] \in live
          /\ pubCh' = res[p]
          /\ Goto(p, "pub")
          /\ pubMu' = PubMuAfterReturn(p)
          /\ UNCHANGED res
       \/ /\ res[p] \notin live
          /\ ReturnError(p)
          /\ UNCHANGED pubCh
    /\ UNCHANGED <<conn, dialFn, closed, subs, dialMu, subVars, brokerVars>>

\* PublishWithContext, on a channel that may have died meanwhile; returns.
PublishSend(p) ==
    /\ pc[p] = "pub"
    /\ Goto(p, "idle")
    /\ Forget(p)
    /\ UNCHANGED <<structVars, lockVars, subVars, brokerVars>>

Publisher(p) ==
    \/ PublishChannel(p) \/ ConnectionForUse(p) \/ Reconnect(p)
    \/ PublishOpenChannel(p) \/ PublishSend(p)

RequestCall(r) ==
    /\ pc[r] = "idle"
    /\ Goto(r, "cfu")
    /\ UNCHANGED <<res, structVars, lockVars, subVars, brokerVars>>

\* Request's own channel, reply queue, consumer and publish.
RequestOpenChannel(r) ==
    /\ pc[r] = "have"
    /\ Goto(r, IF res[r] \in live THEN "await" ELSE "idle")
    /\ Forget(r)
    /\ UNCHANGED <<structVars, lockVars, subVars, brokerVars>>

\* A reply, the deadline, or the closed reply channel ends the wait.
RequestReturn(r) ==
    /\ pc[r] = "await"
    /\ Goto(r, "idle")
    /\ UNCHANGED <<res, structVars, lockVars, subVars, brokerVars>>

\* Everything of Request but its wait, which nothing has to end.
Requester(r) == ConnectionForUse(r) \/ Reconnect(r) \/ RequestOpenChannel(r)

-----------------------------------------------------------------------------
(* Transport.Close.  Every later call returns at once and changes nothing. *)

CloseCall ==
    /\ pc[Closer] = "idle"
    /\ closed' = TRUE
    /\ Goto(Closer, "takeSubs")
    /\ UNCHANGED <<res, conn, dialFn, pubCh, subs, lockVars, subVars, brokerVars>>

CloseTakeSubs ==
    /\ pc[Closer] = "takeSubs"
    /\ rem' = subs
    /\ subs' = <<>>
    /\ Goto(Closer, "subs")
    /\ UNCHANGED <<res, conn, dialFn, pubCh, closed, lockVars,
                   subCh, subClose, spawned, unreg, brokerVars>>

\* sub.Close() of the next subscription: this goroutine runs closeOnce ...
CloseSub ==
    /\ pc[Closer] = "subs"
    /\ rem # <<>>
    /\ SubCloseChannel(Head(rem))
    /\ UNCHANGED <<pc, res, structVars, lockVars, spawned, unreg, rem, brokerVars>>

\* ... or waits for the goroutine that does; sync.Once returns when it is done.
CloseSubReturns ==
    /\ pc[Closer] = "subs"
    /\ rem # <<>>
    /\ subClose[Head(rem)] = "closed"
    /\ rem' = Tail(rem)
    /\ UNCHANGED <<pc, res, structVars, lockVars, subCh, subClose, spawned,
                   unreg, brokerVars>>

ClosePub ==
    /\ pc[Closer] = "subs"
    /\ rem = <<>>
    /\ pubMu = None
    /\ pubCh' = 0
    /\ Goto(Closer, "takeConn")
    /\ UNCHANGED <<res, conn, dialFn, closed, subs, lockVars, subVars, brokerVars>>

CloseTakeConn ==
    /\ pc[Closer] = "takeConn"
    /\ Keep(Closer, conn)
    /\ conn' = 0
    /\ Goto(Closer, "closeConn")
    /\ UNCHANGED <<dialFn, pubCh, closed, subs, lockVars, subVars, brokerVars>>

CloseConn ==
    /\ pc[Closer] = "closeConn"
    /\ live' = live \ {res[Closer]}
    /\ Goto(Closer, "exit")
    /\ Forget(Closer)
    /\ UNCHANGED <<structVars, lockVars, subVars, up, dials, faults, resets>>

Close ==
    \/ CloseTakeSubs \/ CloseSub \/ CloseSubReturns
    \/ ClosePub \/ CloseTakeConn \/ CloseConn

-----------------------------------------------------------------------------
(* The broker and the network, modelled from what the code reacts to.      *)

ConnDrop(c) ==
    /\ c \in live
    /\ faults < MaxFaults
    /\ faults' = faults + 1
    /\ live' = live \ {c}
    /\ UNCHANGED <<pc, res, structVars, lockVars, subVars, up, dials, resets>>

BrokerDown ==
    /\ up
    /\ faults < MaxFaults
    /\ faults' = faults + 1
    /\ up' = FALSE
    /\ live' = {}
    /\ UNCHANGED <<pc, res, structVars, lockVars, subVars, dials, resets>>

BrokerUp ==
    /\ ~up
    /\ up' = TRUE
    /\ UNCHANGED <<pc, res, structVars, lockVars, subVars, live, dials, faults,
                   resets>>

\* The broker closes one subscription's channel and keeps the connection.
ChannelReset(s) ==
    /\ subCh[s] \in live
    /\ resets < MaxResets
    /\ resets' = resets + 1
    /\ subCh' = [subCh EXCEPT ![s] = 0]
    /\ UNCHANGED <<pc, res, structVars, lockVars, subClose, spawned, unreg, rem,
                   live, up, dials, faults>>

-----------------------------------------------------------------------------
Next ==
    \/ SetDialFunc
    \/ Watchdog
    \/ \E s \in Subs : \/ ConsumeCall(s) \/ Subscription(s) \/ Register(s)
                       \/ SubCloseCall(s) \/ SubCloseDone(s) \/ ChannelReset(s)
    \/ \E p \in Publishers : PublishCall(p) \/ Publisher(p)
    \/ \E r \in Requesters : RequestCall(r) \/ Requester(r) \/ RequestReturn(r)
    \/ CloseCall \/ Close
    \/ \E c \in live : ConnDrop(c)
    \/ BrokerDown \/ BrokerUp

Spec == Init /\ [][Next]_vars

\* Goroutines that can run do run, and outages end.  Nothing makes anybody call
\* the API, and faults need not happen.  For dialMu weak fairness is enough: only
\* failing dials can be repeated for ever, and they stop when the broker is up.
\* Close and reconnect compete for pubMu with calls of Publish that may never stop,
\* and get it all the same: a sync.Mutex is handed to a waiter that starves.
Fairness ==
    /\ WF_vars(Watchdog)
    /\ \A s \in Subs : /\ WF_vars(Subscription(s))
                       /\ WF_vars(Register(s) \/ SubCloseDone(s))
    /\ \A p \in Publishers : WF_vars(Publisher(p))
    /\ \A r \in Requesters : WF_vars(Requester(r))
    /\ WF_vars(Close)
    /\ SF_vars(ClosePub \/ \E t \in Threads : ResetPub(t))
    /\ WF_vars(BrokerUp)

FairSpec == Spec /\ Fairness

-----------------------------------------------------------------------------
(* Properties.                                                             *)

\* Type invariant.
TypeOK ==
    /\ pc \in [Threads -> Labels]
    /\ res \in [Threads -> Conns]
    /\ conn \in Conns /\ pubCh \in Conns
    /\ dialFn \in BOOLEAN /\ closed \in BOOLEAN /\ up \in BOOLEAN
    /\ subs \in Seq(Subs) /\ rem \in Seq(Subs)
    /\ dialMu \in Threads \cup {None} /\ pubMu \in Publishers \cup {None}
    /\ subCh \in [Subs -> Conns]
    /\ subClose \in [Subs -> {"no", "closing", "closed"}]
    /\ spawned \in SUBSET Subs /\ unreg \in SUBSET Subs
    /\ live \in SUBSET Conns
    /\ dials \in 0..MaxFaults /\ faults \in 0..MaxFaults
    /\ resets \in 0..MaxResets

\* However many goroutines find the connection dead, and whatever the broker
\* and Close do meanwhile, the transport never has two open sockets: reconnect
\* looks again after it got dialMu ("one socket, not N").
OneSocket == \A c, d \in live : c = d

\* A connection fault is answered by at most one successful dial, so the storm
\* of M subscriptions and the watchdog collapses into one socket per fault.
DialsBounded == dials <= faults

\* connectionForUse never hands out a nil connection without an error: its
\* callers dereference it unchecked.  Close closes t.closed before it clears
\* t.conn, and that order is what protects them.
NoNilConnection == \A t \in Threads : pc[t] = "have" => res[t] # 0

\* Between reconnects the publish channel is never one that belongs to an
\* earlier connection: no Publish can put back a channel of the old connection
\* after reconnect reset it.
PubChFresh == dialMu = None /\ conn \in live => pubCh \in {0, conn}

\* Only a dead connection is ever replaced: reconnect's "close the stale
\* connection" never closes one that other goroutines are using.
ReplacesOnlyDead == [][conn' # conn /\ conn' # 0 => conn \notin live]_vars

\* Close may be overtaken by the one reconnect that is under way, and by no
\* other: from then on nobody dials, so one socket at most outlives Close.
NoDialAfterClose ==
    [][closed /\ dialMu = None => dialMu' = None /\ live' \subseteq live]_vars

\* What makes the four hold, and is preserved by every step.  At most one
\* goroutine is past the second look of reconnect, and dialMu names it; while
\* it dials nothing is open, and what it dialled is newer than everything that
\* conn or Close know; a connection that died without Close is one fault that
\* no dial has answered yet.
ReconnectInv ==
    /\ \A t \in Threads : pc[t] \in {"dial", "install", "resetPub"} => dialMu = t
    /\ ~dialFn => pc[WD] = "off"
    /\ pc[Closer] # "idle" => closed
    /\ conn = 0 => closed
    /\ 0 \notin live
    /\ conn <= dials + 1 /\ res[Closer] <= dials + 1
    /\ OneSocket /\ DialsBounded /\ NoNilConnection /\ PubChFresh
    /\ ~closed /\ dialMu = None => live \subseteq {conn}
    /\ ~closed /\ dialMu = None /\ conn \notin live => dials < faults
    /\ \A t \in Threads :
        /\ pc[t] = "dial" => live = {} /\ dials < faults
        /\ pc[t] = "install" => /\ live \subseteq {res[t]}
                                /\ res[t] = dials + 1 /\ res[t] # 0
                                /\ conn <= dials /\ res[Closer] <= dials
                                /\ res[t] \notin live => dials < faults
        /\ pc[t] = "resetPub" => /\ res[t] # 0
                                 /\ ~closed => /\ live \subseteq {conn}
                                               /\ conn \notin live => dials < faults

Bound(s) == pc[s] = "deliver" /\ subCh[s] \in live

\* The circular wait: the goroutine that installs a connection wants pubMu, and
\* pubMu is its own or that of a publisher that wants dialMu.
Stuck ==
    /\ dialMu # None /\ pubMu # None
    /\ pc[dialMu] = "resetPub"
    /\ pubMu = dialMu \/ pc[pubMu] = "lock"

\* A subscription that lost its channel is consuming again at some later time,
\* unless it or the transport is closed: outages do not strand a consumer, but in
\* the one circular wait that a Publish during an outage can bring about.
Rebinds ==
    \A s \in Subs : (dialFn /\ s \in spawned /\ ~Bound(s))
                        ~> (Bound(s) \/ closed \/ subClose[s] # "no" \/ Stuck)

\* A subscription that was closed during a re-bind may go on consuming on the
\* channel that was then swapped in, but only on that one: when it ends, the
\* goroutine sees done and never binds again.
GhostEndsWithItsChannel ==
    \A s \in Subs :
        [](subClose[s] = "closed" /\ Bound(s) => [](~Bound(s) => []~Bound(s)))

\* Close returns and the watchdog goroutine ends, whatever connection an overtaking
\* reconnect leaves for it to wait on and however long others publish; only the
\* circular wait, in which nobody gets pubMu any more, keeps them.
CloseReturns ==
    closed ~> (pc[Closer] = "exit" /\ pc[WD] \in {"off", "exit"}) \/ Stuck

\* Every call of Publish returns.
PublishReturns ==
    \A p \in Publishers : (pc[p] = "pubLock") ~> (pc[p] = "idle")

\* After Close has returned the transport's sockets are closed for good.
CloseReleases == (pc[Closer] = "exit") ~> [](live = {})

\* A closed subscription stops consuming for good.
SubCloseStops ==
    \A s \in Subs : (subClose[s] = "closed") ~> []~Bound(s)

\* After Close no subscription goroutine is left behind.
CloseStopsSubscriptions ==
    closed ~> (\A s \in Subs : pc[s] \in {"new", "failed", "exit"})

=============================================================================
