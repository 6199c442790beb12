---------------------------- MODULE AmqpRunsProofs ----------------------------
(***************************************************************************)
(* More proofs about AmqpDelivery, on top of its invariant: how often a    *)
(* request is run, that no unsettled tag is forgotten, how many handlers   *)
(* one deliverLoop runs, and how a run that succeeded leaves.              *)
(***************************************************************************)
EXTENDS AmqpDeliveryProofs, FiniteSetTheorems

\* A delivery whose handler is yet to run.
Waits(d) == pc[d] \in {"buffered", "picked"}
Awaits(m) == \E d \in Deliveries : Waits(d) /\ msg[d] = m

\* A message is in one place: ready, or held for one tag, with one delivery that
\* is yet to run it, on the current channel.
OneHolder ==
    /\ \A d, e \in Deliveries : held[d] # NoMsg /\ held[d] = held[e] => d = e
    /\ \A d \in Deliveries : held[d] \notin ready
    /\ \A d, e \in Deliveries : Waits(d) /\ Waits(e) /\ msg[d] = msg[e] => d = e
    /\ \A d \in Deliveries : Waits(d) => epo[d] = epoch

\* A run is paid for by a channel, in advance while the message waits.
RunsOK(m) ==
    /\ execs[m] <= Ends + 1
    /\ chOpen /\ (m \in ready \/ Awaits(m)) => execs[m] <= Ends
    /\ ~chOpen => execs[m] <= Ends
    /\ ~chOpen /\ Awaits(m) => execs[m] < Ends

RunsInv == OneHolder /\ \A m \in Rpc : RunsOK(m)

LEMMA InitRuns == Init => RunsInv
  <1> SUFFICES ASSUME Init PROVE RunsInv
    OBVIOUS
  <1>1. OneHolder
    BY DeliveryAssumption DEF Init, OneHolder, Waits
  <1>2. \A m \in Rpc : RunsOK(m)
    BY DeliveryAssumption DEF Init, RunsOK, Ends
  <1> QED
    BY <1>1, <1>2 DEF RunsInv

\* A step after which no more deliveries wait, and all else is as before.
LEMMA QuietRuns ==
  ASSUME RunsInv, UNCHANGED <<ready, held, chOpen, epoch, execs>>, Ends' = Ends,
         \A e \in Deliveries : Waits(e)' => Waits(e) /\ msg'[e] = msg[e] /\ epo'[e] = epo[e]
  PROVE  RunsInv'
  <1>1. OneHolder'
    BY DEF RunsInv, OneHolder
  <1>2. ASSUME NEW m \in Rpc PROVE RunsOK(m)'
    <2>1. Awaits(m)' => Awaits(m)
      BY DEF Awaits
    <2> QED
      BY <2>1 DEF RunsInv, RunsOK
  <1> QED
    BY <1>1, <1>2 DEF RunsInv

LEMMA DeliverRuns ==
  ASSUME Inv, RunsInv, NEW d \in Deliveries, NEW m \in Msgs, Deliver(d, m)
  PROVE  RunsInv'
  <1>0. /\ chOpen /\ m \in ready /\ m # NoMsg
        /\ ready' = ready \ {m} /\ held' = [held EXCEPT ![d] = m]
        /\ msg' = [msg EXCEPT ![d] = m] /\ epo' = [epo EXCEPT ![d] = epoch]
        /\ pc' = [pc EXCEPT ![d] = "buffered"]
        /\ UNCHANGED <<chOpen, epoch, closed, losses, execs>>
    BY DeliveryAssumption DEF Deliver, Goto, chanVars
  <1>1. /\ pc \in [Deliveries -> Labels]
        /\ msg \in [Deliveries -> Msgs \cup {NoMsg}] /\ held \in [Deliveries -> Msgs \cup {NoMsg}]
        /\ epo \in [Deliveries -> 0..(MaxLosses + 2)]
    BY DEF Inv, TypeOK
  <1>2. \A e \in Deliveries : Waits(e) => held[e] = msg[e]
    BY <1>0 DEF Inv, DeliveryInv, GoroutineInv, GoroutineOK, CanSettle, Waits, RunsInv, OneHolder
  <1>3. \A e \in Deliveries : e # d => /\ (Waits(e)' <=> Waits(e)) /\ msg'[e] = msg[e]
                                      /\ epo'[e] = epo[e] /\ held'[e] = held[e]
    BY <1>0, <1>1 DEF Waits
  <1>4. msg'[d] = m /\ epo'[d] = epoch /\ held'[d] = m
    BY <1>0, <1>1
  <1>5. \A e \in Deliveries : held[e] # m /\ (Waits(e) => msg[e] # m)
    BY <1>0, <1>2 DEF RunsInv, OneHolder
  <1>6. OneHolder'
    <2>1. \A a, b \in Deliveries : held'[a] # NoMsg /\ held'[a] = held'[b] => a = b
      BY <1>3, <1>4, <1>5 DEF RunsInv, OneHolder
    <2>2. \A a \in Deliveries : held'[a] \notin ready'
      BY <1>0, <1>3, <1>4 DEF RunsInv, OneHolder
    <2>3. \A a, b \in Deliveries : Waits(a)' /\ Waits(b)' /\ msg'[a] = msg'[b] => a = b
      BY <1>3, <1>4, <1>5 DEF RunsInv, OneHolder
    <2>4. \A a \in Deliveries : Waits(a)' => epo'[a] = epoch'
      BY <1>0, <1>3, <1>4 DEF RunsInv, OneHolder
    <2> QED
      BY <2>1, <2>2, <2>3, <2>4 DEF OneHolder
  <1>7. ASSUME NEW k \in Rpc PROVE RunsOK(k)'
    <2>1. k \in ready' \/ Awaits(k)' => k \in ready \/ Awaits(k)
      BY <1>0, <1>3, <1>4 DEF Awaits
    <2> QED
      BY <1>0, <2>1 DEF RunsInv, RunsOK, Ends
  <1> QED
    BY <1>6, <1>7 DEF RunsInv

\* Only a message without reply_to comes back by a Nack(true).
LEMMA ReceiveRuns ==
  ASSUME Inv, RunsInv, BrokerReceive
  PROVE  RunsInv'
  <1> DEFINE f == Head(wire)
  <1>0. /\ UNCHANGED <<chOpen, epoch, closed, losses, execs, pc, msg, epo>>
        /\ held \in [Deliveries -> Msgs \cup {NoMsg}] /\ NoMsg \notin Msgs /\ ready \subseteq Msgs
    BY DeliveryAssumption DEF BrokerReceive, chanVars, Inv, TypeOK
  <1>1. wire \in Seq(Frames) /\ wire # <<>>
    BY DEF BrokerReceive, Inv, TypeOK
  <1>2. f \in Frames /\ f = wire[1] /\ 1 \in 1..Len(wire)
    BY <1>1
  <1>3. Settles(f) => held[f.d] = f.m
    BY <1>2 DEF Inv, DeliveryInv, SettledOnce
  <1>4. Settles(f) /\ f.m \in Rpc => f.kind # "requeue"
    BY <1>2 DEF Inv, DeliveryInv, WireInv
  <1>5. f.d \in Deliveries /\ f.m \in Msgs
    BY <1>2 DEF Frames
  <1>6. \A e \in Deliveries : Waits(e)' <=> Waits(e)
    BY <1>0 DEF Waits
  <1>7. \A k \in Msgs : Awaits(k)' <=> Awaits(k)
    BY <1>0, <1>6 DEF Awaits
  <1>8. CASE f.kind = "reply" /\ UNCHANGED <<ready, held>>
    BY <1>0, <1>6, <1>8, QuietRuns DEF Ends
  <1>9. CASE f.kind \in {"ack", "discard"} /\ held' = [held EXCEPT ![f.d] = NoMsg] /\ ready' = ready
    <2>1. OneHolder'
      BY <1>0, <1>5, <1>6, <1>9 DEF RunsInv, OneHolder
    <2>2. \A k \in Rpc : RunsOK(k)'
      BY <1>0, <1>7, <1>9, DeliveryAssumption DEF RunsInv, RunsOK, Ends
    <2> QED
      BY <2>1, <2>2 DEF RunsInv
  <1>10. CASE /\ f.kind = "requeue" /\ held' = [held EXCEPT ![f.d] = NoMsg]
              /\ ready' = ready \cup {f.m}
    <2>1. held[f.d] = f.m /\ f.m \notin Rpc /\ f.m # NoMsg
      BY <1>0, <1>3, <1>4, <1>5, <1>10 DEF Settles
    <2>2. \A e \in Deliveries : e # f.d => held'[e] = held[e] /\ held[e] # f.m
      BY <1>0, <1>5, <1>10, <2>1 DEF RunsInv, OneHolder
    <2>3. held'[f.d] = NoMsg
      BY <1>0, <1>5, <1>10
    <2>4. \A e \in Deliveries : held'[e] \notin ready'
      BY <1>0, <1>10, <2>1, <2>2, <2>3 DEF RunsInv, OneHolder
    <2>5. \A a, b \in Deliveries : held'[a] # NoMsg /\ held'[a] = held'[b] => a = b
      BY <2>2, <2>3 DEF RunsInv, OneHolder
    <2>6. OneHolder'
      BY <1>0, <1>6, <2>4, <2>5 DEF RunsInv, OneHolder
    <2>7. \A k \in Rpc : RunsOK(k)'
      BY <1>0, <1>7, <1>10, <2>1, DeliveryAssumption DEF RunsInv, RunsOK, Ends
    <2> QED
      BY <2>6, <2>7 DEF RunsInv
  <1> QED
    BY <1>8, <1>9, <1>10 DEF BrokerReceive

\* A channel that ends pays for one more run.
LEMMA EndRuns ==
  ASSUME Inv, RunsInv, ChannelEnds, UNCHANGED <<epoch, pc, msg, epo, execs>>,
         \/ losses' = losses + 1 /\ closed' = closed
         \/ losses' = losses /\ closed = "no" /\ closed' # "no"
  PROVE  RunsInv'
  <1>0. /\ chOpen /\ chOpen' = FALSE /\ held' = [d \in Deliveries |-> NoMsg]
        /\ losses \in Nat /\ execs \in [Msgs -> 0..ExecCap]
    BY DEF ChannelEnds, Inv, TypeOK
  <1>1. ready' \subseteq Msgs /\ NoMsg \notin Msgs
    <2>1. ready \subseteq Msgs /\ \A d \in Unacked : held[d] \in Msgs
      BY DEF Inv, TypeOK, Unacked
    <2> QED
      BY <2>1, DeliveryAssumption DEF ChannelEnds
  <1>2. \A e \in Deliveries : Waits(e)' <=> Waits(e)
    BY DEF Waits
  <1>3. OneHolder'
    BY <1>0, <1>1, <1>2 DEF RunsInv, OneHolder
  <1>4. ASSUME NEW m \in Rpc PROVE RunsOK(m)'
    <2>1. Awaits(m)' <=> Awaits(m)
      BY <1>2 DEF Awaits
    <2>2. execs[m] \in Nat
      BY <1>0, DeliveryAssumption DEF ExecCap
    <2> QED
      BY <1>0, <2>1, <2>2 DEF RunsInv, RunsOK, Ends
  <1> QED
    BY <1>3, <1>4 DEF RunsInv

\* A handler that starts uses up what was paid.
LEMMA StartRuns ==
  ASSUME Inv, RunsInv, NEW d \in Deliveries, StartHandler(d)
  PROVE  RunsInv'
  <1>0. /\ pc[d] = "picked" /\ pc' = [pc EXCEPT ![d] = "run"]
        /\ UNCHANGED <<ready, held, chOpen, epoch, closed, losses, msg, epo>>
        /\ losses \in Nat /\ execs \in [Msgs -> 0..ExecCap] /\ pc \in [Deliveries -> Labels]
        /\ msg[d] \in Msgs \cup {NoMsg}
    BY DEF StartHandler, Goto, brokerVars, chanVars, Inv, TypeOK
  <1>1. execs' = [execs EXCEPT ![msg[d]] = IF execs[msg[d]] < ExecCap
                                           THEN execs[msg[d]] + 1 ELSE execs[msg[d]]]
    BY DEF StartHandler
  <1>2. \A e \in Deliveries : Waits(e)' <=> Waits(e) /\ e # d
    BY <1>0 DEF Waits
  <1>3. OneHolder'
    BY <1>0, <1>2 DEF RunsInv, OneHolder
  <1>4. Waits(d)
    BY <1>0 DEF Waits
  <1>5. chOpen => held[d] = msg[d]
    BY <1>0, <1>4 DEF Inv, DeliveryInv, GoroutineInv, GoroutineOK, CanSettle, RunsInv, OneHolder
  <1>6. ASSUME NEW m \in Rpc PROVE RunsOK(m)'
    <2>0. m \in Msgs /\ execs[m] \in Nat
      BY <1>0, DeliveryAssumption DEF ExecCap
    <2>1. CASE msg[d] # m
      <3>1. execs'[m] = execs[m]
        BY <1>0, <1>1, <2>0, <2>1
      <3>2. Awaits(m)' => Awaits(m)
        BY <1>0, <1>2 DEF Awaits
      <3> QED
        BY <1>0, <3>1, <3>2 DEF RunsInv, RunsOK, Ends
    <2>2. CASE msg[d] = m
      <3>1. execs'[m] \in {execs[m], execs[m] + 1}
        BY <1>0, <1>1, <2>0, <2>2
      <3>2. Awaits(m) /\ ~Awaits(m)'
        BY <1>0, <1>2, <1>4, <2>2 DEF Awaits, RunsInv, OneHolder
      <3>3. chOpen => m \notin ready
        BY <1>5, <2>2 DEF RunsInv, OneHolder
      <3> QED
        BY <1>0, <2>0, <3>1, <3>2, <3>3 DEF RunsInv, RunsOK, Ends
    <2> QED
      BY <2>1, <2>2
  <1> QED
    BY <1>3, <1>6 DEF RunsInv

LEMMA RebindRuns ==
  ASSUME Inv, RunsInv, Rebind
  PROVE  RunsInv'
  <1>0. /\ ~chOpen /\ chOpen' = TRUE
        /\ \A d \in Deliveries : ~Waits(d)
        /\ UNCHANGED <<ready, held, closed, losses, pc, msg, epo, execs>>
    BY DEF Rebind, brokerVars, Waits, Inv, DeliveryInv, LoopInv
  <1>1. \A d \in Deliveries : ~Waits(d)'
    BY <1>0 DEF Waits
  <1>2. OneHolder'
    BY <1>0, <1>1 DEF RunsInv, OneHolder
  <1>3. ASSUME NEW m \in Rpc PROVE RunsOK(m)'
    BY <1>0, <1>1 DEF RunsInv, RunsOK, Ends, Awaits
  <1> QED
    BY <1>2, <1>3 DEF RunsInv

LEMMA RunsStep ==
  ASSUME Inv, RunsInv, [Next]_vars
  PROVE  RunsInv'
  <1>0. /\ pc \in [Deliveries -> Labels] /\ msg \in [Deliveries -> Msgs \cup {NoMsg}]
        /\ epo \in [Deliveries -> 0..(MaxLosses + 2)]
    BY DEF Inv, TypeOK
  <1>1. CASE UNCHANGED vars
    BY <1>1, QuietRuns DEF vars, brokerVars, chanVars, Waits, Ends
  <1>2. CASE \E d \in Deliveries, m \in Msgs : Deliver(d, m)
    BY <1>2, DeliverRuns
  <1>3. CASE \E d \in Deliveries : DropBuffered(d) \/ Finish(d)
    BY <1>0, <1>3, QuietRuns
       DEF DropBuffered, Finish, Free, Goto, brokerVars, chanVars, Waits, Ends
  <1>4. CASE \E d \in Deliveries : Pick(d) \/ HandlerTimeout(d) \/ HandlerReturns(d)
    BY <1>0, <1>4, QuietRuns
       DEF Pick, HandlerTimeout, HandlerReturns, Goto, brokerVars, chanVars, Waits, Ends
  <1>5. CASE \E d \in Deliveries : StartHandler(d)
    BY <1>5, StartRuns
  <1>6. CASE \E d \in Deliveries : Reply(d)
    BY <1>0, <1>6, QuietRuns DEF Reply, Goto, brokerVars, chanVars, Waits, Ends
  <1>7. CASE \E d \in Deliveries : Settle(d)
    BY <1>0, <1>7, QuietRuns DEF Settle, Goto, brokerVars, chanVars, Waits, Ends
  <1>8. CASE BrokerReceive
    BY <1>8, ReceiveRuns
  <1>9. CASE ChannelLost
    BY <1>9, EndRuns DEF ChannelLost
  <1>10. CASE Rebind
    BY <1>10, RebindRuns
  <1>11. CASE SubClose
    <2>1. CASE ChannelEnds
      BY <1>11, <2>1, EndRuns DEF SubClose
    <2>2. CASE ~chOpen /\ UNCHANGED <<chOpen, wire, ready, held>>
      <3>1. /\ ~chOpen /\ chOpen' = chOpen /\ closed = "no" /\ closed' = "closing"
            /\ UNCHANGED <<ready, held, epoch, losses, pc, msg, epo, execs>>
            /\ losses \in Nat /\ execs \in [Msgs -> 0..ExecCap]
        BY <1>11, <2>2 DEF SubClose, Inv, TypeOK
      <3>2. \A e \in Deliveries : Waits(e)' <=> Waits(e)
        BY <3>1 DEF Waits
      <3>3. OneHolder'
        BY <3>1, <3>2 DEF RunsInv, OneHolder
      <3>4. ASSUME NEW m \in Rpc PROVE RunsOK(m)'
        <4>1. (Awaits(m)' <=> Awaits(m)) /\ execs[m] \in Nat
          BY <3>1, <3>2, DeliveryAssumption DEF Awaits, ExecCap
        <4> QED
          BY <3>1, <4>1 DEF RunsInv, RunsOK, Ends
      <3> QED
        BY <3>3, <3>4 DEF RunsInv
    <2> QED
      BY <1>11, <2>1, <2>2 DEF SubClose
  <1>12. CASE LoopChecksDone \/ SubCloseDone
    <2>1. UNCHANGED <<ready, held, chOpen, epoch, losses, execs, pc, msg, epo>>
      BY <1>12 DEF LoopChecksDone, SubCloseDone, brokerVars
    <2>2. closed' = closed \/ (closed = "closing" /\ closed' = "closed")
      BY <1>12 DEF LoopChecksDone, SubCloseDone
    <2>3. Ends' = Ends
      BY <2>1, <2>2 DEF Ends
    <2>4. \A e \in Deliveries : Waits(e)' <=> Waits(e)
      BY <2>1 DEF Waits
    <2> QED
      BY <2>1, <2>3, <2>4, QuietRuns
  <1> QED
    BY <1>1, <1>2, <1>3, <1>4, <1>5, <1>6, <1>7, <1>8, <1>9, <1>10, <1>11, <1>12 DEF Next

\* A request is run at most once more than its channel was lost or closed, for
\* any number of requests, deliveries and losses and any concurrency, and also
\* when a re-bind overtakes Close.
THEOREM RunsAreBounded == Spec => []RunsBounded
  <1>1. Inv /\ RunsInv /\ [Next]_vars => RunsInv'
    BY RunsStep
  <1>2. RunsInv => RunsBounded
    BY DEF RunsInv, RunsOK, Ends, RunsBounded
  <1> QED
    BY InitRuns, <1>1, <1>2, Invariance, PTL DEF Spec

-----------------------------------------------------------------------------
\* The two ways in which a tag that the broker waits for is remembered.
OnItsWay(d) == pc[d] \notin {"free", "done"} /\ msg[d] = held[d] /\ epo[d] = epoch
SettledByWire(d) == \E i \in 1..Len(wire) : wire[i].d = d /\ Settles(wire[i])

LEMMA OrphanParts == NoOrphan <=> \A d \in Unacked : OnItsWay(d) \/ SettledByWire(d)
  BY DEF NoOrphan, OnItsWay, SettledByWire

\* Frames that are appended leave those ahead of them.
LEMMA WireGrows ==
  ASSUME wire \in Seq(Frames), NEW f \in Frames, wire' = Append(wire, f)
  PROVE  /\ \A d : SettledByWire(d) => SettledByWire(d)'
         /\ Settles(f) => SettledByWire(f.d)'
  <1>1. Len(wire') = Len(wire) + 1 /\ Len(wire) \in Nat
    OBVIOUS
  <1>2. \A i \in 1..Len(wire) : wire'[i] = wire[i]
    OBVIOUS
  <1>3. wire'[Len(wire')] = f
    BY <1>1
  <1>4. \A d : SettledByWire(d) => SettledByWire(d)'
    BY <1>1, <1>2 DEF SettledByWire, Settles
  <1>5. Settles(f) => SettledByWire(f.d)'
    BY <1>1, <1>3 DEF SettledByWire, Settles
  <1> QED
    BY <1>4, <1>5

LEMMA OrphanStep ==
  ASSUME Inv, NoOrphan, [Next]_vars
  PROVE  NoOrphan'
  <1>0. /\ pc \in [Deliveries -> Labels] /\ msg \in [Deliveries -> Msgs \cup {NoMsg}]
        /\ epo \in [Deliveries -> 0..(MaxLosses + 2)]
        /\ held \in [Deliveries -> Msgs \cup {NoMsg}] /\ wire \in Seq(Frames)
        /\ NoMsg \notin Msgs
    BY DeliveryAssumption DEF Inv, TypeOK
  <1>1. \A d \in Unacked : OnItsWay(d) \/ SettledByWire(d)
    BY OrphanParts
  <1>2. Unacked # {} => chOpen
    BY DEF Inv, DeliveryInv, ChannelInv, Unacked
  <1> SUFFICES ASSUME NEW e \in Deliveries, held'[e] # NoMsg
               PROVE  OnItsWay(e)' \/ SettledByWire(e)'
    BY DEF NoOrphan, OnItsWay, SettledByWire, Unacked
  <1>3. CASE UNCHANGED vars
    BY <1>1, <1>3 DEF vars, brokerVars, chanVars, Unacked, OnItsWay, SettledByWire, Settles
  <1>4. CASE \E d \in Deliveries, m \in Msgs : Deliver(d, m)
    <2>1. PICK d \in Deliveries, m \in Msgs : Deliver(d, m)
      BY <1>4
    <2>2. /\ held' = [held EXCEPT ![d] = m] /\ msg' = [msg EXCEPT ![d] = m]
          /\ epo' = [epo EXCEPT ![d] = epoch] /\ pc' = [pc EXCEPT ![d] = "buffered"]
          /\ UNCHANGED <<wire, epoch>>
      BY <2>1 DEF Deliver, Goto, chanVars
    <2>3. CASE e = d
      BY <1>0, <2>2, <2>3 DEF OnItsWay
    <2>4. CASE e # d
      <3>1. held'[e] = held[e] /\ msg'[e] = msg[e] /\ epo'[e] = epo[e] /\ pc'[e] = pc[e]
        BY <1>0, <2>2, <2>4
      <3> QED
        BY <1>1, <2>2, <3>1 DEF Unacked, OnItsWay, SettledByWire, Settles
    <2> QED
      BY <2>3, <2>4
  <1>5. CASE \E d \in Deliveries : DropBuffered(d)
    BY <1>2, <1>5 DEF DropBuffered, brokerVars, Unacked
  <1>6. CASE \E d \in Deliveries : Finish(d)
    <2>1. PICK d \in Deliveries : Finish(d)
      BY <1>6
    <2>2. /\ pc[d] = "done" /\ UNCHANGED <<held, wire, epoch>>
          /\ pc' = [pc EXCEPT ![d] = "free"] /\ msg' = [msg EXCEPT ![d] = NoMsg]
          /\ epo' = [epo EXCEPT ![d] = 0]
      BY <2>1 DEF Finish, Free, Goto, brokerVars, chanVars
    <2> QED
      BY <1>0, <1>1, <2>2 DEF Unacked, OnItsWay, SettledByWire, Settles
  <1>7. CASE \E d \in Deliveries :
               Pick(d) \/ StartHandler(d) \/ HandlerTimeout(d) \/ HandlerReturns(d)
    <2>1. PICK d \in Deliveries, l \in {"picked", "run", "late", "ok", "err"} :
            pc' = [pc EXCEPT ![d] = l]
      BY <1>7 DEF Pick, StartHandler, HandlerTimeout, HandlerReturns, Goto
    <2>2. UNCHANGED <<held, wire, epoch, msg, epo>>
      BY <1>7 DEF Pick, StartHandler, HandlerTimeout, HandlerReturns, brokerVars, chanVars
    <2> QED
      BY <1>0, <1>1, <2>1, <2>2 DEF Unacked, OnItsWay, SettledByWire, Settles
  <1>8. CASE \E d \in Deliveries : Reply(d)
    <2>1. PICK d \in Deliveries : Reply(d)
      BY <1>8
    <2>2. PICK l \in {"ack", "requeue", "discard"} : pc' = [pc EXCEPT ![d] = l]
      BY <2>1 DEF Reply, Goto
    <2>3. UNCHANGED <<held, epoch, msg, epo>>
      BY <2>1 DEF Reply, brokerVars, chanVars
    <2>4. OnItsWay(e) => OnItsWay(e)'
      BY <1>0, <2>2, <2>3 DEF OnItsWay
    <2>5. SettledByWire(e) => SettledByWire(e)'
      <3>1. CASE CanReply(d)
        <4>1. Frame("reply", d) \in Frames
          BY <3>1, DeliveryAssumption DEF CanReply, Frame, Frames
        <4>2. wire' = Append(wire, Frame("reply", d))
          BY <2>1, <3>1 DEF Reply
        <4> QED
          BY <1>0, <4>1, <4>2, WireGrows
      <3>2. CASE ~CanReply(d)
        BY <2>1, <3>2 DEF Reply, SettledByWire, Settles
      <3> QED
        BY <3>1, <3>2
    <2> QED
      BY <1>1, <2>3, <2>4, <2>5 DEF Unacked
  <1>9. CASE \E d \in Deliveries : Settle(d)
    <2>1. PICK d \in Deliveries : Settle(d)
      BY <1>9
    <2>2. /\ pc[d] \in {"ack", "requeue", "discard"} /\ pc' = [pc EXCEPT ![d] = "done"]
          /\ UNCHANGED <<held, epoch, msg, epo>>
      BY <2>1 DEF Settle, Goto, brokerVars, chanVars
    <2>3. CASE CanSettle(d)
      <3>1. msg[d] \in Msgs
        BY <1>0, <2>2 DEF Inv, DeliveryInv, GoroutineInv, GoroutineOK
      <3>2. /\ Frame(pc[d], d) \in Frames /\ Settles(Frame(pc[d], d))
            /\ Frame(pc[d], d).d = d
        BY <2>2, <3>1 DEF Frame, Frames, Settles
      <3>3. wire' = Append(wire, Frame(pc[d], d))
        BY <2>1, <2>3 DEF Settle
      <3>4. SettledByWire(d)' /\ (SettledByWire(e) => SettledByWire(e)')
        BY <1>0, <3>2, <3>3, WireGrows
      <3>5. e # d /\ OnItsWay(e) => OnItsWay(e)'
        BY <1>0, <2>2 DEF OnItsWay
      <3> QED
        BY <1>1, <2>2, <3>4, <3>5 DEF Unacked
    <2>4. CASE ~CanSettle(d)
      <3>1. wire' = wire
        BY <2>1, <2>4 DEF Settle
      <3>2. e \in Unacked /\ chOpen
        BY <1>2, <2>2 DEF Unacked
      <3>3. OnItsWay(e) => OnItsWay(e)'
        BY <1>0, <2>2, <2>4, <3>2 DEF OnItsWay, CanSettle
      <3> QED
        BY <1>1, <3>1, <3>2, <3>3 DEF SettledByWire, Settles
    <2> QED
      BY <2>3, <2>4
  <1>10. CASE BrokerReceive
    <2> DEFINE f == Head(wire)
    <2>1. wire # <<>> /\ wire' = Tail(wire) /\ UNCHANGED <<pc, msg, epo, epoch>>
      BY <1>10 DEF BrokerReceive, chanVars
    <2>2. /\ f \in Frames /\ f = wire[1] /\ Len(wire) \in Nat /\ Len(wire') = Len(wire) - 1
          /\ \A i \in 2..Len(wire) : i - 1 \in 1..Len(wire') /\ wire'[i - 1] = wire[i]
      BY <1>0, <2>1
    <2>3. held'[e] = held[e] /\ (Settles(f) => f.d # e)
      BY <1>0, <1>10, <2>2 DEF BrokerReceive, Settles, Frames
    <2>4. SettledByWire(e) => SettledByWire(e)'
      <3> SUFFICES ASSUME NEW i \in 1..Len(wire), wire[i].d = e, Settles(wire[i])
                   PROVE  SettledByWire(e)'
        BY DEF SettledByWire
      <3>1. i # 1
        BY <2>2, <2>3
      <3>2. i - 1 \in 1..Len(wire') /\ wire'[i - 1] = wire[i]
        BY <2>2, <3>1
      <3> QED
        BY <3>2 DEF SettledByWire, Settles
    <2>5. OnItsWay(e) => OnItsWay(e)'
      BY <2>1, <2>3 DEF OnItsWay
    <2> QED
      BY <1>1, <2>3, <2>4, <2>5 DEF Unacked
  <1>11. CASE ChannelLost
    BY <1>11 DEF ChannelLost, ChannelEnds
  <1>12. CASE Rebind
    BY <1>2, <1>12 DEF Rebind, brokerVars, Unacked, Inv, DeliveryInv, LoopInv
  <1>13. CASE SubClose
    BY <1>2, <1>13 DEF SubClose, ChannelEnds, Unacked
  <1>14. CASE LoopChecksDone \/ SubCloseDone
    <2>1. UNCHANGED <<held, wire, epoch, pc, msg, epo>>
      BY <1>14 DEF LoopChecksDone, SubCloseDone, brokerVars
    <2> QED
      BY <1>1, <2>1 DEF Unacked, OnItsWay, SettledByWire, Settles
  <1> QED
    BY <1>3, <1>4, <1>5, <1>6, <1>7, <1>8, <1>9, <1>10, <1>11, <1>12, <1>13, <1>14 DEF Next

\* No unsettled tag is forgotten: a goroutine is on its way to settle it, or the
\* frame that does is.
THEOREM NoTagForgotten == Spec => []NoOrphan
  <1>1. Init => NoOrphan
    BY DEF Init, NoOrphan, Unacked
  <1>2. Inv /\ NoOrphan /\ [Next]_vars => NoOrphan'
    BY OrphanStep
  <1> QED
    BY <1>1, <1>2, Invariance, PTL DEF Spec

-----------------------------------------------------------------------------
\* The goroutines that the deliverLoop of one channel has started and that have
\* not ended.
HandlersOf(e) == {d \in Deliveries : pc[d] \in Holding /\ epo[d] = e}

\* Each deliverLoop keeps its own limit; only those of several channels together
\* exceed it (ConcurrencyCap).
LoopCap == \A e \in Nat : IsFiniteSet(HandlersOf(e)) /\ Cardinality(HandlersOf(e)) <= Concurrency

LEMMA FewerHandlers ==
  ASSUME LoopCap, \A d \in Deliveries : pc'[d] \in Holding => pc[d] \in Holding /\ epo'[d] = epo[d]
  PROVE  LoopCap'
  <1> SUFFICES ASSUME NEW e \in Nat
               PROVE  IsFiniteSet(HandlersOf(e)') /\ Cardinality(HandlersOf(e)') <= Concurrency
    BY DEF LoopCap
  <1>1. HandlersOf(e)' \subseteq HandlersOf(e)
    BY DEF HandlersOf
  <1>2. IsFiniteSet(HandlersOf(e)) /\ Cardinality(HandlersOf(e)) <= Concurrency
    BY DEF LoopCap
  <1>3. IsFiniteSet(HandlersOf(e)') /\ Cardinality(HandlersOf(e)') <= Cardinality(HandlersOf(e))
    BY <1>1, <1>2, FS_Subset
  <1>4. Cardinality(HandlersOf(e)) \in Nat /\ Cardinality(HandlersOf(e)') \in Nat
    BY <1>2, <1>3, FS_CardinalityType
  <1> QED
    BY <1>2, <1>3, <1>4, DeliveryAssumption

\* StartHandler looks at the semaphore of the loop that picked the delivery: no
\* delivery waits across a re-bind.
LEMMA StartWithinCap ==
  ASSUME Inv, RunsInv, LoopCap, NEW d \in Deliveries, StartHandler(d)
  PROVE  LoopCap'
  <1>0. /\ pc' = [pc EXCEPT ![d] = "run"] /\ epo' = epo /\ pc[d] = "picked"
        /\ Cardinality(InSem) < Concurrency /\ pc \in [Deliveries -> Labels]
    BY DEF StartHandler, Goto, Inv, TypeOK
  <1>1. epo[d] = epoch /\ epoch \in Nat
    BY <1>0, DeliveryAssumption DEF RunsInv, OneHolder, Waits, Inv, TypeOK
  <1> SUFFICES ASSUME NEW e \in Nat
               PROVE  IsFiniteSet(HandlersOf(e)') /\ Cardinality(HandlersOf(e)') <= Concurrency
    BY DEF LoopCap
  <1>2. IsFiniteSet(HandlersOf(e)) /\ Cardinality(HandlersOf(e)) <= Concurrency
    BY DEF LoopCap
  <1>3. CASE e # epoch
    <2>1. HandlersOf(e)' = HandlersOf(e)
      BY <1>0, <1>1, <1>3 DEF HandlersOf
    <2> QED
      BY <1>2, <2>1
  <1>4. CASE e = epoch
    <2>1. HandlersOf(e) = InSem
      BY <1>4 DEF HandlersOf, InSem
    <2>2. HandlersOf(e)' = HandlersOf(e) \cup {d}
      BY <1>0, <1>1, <1>4 DEF HandlersOf, Holding
    <2>3. d \notin HandlersOf(e)
      BY <1>0 DEF HandlersOf, Holding
    <2>4. IsFiniteSet(HandlersOf(e)') /\ Cardinality(HandlersOf(e)') = Cardinality(HandlersOf(e)) + 1
      BY <1>2, <2>2, <2>3, FS_AddElement
    <2>5. Cardinality(HandlersOf(e)) \in Nat /\ Cardinality(HandlersOf(e)) < Concurrency
      BY <1>0, <1>2, <2>1, FS_CardinalityType
    <2> QED
      BY <2>4, <2>5, DeliveryAssumption
  <1> QED
    BY <1>3, <1>4

LEMMA CapStep ==
  ASSUME Inv, RunsInv, LoopCap, [Next]_vars
  PROVE  LoopCap'
  <1> USE DEF brokerVars, chanVars, Goto
  <1> DEFINE Fewer == \A d \in Deliveries : pc'[d] \in Holding => pc[d] \in Holding /\ epo'[d] = epo[d]
  <1>0. /\ pc \in [Deliveries -> Labels] /\ epo \in [Deliveries -> 0..(MaxLosses + 2)]
    BY DEF Inv, TypeOK
  <1>1. ASSUME UNCHANGED <<pc, epo>> PROVE Fewer
    BY <1>1
  <1>2. ASSUME NEW d \in Deliveries, NEW m \in Msgs, Deliver(d, m) PROVE Fewer
    BY <1>0, <1>2 DEF Deliver, Holding
  <1>3. ASSUME NEW d \in Deliveries, DropBuffered(d) \/ Finish(d) PROVE Fewer
    BY <1>0, <1>3 DEF DropBuffered, Finish, Free, Holding
  <1>4. ASSUME NEW d \in Deliveries, Pick(d) PROVE Fewer
    BY <1>0, <1>4 DEF Pick, Holding
  <1>5. ASSUME NEW d \in Deliveries, HandlerTimeout(d) \/ HandlerReturns(d) PROVE Fewer
    BY <1>0, <1>5 DEF HandlerTimeout, HandlerReturns, Holding
  <1>6. ASSUME NEW d \in Deliveries, Reply(d) \/ Settle(d) PROVE Fewer
    BY <1>0, <1>6 DEF Reply, Settle, Holding
  <1>7. ASSUME \/ BrokerReceive \/ ChannelLost \/ LoopChecksDone \/ Rebind
               \/ SubClose \/ SubCloseDone \/ UNCHANGED vars
        PROVE  Fewer
    <2>1. UNCHANGED <<pc, epo>>
      BY <1>7 DEF BrokerReceive, ChannelLost, LoopChecksDone, Rebind, SubClose, SubCloseDone, vars
    <2> QED
      BY <1>1, <2>1
  <1> HIDE DEF Fewer
  <1>8. Fewer \/ \E d \in Deliveries : StartHandler(d)
    BY <1>2, <1>3, <1>4, <1>5, <1>6, <1>7 DEF Next
  <1> QED
    BY <1>8, FewerHandlers, StartWithinCap DEF Fewer

\* The goroutines of one deliverLoop never outnumber Concurrency, those of lost
\* channels included: what exceeds it are the loops of several channels.
THEOREM EachLoopBounded == Spec => []LoopCap
  <1>1. Init => LoopCap
    <2> SUFFICES ASSUME Init, NEW e \in Nat
                 PROVE  IsFiniteSet(HandlersOf(e)) /\ Cardinality(HandlersOf(e)) <= Concurrency
      BY DEF LoopCap
    <2>1. HandlersOf(e) = {}
      BY DEF Init, HandlersOf, Holding
    <2> QED
      BY <2>1, FS_EmptySet, DeliveryAssumption
  <1>2. Inv /\ RunsInv /\ [Next]_vars => RunsInv'
    BY RunsStep
  <1>3. Inv /\ RunsInv /\ LoopCap /\ [Next]_vars => LoopCap'
    BY CapStep
  <1> QED
    BY <1>1, <1>2, <1>3, InitRuns, Invariance, PTL DEF Spec

-----------------------------------------------------------------------------
\* Only requests with a reply_to are acknowledged: wrap acks after d.Reply, and
\* d.Reply fails without one.
AckInv ==
    /\ \A i \in 1..Len(wire) : wire[i].kind = "ack" => wire[i].m \in Rpc
    /\ \A d \in Deliveries : pc[d] = "ack" => msg[d] \in Rpc

\* A message without reply_to leaves the queue by Nack(false) alone, which wrap
\* sends after a handler error.
LeavesByFailure ==
    [][\A m \in Msgs \ Rpc : m \in gone' /\ m \notin gone =>
            Head(wire).kind = "discard" /\ Head(wire).m = m]_vars

LEMMA AckStep ==
  ASSUME Inv, AckInv, [Next]_vars
  PROVE  AckInv'
  <1> USE DEF brokerVars, chanVars, Goto
  <1>0. /\ pc \in [Deliveries -> Labels] /\ msg \in [Deliveries -> Msgs \cup {NoMsg}]
        /\ wire \in Seq(Frames)
    BY DEF Inv, TypeOK
  <1>keep. ASSUME UNCHANGED wire, \A d \in Deliveries : pc'[d] = "ack" => pc[d] = "ack" /\ msg'[d] = msg[d]
           PROVE  AckInv'
    BY <1>keep DEF AckInv
  <1>1. ASSUME UNCHANGED vars PROVE AckInv'
    BY <1>1, <1>keep DEF vars
  <1>2. ASSUME NEW d \in Deliveries, NEW m \in Msgs, Deliver(d, m) PROVE AckInv'
    BY <1>0, <1>2, <1>keep DEF Deliver
  <1>3. ASSUME NEW d \in Deliveries, DropBuffered(d) \/ Finish(d) PROVE AckInv'
    BY <1>0, <1>3, <1>keep DEF DropBuffered, Finish, Free
  <1>4. ASSUME NEW d \in Deliveries, Pick(d) \/ StartHandler(d) \/ HandlerTimeout(d) \/ HandlerReturns(d)
        PROVE AckInv'
    BY <1>0, <1>4, <1>keep DEF Pick, StartHandler, HandlerTimeout, HandlerReturns
  <1>5. ASSUME NEW d \in Deliveries, Reply(d) PROVE AckInv'
    <2>1. \A e \in Deliveries : pc'[e] = "ack" => msg'[e] \in Rpc
      BY <1>0, <1>5 DEF Reply, CanReply, AckInv
    <2>2. wire' = wire \/ wire' = Append(wire, Frame("reply", d))
      BY <1>5 DEF Reply
    <2>3. Frame("reply", d).kind # "ack"
      BY DEF Frame
    <2>4. \A i \in 1..Len(wire') : wire'[i].kind = "ack" =>
              i \in 1..Len(wire) /\ wire'[i] = wire[i]
      BY <1>0, <2>2, <2>3
    <2> QED
      BY <2>1, <2>4 DEF AckInv
  <1>6. ASSUME NEW d \in Deliveries, Settle(d) PROVE AckInv'
    <2>1. \A e \in Deliveries : pc'[e] = "ack" => msg'[e] \in Rpc
      BY <1>0, <1>6 DEF Settle, AckInv
    <2>2. wire' = wire \/ wire' = Append(wire, Frame(pc[d], d))
      BY <1>6 DEF Settle
    <2>3. \A i \in 1..Len(wire') : wire'[i].kind = "ack" => wire'[i].m \in Rpc
      BY <1>0, <2>2 DEF AckInv, Frame
    <2> QED
      BY <2>1, <2>3 DEF AckInv
  <1>7. ASSUME BrokerReceive PROVE AckInv'
    <2>1. wire # <<>> /\ wire' = Tail(wire) /\ UNCHANGED <<pc, msg>>
      BY <1>7 DEF BrokerReceive
    <2>2. \A i \in 1..Len(wire') : wire'[i] = wire[i + 1] /\ i + 1 \in 1..Len(wire)
      BY <1>0, <2>1
    <2> QED
      BY <2>1, <2>2 DEF AckInv
  <1>8. ASSUME ChannelLost \/ LoopChecksDone \/ Rebind \/ SubClose \/ SubCloseDone
        PROVE  AckInv'
    <2>1. UNCHANGED <<pc, msg>> /\ (wire' = wire \/ wire' = <<>>)
      BY <1>8 DEF ChannelLost, ChannelEnds, LoopChecksDone, Rebind, SubClose, SubCloseDone
    <2> QED
      BY <2>1 DEF AckInv
  <1> QED
    BY <1>1, <1>2, <1>3, <1>4, <1>5, <1>6, <1>7, <1>8 DEF Next

\* For every fault-free or faulty run: however often its handler succeeds, a
\* message that Publish sent is never acknowledged; only a failure of the handler
\* takes it from the queue.
THEOREM SuccessNeverAcked == Spec => LeavesByFailure
  <1> DEFINE A == \A m \in Msgs \ Rpc : m \in gone' /\ m \notin gone =>
                    Head(wire).kind = "discard" /\ Head(wire).m = m
  <1>1. Init => AckInv
    BY DEF Init, AckInv
  <1>2. Inv /\ AckInv /\ [Next]_vars => AckInv'
    BY AckStep
  <1>3. Inv /\ AckInv /\ [Next]_vars => [A]_vars
    <2> SUFFICES ASSUME Inv, AckInv, Next, NEW m \in Msgs \ Rpc, m \in gone', m \notin gone
                 PROVE  Head(wire).kind = "discard" /\ Head(wire).m = m
      OBVIOUS
    <2>1. BrokerReceive
      BY DEF Next, brokerVars, chanVars, Deliver, DropBuffered, Pick, StartHandler, HandlerTimeout,
             HandlerReturns, Reply, Settle, Finish, ChannelLost, LoopChecksDone, Rebind, SubClose,
             SubCloseDone
    <2>2. wire \in Seq(Frames) /\ wire # <<>>
      BY <2>1 DEF Inv, TypeOK, BrokerReceive
    <2>3. Head(wire) = wire[1] /\ 1 \in 1..Len(wire)
      BY <2>2
    <2>4. Head(wire).kind \in {"ack", "discard"} /\ gone' = gone \cup {Head(wire).m}
      BY <2>1 DEF BrokerReceive
    <2>5. Head(wire).kind = "ack" => Head(wire).m \in Rpc
      BY <2>3 DEF AckInv
    <2> QED
      BY <2>4, <2>5
  <1> QED
    BY <1>1, <1>2, <1>3, Invariance, PTL DEF Spec, LeavesByFailure

=============================================================================
