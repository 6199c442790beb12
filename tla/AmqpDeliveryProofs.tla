------------------------- MODULE AmqpDeliveryProofs -------------------------
(***************************************************************************)
(* Machine-checked proofs about AmqpDelivery, for any messages, any number *)
(* of deliveries, any concurrency and any number of channel losses: the    *)
(* type invariant, no request is lost without an answer, no tag is settled *)
(* twice, and the endpoint implements AtLeastOnce.                         *)
(***************************************************************************)
EXTENDS AmqpDelivery, TLAPS

Inv == TypeOK /\ DeliveryInv

LEMMA InitInv == Init => Inv
  <1> SUFFICES ASSUME Init PROVE Inv
    OBVIOUS
  <1> USE DeliveryAssumption
  <1>1. TypeOK
    <2>1. /\ ready \in SUBSET Msgs /\ gone \in SUBSET Msgs /\ answered \in SUBSET Msgs
          /\ held \in [Deliveries -> Msgs \cup {NoMsg}]
          /\ wire \in Seq(Frames)
          /\ pc \in [Deliveries -> Labels]
          /\ msg \in [Deliveries -> Msgs \cup {NoMsg}]
      BY DEF Init, Labels
    <2>2. /\ epoch \in 1..(MaxLosses + 2) /\ losses \in 0..MaxLosses
          /\ epo \in [Deliveries -> 0..(MaxLosses + 2)]
          /\ execs \in [Msgs -> 0..ExecCap]
      BY DEF Init, ExecCap
    <2>3. /\ chOpen \in BOOLEAN /\ loop \in {"deliver", "retry", "exit"}
          /\ closed \in {"no", "closing", "closed"}
      BY DEF Init
    <2> QED
      BY <2>1, <2>2, <2>3 DEF TypeOK
  <1>2. Len(wire) = 0 /\ \A d \in Deliveries : pc[d] = "free"
    BY DEF Init
  <1>3. ChannelInv /\ LoopInv
    BY DEF Init, ChannelInv, Ends, LoopInv, Ends
  <1>4. NoSilentLoss /\ SettledOnce /\ RepliesInv /\ WireInv /\ GoroutineInv
    BY <1>2 DEF Init, NoSilentLoss, SettledOnce, RepliesInv, WireInv, GoroutineInv
  <1> QED
    BY <1>1, <1>3, <1>4 DEF Inv, DeliveryInv

-----------------------------------------------------------------------------
\* A step by which one goroutine only moves on, without reaching a point where
\* it may settle, keeps the invariant.
LEMMA MoveStep ==
  ASSUME Inv, NEW d \in Deliveries, NEW l \in {"picked", "run", "late", "ok", "err"},
         pc[d] \notin {"free", "done"}, l = "picked" => pc[d] = "buffered", Goto(d, l),
         UNCHANGED <<brokerVars, wire, chanVars, msg, epo>>
  PROVE  DeliveryInv'
  <1> USE DEF Inv, DeliveryInv, brokerVars, chanVars
  <1>0. /\ pc' = [pc EXCEPT ![d] = l]
        /\ pc \in [Deliveries -> Labels] /\ wire \in Seq(Frames)
    BY DEF Goto, TypeOK
  <1>1. ChannelInv' /\ RepliesInv' /\ NoSilentLoss' /\ SettledOnce'
    BY DEF ChannelInv, Ends, RepliesInv, NoSilentLoss, SettledOnce, Settles
  <1>2. WireInv'
    BY <1>0 DEF WireInv, Settles, ReplyAhead
  <1>3. GoroutineInv'
    BY <1>0 DEF GoroutineInv, GoroutineOK, CanSettle, ReplyAhead
  <1>4. LoopInv'
    BY <1>0 DEF LoopInv
  <1> QED
    BY <1>1, <1>2, <1>3, <1>4

\* A delivery that goes out of scope takes no obligation with it.
LEMMA FreeStep ==
  ASSUME Inv, NEW d \in Deliveries, Free(d),
         UNCHANGED <<brokerVars, wire, chanVars>>
  PROVE  DeliveryInv'
  <1> USE DEF Inv, DeliveryInv, brokerVars, chanVars
  <1>0. /\ pc' = [pc EXCEPT ![d] = "free"]
        /\ msg' = [msg EXCEPT ![d] = NoMsg]
        /\ epo' = [epo EXCEPT ![d] = 0]
        /\ pc \in [Deliveries -> Labels] /\ wire \in Seq(Frames)
        /\ msg \in [Deliveries -> Msgs \cup {NoMsg}]
        /\ epo \in [Deliveries -> 0..(MaxLosses + 2)]
    BY DEF Free, Goto, TypeOK
  <1>1. ChannelInv' /\ RepliesInv' /\ NoSilentLoss' /\ SettledOnce'
    BY DEF ChannelInv, Ends, RepliesInv, NoSilentLoss, SettledOnce, Settles
  <1>2. WireInv'
    BY <1>0 DEF WireInv, Settles, ReplyAhead
  <1>3. GoroutineInv'
    BY <1>0 DEF GoroutineInv, GoroutineOK, CanSettle, ReplyAhead
  <1>4. LoopInv'
    BY <1>0 DEF LoopInv
  <1> QED
    BY <1>1, <1>2, <1>3, <1>4

\* A new delivery is one the broker waits for and no frame is about.
LEMMA DeliverStep ==
  ASSUME Inv, NEW d \in Deliveries, NEW m \in Msgs, Deliver(d, m)
  PROVE  DeliveryInv'
  <1> USE DeliveryAssumption DEF Inv, DeliveryInv, chanVars
  <1>0. /\ pc' = [pc EXCEPT ![d] = "buffered"]
        /\ msg' = [msg EXCEPT ![d] = m]
        /\ epo' = [epo EXCEPT ![d] = epoch]
        /\ held' = [held EXCEPT ![d] = m]
        /\ pc \in [Deliveries -> Labels] /\ wire \in Seq(Frames)
        /\ msg \in [Deliveries -> Msgs \cup {NoMsg}]
        /\ held \in [Deliveries -> Msgs \cup {NoMsg}]
        /\ epo \in [Deliveries -> 0..(MaxLosses + 2)]
        /\ epoch \in 1..(MaxLosses + 2)
        /\ chOpen /\ held[d] = NoMsg
        /\ UNCHANGED <<gone, answered, wire, chanVars>>
    BY DEF Deliver, Goto, TypeOK
  <1>1. \A i \in 1..Len(wire) : wire[i] \in Frames
    BY <1>0
  <1>2. \A i \in 1..Len(wire) : Settles(wire[i]) => wire[i].d # d
    BY <1>0, <1>1 DEF SettledOnce, Frames
  <1>3. ChannelInv' /\ LoopInv' /\ RepliesInv' /\ NoSilentLoss'
    BY <1>0 DEF ChannelInv, LoopInv, Ends, RepliesInv, NoSilentLoss
  <1>4. SettledOnce'
    BY <1>0, <1>1, <1>2 DEF SettledOnce, Settles, Frames
  <1>5. WireInv'
    BY <1>0, <1>1, <1>2 DEF WireInv, Settles, ReplyAhead, Frames
  <1>6. ASSUME NEW e \in Deliveries, e # d
        PROVE  /\ pc'[e] = pc[e] /\ msg'[e] = msg[e] /\ epo'[e] = epo[e]
               /\ held'[e] = held[e]
    BY <1>0, <1>6
  <1>7. pc'[d] = "buffered" /\ msg'[d] = m /\ epo'[d] = epoch /\ held'[d] = m
    BY <1>0
  <1>8. GoroutineInv'
    <2> SUFFICES ASSUME NEW e \in Deliveries, pc'[e] # "free"
                 PROVE  GoroutineOK(e)'
      BY DEF GoroutineInv
    <2>1. CASE e = d
      BY <2>1, <1>0, <1>7 DEF GoroutineOK
    <2>2. CASE e # d
      BY <2>2, <1>0, <1>6 DEF GoroutineInv, GoroutineOK, CanSettle, ReplyAhead
    <2> QED
      BY <2>1, <2>2
  <1> QED
    BY <1>3, <1>4, <1>5, <1>8

\* With its channel a goroutine loses the means to settle.
LEMMA ChannelEndsStep ==
  ASSUME Inv, ChannelEnds, UNCHANGED <<gone, answered, epoch, loop, pc, msg, epo>>,
         \/ losses' = losses + 1 /\ closed' = closed
         \/ losses' = losses /\ closed = "no" /\ closed' # "no"
  PROVE  DeliveryInv'
  <1> USE DEF Inv, DeliveryInv
  <1>0. /\ wire' = <<>> /\ chOpen' = FALSE
        /\ held' = [d \in Deliveries |-> NoMsg]
        /\ epoch \in 1..(MaxLosses + 2) /\ losses \in 0..MaxLosses
    BY DEF ChannelEnds, TypeOK
  <1>1. ChannelInv' /\ LoopInv'
    BY <1>0, DeliveryAssumption DEF ChannelInv, LoopInv, Ends
  <1>2. NoSilentLoss'
    BY DEF NoSilentLoss
  <1>3. SettledOnce' /\ RepliesInv' /\ WireInv'
    BY <1>0 DEF SettledOnce, RepliesInv, WireInv
  <1>4. GoroutineInv'
    BY <1>0 DEF GoroutineInv, GoroutineOK, CanSettle
  <1> QED
    BY <1>1, <1>2, <1>3, <1>4

\* After a new channel no earlier goroutine can settle.
LEMMA RebindStep ==
  ASSUME Inv, Rebind
  PROVE  DeliveryInv'
  <1> USE DEF Inv, DeliveryInv
  <1>0. /\ ~chOpen /\ epoch' = epoch + 1 /\ loop' = "deliver"
        /\ UNCHANGED <<ready, held, gone, answered, wire, losses, closed>>
        /\ UNCHANGED <<pc, msg, epo>>
        /\ epoch \in 1..(MaxLosses + 2) /\ losses \in 0..MaxLosses
        /\ epo \in [Deliveries -> 0..(MaxLosses + 2)]
        /\ chOpen'
    BY DEF Rebind, TypeOK, LoopInv, brokerVars
  <1>1. ChannelInv' /\ LoopInv'
    BY <1>0, DeliveryAssumption DEF ChannelInv, LoopInv, Ends
  <1>2. wire = <<>>
    BY <1>0 DEF ChannelInv, Ends
  <1>3. NoSilentLoss' /\ SettledOnce' /\ RepliesInv' /\ WireInv'
    BY <1>0, <1>2 DEF NoSilentLoss, SettledOnce, RepliesInv, WireInv
  <1>4. \A d \in Deliveries : pc[d] # "free" => epo[d] <= epoch' /\ epo[d] # epoch'
    BY <1>0, DeliveryAssumption DEF GoroutineInv, GoroutineOK
  <1>5. GoroutineInv'
    BY <1>0, <1>4 DEF GoroutineInv, GoroutineOK, CanSettle
  <1> QED
    BY <1>1, <1>3, <1>5

\* A reply written to the channel of a goroutine is ahead of what it will write.
LEMMA ReplyStep ==
  ASSUME Inv, NEW d \in Deliveries, Reply(d)
  PROVE  DeliveryInv'
  <1> USE DeliveryAssumption DEF Inv, DeliveryInv, brokerVars, chanVars
  <1>0. /\ UNCHANGED <<brokerVars, chanVars, msg, epo>>
        /\ pc \in [Deliveries -> Labels] /\ wire \in Seq(Frames)
        /\ msg \in [Deliveries -> Msgs \cup {NoMsg}]
        /\ epo \in [Deliveries -> 0..(MaxLosses + 2)]
        /\ pc[d] \in {"ok", "err"}
    BY DEF Reply, TypeOK
  <1>1. PICK l \in {"ack", "requeue", "discard"} :
          /\ pc' = [pc EXCEPT ![d] = l]
          /\ l = "requeue" => ~CanReply(d)
    BY DEF Reply, Goto
  <1>2. GoroutineOK(d) /\ msg[d] \in Msgs
    BY <1>0 DEF GoroutineInv, GoroutineOK
  <1>3. \A i \in 1..Len(wire) : wire[i] \in Frames
    BY <1>0
  <1>4. \A i \in 1..Len(wire) : Settles(wire[i]) => wire[i].d # d
    BY <1>0, <1>3 DEF WireInv, Frames
  <1>4a. LoopInv'
    BY <1>0, <1>1 DEF LoopInv
  <1>5. CASE ~CanReply(d)
    <2>1. wire' = wire
      BY <1>5 DEF Reply
    <2>2. ChannelInv' /\ RepliesInv' /\ NoSilentLoss' /\ SettledOnce'
      BY <1>0, <2>1 DEF ChannelInv, Ends, RepliesInv, NoSilentLoss, SettledOnce, Settles
    <2>3. WireInv'
      BY <1>0, <1>1, <1>3, <1>4, <2>1 DEF WireInv, Settles, ReplyAhead, Frames
    <2>4. ~CanSettle(d)' \/ msg'[d] \notin Rpc
      BY <1>0, <1>5 DEF CanReply, CanSettle
    <2>5. GoroutineOK(d)'
      BY <1>0, <1>1, <1>2, <2>1, <2>4 DEF GoroutineOK, CanSettle
    <2>6. GoroutineInv'
      BY <1>0, <1>1, <2>1, <2>5 DEF GoroutineInv, GoroutineOK, CanSettle, ReplyAhead
    <2> QED
      BY <1>4a, <2>2, <2>3, <2>6
  <1>6. CASE CanReply(d)
    <2> DEFINE f == [kind |-> "reply", d |-> d, m |-> msg[d]]
    <2>1. wire' = Append(wire, f) /\ f \in Frames /\ ~Settles(f)
      BY <1>2, <1>6 DEF Reply, Frame, Frames, Settles
    <2>2. /\ Len(wire') = Len(wire) + 1 /\ Len(wire) \in Nat
          /\ \A i \in 1..Len(wire) : wire'[i] = wire[i]
          /\ wire'[Len(wire) + 1] = f
      BY <1>0, <2>1
    <2> HIDE DEF f
    <2>3. ChannelInv' /\ NoSilentLoss'
      BY <1>0, <1>6 DEF ChannelInv, Ends, NoSilentLoss, CanReply
    <2>3a. RepliesInv'
      <3>1. f.m \in Rpc
        BY <1>6 DEF f, CanReply
      <3> QED
        BY <2>2, <3>1 DEF RepliesInv
    <2>4. \A i \in 1..Len(wire') : Settles(wire'[i]) =>
              i \in 1..Len(wire) /\ wire'[i] = wire[i]
      BY <2>1, <2>2
    <2>5. SettledOnce'
      <3>1. SettledOnce /\ held' = held
        BY <1>0
      <3>2. ASSUME NEW i \in 1..Len(wire'), Settles(wire'[i])
            PROVE  /\ i \in 1..Len(wire) /\ wire'[i] = wire[i]
                   /\ held'[wire'[i].d] = wire'[i].m
        BY <2>4, <3>1, <3>2 DEF SettledOnce
      <3>3. ASSUME NEW i \in 1..Len(wire'), NEW j \in 1..Len(wire'),
                   Settles(wire'[i]), Settles(wire'[j]), wire'[j].d = wire'[i].d
            PROVE  i = j
        BY <2>4, <3>1, <3>3 DEF SettledOnce
      <3> QED
        BY <3>2, <3>3 DEF SettledOnce, Settles
    <2>6. \A x, n : n <= Len(wire) /\ n \in Int /\ ReplyAhead(wire, x, n)
                       => ReplyAhead(wire', x, n)
      BY <2>2 DEF ReplyAhead
    <2>7. WireInv'
      <3> SUFFICES ASSUME NEW i \in 1..Len(wire), Settles(wire[i])
                   PROVE  /\ pc'[wire[i].d] \in {"done", "free"}
                          /\ wire[i].m \in Rpc =>
                              /\ wire[i].kind # "requeue"
                              /\ wire[i].m \in answered \/ ReplyAhead(wire', wire[i].m, i - 1)
        BY <1>0, <2>2, <2>4 DEF WireInv, Settles
      <3>1. pc'[wire[i].d] \in {"done", "free"}
        BY <1>0, <1>1, <1>3, <1>4 DEF WireInv, Frames
      <3>2. ReplyAhead(wire, wire[i].m, i - 1) => ReplyAhead(wire', wire[i].m, i - 1)
        BY <2>2, <2>6
      <3> QED
        BY <3>1, <3>2 DEF WireInv
    <2>8. \A x : ReplyAhead(wire, x, Len(wire)) => ReplyAhead(wire', x, Len(wire'))
      BY <2>2 DEF ReplyAhead
    <2>9. ReplyAhead(wire', msg[d], Len(wire'))
      <3>1. f.kind = "reply" /\ f.m = msg[d]
        BY DEF f
      <3> QED
        BY <1>0, <2>2, <3>1 DEF ReplyAhead
    <2>10. GoroutineOK(d)'
      BY <1>0, <1>1, <1>2, <1>6, <2>9 DEF GoroutineOK, CanSettle
    <2>11. ASSUME NEW e \in Deliveries, e # d, pc'[e] # "free"
           PROVE  GoroutineOK(e)'
      <3>1. pc'[e] = pc[e] /\ GoroutineOK(e)
        BY <1>0, <1>1, <2>11 DEF GoroutineInv
      <3> QED
        BY <1>0, <2>8, <3>1 DEF GoroutineOK, CanSettle
    <2> QED
      BY <1>4a, <2>3, <2>3a, <2>5, <2>7, <2>10, <2>11 DEF GoroutineInv
  <1> QED
    BY <1>5, <1>6

\* A goroutine settles its own tag, for the first time, behind its reply.
LEMMA SettleStep ==
  ASSUME Inv, NEW d \in Deliveries, Settle(d)
  PROVE  DeliveryInv'
  <1> USE DeliveryAssumption DEF Inv, DeliveryInv, brokerVars, chanVars
  <1>0. /\ UNCHANGED <<brokerVars, chanVars, msg, epo>>
        /\ pc \in [Deliveries -> Labels] /\ wire \in Seq(Frames)
        /\ msg \in [Deliveries -> Msgs \cup {NoMsg}]
        /\ pc[d] \in {"ack", "requeue", "discard"}
        /\ pc' = [pc EXCEPT ![d] = "done"]
    BY DEF Settle, TypeOK, Goto
  <1>1. GoroutineOK(d) /\ msg[d] \in Msgs
    BY <1>0 DEF GoroutineInv, GoroutineOK
  <1>2. \A i \in 1..Len(wire) : wire[i] \in Frames
    BY <1>0
  <1>3. \A i \in 1..Len(wire) : Settles(wire[i]) => wire[i].d # d
    BY <1>0, <1>2 DEF WireInv, Frames
  <1>3a. LoopInv'
    BY <1>0 DEF LoopInv
  <1>4. CASE ~CanSettle(d)
    <2>1. wire' = wire
      BY <1>4 DEF Settle
    <2>2. ChannelInv' /\ RepliesInv' /\ NoSilentLoss' /\ SettledOnce'
      BY <1>0, <2>1 DEF ChannelInv, Ends, RepliesInv, NoSilentLoss, SettledOnce, Settles
    <2>3. WireInv'
      BY <1>0, <1>2, <2>1 DEF WireInv, Settles, ReplyAhead, Frames
    <2>4. GoroutineInv'
      BY <1>0, <2>1 DEF GoroutineInv, GoroutineOK, CanSettle, ReplyAhead
    <2> QED
      BY <1>3a, <2>2, <2>3, <2>4
  <1>5. CASE CanSettle(d)
    <2> DEFINE f == [kind |-> pc[d], d |-> d, m |-> msg[d]]
    <2>1. /\ wire' = Append(wire, f)
          /\ f \in Frames /\ f.kind = pc[d] /\ f.d = d /\ f.m = msg[d]
      BY <1>0, <1>1, <1>5 DEF Settle, Frame, Frames
    <2> HIDE DEF f
    <2>2. /\ Len(wire') = Len(wire) + 1 /\ Len(wire) \in Nat
          /\ \A i \in 1..Len(wire) : wire'[i] = wire[i]
          /\ wire'[Len(wire) + 1] = f
      BY <1>0, <2>1
    <2>3. ChannelInv' /\ NoSilentLoss'
      BY <1>0, <1>5 DEF ChannelInv, Ends, NoSilentLoss, CanSettle
    <2>3a. RepliesInv'
      <3>1. f.kind # "reply"
        BY <1>0, <2>1
      <3> QED
        BY <2>2, <3>1 DEF RepliesInv
    <2>4. held[d] = msg[d]
      BY <1>0, <1>1, <1>5 DEF GoroutineOK
    <2>5. SettledOnce'
      <3>1. ASSUME NEW i \in 1..Len(wire), Settles(wire[i])
            PROVE  held'[wire'[i].d] = wire'[i].m
        BY <1>0, <2>2, <3>1 DEF SettledOnce
      <3>2. held'[wire'[Len(wire) + 1].d] = wire'[Len(wire) + 1].m
        BY <1>0, <2>1, <2>2, <2>4
      <3>3. ASSUME NEW i \in 1..Len(wire'), NEW j \in 1..Len(wire'),
                   Settles(wire'[i]), Settles(wire'[j]), wire'[i].d = wire'[j].d
            PROVE  i = j
        BY <1>3, <2>1, <2>2, <3>3 DEF SettledOnce
      <3> QED
        BY <2>2, <3>1, <3>2, <3>3 DEF SettledOnce, Settles
    <2>6. \A x, n : n <= Len(wire) /\ n \in Int /\ ReplyAhead(wire, x, n)
                       => ReplyAhead(wire', x, n)
      BY <2>2 DEF ReplyAhead
    <2>7. ASSUME NEW i \in 1..Len(wire), Settles(wire[i])
          PROVE  /\ pc'[wire[i].d] \in {"done", "free"}
                 /\ wire[i].m \in Rpc =>
                     /\ wire[i].kind # "requeue"
                     /\ wire[i].m \in answered \/ ReplyAhead(wire', wire[i].m, i - 1)
      <3>1. pc'[wire[i].d] \in {"done", "free"}
        BY <1>0, <1>2, <2>7 DEF WireInv, Frames
      <3>2. ReplyAhead(wire, wire[i].m, i - 1) => ReplyAhead(wire', wire[i].m, i - 1)
        BY <2>2, <2>6
      <3> QED
        BY <2>7, <3>1, <3>2 DEF WireInv
    <2>8. /\ pc'[f.d] = "done"
          /\ f.m \in Rpc => /\ f.kind # "requeue"
                            /\ f.m \in answered \/ ReplyAhead(wire, f.m, Len(wire))
      BY <1>0, <1>1, <1>5, <2>1 DEF GoroutineOK
    <2>9. WireInv'
      <3>1. \A i \in 1..Len(wire') : i \in 1..Len(wire) \/ i = Len(wire) + 1
        BY <2>2
      <3>2. f.m \in Rpc => f.m \in answered \/ ReplyAhead(wire', f.m, (Len(wire) + 1) - 1)
        BY <2>2, <2>6, <2>8
      <3> QED
        BY <1>0, <2>2, <2>7, <2>8, <3>1, <3>2 DEF WireInv, Settles
    <2>10. \A x : ReplyAhead(wire, x, Len(wire)) => ReplyAhead(wire', x, Len(wire'))
      BY <2>2 DEF ReplyAhead
    <2>11. ASSUME NEW e \in Deliveries, pc'[e] # "free"
           PROVE  GoroutineOK(e)'
      <3>1. CASE e = d
        BY <1>0, <1>1, <3>1 DEF GoroutineOK
      <3>2. CASE e # d
        <4>1. pc'[e] = pc[e] /\ GoroutineOK(e)
          BY <1>0, <2>11, <3>2 DEF GoroutineInv
        <4> QED
          BY <1>0, <2>10, <4>1 DEF GoroutineOK, CanSettle
      <3> QED
        BY <3>1, <3>2
    <2> QED
      BY <1>3a, <2>3, <2>3a, <2>5, <2>9, <2>11 DEF GoroutineInv
  <1> QED
    BY <1>4, <1>5

\* The broker takes the frame at the head: a reply becomes an answer, and the
\* request of a settling frame has been answered, as nothing is ahead of it.
LEMMA BrokerReceiveStep ==
  ASSUME Inv, BrokerReceive
  PROVE  DeliveryInv' /\ [Promise!Next]_<<answered, gone>>
  <1> USE DeliveryAssumption DEF Inv, DeliveryInv, chanVars
  <1> DEFINE f == wire[1]
  <1>0. /\ UNCHANGED <<chanVars, pc, msg, epo>>
        /\ wire \in Seq(Frames) /\ wire # <<>> /\ wire' = Tail(wire)
        /\ held \in [Deliveries -> Msgs \cup {NoMsg}]
    BY DEF BrokerReceive, TypeOK
  <1>1. /\ Len(wire) \in Nat /\ Len(wire) >= 1 /\ Len(wire') = Len(wire) - 1
        /\ \A i \in 1..Len(wire') : i + 1 \in 1..Len(wire) /\ wire'[i] = wire[i + 1]
        /\ f = Head(wire)
    BY <1>0
  <1>2. /\ \A i \in 1..Len(wire) : wire[i] \in Frames
        /\ f \in Frames
    BY <1>0, <1>1
  <1>2a. f.d \in Deliveries /\ f.m \in Msgs
    BY <1>2 DEF Frames
  <1>3. \/ /\ f.kind = "reply"
           /\ answered' = answered \cup {f.m}
           /\ UNCHANGED <<ready, held, gone>>
        \/ /\ f.kind \in {"ack", "discard"}
           /\ held' = [held EXCEPT ![f.d] = NoMsg]
           /\ gone' = gone \cup {f.m}
           /\ UNCHANGED <<ready, answered>>
        \/ /\ f.kind = "requeue"
           /\ held' = [held EXCEPT ![f.d] = NoMsg]
           /\ ready' = ready \cup {f.m}
           /\ UNCHANGED <<gone, answered>>
    BY <1>1 DEF BrokerReceive
  <1>4. Settles(f) => /\ pc[f.d] \in {"done", "free"}
                      /\ f.m \in Rpc => f.m \in answered
    BY <1>1 DEF WireInv, ReplyAhead
  <1>5. answered \subseteq answered' /\ (f.kind = "reply" => f.m \in answered')
    BY <1>3
  <1>6. \A x, n : n \in 1..Len(wire) /\ ReplyAhead(wire, x, n)
                     => x \in answered' \/ ReplyAhead(wire', x, n - 1)
    <2> SUFFICES ASSUME NEW x, NEW n \in 1..Len(wire), NEW j \in 1..n,
                        wire[j].kind = "reply", wire[j].m = x
                 PROVE  x \in answered' \/ ReplyAhead(wire', x, n - 1)
      BY DEF ReplyAhead
    <2>1. CASE j = 1
      BY <1>5, <2>1
    <2>2. CASE j # 1
      <3>1. j - 1 \in 1..(n - 1) /\ j - 1 \in 1..Len(wire') /\ (j - 1) + 1 = j
        BY <1>1, <2>2
      <3> QED
        BY <1>1, <3>1 DEF ReplyAhead
    <2> QED
      BY <2>1, <2>2
  <1>7. ChannelInv' /\ LoopInv'
    <2>1. chOpen
      BY <1>0 DEF ChannelInv, Ends
    <2> QED
      BY <1>0, <2>1 DEF ChannelInv, LoopInv, Ends
  <1>7a. RepliesInv'
    BY <1>1 DEF RepliesInv
  <1>8. NoSilentLoss'
    BY <1>3, <1>4 DEF NoSilentLoss, Settles
  <1>9. SettledOnce'
    <2>1. \A i \in 1..Len(wire) : i # 1 /\ Settles(wire[i]) =>
              held'[wire[i].d] = wire[i].m
      <3> SUFFICES ASSUME NEW i \in 1..Len(wire), i # 1, Settles(wire[i])
                   PROVE  held'[wire[i].d] = wire[i].m
        OBVIOUS
      <3>1. held[wire[i].d] = wire[i].m /\ wire[i].d \in Deliveries
        BY <1>2 DEF SettledOnce, Frames
      <3>2. Settles(f) => f.d # wire[i].d
        BY <1>1 DEF SettledOnce
      <3> QED
        BY <1>0, <1>3, <3>1, <3>2 DEF Settles
    <2>2. ASSUME NEW i \in 1..Len(wire'), Settles(wire'[i])
          PROVE  held'[wire'[i].d] = wire'[i].m
      BY <1>1, <2>1, <2>2
    <2>3. ASSUME NEW i \in 1..Len(wire'), NEW j \in 1..Len(wire'),
                 Settles(wire'[i]), Settles(wire'[j]), wire'[j].d = wire'[i].d
          PROVE  i = j
      <3>1. /\ i + 1 \in 1..Len(wire) /\ j + 1 \in 1..Len(wire)
            /\ wire'[i] = wire[i + 1] /\ wire'[j] = wire[j + 1]
        BY <1>1
      <3>2. i + 1 = j + 1
        BY <2>3, <3>1 DEF SettledOnce
      <3> QED
        BY <3>2
    <2> QED
      BY <2>2, <2>3 DEF SettledOnce, Settles
  <1>10. WireInv'
    <2> SUFFICES ASSUME NEW i \in 1..Len(wire'), Settles(wire'[i])
                 PROVE  /\ pc[wire'[i].d] \in {"done", "free"}
                        /\ wire'[i].m \in Rpc =>
                            /\ wire'[i].kind # "requeue"
                            /\ wire'[i].m \in answered' \/ ReplyAhead(wire', wire'[i].m, i - 1)
      BY <1>0 DEF WireInv, Settles
    <2>1. /\ i + 1 \in 1..Len(wire) /\ wire'[i] = wire[i + 1]
          /\ i \in 1..Len(wire) /\ (i + 1) - 1 = i
      BY <1>1
    <2>2. ReplyAhead(wire, wire[i + 1].m, i) =>
            wire[i + 1].m \in answered' \/ ReplyAhead(wire', wire[i + 1].m, i - 1)
      BY <1>6, <2>1
    <2> QED
      BY <1>5, <2>1, <2>2 DEF WireInv
  <1>11. GoroutineInv'
    <2> SUFFICES ASSUME NEW d \in Deliveries, pc[d] # "free"
                 PROVE  GoroutineOK(d)'
      BY <1>0 DEF GoroutineInv
    <2>1. GoroutineOK(d)
      BY DEF GoroutineInv
    <2>2. pc[d] # "done" => held'[d] = held[d]
      BY <1>0, <1>3, <1>4 DEF Settles
    <2>3. ReplyAhead(wire, msg[d], Len(wire)) =>
            msg[d] \in answered' \/ ReplyAhead(wire', msg[d], Len(wire'))
      BY <1>0, <1>1, <1>6
    <2> QED
      BY <1>0, <1>5, <2>1, <2>2, <2>3 DEF GoroutineOK, CanSettle
  <1>12. [Promise!Next]_<<answered, gone>>
    <2>1. f.kind = "reply" => f.m \in Rpc
      BY <1>1 DEF RepliesInv
    <2> QED
      BY <1>2a, <1>3, <1>4, <2>1 DEF Promise!Next, Promise!Answer, Promise!Settle, Settles
  <1> QED
    BY SMTT(30), <1>7, <1>7a, <1>8, <1>9, <1>10, <1>11, <1>12

-----------------------------------------------------------------------------
\* TypeOK in three parts, so that each step cites the part it disturbs.
BrokerType ==
    /\ ready \in SUBSET Msgs /\ gone \in SUBSET Msgs /\ answered \in SUBSET Msgs
    /\ held \in [Deliveries -> Msgs \cup {NoMsg}]
    /\ wire \in Seq(Frames)

ChannelType ==
    /\ chOpen \in BOOLEAN /\ loop \in {"deliver", "retry", "exit"}
    /\ closed \in {"no", "closing", "closed"}
    /\ epoch \in 1..(MaxLosses + 2) /\ losses \in 0..MaxLosses

GoroutineType ==
    /\ pc \in [Deliveries -> Labels]
    /\ msg \in [Deliveries -> Msgs \cup {NoMsg}]
    /\ epo \in [Deliveries -> 0..(MaxLosses + 2)]
    /\ execs \in [Msgs -> 0..ExecCap]

LEMMA TypeParts == TypeOK <=> BrokerType /\ ChannelType /\ GoroutineType
  BY DEF TypeOK, BrokerType, ChannelType, GoroutineType

\* Every step keeps the types, and ChannelInv bounds the epochs.
LEMMA TypeStep == ASSUME Inv, Next PROVE TypeOK'
  <1> USE DeliveryAssumption
  <1>0. BrokerType /\ ChannelType /\ GoroutineType /\ ChannelInv /\ LoopInv /\ GoroutineInv
    BY TypeParts DEF Inv, DeliveryInv
  <1>1. ASSUME NEW d \in Deliveries, NEW m \in Msgs, Deliver(d, m)
        PROVE  TypeOK'
    <2>1. BrokerType'
      BY <1>0, <1>1 DEF Deliver, BrokerType
    <2>2. ChannelType'
      BY <1>0, <1>1 DEF Deliver, ChannelType, chanVars
    <2>3. GoroutineType'
      BY <1>0, <1>1 DEF Deliver, GoroutineType, ChannelType, Goto, Labels
    <2> QED
      BY <2>1, <2>2, <2>3, TypeParts DEF TypeOK, BrokerType, ChannelType, GoroutineType
  <1>2. ASSUME NEW d \in Deliveries, Free(d),
               UNCHANGED <<brokerVars, wire, chanVars, execs>>
        PROVE  TypeOK'
    <2>1. GoroutineType'
      BY <1>0, <1>2 DEF Free, GoroutineType, Goto, Labels
    <2>2. BrokerType' /\ ChannelType'
      BY <1>0, <1>2 DEF BrokerType, ChannelType, brokerVars, chanVars
    <2> QED
      BY <2>1, <2>2 DEF TypeOK, BrokerType, ChannelType, GoroutineType
  <1>3. ASSUME NEW d \in Deliveries, NEW l \in Labels, Goto(d, l),
               UNCHANGED <<brokerVars, wire, chanVars, msg, epo, execs>>
        PROVE  TypeOK'
    <2>1. GoroutineType'
      BY <1>0, <1>3 DEF GoroutineType, Goto
    <2>2. BrokerType' /\ ChannelType'
      BY <1>0, <1>3 DEF BrokerType, ChannelType, brokerVars, chanVars
    <2> QED
      BY <2>1, <2>2 DEF TypeOK, BrokerType, ChannelType, GoroutineType
  <1>4. ASSUME NEW d \in Deliveries, StartHandler(d)
        PROVE  TypeOK'
    <2>1. msg[d] \in Msgs
      BY <1>0, <1>4 DEF StartHandler, GoroutineInv, GoroutineOK, GoroutineType
    <2>2. execs' \in [Msgs -> 0..ExecCap]
      BY <1>0, <1>4, <2>1 DEF StartHandler, GoroutineType, ExecCap
    <2>3. GoroutineType'
      BY <1>0, <1>4, <2>2 DEF StartHandler, GoroutineType, Goto, Labels
    <2>4. BrokerType' /\ ChannelType'
      BY <1>0, <1>4 DEF StartHandler, BrokerType, ChannelType, brokerVars, chanVars
    <2> QED
      BY <2>3, <2>4 DEF TypeOK, BrokerType, ChannelType, GoroutineType
  <1>5. ASSUME NEW d \in Deliveries, Reply(d) \/ Settle(d)
        PROVE  TypeOK'
    <2>1. /\ pc' \in [Deliveries -> Labels]
          /\ UNCHANGED <<brokerVars, chanVars, msg, epo, execs>>
      BY <1>0, <1>5 DEF Reply, Settle, GoroutineType, Goto, Labels
    <2>2. pc[d] # "free"
      BY <1>5 DEF Reply, Settle
    <2>3. msg[d] \in Msgs
      BY <1>0, <2>2 DEF GoroutineInv, GoroutineOK, GoroutineType
    <2>4. wire' \in Seq(Frames)
      <3>1. /\ Frame("reply", d) \in Frames
            /\ pc[d] \in {"ack", "requeue", "discard"} => Frame(pc[d], d) \in Frames
        BY <2>3 DEF Frame, Frames
      <3>2. wire \in Seq(Frames)
        BY <1>0 DEF BrokerType
      <3>3. \/ wire' = wire
            \/ wire' = Append(wire, Frame("reply", d))
            \/ pc[d] \in {"ack", "requeue", "discard"} /\ wire' = Append(wire, Frame(pc[d], d))
        BY <1>5 DEF Reply, Settle
      <3> QED
        BY <3>1, <3>2, <3>3
    <2>5. GoroutineType'
      BY <1>0, <2>1 DEF GoroutineType
    <2>6. BrokerType' /\ ChannelType'
      BY <1>0, <2>1, <2>4 DEF BrokerType, ChannelType, brokerVars, chanVars
    <2> QED
      BY <2>5, <2>6 DEF TypeOK, BrokerType, ChannelType, GoroutineType
  <1>6. ASSUME BrokerReceive
        PROVE  TypeOK'
    <2>1. Head(wire) \in Frames /\ wire' \in Seq(Frames)
      BY <1>0, <1>6 DEF BrokerReceive, BrokerType
    <2>2. Head(wire).m \in Msgs
      BY <2>1 DEF Frames
    <2>3. BrokerType'
      BY <1>0, <1>6, <2>1, <2>2 DEF BrokerReceive, BrokerType
    <2>4. ChannelType' /\ GoroutineType'
      BY <1>0, <1>6 DEF BrokerReceive, ChannelType, GoroutineType, chanVars
    <2> QED
      BY <2>3, <2>4 DEF TypeOK, BrokerType, ChannelType, GoroutineType
  <1>7. ASSUME ChannelEnds PROVE wire' \in Seq(Frames) /\ ready' \in SUBSET Msgs
                                 /\ held' \in [Deliveries -> Msgs \cup {NoMsg}]
    BY <1>0, <1>7 DEF ChannelEnds, BrokerType, Unacked
  <1>8. ASSUME ChannelLost PROVE TypeOK'
    <2>1. BrokerType' /\ GoroutineType'
      BY <1>0, <1>7, <1>8 DEF ChannelLost, BrokerType, GoroutineType
    <2>2. losses' \in 0..MaxLosses
      BY <1>0, <1>8 DEF ChannelLost, ChannelType
    <2>3. ChannelType'
      BY <1>0, <1>8, <2>2 DEF ChannelLost, ChannelEnds, ChannelType
    <2> QED
      BY <2>1, <2>3 DEF TypeOK, BrokerType, ChannelType, GoroutineType
  <1>9. ASSUME Rebind PROVE TypeOK'
    <2>1. BrokerType' /\ GoroutineType'
      BY <1>0, <1>9 DEF Rebind, BrokerType, GoroutineType, brokerVars
    <2>2. epoch' \in 1..(MaxLosses + 2)
      <3>1. loop = "retry" /\ epoch' = epoch + 1
        BY <1>9 DEF Rebind
      <3>2. ~chOpen
        BY <1>0, <3>1 DEF LoopInv
      <3>3. epoch <= Ends
        BY <1>0, <3>2 DEF ChannelInv
      <3>4. losses \in 0..MaxLosses /\ epoch \in Nat /\ epoch >= 1
        BY <1>0 DEF ChannelType
      <3>5. Ends \in Nat /\ Ends <= MaxLosses + 1
        BY <3>4 DEF Ends
      <3> QED
        BY <3>1, <3>3, <3>4, <3>5
    <2>3. ChannelType'
      BY <1>0, <1>9, <2>2 DEF Rebind, ChannelType
    <2> QED
      BY <2>1, <2>3 DEF TypeOK, BrokerType, ChannelType, GoroutineType
  <1>10. ASSUME SubClose PROVE TypeOK'
    <2>1. BrokerType' /\ GoroutineType'
      BY <1>0, <1>7, <1>10 DEF SubClose, BrokerType, GoroutineType
    <2>2. ChannelType'
      BY <1>0, <1>10 DEF SubClose, ChannelEnds, ChannelType
    <2> QED
      BY <2>1, <2>2 DEF TypeOK, BrokerType, ChannelType, GoroutineType
  <1>11. ASSUME LoopChecksDone \/ SubCloseDone PROVE TypeOK'
    <2>1. BrokerType' /\ GoroutineType'
      BY <1>0, <1>11 DEF LoopChecksDone, SubCloseDone, BrokerType, GoroutineType, brokerVars
    <2>2. ChannelType'
      BY <1>0, <1>11 DEF LoopChecksDone, SubCloseDone, ChannelType
    <2> QED
      BY <2>1, <2>2 DEF TypeOK, BrokerType, ChannelType, GoroutineType
  <1> QED
    BY <1>1, <1>2, <1>3, <1>4, <1>5, <1>6, <1>8, <1>9, <1>10, <1>11
       DEF Next, DropBuffered, Finish, Pick, HandlerTimeout, HandlerReturns, Labels

-----------------------------------------------------------------------------
\* What a step that at most closes the subscription or moves its loop leaves as
\* it was.
LEMMA StillInv ==
  ASSUME Inv, LoopInv', closed = "no" \/ closed' # "no",
         UNCHANGED <<chOpen, wire, held, gone, answered, epoch, losses, pc, msg, epo>>
  PROVE  DeliveryInv'
  <1> USE DEF Inv, DeliveryInv
  <1>1. ChannelInv'
    <2>1. epoch \in Int /\ losses \in Int
      BY DeliveryAssumption DEF TypeOK
    <2>2. /\ epoch <= Ends + 1 => epoch <= Ends' + 1
          /\ epoch <= Ends => epoch <= Ends'
      BY <2>1 DEF Ends
    <2>3. epoch' <= Ends' + 1 /\ (chOpen' \/ epoch' <= Ends')
      BY <2>2, Zenon DEF ChannelInv
    <2>4. chOpen' \/ (wire' = <<>> /\ \A d \in Deliveries : held'[d] = NoMsg)
      BY DEF ChannelInv
    <2> QED
      BY <2>3, <2>4 DEF ChannelInv
  <1>2. RepliesInv'
    BY DEF RepliesInv
  <1>3. WireInv'
    BY DEF WireInv, Settles, ReplyAhead
  <1>4. GoroutineInv'
    BY DEF GoroutineInv, GoroutineOK, CanSettle, ReplyAhead
  <1>5. NoSilentLoss' /\ SettledOnce'
    BY DEF NoSilentLoss, SettledOnce, Settles
  <1> QED
    BY <1>1, <1>2, <1>3, <1>4, <1>5

\* Every step keeps the invariant and is a step of AtLeastOnce or none.
LEMMA InvStep ==
  ASSUME Inv, [Next]_vars
  PROVE  Inv' /\ [Promise!Next]_<<answered, gone>>
  <1> USE DEF vars, brokerVars, chanVars
  <1>1. CASE UNCHANGED vars
    <2>1. DeliveryInv'
      BY <1>1, StillInv DEF Inv, DeliveryInv, LoopInv
    <2>2. TypeOK'
      BY <1>1 DEF Inv, TypeOK
    <2> QED
      BY <1>1, <2>1, <2>2 DEF Inv
  <1>2. CASE Next
    <2>0. TypeOK'
      BY <1>2, TypeStep
    <2>1. ASSUME NEW d \in Deliveries, NEW m \in Msgs, Deliver(d, m)
          PROVE  DeliveryInv' /\ UNCHANGED <<answered, gone>>
      BY <2>1, DeliverStep DEF Deliver
    <2>2. ASSUME NEW d \in Deliveries, DropBuffered(d) \/ Finish(d)
          PROVE  DeliveryInv' /\ UNCHANGED <<answered, gone>>
      BY <2>2, FreeStep DEF DropBuffered, Finish
    <2>3. ASSUME NEW d \in Deliveries,
                 Pick(d) \/ StartHandler(d) \/ HandlerTimeout(d) \/ HandlerReturns(d)
          PROVE  DeliveryInv' /\ UNCHANGED <<answered, gone>>
      BY <2>3, MoveStep DEF Pick, StartHandler, HandlerTimeout, HandlerReturns
    <2>4. ASSUME NEW d \in Deliveries, Reply(d)
          PROVE  DeliveryInv' /\ UNCHANGED <<answered, gone>>
      BY <2>4, ReplyStep DEF Reply
    <2>5. ASSUME NEW d \in Deliveries, Settle(d)
          PROVE  DeliveryInv' /\ UNCHANGED <<answered, gone>>
      BY <2>5, SettleStep DEF Settle
    <2>6. CASE BrokerReceive
      BY <2>0, <2>6, BrokerReceiveStep DEF Inv
    <2>7. CASE ChannelLost
      <3>1. DeliveryInv' /\ UNCHANGED <<answered, gone>>
        BY <2>7, ChannelEndsStep DEF ChannelLost
      <3> QED
        BY <2>0, <3>1 DEF Inv
    <2>8. CASE Rebind
      <3>1. DeliveryInv' /\ UNCHANGED <<answered, gone>>
        BY <2>8, RebindStep DEF Rebind
      <3> QED
        BY <2>0, <3>1 DEF Inv
    <2>9. CASE SubClose
      <3>1. CASE ChannelEnds
        <4>1. DeliveryInv'
          BY <2>9, <3>1, ChannelEndsStep DEF SubClose
        <4> QED
          BY <2>0, <2>9, <4>1 DEF Inv, SubClose
      <3>2. CASE ~chOpen /\ UNCHANGED <<chOpen, wire, ready, held>>
        <4>1. UNCHANGED <<chOpen, wire, ready, held, gone, answered, epoch, loop, losses,
                          pc, msg, epo, execs>> /\ closed' = "closing"
          BY <2>9, <3>2 DEF SubClose
        <4>2. DeliveryInv'
          BY <4>1, StillInv DEF Inv, DeliveryInv, LoopInv
        <4> QED
          BY <2>0, <4>1, <4>2 DEF Inv
      <3> QED
        BY <2>9, <3>1, <3>2 DEF SubClose
    <2>10. CASE LoopChecksDone \/ SubCloseDone
      <3>1. /\ UNCHANGED <<chOpen, wire, ready, held, gone, answered, epoch, losses,
                           pc, msg, epo, execs>>
            /\ closed = "no" \/ closed' # "no"
        BY <2>10 DEF LoopChecksDone, SubCloseDone
      <3>2. LoopInv'
        BY <2>10, <3>1 DEF LoopChecksDone, SubCloseDone, Inv, DeliveryInv, LoopInv
      <3>3. DeliveryInv'
        BY <3>1, <3>2, StillInv
      <3> QED
        BY <2>0, <3>1, <3>3 DEF Inv
    <2> QED
      BY <1>2, <2>0, <2>1, <2>2, <2>3, <2>4, <2>5, <2>6, <2>7, <2>8, <2>9, <2>10
         DEF Next, Inv
  <1> QED
    BY <1>1, <1>2

LEMMA Invariance == Spec => []Inv
  <1>1. Inv /\ [Next]_vars => Inv'
    BY InvStep
  <1> QED
    BY InitInv, <1>1, PTL DEF Spec

\* The state of queue, channel and goroutines stays well typed; in particular
\* a subscription never has more channels than losses and Close allow.
THEOREM TypeCorrect == Spec => []TypeOK
  BY Invariance, PTL DEF Inv

\* The inductive invariant of the reply-then-settle order of adapter.wrap.
THEOREM DeliveryInvariant == Spec => []DeliveryInv
  BY Invariance, PTL DEF Inv

\* The broker forgets a request only after it has routed an answer for it,
\* whatever channels are lost between wrap's Reply and its Ack.
THEOREM RequestsNeverLostSilently == Spec => []NoSilentLoss
  <1>1. Inv => NoSilentLoss
    BY DEF Inv, DeliveryInv
  <1> QED
    BY <1>1, Invariance, PTL

\* No tag is settled twice or after the broker has forgotten it.
THEOREM TagsSettledOnce == Spec => []SettledOnce
  <1>1. Inv => SettledOnce
    BY DEF Inv, DeliveryInv
  <1> QED
    BY <1>1, Invariance, PTL

\* Broker, channel, deliverLoop and wrap together implement AtLeastOnce.
THEOREM EndpointKeepsPromise == Spec => KeepsPromise
  <1>1. Init => Promise!Init
    BY DEF Init, Promise!Init
  <1>2. Inv /\ [Next]_vars => [Promise!Next]_<<answered, gone>>
    BY InvStep
  <1> QED
    BY <1>1, <1>2, Invariance, PTL DEF Spec, KeepsPromise, Promise!Spec

=============================================================================
