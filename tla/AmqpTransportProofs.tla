------------------------ MODULE AmqpTransportProofs ------------------------
(***************************************************************************)
(* Machine-checked proofs about AmqpTransport, for any number of           *)
(* subscriptions, publishers and requesters and any number of faults: the  *)
(* type invariant, one socket at a time, one dial per fault, no nil        *)
(* connection, no stale publish channel, that only dead connections are    *)
(* replaced, when an orphaned consumer ends, and the one circular wait of  *)
(* the two mutexes.  They rest on one inductive invariant, ReconnectInv.   *)
(***************************************************************************)
EXTENDS AmqpTransport, TLAPS

Inv == TypeOK /\ ReconnectInv

\* The goroutines that run connectionForUse or reconnect: all but Close.
Dialers == Threads \ {Closer}

\* The labels of reconnect behind its second look, where dialMu is held.
Busy == {"dial", "install", "resetPub"}

LEMMA InitInv == Init => Inv
  <1> SUFFICES ASSUME Init PROVE Inv
    OBVIOUS
  <1> USE ThreadsAssumption, BoundsAssumption
  <1>1. TypeOK
    <2>1. pc \in [Threads -> Labels]
      BY DEF Init, Threads, Labels
    <2>2. /\ res \in [Threads -> Conns] /\ subCh \in [Subs -> Conns]
          /\ conn \in Conns /\ pubCh \in Conns
      BY DEF Init, Conns
    <2>3. /\ subs \in Seq(Subs) /\ rem \in Seq(Subs)
          /\ subClose \in [Subs -> {"no", "closing", "closed"}]
          /\ spawned \in SUBSET Subs /\ unreg \in SUBSET Subs
      BY DEF Init
    <2>4. dialMu \in Threads \cup {None} /\ pubMu \in Publishers \cup {None}
      BY DEF Init
    <2>5. /\ live \in SUBSET Conns
          /\ dials \in 0..MaxFaults /\ faults \in 0..MaxFaults
          /\ resets \in 0..MaxResets
      BY DEF Init, Conns
    <2>6. dialFn \in BOOLEAN /\ closed \in BOOLEAN /\ up \in BOOLEAN
      BY DEF Init
    <2> QED
      BY <2>1, <2>2, <2>3, <2>4, <2>5, <2>6 DEF TypeOK
  <1>2. \A t \in Threads : pc[t] \notin Busy \cup {"have"}
    BY DEF Init, Threads, Busy
  <1>3. pc[Closer] = "idle" /\ (~dialFn => pc[WD] = "off") /\ res[Closer] = 0
    BY DEF Init, Threads
  <1>4. OneSocket /\ DialsBounded /\ PubChFresh /\ NoNilConnection
    BY <1>2 DEF Init, OneSocket, DialsBounded, PubChFresh, NoNilConnection
  <1>5. ReconnectInv
    BY <1>2, <1>3, <1>4 DEF Init, ReconnectInv, Busy
  <1> QED
    BY <1>1, <1>5 DEF Inv

LEMMA StutterInv == ASSUME Inv, UNCHANGED vars PROVE Inv'
  <1> USE DEF vars, structVars, lockVars, subVars, brokerVars
  <1>1. TypeOK'
    BY DEF Inv, TypeOK
  <1>2. ReconnectInv'
    BY DEF Inv, ReconnectInv, OneSocket, DialsBounded, NoNilConnection, PubChFresh
  <1> QED
    BY <1>1, <1>2 DEF Inv

\* Only reconnect and Close touch the connection, and only reconnect dialMu.
Calm == conn' = conn /\ dialMu' = dialMu /\ live' \subseteq live

LEMMA StepKinds ==
  ASSUME Next
  PROVE  (\E t \in Dialers : Reconnect(t)) \/ CloseTakeConn \/ Calm
  <1> USE ThreadsAssumption DEF structVars, lockVars, brokerVars, Calm
  <1>sets. WD \in Dialers /\ Subs \cup Publishers \cup Requesters \subseteq Dialers
    BY DEF Dialers, Threads
  <1>cfu. ASSUME NEW t \in Dialers, ConnectionForUse(t) PROVE Calm
    BY <1>cfu DEF ConnectionForUse
  <1>wd. ASSUME Watchdog PROVE Reconnect(WD) \/ Calm
    BY <1>wd DEF Watchdog, WatchdogTop, WatchdogLook, WatchdogWake,
         WatchdogBackoff
  <1>loop. ASSUME NEW t \in Subs, Subscription(t) PROVE Reconnect(t) \/ Calm
    BY <1>loop, <1>cfu, <1>sets
    DEF Subscription, SetupConsumer, SetupConsumerFails, DeliverLoopEnds, SubBackoff, SwapChannel
  <1>sub. ASSUME NEW t \in Subs,
                 \/ ConsumeCall(t) \/ Register(t)
                 \/ SubCloseCall(t) \/ SubCloseDone(t) \/ ChannelReset(t)
          PROVE  Calm
    BY <1>sub DEF ConsumeCall, Register, SubCloseCall, SubCloseDone, ChannelReset
  <1>pub. ASSUME NEW t \in Publishers, PublishCall(t) \/ Publisher(t)
          PROVE  Reconnect(t) \/ Calm
    BY <1>pub, <1>cfu, <1>sets
    DEF Publisher, PublishCall, PublishChannel, PublishOpenChannel, PublishSend
  <1>req. ASSUME NEW t \in Requesters, RequestCall(t) \/ Requester(t) \/ RequestReturn(t)
          PROVE  Reconnect(t) \/ Calm
    BY <1>req, <1>cfu, <1>sets DEF Requester, RequestCall, RequestOpenChannel, RequestReturn
  <1>close. ASSUME CloseCall \/ Close PROVE CloseTakeConn \/ Calm
    BY <1>close
    DEF Close, CloseCall, CloseTakeSubs, CloseSub, CloseSubReturns, ClosePub, CloseConn
  <1>env. ASSUME SetDialFunc \/ BrokerDown \/ BrokerUp \/ (\E c \in live : ConnDrop(c))
          PROVE  Calm
    BY <1>env DEF SetDialFunc, BrokerDown, BrokerUp, ConnDrop
  <1> HIDE DEF Calm
  <1> QED
    BY <1>sets, <1>wd, <1>loop, <1>sub, <1>pub, <1>req, <1>close, <1>env DEF Next

-----------------------------------------------------------------------------
\* Most steps leave the sockets alone: they keep conn, live, dials, faults and
\* dialMu, move no goroutine into the part of reconnect behind dialMu, and put
\* nothing into pubCh but an open channel.  Such a step keeps ReconnectInv.
LEMMA QuietStep ==
  ASSUME Inv, TypeOK',
         UNCHANGED <<conn, live, dials, faults, dialMu>>,
         closed => closed',
         \A t \in Threads : pc'[t] \in Busy => pc'[t] = pc[t] /\ res'[t] = res[t],
         \A t \in Threads : pc'[t] = "have" => res'[t] # 0,
         res'[Closer] = res[Closer],
         pubCh' \in {0, pubCh} \cup live,
         ~dialFn' => pc'[WD] = "off",
         pc'[Closer] # "idle" => closed'
  PROVE  ReconnectInv'
  <1>1. \A t \in Threads : pc'[t] \in Busy => dialMu' = t
    BY DEF Inv, ReconnectInv, Busy
  <1>2. OneSocket' /\ DialsBounded' /\ NoNilConnection'
    BY DEF Inv, ReconnectInv, OneSocket, DialsBounded, NoNilConnection
  <1>3. PubChFresh'
    BY DEF Inv, ReconnectInv, OneSocket, PubChFresh
  <1>4. /\ ~closed' /\ dialMu' = None => live' \subseteq {conn'}
        /\ ~closed' /\ dialMu' = None /\ conn' \notin live' => dials' < faults'
        /\ conn' = 0 => closed'
        /\ 0 \notin live'
        /\ conn' <= dials' + 1 /\ res'[Closer] <= dials' + 1
    BY DEF Inv, ReconnectInv
  <1>5. ASSUME NEW t \in Threads
        PROVE  /\ pc'[t] = "dial" => live' = {} /\ dials' < faults'
               /\ pc'[t] = "install" => /\ live' \subseteq {res'[t]}
                                        /\ res'[t] = dials' + 1 /\ res'[t] # 0
                                        /\ conn' <= dials' /\ res'[Closer] <= dials'
                                        /\ res'[t] \notin live' => dials' < faults'
               /\ pc'[t] = "resetPub" =>
                    /\ res'[t] # 0
                    /\ ~closed' => /\ live' \subseteq {conn'}
                                   /\ conn' \notin live' => dials' < faults'
    BY DEF Inv, ReconnectInv, Busy
  <1> QED
    BY <1>1, <1>2, <1>3, <1>4, <1>5 DEF ReconnectInv, Busy

-----------------------------------------------------------------------------
\* The steps that touch a socket or dialMu, one lemma each.
LEMMA ReconnectLockStep ==
  ASSUME Inv, TypeOK', NEW t \in Dialers, ReconnectLock(t)
  PROVE  ReconnectInv'
  <1> USE ThreadsAssumption
  <1>1. CASE conn \in live \/ closed
    <2>1. UNCHANGED <<conn, live, dials, faults, dialMu, pubCh, closed, dialFn>>
      BY <1>1 DEF ReconnectLock, lockVars, structVars, brokerVars
    <2>2. \A u \in Threads \ {t} : pc'[u] = pc[u] /\ res'[u] = res[u]
      BY SMTT(30), <1>1 DEF Inv, TypeOK, ReconnectLock, ReturnConn, ReturnError, Goto, Keep, Forget
    <2>3. /\ pc'[t] \notin Busy
          /\ pc'[t] = "have" => res'[t] # 0
          /\ ~dialFn => t # WD
      BY SMTT(30), <1>1 DEF Inv, TypeOK, ReconnectInv, ReconnectLock, ReturnConn, ReturnError,
                  AfterError, Goto, Keep, Forget, Busy, Dialers, Threads
    <2> QED
      BY <2>1, <2>2, <2>3, QuietStep
      DEF Inv, ReconnectInv, NoNilConnection, Dialers, Threads
  <1>2. CASE conn \notin live /\ ~closed
    <2>1. /\ UNCHANGED <<conn, live, dials, faults, res, pubCh, closed, dialFn>>
          /\ dialMu = None /\ dialMu' = t /\ live = {} /\ dials < faults
      BY <1>2 DEF Inv, ReconnectInv, ReconnectLock, structVars, brokerVars
    <2>2. /\ \A u \in Threads \ {t} : pc'[u] = pc[u] /\ pc'[u] \notin Busy
          /\ pc[t] = "lock" /\ pc'[t] = "dial"
      BY SMTT(30), <1>2, <2>1 DEF Inv, TypeOK, ReconnectInv, ReconnectLock, Goto, Busy, Dialers
    <2>3. OneSocket' /\ DialsBounded' /\ NoNilConnection' /\ PubChFresh'
      BY <2>1, <2>2 DEF Inv, ReconnectInv, OneSocket, DialsBounded,
                        NoNilConnection, PubChFresh
    <2> QED
      BY SMTT(30), <1>2, <2>1, <2>2, <2>3 DEF Inv, ReconnectInv, Busy, Dialers, Threads
  <1> QED
    BY SMTT(30), <1>1, <1>2

LEMMA DialStep ==
  ASSUME Inv, TypeOK', NEW t \in Dialers, Dial(t)
  PROVE  ReconnectInv'
  <1> USE ThreadsAssumption
  <1>1. /\ UNCHANGED <<conn, faults, pubCh, closed, dialFn>>
        /\ dialMu = t /\ live = {} /\ dials < faults
    BY DEF Inv, ReconnectInv, Dial, structVars, Dialers
  <1>2. \A u \in Threads \ {t} : pc'[u] = pc[u] /\ res'[u] = res[u] /\ pc'[u] \notin Busy
    BY SMTT(30), <1>1 DEF Inv, TypeOK, ReconnectInv, Dial, ReturnError, Goto, Keep, Forget,
                Busy, Dialers
  <1>3. ~dialFn => t # WD
    BY DEF Inv, ReconnectInv, Dial
  <1>4. CASE up
    <2>1. /\ pc'[t] = "install" /\ res'[t] = dials + 2 /\ live' = {dials + 2}
          /\ dials' = dials + 1 /\ dialMu' = t
      BY <1>1, <1>4 DEF Inv, TypeOK, Dial, Goto, Keep, Dialers, lockVars
    <2>2. OneSocket' /\ DialsBounded' /\ NoNilConnection' /\ PubChFresh'
      BY SMTT(30), <1>1, <1>2, <2>1 DEF Inv, TypeOK, ReconnectInv, OneSocket, DialsBounded,
                              NoNilConnection, PubChFresh, Dialers
    <2>3. res[Closer] \in Conns
      BY DEF Inv, TypeOK, Threads
    <2>4. dials \in Nat /\ conn \in Nat
      BY SMTT(30), BoundsAssumption DEF Inv, TypeOK, Conns
    <2> QED
      BY <1>1, <1>2, <1>3, <2>1, <2>2, <2>3, <2>4, BoundsAssumption
      DEF Inv, ReconnectInv, Busy, Dialers, Threads, Conns
  <1>5. CASE ~up
    <2>1. /\ pc'[t] \notin Busy \cup {"have"} /\ dials' = dials /\ live' = {}
          /\ dialMu' = None
      BY <1>1, <1>5 DEF Inv, TypeOK, Dial, Goto, Keep, Forget, ReturnError, AfterError,
                  Dialers, Busy
    <2>2. OneSocket' /\ DialsBounded' /\ NoNilConnection' /\ PubChFresh'
      BY <1>1, <1>2, <2>1 DEF Inv, ReconnectInv, OneSocket, DialsBounded,
                              NoNilConnection, PubChFresh, Dialers
    <2> QED
      BY <1>1, <1>2, <1>3, <2>1, <2>2 DEF Inv, ReconnectInv, Busy, Dialers, Threads
  <1> QED
    BY SMTT(30), <1>4, <1>5

LEMMA InstallStep ==
  ASSUME Inv, TypeOK', NEW t \in Dialers, Install(t)
  PROVE  ReconnectInv' /\ conn \notin live
  <1> USE ThreadsAssumption
  <1>1. /\ UNCHANGED <<res, dials, faults, pubCh, closed, dialFn, dialMu>>
        /\ dialMu = t /\ conn' = res[t] /\ live \subseteq {res[t]} /\ res[t] # 0
        /\ res[t] = dials + 1 /\ conn <= dials /\ live' = live \ {conn}
        /\ res[t] \notin live => dials < faults
    BY DEF Inv, ReconnectInv, Install, lockVars, Dialers
  <1>2. dials \in Nat /\ conn \in Nat
    BY BoundsAssumption DEF Inv, TypeOK, Conns
  <1>3. conn \notin live /\ live' = live
    BY <1>1, <1>2
  <1>4. /\ \A u \in Threads \ {t} : pc'[u] = pc[u] /\ pc'[u] \notin Busy
        /\ pc[t] = "install" /\ pc'[t] = "resetPub"
    BY SMTT(30), <1>1 DEF Inv, TypeOK, ReconnectInv, Install, Goto, Busy, Dialers
  <1>5. OneSocket' /\ DialsBounded' /\ NoNilConnection' /\ PubChFresh'
    BY ZenonT(40), <1>1, <1>3, <1>4 DEF Inv, ReconnectInv, OneSocket, DialsBounded,
                            NoNilConnection, PubChFresh, Dialers
  <1>6. ReconnectInv'
    <2>1. \A u \in Threads : pc'[u] \in {"dial", "install", "resetPub"} => dialMu' = u
      BY <1>1, <1>4 DEF Busy
    <2>a. /\ ~dialFn => pc[WD] = "off"
          /\ pc[Closer] # "idle" => closed
          /\ 0 \notin live /\ res[Closer] <= dials + 1
      BY DEF Inv, ReconnectInv
    <2>2. /\ ~dialFn' => pc'[WD] = "off"
          /\ pc'[Closer] # "idle" => closed'
      BY <1>1, <1>4, <2>a DEF Dialers, Threads
    <2>3. /\ conn' = 0 => closed'
          /\ 0 \notin live'
          /\ conn' <= dials' + 1 /\ res'[Closer] <= dials' + 1
      BY <1>1, <1>2, <1>3, <2>a
    <2>4. dialMu' # None
      BY <1>1 DEF Dialers
    <2>5. ASSUME NEW u \in Threads
          PROVE  /\ pc'[u] \notin {"dial", "install"}
                 /\ pc'[u] = "resetPub" =>
                      /\ res'[u] # 0
                      /\ live' \subseteq {conn'}
                      /\ conn' \notin live' => dials' < faults'
      BY SMTT(30), <1>1, <1>3, <1>4 DEF Busy
    <2> QED
      BY <1>5, <2>1, <2>2, <2>3, <2>4, <2>5 DEF ReconnectInv
  <1> QED
    BY SMTT(30), <1>3, <1>6

LEMMA ResetPubStep ==
  ASSUME Inv, TypeOK', NEW t \in Dialers, ResetPub(t)
  PROVE  ReconnectInv'
  <1> USE ThreadsAssumption
  <1>1. /\ UNCHANGED <<conn, live, dials, faults, closed, dialFn>>
        /\ dialMu = t /\ dialMu' = None /\ pubCh' = 0 /\ res[t] # 0
        /\ ~closed => live \subseteq {conn} /\ (conn \notin live => dials < faults)
    BY SMTT(30) DEF Inv, ReconnectInv, ResetPub, brokerVars, Dialers
  <1>2. \A u \in Threads \ {t} : pc'[u] = pc[u] /\ res'[u] = res[u] /\ pc'[u] \notin Busy
    BY SMTT(30), <1>1 DEF Inv, TypeOK, ReconnectInv, ResetPub, ReturnConn, Goto, Keep, Forget,
                Busy, Dialers
  <1>3. /\ pc'[t] \notin Busy
        /\ pc'[t] = "have" => res'[t] # 0
        /\ ~dialFn => t # WD
    BY SMTT(30), <1>1 DEF Inv, TypeOK, ReconnectInv, ResetPub, ReturnConn, Goto, Keep, Forget,
                Busy, Dialers
  <1>4. OneSocket' /\ DialsBounded' /\ NoNilConnection' /\ PubChFresh'
    BY SMTT(30), <1>1, <1>2, <1>3 DEF Inv, ReconnectInv, OneSocket, DialsBounded,
                            NoNilConnection, PubChFresh, Dialers
  <1> QED
    BY SMTT(30), <1>1, <1>2, <1>3, <1>4 DEF Inv, ReconnectInv, Busy, Dialers, Threads

LEMMA CloseTakeConnStep ==
  ASSUME Inv, TypeOK', CloseTakeConn
  PROVE  ReconnectInv'
  <1> USE ThreadsAssumption
  <1>1. /\ UNCHANGED <<live, dials, faults, pubCh, closed, dialFn, dialMu>>
        /\ closed /\ conn' = 0 /\ 0 \notin live
    BY DEF Inv, ReconnectInv, CloseTakeConn, lockVars, brokerVars
  <1>2. /\ \A u \in Threads \ {Closer} : pc'[u] = pc[u] /\ res'[u] = res[u]
        /\ pc'[Closer] = "closeConn" /\ res'[Closer] = conn
    BY SMTT(30) DEF Inv, TypeOK, CloseTakeConn, Goto, Keep, Threads
  <1>3. OneSocket' /\ DialsBounded' /\ NoNilConnection' /\ PubChFresh'
    BY <1>1, <1>2 DEF Inv, ReconnectInv, OneSocket, DialsBounded,
                      NoNilConnection, PubChFresh
  <1>4. dials \in Nat
    BY SMTT(30) DEF Inv, TypeOK
  <1> QED
    BY SMTT(30), <1>1, <1>2, <1>3, <1>4 DEF Inv, ReconnectInv, Threads

LEMMA CloseConnStep ==
  ASSUME Inv, TypeOK', CloseConn
  PROVE  ReconnectInv'
  <1> USE ThreadsAssumption
  <1>1. /\ UNCHANGED <<conn, dials, faults, pubCh, closed, dialFn, dialMu>>
        /\ closed /\ live' = live \ {res[Closer]}
    BY DEF Inv, ReconnectInv, CloseConn, lockVars, structVars
  <1>2. /\ \A u \in Threads \ {Closer} : pc'[u] = pc[u] /\ res'[u] = res[u]
        /\ pc'[Closer] = "exit" /\ res'[Closer] = 0
    BY SMTT(30) DEF Inv, TypeOK, CloseConn, Goto, Keep, Forget, Threads
  <1>3. OneSocket' /\ DialsBounded' /\ NoNilConnection' /\ PubChFresh'
    BY ZenonT(40), <1>1, <1>2 DEF Inv, ReconnectInv, OneSocket, DialsBounded,
                      NoNilConnection, PubChFresh
  <1>4. dials \in Nat /\ res[Closer] \in Conns
    BY DEF Inv, TypeOK, Threads
  <1> QED
    BY SMTT(30), <1>1, <1>2, <1>3, <1>4, BoundsAssumption DEF Inv, ReconnectInv, Threads, Conns

\* A drop and an outage: sockets die, and one more fault is counted.
LEMMA FaultStep ==
  ASSUME Inv, TypeOK',
         UNCHANGED <<pc, res, conn, dials, pubCh, closed, dialFn, dialMu>>,
         live' \subseteq live, faults' = faults + 1
  PROVE  ReconnectInv'
  <1>1. dials \in Nat /\ faults \in Nat /\ dials < faults'
    BY DEF Inv, TypeOK, ReconnectInv, DialsBounded
  <1>2. OneSocket' /\ DialsBounded' /\ NoNilConnection' /\ PubChFresh'
    BY <1>1 DEF Inv, ReconnectInv, OneSocket, DialsBounded,
                NoNilConnection, PubChFresh
  <1> QED
    BY SMTT(30), <1>1, <1>2 DEF Inv, ReconnectInv

\* What a step does to a living connection, and to a closed transport.
LEMMA DeadReplaced ==
  ASSUME Inv, TypeOK', Next, conn' # conn, conn' # 0
  PROVE  conn \notin live
  <1>1. CASE CloseTakeConn
    BY <1>1 DEF CloseTakeConn
  <1>2. ASSUME NEW t \in Dialers, Reconnect(t) PROVE conn \notin live
    <2>1. Install(t)
      BY <1>2 DEF Reconnect, ReconnectLock, Dial, ResetPub, structVars
    <2> QED
      BY <2>1, InstallStep
  <1> QED
    BY <1>1, <1>2, StepKinds DEF Calm

LEMMA ClosedStays ==
  ASSUME Inv, Next, closed, dialMu = None
  PROVE  dialMu' = None /\ live' \subseteq live
  <1> USE DEF structVars, lockVars, brokerVars
  <1>1. ASSUME NEW t \in Dialers, Reconnect(t)
        PROVE  dialMu' = None /\ live' \subseteq live
    <2>1. t # None /\ pc[t] \notin Busy
      BY ThreadsAssumption DEF Inv, ReconnectInv, Busy, Dialers, Threads
    <2>2. ReconnectLock(t)
      BY <1>1, <2>1 DEF Reconnect, Dial, Install, ResetPub, Busy
    <2> QED
      BY <2>2 DEF ReconnectLock
  <1>2. CASE CloseTakeConn
    BY <1>2 DEF CloseTakeConn
  <1> QED
    BY <1>1, <1>2, StepKinds DEF Calm

-----------------------------------------------------------------------------
\* The three ways a step changes pc and res keep them well typed.
LEMMA GotoType ==
  ASSUME TypeOK, NEW t \in Threads, NEW l \in Labels, Goto(t, l)
  PROVE  pc' \in [Threads -> Labels]
  BY DEF TypeOK, Goto

LEMMA KeepType ==
  ASSUME TypeOK, NEW t \in Threads, NEW c \in Conns, Keep(t, c)
  PROVE  res' \in [Threads -> Conns]
  BY DEF TypeOK, Keep

LEMMA ReturnErrorType ==
  ASSUME TypeOK, NEW t \in Threads, ReturnError(t)
  PROVE  /\ pc' \in [Threads -> Labels]
         /\ res' \in [Threads -> Conns]
         /\ pubMu' \in Publishers \cup {None}
  <1>1. AfterError(t) \in Labels /\ 0 \in Conns
    BY BoundsAssumption DEF AfterError, Labels, Conns
  <1>2. pubMu' \in Publishers \cup {None}
    BY DEF TypeOK, ReturnError, PubMuAfterReturn
  <1> QED
    BY <1>1, <1>2, GotoType, KeepType DEF ReturnError, Forget

LEMMA ReturnConnType ==
  ASSUME TypeOK, NEW t \in Threads, NEW c \in Conns, ReturnConn(t, c)
  PROVE  pc' \in [Threads -> Labels] /\ res' \in [Threads -> Conns]
  <1>1. 0 \in Conns /\ "top" \in Labels /\ "have" \in Labels
    BY BoundsAssumption DEF Labels, Conns
  <1> QED
    BY <1>1, GotoType, KeepType DEF ReturnConn, Forget

LEMMA TypeStep == ASSUME Inv, Next PROVE TypeOK'
  <1> USE ThreadsAssumption, BoundsAssumption
  <1>a. TypeOK
    BY DEF Inv
  <1>b. /\ Dialers \subseteq Threads /\ Subs \subseteq Threads
        /\ Publishers \subseteq Threads /\ Requesters \subseteq Threads
        /\ WD \in Threads /\ Closer \in Threads
    BY DEF Threads, Dialers
  <1>c. 0 \in Conns
    BY DEF Conns
  <1>1. CASE SetDialFunc
    <2>1. pc' \in [Threads -> Labels] /\ res' \in [Threads -> Conns]
      BY <1>a, <1>b, <1>c, <1>1, GotoType
      DEF SetDialFunc, Labels, TypeOK
    <2> QED
      BY <1>a, <1>b, <1>c, <1>1, <2>1 DEF TypeOK, SetDialFunc, structVars, subVars,
         brokerVars, lockVars
  <1>2. ASSUME NEW t \in Dialers, ConnectionForUse(t) PROVE TypeOK'
    <2>1. pc' \in [Threads -> Labels] /\ res' \in [Threads -> Conns]
      BY <1>a, <1>b, <1>c, <1>2, GotoType, KeepType, ReturnErrorType
      DEF ConnectionForUse, Forget, Labels, TypeOK
    <2> QED
      BY <1>a, <1>b, <1>c, <1>2, <2>1, ReturnErrorType DEF TypeOK, ConnectionForUse,
         structVars, subVars, brokerVars, lockVars
  <1>3. ASSUME NEW t \in Dialers, ReconnectLock(t) PROVE TypeOK'
    <2>1. pc' \in [Threads -> Labels] /\ res' \in [Threads -> Conns]
      BY <1>a, <1>b, <1>c, <1>3, GotoType, KeepType, ReturnErrorType, ReturnConnType
      DEF ReconnectLock, Forget, Labels, TypeOK
    <2> QED
      BY SMTT(30), <1>a, <1>b, <1>c, <1>3, <2>1, ReturnErrorType DEF TypeOK, ReconnectLock,
         structVars, subVars, brokerVars, lockVars
  <1>4. ASSUME NEW t \in Dialers, Dial(t) PROVE TypeOK'
    <2>1. dials + 1 \in 0..MaxFaults /\ dials + 2 \in Conns
      BY <1>4, <1>b DEF Inv, TypeOK, ReconnectInv, Dial, Conns
    <2>2. pc' \in [Threads -> Labels] /\ res' \in [Threads -> Conns]
      BY <1>a, <1>b, <1>4, <2>1, GotoType, KeepType, ReturnErrorType
      DEF Dial, Labels
    <2>3. /\ live' \in SUBSET Conns /\ dials' \in 0..MaxFaults
          /\ dialMu' \in Threads \cup {None} /\ pubMu' \in Publishers \cup {None}
      BY <1>a, <1>b, <1>4, <2>1, ReturnErrorType DEF TypeOK, Dial, lockVars
    <2> QED
      BY <1>a, <1>4, <2>2, <2>3 DEF TypeOK, Dial, structVars, subVars
  <1>5. ASSUME NEW t \in Dialers, Install(t) PROVE TypeOK'
    <2>1. pc' \in [Threads -> Labels] /\ res' \in [Threads -> Conns]
      BY <1>a, <1>b, <1>c, <1>5, GotoType
      DEF Install, Labels, TypeOK
    <2> QED
      BY <1>a, <1>b, <1>c, <1>5, <2>1 DEF TypeOK, Install, structVars, subVars, brokerVars, lockVars
  <1>6. ASSUME NEW t \in Dialers, ResetPub(t) PROVE TypeOK'
    <2>1. pc' \in [Threads -> Labels] /\ res' \in [Threads -> Conns]
      BY <1>a, <1>b, <1>c, <1>6, GotoType, KeepType, ReturnConnType
      DEF ResetPub, Forget, Labels, TypeOK
    <2> QED
      BY SMTT(30), <1>a, <1>b, <1>c, <1>6, <2>1 DEF TypeOK, ResetPub, structVars, subVars,
         brokerVars, lockVars
  <1>7. CASE WatchdogTop
    <2>1. pc' \in [Threads -> Labels] /\ res' \in [Threads -> Conns]
      BY <1>a, <1>b, <1>c, <1>7, GotoType, KeepType
      DEF WatchdogTop, Labels, TypeOK
    <2> QED
      BY <1>a, <1>b, <1>c, <1>7, <2>1 DEF TypeOK, WatchdogTop, structVars, subVars,
         brokerVars, lockVars
  <1>7a. CASE WatchdogLook
    <2>1. pc' \in [Threads -> Labels] /\ res' \in [Threads -> Conns]
      BY <1>a, <1>b, <1>c, <1>7a, GotoType, KeepType
      DEF WatchdogLook, Labels, TypeOK
    <2> QED
      BY <1>a, <1>b, <1>c, <1>7a, <2>1 DEF TypeOK, WatchdogLook, structVars, subVars,
         brokerVars, lockVars
  <1>8. CASE WatchdogWake
    <2>1. pc' \in [Threads -> Labels] /\ res' \in [Threads -> Conns]
      BY <1>a, <1>b, <1>c, <1>8, GotoType, KeepType
      DEF WatchdogWake, Forget, Labels, TypeOK
    <2> QED
      BY <1>a, <1>b, <1>c, <1>8, <2>1 DEF TypeOK, WatchdogWake, structVars, subVars,
         brokerVars, lockVars
  <1>9. CASE WatchdogBackoff
    <2>1. pc' \in [Threads -> Labels] /\ res' \in [Threads -> Conns]
      BY <1>a, <1>b, <1>c, <1>9, GotoType
      DEF WatchdogBackoff, Labels, TypeOK
    <2> QED
      BY <1>a, <1>b, <1>c, <1>9, <2>1 DEF TypeOK, WatchdogBackoff, structVars,
         subVars, brokerVars, lockVars
  <1>10. ASSUME NEW t \in Subs, ConsumeCall(t) PROVE TypeOK'
    <2>1. pc' \in [Threads -> Labels] /\ res' \in [Threads -> Conns]
      BY <1>a, <1>b, <1>c, <1>10, GotoType
      DEF ConsumeCall, Labels, TypeOK
    <2> QED
      BY <1>a, <1>b, <1>c, <1>10, <2>1 DEF TypeOK, ConsumeCall, structVars, subVars,
         brokerVars, lockVars
  <1>11. ASSUME NEW t \in Subs, SetupConsumer(t) PROVE TypeOK'
    <2>1. pc' \in [Threads -> Labels] /\ res' \in [Threads -> Conns]
      BY <1>a, <1>b, <1>c, <1>11, GotoType, KeepType
      DEF SetupConsumer, Forget, Labels, TypeOK
    <2> QED
      BY SMTT(30), <1>a, <1>b, <1>c, <1>11, <2>1 DEF TypeOK, SetupConsumer,
         structVars, subVars, brokerVars, lockVars
  <1>12. ASSUME NEW t \in Subs, SetupConsumerFails(t) PROVE TypeOK'
    <2>1. pc' \in [Threads -> Labels] /\ res' \in [Threads -> Conns]
      BY <1>a, <1>b, <1>c, <1>12, GotoType, KeepType, ReturnErrorType
      DEF SetupConsumerFails, Forget, Labels, TypeOK
    <2> QED
      BY SMTT(30), <1>a, <1>b, <1>c, <1>12, <2>1, ReturnErrorType DEF TypeOK,
         SetupConsumerFails, structVars, subVars, brokerVars, lockVars
  <1>13. ASSUME NEW t \in Subs, Register(t) PROVE TypeOK'
    BY <1>a, <1>c, <1>13 DEF TypeOK, Register, structVars, subVars, brokerVars, lockVars
  <1>14. ASSUME NEW t \in Subs, DeliverLoopEnds(t) PROVE TypeOK'
    <2>1. pc' \in [Threads -> Labels] /\ res' \in [Threads -> Conns]
      BY <1>a, <1>b, <1>c, <1>14, GotoType
      DEF DeliverLoopEnds, Labels, TypeOK
    <2> QED
      BY <1>a, <1>b, <1>c, <1>14, <2>1 DEF TypeOK, DeliverLoopEnds, structVars,
         subVars, brokerVars, lockVars
  <1>15. ASSUME NEW t \in Subs, SubBackoff(t) PROVE TypeOK'
    <2>1. pc' \in [Threads -> Labels] /\ res' \in [Threads -> Conns]
      BY <1>a, <1>b, <1>c, <1>15, GotoType
      DEF SubBackoff, Labels, TypeOK
    <2> QED
      BY <1>a, <1>b, <1>c, <1>15, <2>1 DEF TypeOK, SubBackoff, structVars, subVars,
         brokerVars, lockVars
  <1>16. ASSUME NEW t \in Subs, SwapChannel(t) PROVE TypeOK'
    <2>1. pc' \in [Threads -> Labels] /\ res' \in [Threads -> Conns]
      BY <1>a, <1>b, <1>c, <1>16, GotoType, KeepType
      DEF SwapChannel, Forget, Labels, TypeOK
    <2> QED
      BY SMTT(30), <1>a, <1>b, <1>c, <1>16, <2>1 DEF TypeOK, SwapChannel, structVars, subVars,
         brokerVars, lockVars
  <1>17. ASSUME NEW t \in Subs, SubCloseCall(t) PROVE TypeOK'
    BY <1>a, <1>c, <1>17 DEF TypeOK, SubCloseCall, SubCloseChannel, structVars, subVars,
       brokerVars, lockVars
  <1>18. ASSUME NEW t \in Subs, SubCloseDone(t) PROVE TypeOK'
    BY <1>a, <1>c, <1>18 DEF TypeOK, SubCloseDone, structVars, subVars, brokerVars, lockVars
  <1>19. ASSUME NEW t \in Publishers, PublishCall(t) PROVE TypeOK'
    <2>1. pc' \in [Threads -> Labels] /\ res' \in [Threads -> Conns]
      BY <1>a, <1>b, <1>c, <1>19, GotoType
      DEF PublishCall, Labels, TypeOK
    <2> QED
      BY <1>a, <1>b, <1>c, <1>19, <2>1 DEF TypeOK, PublishCall, structVars, subVars,
         brokerVars, lockVars
  <1>20. ASSUME NEW t \in Publishers, PublishChannel(t) PROVE TypeOK'
    <2>1. pc' \in [Threads -> Labels] /\ res' \in [Threads -> Conns]
      BY <1>a, <1>b, <1>c, <1>20, GotoType, KeepType
      DEF PublishChannel, Labels, TypeOK
    <2> QED
      BY SMTT(30), <1>a, <1>b, <1>c, <1>20, <2>1 DEF TypeOK, PublishChannel, structVars,
         subVars, brokerVars, lockVars
  <1>21. ASSUME NEW t \in Publishers, PublishOpenChannel(t) PROVE TypeOK'
    <2>1. pc' \in [Threads -> Labels] /\ res' \in [Threads -> Conns]
      BY <1>a, <1>b, <1>c, <1>21, GotoType, KeepType, ReturnErrorType
      DEF PublishOpenChannel, Forget, Labels, TypeOK
    <2>2. pubMu' \in Publishers \cup {None} /\ pubCh' \in Conns
      BY <1>a, <1>b, <1>21, ReturnErrorType
      DEF TypeOK, PublishOpenChannel, PubMuAfterReturn
    <2> QED
      BY SMTT(30), <1>a, <1>21, <2>1, <2>2
      DEF TypeOK, PublishOpenChannel, subVars, brokerVars
  <1>22. ASSUME NEW t \in Publishers, PublishSend(t) PROVE TypeOK'
    <2>1. pc' \in [Threads -> Labels] /\ res' \in [Threads -> Conns]
      BY <1>a, <1>b, <1>c, <1>22, GotoType, KeepType
      DEF PublishSend, Forget, Labels, TypeOK
    <2> QED
      BY SMTT(30), <1>a, <1>b, <1>c, <1>22, <2>1 DEF TypeOK, PublishSend, structVars, subVars,
         brokerVars, lockVars
  <1>23. ASSUME NEW t \in Requesters, RequestCall(t) PROVE TypeOK'
    <2>1. pc' \in [Threads -> Labels] /\ res' \in [Threads -> Conns]
      BY <1>a, <1>b, <1>c, <1>23, GotoType
      DEF RequestCall, Labels, TypeOK
    <2> QED
      BY <1>a, <1>b, <1>c, <1>23, <2>1 DEF TypeOK, RequestCall, structVars, subVars,
         brokerVars, lockVars
  <1>24. ASSUME NEW t \in Requesters, RequestOpenChannel(t) PROVE TypeOK'
    <2>1. pc' \in [Threads -> Labels] /\ res' \in [Threads -> Conns]
      BY <1>a, <1>b, <1>c, <1>24, GotoType, KeepType
      DEF RequestOpenChannel, Forget, Labels, TypeOK
    <2> QED
      BY SMTT(30), <1>a, <1>b, <1>c, <1>24, <2>1 DEF TypeOK, RequestOpenChannel, structVars,
         subVars, brokerVars, lockVars
  <1>25. ASSUME NEW t \in Requesters, RequestReturn(t) PROVE TypeOK'
    <2>1. pc' \in [Threads -> Labels] /\ res' \in [Threads -> Conns]
      BY <1>a, <1>b, <1>c, <1>25, GotoType
      DEF RequestReturn, Labels, TypeOK
    <2> QED
      BY <1>a, <1>b, <1>c, <1>25, <2>1 DEF TypeOK, RequestReturn, structVars, subVars,
         brokerVars, lockVars
  <1>26. CASE CloseCall
    <2>1. pc' \in [Threads -> Labels] /\ res' \in [Threads -> Conns]
      BY <1>a, <1>b, <1>c, <1>26, GotoType
      DEF CloseCall, Labels, TypeOK
    <2> QED
      BY <1>a, <1>b, <1>c, <1>26, <2>1 DEF TypeOK, CloseCall, structVars, subVars,
         brokerVars, lockVars
  <1>27. CASE CloseTakeSubs
    <2>1. pc' \in [Threads -> Labels] /\ res' \in [Threads -> Conns]
      BY <1>a, <1>b, <1>c, <1>27, GotoType
      DEF CloseTakeSubs, Labels, TypeOK
    <2> QED
      BY <1>a, <1>b, <1>c, <1>27, <2>1 DEF TypeOK, CloseTakeSubs, structVars, subVars,
         brokerVars, lockVars
  <1>28. CASE CloseSub
    BY <1>a, <1>c, <1>28 DEF TypeOK, CloseSub, SubCloseChannel, structVars, subVars,
       brokerVars, lockVars
  <1>29. CASE CloseSubReturns
    BY <1>a, <1>c, <1>29 DEF TypeOK, CloseSubReturns, structVars, subVars, brokerVars, lockVars
  <1>30. CASE ClosePub
    <2>1. pc' \in [Threads -> Labels] /\ res' \in [Threads -> Conns]
      BY <1>a, <1>b, <1>c, <1>30, GotoType
      DEF ClosePub, Labels, TypeOK
    <2> QED
      BY <1>a, <1>b, <1>c, <1>30, <2>1 DEF TypeOK, ClosePub, structVars, subVars,
         brokerVars, lockVars
  <1>31. CASE CloseTakeConn
    <2>1. pc' \in [Threads -> Labels] /\ res' \in [Threads -> Conns]
      BY <1>a, <1>b, <1>c, <1>31, GotoType, KeepType
      DEF CloseTakeConn, Labels, TypeOK
    <2> QED
      BY <1>a, <1>b, <1>c, <1>31, <2>1 DEF TypeOK, CloseTakeConn, structVars, subVars,
         brokerVars, lockVars
  <1>32. CASE CloseConn
    <2>1. pc' \in [Threads -> Labels] /\ res' \in [Threads -> Conns]
      BY <1>a, <1>b, <1>c, <1>32, GotoType, KeepType
      DEF CloseConn, Forget, Labels, TypeOK
    <2> QED
      BY SMTT(30), <1>a, <1>b, <1>c, <1>32, <2>1 DEF TypeOK, CloseConn, structVars, subVars,
         brokerVars, lockVars
  <1>33. ASSUME NEW t \in live, ConnDrop(t) PROVE TypeOK'
    BY <1>a, <1>c, <1>33 DEF TypeOK, ConnDrop, structVars, subVars, brokerVars, lockVars
  <1>34. CASE BrokerDown
    <2>1. faults' \in 0..MaxFaults
      BY <1>a, <1>34 DEF TypeOK, BrokerDown
    <2>2. live' \in SUBSET Conns /\ up' \in BOOLEAN
      BY <1>34 DEF BrokerDown
    <2> QED
      BY <1>a, <1>34, <2>1, <2>2 DEF TypeOK, BrokerDown, structVars, subVars, lockVars
  <1>35. CASE BrokerUp
    BY <1>a, <1>c, <1>35 DEF TypeOK, BrokerUp, structVars, subVars, brokerVars, lockVars
  <1>36. ASSUME NEW t \in Subs, ChannelReset(t) PROVE TypeOK'
    BY <1>a, <1>c, <1>36 DEF TypeOK, ChannelReset, structVars, subVars, brokerVars, lockVars
  <1>sets. WD \in Dialers /\ Subs \cup Publishers \cup Requesters \subseteq Dialers
    BY ThreadsAssumption DEF Dialers, Threads
  <1>dial. ASSUME NEW t \in Dialers, ConnectionForUse(t) \/ Reconnect(t) PROVE TypeOK'
    BY <1>dial, <1>2, <1>3, <1>4, <1>5, <1>6 DEF Reconnect, Dialers
  <1>wd. CASE Watchdog
    BY <1>wd, <1>sets, <1>dial, <1>7, <1>7a, <1>8, <1>9 DEF Watchdog
  <1>sub. ASSUME NEW t \in Subs,
               \/ ConsumeCall(t) \/ Subscription(t) \/ Register(t)
               \/ SubCloseCall(t) \/ SubCloseDone(t) \/ ChannelReset(t)
        PROVE  TypeOK'
    BY <1>sub, <1>sets, <1>dial, <1>10, <1>11, <1>12, <1>13, <1>14,
       <1>15, <1>16, <1>17, <1>18, <1>36 DEF Subscription
  <1>pub. ASSUME NEW t \in Publishers, PublishCall(t) \/ Publisher(t) PROVE TypeOK'
    BY <1>pub, <1>sets, <1>dial, <1>19, <1>20, <1>21, <1>22 DEF Publisher
  <1>req. ASSUME NEW t \in Requesters, RequestCall(t) \/ Requester(t) \/ RequestReturn(t)
        PROVE  TypeOK'
    BY <1>req, <1>sets, <1>dial, <1>23, <1>24, <1>25 DEF Requester
  <1>close. CASE CloseCall \/ Close
    BY <1>close, <1>26, <1>27, <1>28, <1>29, <1>30, <1>31, <1>32 DEF Close
  <1> QED
    BY <1>1, <1>wd, <1>sub, <1>pub, <1>req, <1>close, <1>33, <1>34, <1>35
    DEF Next

-----------------------------------------------------------------------------
LEMMA NextInv == Inv /\ [Next]_vars => Inv'
  <1> SUFFICES ASSUME Inv, [Next]_vars PROVE Inv'
    BY SMTT(30)
  <1> USE ThreadsAssumption
  <1>s. CASE UNCHANGED vars
    BY <1>s, StutterInv
  <1>n. CASE Next
    <2> USE DEF Goto, Keep, Forget, structVars, lockVars, subVars, brokerVars
    <2>t. TypeOK'
      BY <1>n, TypeStep
    <2>d. /\ {WD} \cup Subs \cup Publishers \cup Requesters \subseteq Dialers
          /\ WD \in Threads /\ Closer \in Threads /\ Dialers \subseteq Threads
      BY DEF Dialers, Threads
    <2>k. /\ pc \in [Threads -> Labels] /\ res \in [Threads -> Conns]
          /\ ~dialFn => pc[WD] = "off"
          /\ pc[Closer] # "idle" => closed
          /\ \A t \in Threads : pc[t] = "have" => res[t] # 0
          /\ conn = 0 => closed
          /\ 0 \notin live
      BY DEF Inv, TypeOK, ReconnectInv, NoNilConnection
    <2>1. ASSUME SetDialFunc PROVE ReconnectInv'
      BY SMTT(30), <2>1, <2>t, <2>d, <2>k, QuietStep DEF SetDialFunc, Busy
    <2>2. ASSUME NEW t \in Dialers, ConnectionForUse(t) PROVE ReconnectInv'
      <3>1. UNCHANGED <<conn, live, dials, faults, dialMu, pubCh, closed, dialFn>>
        BY <2>2 DEF ConnectionForUse
      <3>2. \A u \in Threads \ {t} : pc'[u] = pc[u] /\ res'[u] = res[u]
        BY <2>2, <2>d, <2>k DEF ConnectionForUse, ReturnError
      <3>3. /\ pc'[t] \notin Busy
            /\ pc'[t] = "have" => res'[t] # 0
            /\ ~dialFn => t # WD
        BY <2>2, <2>d, <2>k DEF ConnectionForUse, ReturnError, AfterError, Busy
      <3> QED
        BY <3>1, <3>2, <3>3, <2>t, <2>d, <2>k, QuietStep DEF Dialers
    <2>3. ASSUME NEW t \in Dialers, ReconnectLock(t) PROVE ReconnectInv'
      BY <2>3, <2>t, ReconnectLockStep
    <2>4. ASSUME NEW t \in Dialers, Dial(t) PROVE ReconnectInv'
      BY <2>4, <2>t, DialStep
    <2>5. ASSUME NEW t \in Dialers, Install(t) PROVE ReconnectInv'
      BY <2>5, <2>t, InstallStep
    <2>6. ASSUME NEW t \in Dialers, ResetPub(t) PROVE ReconnectInv'
      BY <2>6, <2>t, ResetPubStep
    <2>7. ASSUME WatchdogTop PROVE ReconnectInv'
      BY <2>7, <2>t, <2>d, <2>k, QuietStep DEF WatchdogTop, Busy
    <2>7a. ASSUME WatchdogLook PROVE ReconnectInv'
      BY <2>7a, <2>t, <2>d, <2>k, QuietStep DEF WatchdogLook, Busy
    <2>8. ASSUME WatchdogWake PROVE ReconnectInv'
      BY <2>8, <2>t, <2>d, <2>k, QuietStep DEF WatchdogWake, Busy
    <2>9. ASSUME WatchdogBackoff PROVE ReconnectInv'
      BY <2>9, <2>t, <2>d, <2>k, QuietStep DEF WatchdogBackoff, Busy
    <2>10. ASSUME NEW t \in Subs, ConsumeCall(t) PROVE ReconnectInv'
      BY SMTT(30), <2>10, <2>t, <2>d, <2>k, QuietStep DEF ConsumeCall, Busy
    <2>11. ASSUME NEW t \in Subs, SetupConsumer(t) PROVE ReconnectInv'
      BY SMTT(30), <2>11, <2>t, <2>d, <2>k, QuietStep DEF SetupConsumer, Busy
    <2>12. ASSUME NEW t \in Subs, SetupConsumerFails(t) PROVE ReconnectInv'
      BY <2>12, <2>t, <2>d, <2>k, QuietStep DEF SetupConsumerFails, ReturnError,
         AfterError, PubMuAfterReturn, Busy
    <2>13. ASSUME NEW t \in Subs, Register(t) PROVE ReconnectInv'
      BY SMTT(30), <2>13, <2>t, <2>d, <2>k, QuietStep DEF Register, Busy
    <2>14. ASSUME NEW t \in Subs, DeliverLoopEnds(t) PROVE ReconnectInv'
      BY SMTT(30), <2>14, <2>t, <2>d, <2>k, QuietStep DEF DeliverLoopEnds, Busy
    <2>15. ASSUME NEW t \in Subs, SubBackoff(t) PROVE ReconnectInv'
      BY <2>15, <2>t, <2>d, <2>k, QuietStep DEF SubBackoff, Busy
    <2>16. ASSUME NEW t \in Subs, SwapChannel(t) PROVE ReconnectInv'
      BY <2>16, <2>t, <2>d, <2>k, QuietStep DEF SwapChannel, Busy
    <2>17. ASSUME NEW t \in Subs, SubCloseCall(t) PROVE ReconnectInv'
      BY <2>17, <2>t, <2>d, <2>k, QuietStep DEF SubCloseCall, SubCloseChannel, Busy
    <2>18. ASSUME NEW t \in Subs, SubCloseDone(t) PROVE ReconnectInv'
      BY <2>18, <2>t, <2>d, <2>k, QuietStep DEF SubCloseDone, Busy
    <2>19. ASSUME NEW t \in Publishers, PublishCall(t) PROVE ReconnectInv'
      BY <2>19, <2>t, <2>d, <2>k, QuietStep DEF PublishCall, Busy
    <2>20. ASSUME NEW t \in Publishers, PublishChannel(t) PROVE ReconnectInv'
      BY SMTT(30), <2>20, <2>t, <2>d, <2>k, QuietStep DEF PublishChannel, Busy
    <2>21. ASSUME NEW t \in Publishers, PublishOpenChannel(t) PROVE ReconnectInv'
      BY SMTT(30), <2>21, <2>t, <2>d, <2>k, QuietStep DEF PublishOpenChannel,
         ReturnError, AfterError, PubMuAfterReturn, Busy
    <2>22. ASSUME NEW t \in Publishers, PublishSend(t) PROVE ReconnectInv'
      BY <2>22, <2>t, <2>d, <2>k, QuietStep DEF PublishSend, Busy
    <2>23. ASSUME NEW t \in Requesters, RequestCall(t) PROVE ReconnectInv'
      BY <2>23, <2>t, <2>d, <2>k, QuietStep DEF RequestCall, Busy
    <2>24. ASSUME NEW t \in Requesters, RequestOpenChannel(t) PROVE ReconnectInv'
      BY SMTT(30), <2>24, <2>t, <2>d, <2>k, QuietStep DEF RequestOpenChannel, Busy
    <2>25. ASSUME NEW t \in Requesters, RequestReturn(t) PROVE ReconnectInv'
      BY <2>25, <2>t, <2>d, <2>k, QuietStep DEF RequestReturn, Busy
    <2>26. ASSUME CloseCall PROVE ReconnectInv'
      BY <2>26, <2>t, <2>d, <2>k, QuietStep DEF CloseCall, Busy
    <2>27. ASSUME CloseTakeSubs PROVE ReconnectInv'
      BY <2>27, <2>t, <2>d, <2>k, QuietStep DEF CloseTakeSubs, Busy
    <2>28. ASSUME CloseSub PROVE ReconnectInv'
      BY <2>28, <2>t, <2>d, <2>k, QuietStep DEF CloseSub, SubCloseChannel, Busy
    <2>29. ASSUME CloseSubReturns PROVE ReconnectInv'
      BY <2>29, <2>t, <2>d, <2>k, QuietStep DEF CloseSubReturns, Busy
    <2>30. ASSUME ClosePub PROVE ReconnectInv'
      BY <2>30, <2>t, <2>d, <2>k, QuietStep DEF ClosePub, Busy
    <2>31. ASSUME CloseTakeConn PROVE ReconnectInv'
      BY <2>31, <2>t, CloseTakeConnStep
    <2>32. ASSUME CloseConn PROVE ReconnectInv'
      BY <2>32, <2>t, CloseConnStep
    <2>33. ASSUME NEW t \in live, ConnDrop(t) PROVE ReconnectInv'
      BY <2>33, <2>t, FaultStep DEF ConnDrop
    <2>34. ASSUME BrokerDown PROVE ReconnectInv'
      BY <2>34, <2>t, FaultStep DEF BrokerDown
    <2>35. ASSUME BrokerUp PROVE ReconnectInv'
      BY <2>35, <2>t, <2>d, <2>k, QuietStep DEF BrokerUp, Busy
    <2>36. ASSUME NEW t \in Subs, ChannelReset(t) PROVE ReconnectInv'
      BY <2>36, <2>t, <2>d, <2>k, QuietStep DEF ChannelReset, Busy
    <2>sets. WD \in Dialers /\ Subs \cup Publishers \cup Requesters \subseteq Dialers
      BY ThreadsAssumption DEF Dialers, Threads
    <2>dial. ASSUME NEW t \in Dialers, ConnectionForUse(t) \/ Reconnect(t) PROVE ReconnectInv'
      BY <2>dial, <2>2, <2>3, <2>4, <2>5, <2>6 DEF Reconnect
    <2>wd. ASSUME Watchdog PROVE ReconnectInv'
      BY <2>wd, <2>sets, <2>dial, <2>7, <2>7a, <2>8, <2>9 DEF Watchdog
    <2>sub. ASSUME NEW t \in Subs,
                 \/ ConsumeCall(t) \/ Subscription(t) \/ Register(t)
                 \/ SubCloseCall(t) \/ SubCloseDone(t) \/ ChannelReset(t)
          PROVE  ReconnectInv'
      BY <2>sub, <2>sets, <2>dial, <2>10, <2>11, <2>12, <2>13, <2>14,
         <2>15, <2>16, <2>17, <2>18, <2>36 DEF Subscription
    <2>pub. ASSUME NEW t \in Publishers, PublishCall(t) \/ Publisher(t) PROVE ReconnectInv'
      BY <2>pub, <2>sets, <2>dial, <2>19, <2>20, <2>21, <2>22 DEF Publisher
    <2>req. ASSUME NEW t \in Requesters, RequestCall(t) \/ Requester(t) \/ RequestReturn(t)
          PROVE  ReconnectInv'
      BY <2>req, <2>sets, <2>dial, <2>23, <2>24, <2>25 DEF Requester
    <2>close. ASSUME CloseCall \/ Close PROVE ReconnectInv'
      BY <2>close, <2>26, <2>27, <2>28, <2>29, <2>30, <2>31, <2>32 DEF Close
    <2> QED
      BY <1>n, <2>t, <2>1, <2>wd, <2>sub, <2>pub, <2>req, <2>close, <2>33, <2>34, <2>35
      DEF Inv, Next
  <1> QED
    BY <1>s, <1>n

\* Every variable keeps its type; in particular reconnect never dials more
\* often than there are faults, so connection numbers stay within bounds.
THEOREM TypeCorrect == Spec => []TypeOK
  <1>1. Inv => TypeOK
    BY DEF Inv
  <1> QED
    BY <1>1, InitInv, NextInv, PTL DEF Spec

\* ReconnectInv is an invariant of the transport.
THEOREM ReconnectInvariant == Spec => []ReconnectInv
  <1>1. Inv => ReconnectInv
    BY DEF Inv
  <1> QED
    BY <1>1, InitInv, NextInv, PTL DEF Spec

\* reconnect never leaves the transport with two open sockets.
THEOREM AtMostOneSocket == Spec => []OneSocket
  <1>1. ReconnectInv => OneSocket
    BY DEF ReconnectInv
  <1> QED
    BY <1>1, ReconnectInvariant, PTL

\* reconnect makes at most one successful dial per connection fault.
THEOREM OneDialPerFault == Spec => []DialsBounded
  <1>1. ReconnectInv => DialsBounded
    BY DEF ReconnectInv
  <1> QED
    BY <1>1, ReconnectInvariant, PTL

\* connectionForUse never returns a nil connection without an error.
THEOREM NeverNilConnection == Spec => []NoNilConnection
  <1>1. ReconnectInv => NoNilConnection
    BY DEF ReconnectInv
  <1> QED
    BY <1>1, ReconnectInvariant, PTL

\* Between reconnects pubCh never belongs to an earlier connection.
THEOREM PubChNeverStale == Spec => []PubChFresh
  <1>1. ReconnectInv => PubChFresh
    BY DEF ReconnectInv
  <1> QED
    BY <1>1, ReconnectInvariant, PTL

\* reconnect only ever replaces a connection that is dead.
THEOREM OnlyDeadReplaced == Spec => ReplacesOnlyDead
  <1> DEFINE A == conn' # conn /\ conn' # 0 => conn \notin live
  <1>1. Inv /\ [Next]_vars => [A]_vars
    BY TypeStep, DeadReplaced
  <1> QED
    BY <1>1, InitInv, NextInv, PTL DEF Spec, ReplacesOnlyDead

\* Once Close has set closed, no reconnect but the one under way dials.
THEOREM CloseStopsDialling == Spec => NoDialAfterClose
  <1> DEFINE A == closed /\ dialMu = None => dialMu' = None /\ live' \subseteq live
  <1>1. Inv /\ [Next]_vars => [A]_vars
    BY ClosedStays
  <1> QED
    BY <1>1, InitInv, NextInv, PTL DEF Spec, NoDialAfterClose

-----------------------------------------------------------------------------
\* Connections are numbered in the order in which they are dialled: whoever
\* holds one, a goroutine, a subscription or pubCh, holds one that was dialled.
NumberInv ==
    /\ \A t \in Threads : res[t] <= dials + 1
    /\ \A s \in Subs : subCh[s] <= dials + 1
    /\ pubCh <= dials + 1

\* A step other than a dial only hands on connections that are known.
HandsOn ==
    /\ dials' = dials /\ live' \subseteq live
    /\ \A t \in Threads : res'[t] \in {0, conn, pubCh, res[t]}
    /\ \A s \in Subs : subCh'[s] \in {0, subCh[s], res[s]}
    /\ pubCh' \in {0, pubCh} \cup {res[t] : t \in Threads}

LEMMA HandsOnSteps ==
  ASSUME TypeOK, Next
  PROVE  HandsOn \/ \E t \in Dialers : Dial(t)
  <1> USE ThreadsAssumption DEF structVars, lockVars, subVars, brokerVars
  <1>sets. /\ WD \in Dialers /\ Subs \cup Publishers \cup Requesters \subseteq Dialers
           /\ Dialers \subseteq Threads /\ Closer \in Threads
    BY DEF Dialers, Threads
  <1>fun. /\ res \in [Threads -> Conns] /\ subCh \in [Subs -> Conns]
    BY DEF TypeOK
  <1>same. ASSUME UNCHANGED <<res, subCh, pubCh, dials, live>> PROVE HandsOn
    BY <1>same DEF HandsOn
  <1>keep. ASSUME NEW t \in Threads, NEW c \in {0, conn, pubCh}, Keep(t, c),
                  UNCHANGED <<subCh, dials>>, live' \subseteq live,
                  pubCh' \in {0, pubCh, res[t]}
           PROVE  HandsOn
    BY <1>keep, <1>fun DEF HandsOn, Keep
  <1>err. ASSUME NEW t \in Threads, ReturnError(t), UNCHANGED <<subCh, dials, pubCh, live>>
          PROVE  HandsOn
    BY <1>err, <1>keep DEF ReturnError, Forget
  <1>cfu. ASSUME NEW t \in Dialers, ConnectionForUse(t) PROVE HandsOn
    BY <1>cfu, <1>keep, <1>err, <1>same, <1>sets DEF ConnectionForUse
  <1>rec. ASSUME NEW t \in Dialers, Reconnect(t) PROVE HandsOn \/ Dial(t)
    <2>1. ASSUME ReconnectLock(t) PROVE HandsOn
      <3>1. CASE conn \in live /\ ReturnConn(t, conn)
        BY <2>1, <3>1, <1>sets, <1>keep DEF ReconnectLock, ReturnConn, Forget
      <3>2. CASE ReturnError(t)
        BY <2>1, <3>2, <1>sets, <1>err DEF ReconnectLock
      <3>3. CASE UNCHANGED res
        BY <2>1, <3>3, <1>same DEF ReconnectLock
      <3> QED
        BY <2>1, <3>1, <3>2, <3>3 DEF ReconnectLock
    <2>2. ASSUME Install(t) PROVE HandsOn
      BY <2>2, <1>fun DEF Install, HandsOn
    <2>3. ASSUME ResetPub(t) PROVE HandsOn
      BY <2>3, <1>fun, <1>sets DEF ResetPub, HandsOn, ReturnConn, Keep, Forget
    <2> QED
      BY <1>rec, <2>1, <2>2, <2>3 DEF Reconnect
  <1>wd. ASSUME Watchdog PROVE HandsOn \/ Dial(WD)
    <2>1. ASSUME WatchdogTop \/ WatchdogLook PROVE HandsOn
      BY <2>1, <1>sets, <1>keep, <1>same DEF WatchdogTop, WatchdogLook
    <2>2. ASSUME WatchdogWake \/ WatchdogBackoff PROVE HandsOn
      BY <2>2, <1>sets, <1>keep, <1>same DEF WatchdogWake, WatchdogBackoff, Forget
    <2> QED
      BY <1>wd, <1>rec, <1>sets, <2>1, <2>2 DEF Watchdog
  <1>sub. ASSUME NEW s \in Subs, Subscription(s) PROVE HandsOn \/ Dial(s)
    <2>0. s \in Threads
      BY <1>sets
    <2>1. ASSUME SetupConsumer(s) PROVE HandsOn
      BY <2>0, <2>1, <1>fun DEF SetupConsumer, HandsOn, Forget, Keep
    <2>2. ASSUME SetupConsumerFails(s) PROVE HandsOn
      BY <2>0, <2>2, <1>err DEF SetupConsumerFails
    <2>3. ASSUME SwapChannel(s) PROVE HandsOn
      BY <2>0, <2>3, <1>fun DEF SwapChannel, HandsOn, Forget, Keep
    <2>4. ASSUME DeliverLoopEnds(s) \/ SubBackoff(s) PROVE HandsOn
      BY <2>4, <1>same DEF DeliverLoopEnds, SubBackoff
    <2> QED
      BY <1>sub, <1>sets, <1>cfu, <1>rec, <2>1, <2>2, <2>3, <2>4 DEF Subscription
  <1>env. ASSUME NEW s \in Subs, \/ ConsumeCall(s) \/ Register(s) \/ SubCloseCall(s)
                                 \/ SubCloseDone(s) \/ ChannelReset(s)
          PROVE  HandsOn
    BY <1>env, <1>fun
    DEF ConsumeCall, Register, SubCloseCall, SubCloseChannel, SubCloseDone, ChannelReset, HandsOn
  <1>pub. ASSUME NEW p \in Publishers, PublishCall(p) \/ Publisher(p) PROVE HandsOn \/ Dial(p)
    <2>0. p \in Threads
      BY <1>sets
    <2>1. ASSUME PublishCall(p) PROVE HandsOn
      BY <2>1, <1>same DEF PublishCall
    <2>2. ASSUME PublishChannel(p) PROVE HandsOn
      BY <2>0, <2>2, <1>same, <1>keep DEF PublishChannel
    <2>3. ASSUME PublishOpenChannel(p) PROVE HandsOn
      <3>1. CASE ReturnError(p) /\ UNCHANGED pubCh
        BY <2>0, <2>3, <3>1, <1>err DEF PublishOpenChannel
      <3>2. CASE pubCh' = res[p] /\ UNCHANGED res
        BY <2>0, <2>3, <3>2 DEF PublishOpenChannel, HandsOn
      <3> QED
        BY <2>3, <3>1, <3>2 DEF PublishOpenChannel
    <2>4. ASSUME PublishSend(p) PROVE HandsOn
      BY <2>0, <2>4, <1>keep DEF PublishSend, Forget
    <2> QED
      BY <1>pub, <1>sets, <1>cfu, <1>rec, <2>1, <2>2, <2>3, <2>4 DEF Publisher
  <1>req. ASSUME NEW r \in Requesters, RequestCall(r) \/ Requester(r) \/ RequestReturn(r)
          PROVE  HandsOn \/ Dial(r)
    <2>1. ASSUME RequestCall(r) \/ RequestReturn(r) PROVE HandsOn
      BY <2>1, <1>same DEF RequestCall, RequestReturn
    <2>2. ASSUME RequestOpenChannel(r) PROVE HandsOn
      BY <2>2, <1>sets, <1>keep DEF RequestOpenChannel, Forget
    <2> QED
      BY <1>req, <1>sets, <1>cfu, <1>rec, <2>1, <2>2 DEF Requester
  <1>close. ASSUME CloseCall \/ Close PROVE HandsOn
    <2>1. ASSUME CloseSub PROVE HandsOn
      BY <2>1, <1>fun DEF CloseSub, SubCloseChannel, HandsOn
    <2>2. ASSUME CloseCall \/ CloseTakeSubs \/ CloseSubReturns PROVE HandsOn
      BY <2>2, <1>same DEF CloseCall, CloseTakeSubs, CloseSubReturns
    <2>3. ASSUME ClosePub PROVE HandsOn
      BY <2>3 DEF ClosePub, HandsOn
    <2>4. ASSUME CloseTakeConn \/ CloseConn PROVE HandsOn
      BY <2>4, <1>sets, <1>keep DEF CloseTakeConn, CloseConn, Forget
    <2> QED
      BY <1>close, <2>1, <2>2, <2>3, <2>4 DEF Close
  <1>net. ASSUME SetDialFunc \/ BrokerDown \/ BrokerUp \/ (\E c \in live : ConnDrop(c))
          PROVE  HandsOn
    BY <1>net DEF SetDialFunc, BrokerDown, BrokerUp, ConnDrop, HandsOn
  <1> QED
    BY <1>sets, <1>wd, <1>sub, <1>env, <1>pub, <1>req, <1>close, <1>net DEF Next

LEMMA NumberStep == Inv /\ NumberInv /\ [Next]_vars => NumberInv'
  <1> SUFFICES ASSUME Inv, NumberInv, [Next]_vars PROVE NumberInv'
    OBVIOUS
  <1> USE ThreadsAssumption, BoundsAssumption
  <1>0. /\ dials \in Nat /\ conn \in Nat /\ pubCh \in Nat /\ conn <= dials + 1
        /\ res \in [Threads -> Conns] /\ subCh \in [Subs -> Conns] /\ Subs \subseteq Threads
    BY DEF Inv, TypeOK, ReconnectInv, Conns, Threads
  <1>1. ASSUME HandsOn PROVE NumberInv'
    BY <1>0, <1>1 DEF HandsOn, NumberInv
  <1>2. ASSUME NEW t \in Dialers, Dial(t) PROVE NumberInv'
    <2>1. /\ dials' \in {dials, dials + 1} /\ UNCHANGED <<subCh, pubCh>>
          /\ \A u \in Threads : res'[u] \in {0, res[u], dials' + 1}
      BY <1>0, <1>2 DEF Dial, ReturnError, Keep, Forget, structVars, subVars
    <2>2. \A u \in Threads : res[u] \in Nat /\ res[u] <= dials + 1
      BY <1>0 DEF Conns, NumberInv
    <2>3. \A s \in Subs : subCh[s] \in Nat /\ subCh[s] <= dials + 1
      BY <1>0 DEF Conns, NumberInv
    <2>4. \A u \in Threads : res'[u] <= dials' + 1
      BY <1>0, <2>1, <2>2
    <2>5. \A s \in Subs : subCh'[s] <= dials' + 1
      BY <1>0, <2>1, <2>3
    <2>6. pubCh' <= dials' + 1
      <3>1. pubCh <= dials + 1 /\ pubCh' = pubCh /\ (dials' = dials \/ dials' = dials + 1)
        BY <2>1 DEF NumberInv
      <3>2. pubCh \in Nat /\ dials \in Nat
        BY <1>0
      <3> QED
        BY ONLY <3>1, <3>2
    <2> QED
      BY <2>4, <2>5, <2>6 DEF NumberInv
  <1>3. ASSUME UNCHANGED vars PROVE NumberInv'
    BY <1>3 DEF vars, structVars, subVars, brokerVars, NumberInv
  <1> QED
    BY <1>1, <1>2, <1>3, HandsOnSteps DEF Inv


-----------------------------------------------------------------------------
\* A subscription that was closed while it was consuming, and one of those whose
\* channel is gone.
Ghost(s) == subClose[s] = "closed" /\ pc[s] \in {"deliver", "exit"}
Ended(s) == Ghost(s) /\ (pc[s] = "exit" \/ subCh[s] \notin live)

\* No step but those of its loop moves a subscription's goroutine, and a closed
\* subscription gets no other channel while its goroutine is in deliverLoop.
LEMMA GhostKept ==
  ASSUME TypeOK, Next, NEW s \in Subs, Ghost(s)
  PROVE  Ghost(s)' /\ subCh'[s] \in {0, subCh[s]} /\ (pc[s] = "exit" => pc'[s] = "exit")
  <1> USE ThreadsAssumption DEF structVars, lockVars, subVars, brokerVars, Goto
  <1> DEFINE Kept == /\ Ghost(s)' /\ subCh'[s] \in {0, subCh[s]}
                     /\ pc[s] = "exit" => pc'[s] = "exit"
  <1>sets. /\ s \in Threads /\ WD # s /\ Closer # s
           /\ \A t \in Publishers \cup Requesters : t \in Threads /\ t # s
           /\ Subs \subseteq Threads /\ WD \in Threads /\ Closer \in Threads
    BY DEF Threads
  <1>fun. pc \in [Threads -> Labels] /\ subCh \in [Subs -> Conns]
          /\ subClose \in [Subs -> {"no", "closing", "closed"}]
    BY DEF TypeOK
  <1>same. ASSUME UNCHANGED <<subCh, subClose>>, pc'[s] = pc[s] PROVE Kept
    BY <1>same DEF Ghost
  <1>goto. ASSUME NEW t \in Threads, t # s, NEW l, pc' = [pc EXCEPT ![t] = l] PROVE pc'[s] = pc[s]
    BY <1>goto, <1>fun, <1>sets
  <1>other. ASSUME NEW t \in Threads, t # s,
                   ConnectionForUse(t) \/ Reconnect(t)
            PROVE  pc'[s] = pc[s] /\ UNCHANGED <<subCh, subClose>>
    <2>1. ASSUME ConnectionForUse(t) PROVE pc'[s] = pc[s] /\ UNCHANGED <<subCh, subClose>>
      BY <1>other, <1>goto, <2>1 DEF ConnectionForUse, ReturnError
    <2>2. ASSUME ReconnectLock(t) PROVE pc'[s] = pc[s] /\ UNCHANGED <<subCh, subClose>>
      BY <1>other, <1>goto, <2>2 DEF ReconnectLock, ReturnError, ReturnConn
    <2>3. ASSUME Dial(t) PROVE pc'[s] = pc[s] /\ UNCHANGED <<subCh, subClose>>
      BY <1>other, <1>goto, <2>3 DEF Dial, ReturnError
    <2>4. ASSUME Install(t) \/ ResetPub(t) PROVE pc'[s] = pc[s] /\ UNCHANGED <<subCh, subClose>>
      BY <1>other, <1>goto, <2>4 DEF Install, ResetPub, ReturnConn
    <2> QED
      BY <1>other, <2>1, <2>2, <2>3, <2>4 DEF Reconnect
  <1>wd. ASSUME Watchdog PROVE Kept
    <2>1. pc'[s] = pc[s] /\ UNCHANGED <<subCh, subClose>>
      BY <1>wd, <1>sets, <1>goto, <1>other
      DEF Watchdog, WatchdogTop, WatchdogLook, WatchdogWake,
         WatchdogBackoff
    <2> QED
      BY <2>1, <1>same
  <1>self. ASSUME Subscription(s) PROVE Kept
    <2>1. pc[s] \in {"deliver", "exit"} /\ subClose[s] = "closed"
      BY DEF Ghost
    <2>2. DeliverLoopEnds(s)
      BY <1>self, <2>1
      DEF Subscription, ConnectionForUse, Reconnect, ReconnectLock, Dial, Install, ResetPub,
          SetupConsumer, SetupConsumerFails, SubBackoff, SwapChannel
    <2> QED
      BY <2>1, <2>2, <1>fun, <1>sets DEF DeliverLoopEnds, Ghost
  <1>sub. ASSUME NEW t \in Subs, t # s, Subscription(t) PROVE Kept
    <2>1. ASSUME ConnectionForUse(t) \/ Reconnect(t) PROVE Kept
      BY <2>1, <1>sub, <1>sets, <1>other, <1>same
    <2>2. ASSUME SetupConsumerFails(t) \/ DeliverLoopEnds(t) \/ SubBackoff(t) PROVE Kept
      <3>1. pc'[s] = pc[s] /\ UNCHANGED <<subCh, subClose>>
        BY <2>2, <1>sub, <1>sets, <1>goto
        DEF SetupConsumerFails, DeliverLoopEnds, SubBackoff, ReturnError
      <3> QED
        BY <3>1, <1>same
    <2>3. ASSUME SetupConsumer(t) \/ SwapChannel(t) PROVE Kept
      <3>1. pc'[s] = pc[s] /\ subCh'[s] = subCh[s] /\ UNCHANGED subClose
        BY <2>3, <1>sub, <1>sets, <1>goto, <1>fun DEF SetupConsumer, SwapChannel
      <3> QED
        BY <3>1 DEF Ghost
    <2> QED
      BY <1>sub, <2>1, <2>2, <2>3 DEF Subscription
  <1>cons. ASSUME NEW t \in Subs, ConsumeCall(t) PROVE Kept
    <2>1. pc[t] = "new" /\ t # s
      BY <1>cons DEF ConsumeCall, Ghost
    <2> QED
      BY <2>1, <1>cons, <1>sets, <1>goto, <1>same DEF ConsumeCall
  <1>chan. ASSUME NEW t \in Subs, Register(t) \/ SubCloseCall(t) \/ SubCloseDone(t) \/ ChannelReset(t)
           PROVE  Kept
    BY <1>chan, <1>fun
    DEF Register, SubCloseCall, SubCloseChannel, SubCloseDone, ChannelReset, Ghost
  <1>pub. ASSUME NEW t \in Publishers, PublishCall(t) \/ Publisher(t) PROVE Kept
    <2>1. pc'[s] = pc[s] /\ UNCHANGED <<subCh, subClose>>
      BY <1>pub, <1>sets, <1>goto, <1>other
      DEF Publisher, PublishCall, PublishChannel, PublishOpenChannel, PublishSend, ReturnError
    <2> QED
      BY <2>1, <1>same
  <1>req. ASSUME NEW t \in Requesters, RequestCall(t) \/ Requester(t) \/ RequestReturn(t) PROVE Kept
    <2>1. pc'[s] = pc[s] /\ UNCHANGED <<subCh, subClose>>
      BY <1>req, <1>sets, <1>goto, <1>other
      DEF Requester, RequestCall, RequestOpenChannel, RequestReturn
    <2> QED
      BY <2>1, <1>same
  <1>close. ASSUME CloseCall \/ Close PROVE Kept
    <2>1. ASSUME CloseSub PROVE Kept
      <3>1. Head(rem) \in Subs
        BY <2>1 DEF CloseSub, TypeOK
      <3> QED
        BY <2>1, <3>1, <1>fun DEF CloseSub, SubCloseChannel, Ghost
    <2>2. ASSUME CloseCall \/ CloseTakeSubs \/ CloseSubReturns \/ ClosePub \/ CloseTakeConn \/ CloseConn
          PROVE  pc'[s] = pc[s] /\ UNCHANGED <<subCh, subClose>>
      BY <2>2, <1>sets, <1>goto
      DEF CloseCall, CloseTakeSubs, CloseSubReturns, ClosePub, CloseTakeConn, CloseConn
    <2> QED
      BY <1>close, <1>same, <2>1, <2>2 DEF Close
  <1>net. ASSUME SetDialFunc \/ BrokerDown \/ BrokerUp \/ (\E c \in live : ConnDrop(c)) PROVE Kept
    <2>1. pc'[s] = pc[s] /\ UNCHANGED <<subCh, subClose>>
      BY <1>net, <1>sets, <1>goto DEF SetDialFunc, BrokerDown, BrokerUp, ConnDrop
    <2> QED
      BY <2>1, <1>same
  <1> HIDE DEF Kept
  <1>all. Kept
    BY <1>wd, <1>self, <1>sub, <1>cons, <1>chan, <1>pub, <1>req, <1>close, <1>net DEF Next
  <1> QED
    BY <1>all DEF Kept

LEMMA EndedStays ==
  ASSUME Inv, NumberInv, [Next]_vars, NEW s \in Subs, Ended(s)
  PROVE  Ended(s)'
  <1>s. CASE UNCHANGED vars
    BY <1>s DEF vars, structVars, subVars, brokerVars, Ended, Ghost
  <1>n. CASE Next
    <2>0. 0 \notin live /\ subCh[s] \in Nat /\ dials \in Nat /\ subCh[s] <= dials + 1
      BY BoundsAssumption DEF Inv, TypeOK, ReconnectInv, Conns, NumberInv
    <2>1. Ghost(s)' /\ subCh'[s] \in {0, subCh[s]} /\ (pc[s] = "exit" => pc'[s] = "exit")
      BY <1>n, GhostKept DEF Ended, Inv
    <2>2. live' \subseteq live \cup {dials + 2}
      BY <1>n, HandsOnSteps DEF HandsOn, Inv, Dial
    <2> QED
      BY <2>0, <2>1, <2>2 DEF Ended
  <1> QED
    BY <1>s, <1>n

\* A subscription closed while it is consuming is never bound again once its
\* channel has ended: DeliverLoopEnds sees done, and no later connection has the
\* number of the channel that it lost.
THEOREM GhostsEnd == Spec => GhostEndsWithItsChannel
  <1>1. Init => NumberInv
    BY BoundsAssumption DEF Init, NumberInv
  <1>2. Spec => [](Inv /\ NumberInv)
    BY <1>1, InitInv, NextInv, NumberStep, PTL DEF Spec
  <1>3. ASSUME NEW s \in Subs
        PROVE  Spec => [](subClose[s] = "closed" /\ Bound(s) => [](~Bound(s) => []~Bound(s)))
    <2> DEFINE C == subClose[s] = "closed"
               B == Bound(s)
               G == Ghost(s)
               E == Ended(s)
    <2>1. C /\ B => G
      BY DEF Bound, Ghost
    <2>2. Inv /\ G /\ [Next]_vars => G'
      BY GhostKept DEF Inv, vars, subVars, Ghost
    <2>3. Inv /\ NumberInv /\ E /\ [Next]_vars => E'
      BY EndedStays
    <2>4. G /\ ~B => E
      BY DEF Bound, Ended, Ghost
    <2>5. E => ~B
      BY DEF Ended, Bound
    <2> HIDE DEF C, B, G, E
    <2>6. Spec => [](C /\ B => [](~B => []~B))
      BY <1>2, <2>1, <2>2, <2>3, <2>4, <2>5, PTL DEF Spec
    <2> QED
      BY <2>6 DEF C, B
  <1> QED
    BY <1>3 DEF GhostEndsWithItsChannel

-----------------------------------------------------------------------------
\* Where the holder of each mutex is.
UnderPubMu == {"cfu", "lock", "have"} \cup Busy

LockInv ==
    /\ dialMu # None => pc[dialMu] \in Busy
    /\ pubMu # None => pc[pubMu] \in UnderPubMu

\* The holders of the two mutexes are at a step that needs no mutex, or get the
\* one they want from a holder who is, or the transport is Stuck.
HoldersGoOn ==
    /\ dialMu # None => \/ pc[dialMu] \in {"dial", "install"}
                        \/ pubMu = None \/ pc[pubMu] \in {"cfu", "have"}
                        \/ Stuck
    /\ pubMu # None => \/ pc[pubMu] \in {"cfu", "have", "dial", "install"}
                       \/ dialMu = None \/ pc[dialMu] \in {"dial", "install"}
                       \/ Stuck

\* Who is Stuck stays so, and with them everybody who wants one of the mutexes.
StuckForGood ==
    [][Stuck =>
        /\ Stuck'
        /\ \A t \in Threads : pc[t] \in {"lock", "pubLock"} => pc'[t] = pc[t]
        /\ pc[Closer] = "subs" => pc'[Closer] = "subs"]_vars

\* What a step of goroutine t may do to the mutexes.
LockMove(t) ==
    /\ \A u \in Threads \ {t} : pc'[u] = pc[u]
    /\ dialMu' = dialMu \/ (dialMu = None /\ dialMu' = t) \/ (dialMu = t /\ dialMu' = None)
    /\ pubMu' = pubMu \/ (pubMu = None /\ pubMu' = t) \/ (pubMu = t /\ pubMu' = None)
    /\ dialMu' = t => pc'[t] \in Busy
    /\ pubMu' = t => pc'[t] \in UnderPubMu
    /\ pc[t] = "lock" => dialMu = None
    /\ pc[t] \in {"resetPub", "pubLock"} => pubMu = None
    /\ t = Closer /\ pc[t] = "subs" => pc'[t] = "subs" \/ pubMu = None

LEMMA LockMoves ==
  ASSUME Inv, LockInv, Next
  PROVE  UNCHANGED <<pc, lockVars>> \/ \E t \in Threads : LockMove(t)
  <1> USE ThreadsAssumption DEF structVars, lockVars, Goto
  <1> DEFINE Moves == UNCHANGED <<pc, lockVars>> \/ \E t \in Threads : LockMove(t)
  <1>sets. /\ WD \in Dialers /\ Subs \cup Publishers \cup Requesters \subseteq Dialers
           /\ Dialers \subseteq Threads /\ Closer \in Threads /\ Closer \notin Dialers
    BY DEF Dialers, Threads
  <1>fun. pc \in [Threads -> Labels] /\ pubMu \in Publishers \cup {None} /\ None \notin Threads
          /\ dialMu \in Threads \cup {None}
    BY DEF Inv, TypeOK
  <1>busy. \A t \in Threads : pc[t] \in Busy => dialMu = t
    BY DEF Inv, ReconnectInv, Busy
  <1>held. \A t \in Threads : /\ dialMu = t => pc[t] \in Busy
                              /\ pubMu = t => pc[t] \in UnderPubMu
    BY <1>fun DEF LockInv
  <1>free. ASSUME NEW t \in Threads, NEW l, Goto(t, l), UNCHANGED lockVars,
                  pc[t] \notin Busy, pubMu # t,
                  pc[t] \notin {"lock", "pubLock"}, t = Closer => pc[t] # "subs"
           PROVE  LockMove(t)
    BY <1>free, <1>fun, <1>held DEF LockMove, Busy
  <1>cfu. ASSUME NEW t \in Dialers, ConnectionForUse(t) PROVE LockMove(t)
    <2>1. pc[t] = "cfu" /\ dialMu # t /\ t # Closer /\ dialMu' = dialMu
      BY <1>cfu, <1>held, <1>sets DEF ConnectionForUse, Busy
    <2>2. \E l : /\ Goto(t, l)
                 /\ \/ pubMu' = pubMu /\ l \in {"have", "lock"}
                    \/ pubMu' = PubMuAfterReturn(t)
      BY <1>cfu DEF ConnectionForUse, ReturnError
    <2> QED
      BY <2>1, <2>2, <1>sets, <1>fun DEF LockMove, PubMuAfterReturn, UnderPubMu
  <1>rec. ASSUME NEW t \in Dialers, Reconnect(t) PROVE LockMove(t)
    <2>0. t \in Threads /\ t # Closer /\ t # None
      BY <1>sets
    <2>1. ASSUME ReconnectLock(t) PROVE LockMove(t)
      <3>1. pc[t] = "lock" /\ dialMu = None
        BY <2>1 DEF ReconnectLock
      <3>2. \E l : /\ Goto(t, l)
                   /\ \/ dialMu' = None /\ pubMu' = PubMuAfterReturn(t)
                      \/ dialMu' = None /\ pubMu' = pubMu /\ t = WD
                      \/ dialMu' = None /\ pubMu' = pubMu /\ l = "have"
                      \/ dialMu' = t /\ pubMu' = pubMu /\ l = "dial"
        BY <2>1, <3>1 DEF ReconnectLock, ReturnError, ReturnConn
      <3>3. pubMu # WD
        BY <1>fun DEF Threads
      <3> QED
        BY <2>0, <3>1, <3>2, <3>3, <1>fun DEF LockMove, PubMuAfterReturn, UnderPubMu, Busy
    <2>2. ASSUME Dial(t) PROVE LockMove(t)
      <3>1. pc[t] = "dial" /\ dialMu = t
        BY <2>0, <2>2, <1>busy DEF Dial, Busy
      <3>2. \E l : /\ Goto(t, l)
                   /\ \/ dialMu' = None /\ pubMu' = PubMuAfterReturn(t)
                      \/ dialMu' = dialMu /\ pubMu' = pubMu /\ l = "install"
        BY <2>2 DEF Dial, ReturnError
      <3> QED
        BY <2>0, <3>1, <3>2, <1>fun DEF LockMove, PubMuAfterReturn, UnderPubMu, Busy
    <2>3. ASSUME Install(t) PROVE LockMove(t)
      BY <2>0, <2>3, <1>fun, <1>busy DEF Install, LockMove, UnderPubMu, Busy
    <2>4. ASSUME ResetPub(t) PROVE LockMove(t)
      <3>1. pc[t] = "resetPub" /\ dialMu = t /\ pubMu = None /\ dialMu' = None /\ pubMu' = pubMu
        BY <2>0, <2>4, <1>busy DEF ResetPub, Busy
      <3>2. \E l : Goto(t, l)
        BY <2>4 DEF ResetPub, ReturnConn
      <3> QED
        BY <2>0, <3>1, <3>2, <1>fun DEF LockMove
    <2> QED
      BY <1>rec, <2>1, <2>2, <2>3, <2>4 DEF Reconnect
  <1>wd. ASSUME Watchdog PROVE Moves
    <2>0. WD \in Threads /\ pubMu # WD /\ WD # Closer
      BY <1>sets, <1>fun DEF Threads
    <2>1. ASSUME WatchdogTop \/ WatchdogLook \/ WatchdogWake \/ WatchdogBackoff
          PROVE  LockMove(WD)
      <3>1. pc[WD] \notin Busy \cup {"lock", "pubLock"} /\ UNCHANGED lockVars /\ \E l : Goto(WD, l)
        BY <2>1 DEF WatchdogTop, WatchdogLook, WatchdogWake, WatchdogBackoff, Busy
      <3> QED
        BY <2>0, <3>1, <1>free
    <2> QED
      BY <1>wd, <1>rec, <1>sets, <2>0, <2>1 DEF Watchdog
  <1>sub. ASSUME NEW s \in Subs, Subscription(s) \/ ConsumeCall(s) PROVE Moves
    <2>0. s \in Threads /\ pubMu # s /\ s # Closer
      BY <1>sets, <1>fun DEF Threads
    <2>1. ASSUME SetupConsumer(s) \/ DeliverLoopEnds(s) \/ SubBackoff(s) \/ SwapChannel(s) \/ ConsumeCall(s)
          PROVE  LockMove(s)
      <3>1. pc[s] \notin Busy \cup {"lock", "pubLock"} /\ UNCHANGED lockVars /\ \E l : Goto(s, l)
        BY <2>1 DEF SetupConsumer, DeliverLoopEnds, SubBackoff, SwapChannel, ConsumeCall, Busy
      <3> QED
        BY <2>0, <3>1, <1>free
    <2>2. ASSUME SetupConsumerFails(s) PROVE LockMove(s)
      <3>1. pc[s] = "have" /\ UNCHANGED lockVars /\ \E l : Goto(s, l)
        BY <2>0, <2>2 DEF SetupConsumerFails, ReturnError, PubMuAfterReturn
      <3> QED
        BY <2>0, <3>1, <1>free DEF Busy
    <2> QED
      BY <1>sub, <1>cfu, <1>rec, <1>sets, <2>0, <2>1, <2>2 DEF Subscription
  <1>env. ASSUME NEW s \in Subs, Register(s) \/ SubCloseCall(s) \/ SubCloseDone(s) \/ ChannelReset(s)
          PROVE  Moves
    BY <1>env DEF Register, SubCloseCall, SubCloseDone, ChannelReset
  <1>pub. ASSUME NEW p \in Publishers, PublishCall(p) \/ Publisher(p) PROVE Moves
    <2>0. p \in Threads /\ p # Closer /\ p # None
      BY <1>sets
    <2>1. ASSUME PublishCall(p) \/ PublishSend(p) PROVE LockMove(p)
      <3>1. pc[p] \in {"idle", "pub"} /\ UNCHANGED lockVars /\ \E l : Goto(p, l)
        BY <2>1 DEF PublishCall, PublishSend
      <3> QED
        BY <2>0, <3>1, <1>free, <1>held DEF Busy, UnderPubMu
    <2>2. ASSUME PublishChannel(p) PROVE LockMove(p)
      <3>1. pc[p] = "pubLock" /\ pubMu = None /\ dialMu' = dialMu /\ dialMu # p
        BY <2>0, <2>2, <1>held DEF PublishChannel, Busy
      <3>2. (\E l : Goto(p, l) /\ pubMu' = pubMu) \/ (Goto(p, "cfu") /\ pubMu' = p)
        BY <2>2 DEF PublishChannel
      <3> QED
        BY <2>0, <3>1, <3>2, <1>fun DEF LockMove, UnderPubMu
    <2>3. ASSUME PublishOpenChannel(p) PROVE LockMove(p)
      <3>1. /\ pc[p] = "have" /\ dialMu' = dialMu /\ dialMu # p
            /\ pubMu' = PubMuAfterReturn(p) /\ \E l : Goto(p, l)
        BY <2>0, <2>3, <1>held DEF PublishOpenChannel, ReturnError, Busy
      <3> QED
        BY <2>0, <3>1, <1>fun DEF LockMove, PubMuAfterReturn
    <2> QED
      BY <1>pub, <1>cfu, <1>rec, <1>sets, <2>0, <2>1, <2>2, <2>3 DEF Publisher
  <1>req. ASSUME NEW r \in Requesters, RequestCall(r) \/ Requester(r) \/ RequestReturn(r) PROVE Moves
    <2>0. r \in Threads /\ pubMu # r /\ r # Closer
      BY <1>sets, <1>fun DEF Threads
    <2>1. ASSUME RequestCall(r) \/ RequestOpenChannel(r) \/ RequestReturn(r) PROVE LockMove(r)
      <3>1. pc[r] \notin Busy \cup {"lock", "pubLock"} /\ UNCHANGED lockVars /\ \E l : Goto(r, l)
        BY <2>1 DEF RequestCall, RequestOpenChannel, RequestReturn, Busy
      <3> QED
        BY <2>0, <3>1, <1>free
    <2> QED
      BY <1>req, <1>cfu, <1>rec, <1>sets, <2>0, <2>1 DEF Requester
  <1>close. ASSUME CloseCall \/ Close PROVE Moves
    <2>0. pubMu # Closer /\ Closer \in Threads
      BY <1>sets, <1>fun DEF Threads
    <2>1. ASSUME CloseCall \/ CloseTakeSubs \/ CloseTakeConn \/ CloseConn PROVE LockMove(Closer)
      <3>1. /\ pc[Closer] \notin Busy \cup {"lock", "pubLock", "subs"}
            /\ UNCHANGED lockVars /\ \E l : Goto(Closer, l)
        BY <2>1 DEF CloseCall, CloseTakeSubs, CloseTakeConn, CloseConn, Busy
      <3> QED
        BY <2>0, <3>1, <1>free
    <2>2. ASSUME CloseSub \/ CloseSubReturns PROVE UNCHANGED <<pc, lockVars>>
      BY <2>2 DEF CloseSub, CloseSubReturns
    <2>3. ASSUME ClosePub PROVE LockMove(Closer)
      <3>1. /\ pc[Closer] = "subs" /\ pubMu = None /\ UNCHANGED lockVars
            /\ Goto(Closer, "takeConn")
        BY <2>3 DEF ClosePub
      <3> QED
        BY <2>0, <3>1, <1>fun, <1>held DEF LockMove, Busy
    <2> QED
      BY <1>close, <2>0, <2>1, <2>2, <2>3 DEF Close
  <1>net. ASSUME BrokerDown \/ BrokerUp \/ (\E c \in live : ConnDrop(c)) PROVE Moves
    BY <1>net DEF BrokerDown, BrokerUp, ConnDrop
  <1>set. ASSUME SetDialFunc PROVE Moves
    <2>1. pc[WD] = "off" /\ WD \in Threads /\ pubMu # WD /\ WD # Closer
      BY <1>set, <1>sets, <1>fun DEF SetDialFunc, Inv, ReconnectInv, Threads
    <2> QED
      BY <2>1, <1>set, <1>free DEF SetDialFunc, Busy
  <1> HIDE DEF Moves
  <1>all. Moves
    BY <1>wd, <1>sub, <1>env, <1>pub, <1>req, <1>close, <1>net, <1>set DEF Next
  <1> QED
    BY <1>all DEF Moves

LEMMA LockStep == Inv /\ LockInv /\ [Next]_vars => LockInv'
  <1> SUFFICES ASSUME Inv, LockInv, [Next]_vars PROVE LockInv'
    OBVIOUS
  <1>0. dialMu \in Threads \cup {None} /\ pubMu \in Threads \cup {None} /\ None \notin Threads
    BY ThreadsAssumption DEF Inv, TypeOK, Threads
  <1>1. CASE UNCHANGED <<pc, lockVars>>
    BY <1>1 DEF LockInv, lockVars
  <1>2. ASSUME NEW t \in Threads, LockMove(t) PROVE LockInv'
    BY <1>0, <1>2 DEF LockMove, LockInv
  <1> QED
    BY <1>1, <1>2, LockMoves DEF vars

LEMMA LockInvariant == Spec => [](Inv /\ LockInv)
  <1>1. Init => LockInv
    BY DEF Init, LockInv
  <1> QED
    BY <1>1, InitInv, NextInv, LockStep, PTL DEF Spec

\* There is one circular wait in the transport, Stuck: in every other state the
\* holder of dialMu and the holder of pubMu go on, or wait for one who does.
THEOREM OneCircularWait == Spec => []HoldersGoOn
  <1>1. Inv /\ LockInv => HoldersGoOn
    <2> SUFFICES ASSUME Inv, LockInv PROVE HoldersGoOn
      OBVIOUS
    <2>1. dialMu # None /\ pubMu # None /\ pc[pubMu] \in Busy => pubMu = dialMu
      BY ThreadsAssumption DEF Inv, TypeOK, ReconnectInv, Busy, Threads
    <2> QED
      BY <2>1 DEF LockInv, HoldersGoOn, Stuck, UnderPubMu, Busy
  <1> QED
    BY <1>1, LockInvariant, PTL

\* A transport that is Stuck stays so: no publisher that waits for pubMu, no
\* goroutine that waits for dialMu, and no Close that has yet to reset pubCh ever
\* returns.
THEOREM StuckIsFinal == Spec => StuckForGood
  <1> DEFINE A == Stuck =>
                    /\ Stuck'
                    /\ \A t \in Threads : pc[t] \in {"lock", "pubLock"} => pc'[t] = pc[t]
                    /\ pc[Closer] = "subs" => pc'[Closer] = "subs"
  <1>1. Inv /\ LockInv /\ [Next]_vars => [A]_vars
    <2> SUFFICES ASSUME Inv, LockInv, Next PROVE A
      OBVIOUS
    <2>0. /\ dialMu \in Threads \cup {None} /\ pubMu \in Threads \cup {None}
          /\ None \notin Threads /\ Closer \in Threads
      BY ThreadsAssumption DEF Inv, TypeOK, Threads
    <2>1. CASE UNCHANGED <<pc, lockVars>>
      BY <2>1 DEF Stuck, lockVars
    <2>2. ASSUME NEW t \in Threads, LockMove(t) PROVE A
      BY <2>0, <2>2 DEF LockMove, Stuck
    <2> QED
      BY <2>1, <2>2, LockMoves
  <1> QED
    BY <1>1, LockInvariant, PTL DEF Spec, StuckForGood

=============================================================================
