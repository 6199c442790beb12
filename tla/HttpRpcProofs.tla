---------------------------- MODULE HttpRpcProofs ----------------------------
(***************************************************************************)
(* Machine-checked proofs about HttpRpc, for any finite set of requests,   *)
(* any concurrency and both kinds of handler: the type invariant, the cap  *)
(* on running handlers, one response per request, that a refused request   *)
(* has not run, that a call implements AtMostOnce, and that a closed       *)
(* subscription runs nothing that arrives later.                           *)
(***************************************************************************)
EXTENDS HttpRpc, FiniteSetTheorems, TLAPS

Inv == TypeOK /\ HttpInv

HoldLabels == InHandler \cup {"body"}

LEMMA InitInv == Init => Inv
  <1> SUFFICES ASSUME Init PROVE Inv
    OBVIOUS
  <1> USE HttpAssumption
  <1>1. /\ srv \in [Reqs -> SrvLabels] /\ client \in [Reqs -> ClientLabels]
        /\ writes \in [Reqs -> Seq({200, 400, 404, 500, 503})]
        /\ result \in [Reqs -> {"none", "ok", "err"}]
    BY DEF Init, SrvLabels, ClientLabels
  <1>2. TypeOK
    <2>1. sem \in 0..Concurrency
      BY DEF Init
    <2>2. /\ route \in {"none", "mux", "listed"}
          /\ tclose \in {"open", "marked", "taken", "closed"}
      BY DEF Init
    <2>3. /\ subs \in BOOLEAN /\ shut \in BOOLEAN /\ taken \in BOOLEAN
          /\ replied \in [Reqs -> BOOLEAN] /\ late \in [Reqs -> BOOLEAN]
      BY DEF Init
    <2> QED
      BY <1>1, <2>1, <2>2, <2>3 DEF TypeOK
  <1>3. Holders = {}
    BY DEF Init, Holders, InHandler
  <1>4. sem = Cardinality(Holders)
    BY <1>3, FS_EmptySet DEF Init
  <1>5. WrittenInv /\ OneResponse /\ RefusedNotRun
    BY DEF Init, WrittenInv, WrittenOK, OneResponse, RefusedNotRun
  <1> QED
    BY <1>2, <1>4, <1>5 DEF Inv, HttpInv

-----------------------------------------------------------------------------
\* The statuses serveHTTP, Reply and Nack write.
Statuses == {200, 400, 404, 500, 503}

\* One response more on an empty ResponseWriter makes one.
LEMMA FirstResponse ==
  ASSUME TypeOK, NEW r \in Reqs, NEW status, Respond(r, status), writes[r] = <<>>
  PROVE  writes'[r] = <<status>>
  BY DEF TypeOK, Respond

\* What the invariant says of one request.
LEMMA OwnPart ==
  ASSUME Inv, NEW r \in Reqs
  PROVE  /\ srv[r] \in SrvLabels /\ replied[r] \in BOOLEAN
         /\ writes[r] \in Seq(Statuses) /\ result[r] \in {"none", "ok", "err"}
         /\ result = [result EXCEPT ![r] = result[r]]
         /\ srv = [srv EXCEPT ![r] = srv[r]]
         /\ WrittenOK(r) /\ Len(writes[r]) <= 1
         /\ r \in Wrapped /\ writes[r] # <<>> /\ Head(writes[r]) \in {404, 503} =>
              result[r] = "none"
  BY DEF Inv, TypeOK, HttpInv, WrittenInv, OneResponse, RefusedNotRun, Statuses

\* Before its handler is called a request has no response and no result.
LEMMA Untouched ==
  ASSUME Inv, NEW r \in Reqs, srv[r] \in {"none", "queued", "body"}
  PROVE  writes[r] = <<>> /\ ~replied[r] /\ result[r] = "none"
  BY OwnPart DEF WrittenOK

-----------------------------------------------------------------------------
\* What the status of a response says about the handler, and what a client that
\* has got as far as the response knows of it.
CallOK(r) ==
    /\ srv[r] \in {"returned", "ack", "nack", "requeue"} => result[r] # "none"
    /\ srv[r] = "end" /\ writes[r] # <<>> /\ Head(writes[r]) = 200 => result[r] # "none"
    /\ writes[r] # <<>> /\ Head(writes[r]) = 404 => srv[r] = "end" /\ result[r] = "none"
    /\ client[r] = "reading" => writes[r] # <<>>
    /\ client[r] = "unknown" => writes[r] # <<>> /\ Head(writes[r]) = 404

CallInv == \A r \in Reqs : CallOK(r)

\* A step that concerns one request leaves what CallOK says of the others.
Alone(r) ==
    \A x \in Reqs : x # r =>
        /\ srv'[x] = srv[x] /\ writes'[x] = writes[x]
        /\ result'[x] = result[x] /\ client'[x] = client[x]

LEMMA CallAlone ==
  ASSUME CallInv, NEW r \in Reqs, Alone(r), CallOK(r)'
  PROVE  CallInv'
  BY DEF CallInv, CallOK, Alone

\* A handler that writes no 404 keeps CallOK, when it has returned or runs on.
LEMMA CallKept ==
  ASSUME NEW r \in Reqs, CallOK(r),
         srv'[r] = "run" \/ result'[r] # "none",
         client'[r] = client[r],
         writes[r] # <<>> => Head(writes[r]) # 404,
         writes[r] # <<>> => writes'[r] # <<>>,
         writes'[r] # <<>> => Head(writes'[r]) # 404
  PROVE  CallOK(r)'
  <1>1. /\ srv'[r] \in {"returned", "ack", "nack", "requeue"} => result'[r] # "none"
        /\ srv'[r] = "end" => result'[r] # "none"
    OBVIOUS
  <1>2. /\ client'[r] = "reading" => writes'[r] # <<>>
        /\ client'[r] # "unknown"
    BY DEF CallOK
  <1> QED
    BY <1>1, <1>2 DEF CallOK

\* What a step of a request's goroutines does to its own and to the others' state.
LEMMA RespondEffect ==
  ASSUME Inv, NEW r \in Reqs, NEW s, Respond(r, s)
  PROVE  /\ writes'[r] = Append(writes[r], s)
         /\ \A x \in Reqs : x # r => writes'[x] = writes[x]
  BY DEF Inv, TypeOK, Respond

LEMMA AtEffect ==
  ASSUME Inv, NEW r \in Reqs, NEW l, At(r, l)
  PROVE  srv'[r] = l /\ \A x \in Reqs : x # r => srv'[x] = srv[x]
  BY DEF Inv, TypeOK, At

LEMMA EndsEffect ==
  ASSUME Inv, NEW r \in Reqs, NEW o, Ends(r, o)
  PROVE  client'[r] = o /\ \A x \in Reqs : x # r => client'[x] = client[x]
  BY DEF Inv, TypeOK, Ends

\* A step of the client keeps it when its outcome agrees with the response.
LEMMA ClientKept ==
  ASSUME Inv, CallInv, NEW r \in Reqs, NEW o, Ends(r, o),
         UNCHANGED <<srv, writes, result>>,
         o = "reading" => writes[r] # <<>>,
         o = "unknown" => writes[r] # <<>> /\ Head(writes[r]) = 404
  PROVE  CallInv'
  <1>1. client'[r] = o /\ \A x \in Reqs : x # r => client'[x] = client[x]
    BY EndsEffect
  <1>2. Alone(r)
    BY <1>1 DEF Alone
  <1>3. CallOK(r)
    BY DEF CallInv
  <1>4. CallOK(r)'
    BY <1>1, <1>3 DEF CallOK
  <1> QED
    BY <1>2, <1>4, CallAlone

\* Once answers a request that has no response yet, and never with 404.
LEMMA OnceKeeps ==
  ASSUME Inv, NEW r \in Reqs, NEW s \in {200, 500, 503}, Once(r, s),
         srv[r] \in InHandler, writes[r] # <<>> => Head(writes[r]) # 404
  PROVE  /\ \A x \in Reqs : x # r => writes'[x] = writes[x]
         /\ writes[r] # <<>> => writes'[r] # <<>>
         /\ writes'[r] # <<>> => Head(writes'[r]) # 404
  <1>1. CASE replied[r]
    BY <1>1 DEF Once
  <1>2. CASE ~replied[r]
    <2>1. Respond(r, s)
      BY <1>2 DEF Once
    <2>2. writes[r] = <<>>
      BY <1>2, OwnPart DEF WrittenOK, InHandler
    <2>3. writes'[r] = <<s>>
      BY <2>1, <2>2, FirstResponse DEF Inv
    <2>4. writes'[r] # <<>> /\ Head(writes'[r]) # 404
      BY <2>3
    <2> QED
      BY <2>1, <2>2, <2>4, RespondEffect
  <1> QED
    BY <1>1, <1>2

\* Before the handler: the request waits, is admitted or is refused.
LEMMA CallRefused ==
  ASSUME Inv, CallInv, NEW r \in Reqs, srv[r] \in {"none", "queued", "body"},
         UNCHANGED <<result, client>>,
         NEW s \in {404, 503, 400}, At(r, "end"), Respond(r, s)
  PROVE  CallInv'
  <1>1. writes[r] = <<>> /\ result[r] = "none" /\ CallOK(r)
    BY Untouched DEF CallInv
  <1>2. srv'[r] = "end" /\ \A x \in Reqs : x # r => srv'[x] = srv[x]
    BY AtEffect
  <1>3. \A x \in Reqs : x # r => writes'[x] = writes[x]
    BY RespondEffect
  <1>4. writes'[r] = <<s>>
    BY <1>1, FirstResponse DEF Inv
  <1>5. writes'[r] # <<>> /\ Head(writes'[r]) # 200
    BY <1>4
  <1>6. Alone(r)
    BY <1>2, <1>3 DEF Alone
  <1>7. client'[r] # "unknown" /\ result'[r] = "none"
    BY <1>1 DEF CallOK
  <1>8. CallOK(r)'
    BY <1>2, <1>5, <1>7 DEF CallOK
  <1> QED
    BY <1>6, <1>8, CallAlone

LEMMA CallAdmitted ==
  ASSUME Inv, CallInv, NEW r \in Reqs, srv[r] \in {"none", "queued", "body"},
         UNCHANGED <<writes, result, client>>,
         NEW l \in {"queued", "body", "run"}, At(r, l)
  PROVE  CallInv'
  <1>1. writes[r] = <<>> /\ CallOK(r)
    BY Untouched DEF CallInv
  <1>2. srv'[r] = l /\ \A x \in Reqs : x # r => srv'[x] = srv[x]
    BY AtEffect
  <1>3. Alone(r)
    BY <1>2 DEF Alone
  <1>4. CallOK(r)'
    BY <1>1, <1>2 DEF CallOK
  <1> QED
    BY <1>3, <1>4, CallAlone

LEMMA CallBefore ==
  ASSUME Inv, CallInv, NEW r \in Reqs,
         Arrive(r) \/ Acquire(r) \/ Cancelled(r) \/ ReadBody(r)
  PROVE  CallInv'
  <1> USE DEF clientVars
  <1>1. CASE Arrive(r)
    BY <1>1, CallAdmitted, CallRefused DEF Arrive
  <1>2. CASE Acquire(r)
    BY <1>2, CallAdmitted DEF Acquire
  <1>3. CASE Cancelled(r)
    BY <1>3, CallRefused DEF Cancelled
  <1>4. CASE ReadBody(r)
    BY <1>4, CallAdmitted, CallRefused DEF ReadBody
  <1> QED
    BY <1>1, <1>2, <1>3, <1>4

\* The handler's side: it answers with Once or not at all, and has returned or
\* runs on.
LEMMA CallHandled ==
  ASSUME Inv, CallInv, NEW r \in Reqs, srv[r] \in InHandler, UNCHANGED client,
         UNCHANGED writes \/ \E s \in {200, 500, 503} : Once(r, s),
         srv'[r] = "run" \/ result'[r] # "none",
         \A x \in Reqs : x # r => srv'[x] = srv[x] /\ result'[x] = result[x]
  PROVE  CallInv'
  <1>1. CallOK(r)
    BY DEF CallInv
  <1>2. writes[r] # <<>> => Head(writes[r]) # 404
    BY <1>1 DEF CallOK, InHandler
  <1>3. /\ \A x \in Reqs : x # r => writes'[x] = writes[x]
        /\ writes[r] # <<>> => writes'[r] # <<>>
        /\ writes'[r] # <<>> => Head(writes'[r]) # 404
    <2>1. CASE UNCHANGED writes
      BY <1>2, <2>1
    <2>2. ASSUME NEW s \in {200, 500, 503}, Once(r, s)
          PROVE  /\ \A x \in Reqs : x # r => writes'[x] = writes[x]
                 /\ writes[r] # <<>> => writes'[r] # <<>>
                 /\ writes'[r] # <<>> => Head(writes'[r]) # 404
      BY <1>2, <2>2, OnceKeeps
    <2> QED
      BY <2>1, <2>2
  <1>4. Alone(r)
    BY <1>3 DEF Alone
  <1>5. CallOK(r)'
    BY <1>1, <1>2, <1>3, CallKept
  <1> QED
    BY <1>4, <1>5, CallAlone

\* The handler's return gives the request its result.
LEMMA ReturnEffect ==
  ASSUME Inv, NEW r \in Reqs, NEW v \in {"ok", "err"},
         result' = [result EXCEPT ![r] = v]
  PROVE  result'[r] # "none" /\ \A x \in Reqs : x # r => result'[x] = result[x]
  BY DEF Inv, TypeOK

LEMMA CallWrapped ==
  ASSUME Inv, CallInv, NEW r \in Reqs,
         HandlerReturns(r) \/ WrapReply(r) \/ WrapAck(r) \/ WrapNack(r)
  PROVE  CallInv'
  <1> USE DEF clientVars
  <1>1. CASE HandlerReturns(r)
    <2>1. PICK v \in {"ok", "err"} : result' = [result EXCEPT ![r] = v]
      BY <1>1 DEF HandlerReturns
    <2>2. srv[r] \in InHandler /\ At(r, "returned") /\ UNCHANGED <<writes, client>>
      BY <1>1 DEF HandlerReturns, InHandler
    <2>3. result'[r] # "none" /\ \A x \in Reqs : x # r => result'[x] = result[x]
      BY <2>1, ReturnEffect
    <2> QED
      BY <2>2, <2>3, AtEffect, CallHandled
  <1>2. CASE WrapReply(r) \/ WrapAck(r) \/ WrapNack(r)
    <2>1. /\ srv[r] \in {"returned", "ack", "nack", "requeue"}
          /\ UNCHANGED <<result, client>>
      BY <1>2 DEF WrapReply, WrapAck, WrapNack
    <2>2. PICK l \in {"ack", "nack", "requeue", "end"} : At(r, l)
      BY <1>2 DEF WrapReply, WrapAck, WrapNack
    <2>3. UNCHANGED writes \/ \E s \in {200, 500, 503} : Once(r, s)
      <3>1. CASE WrapReply(r)
        BY <3>1 DEF WrapReply
      <3>2. CASE WrapAck(r)
        BY <3>2 DEF WrapAck
      <3>3. CASE WrapNack(r)
        BY <3>3 DEF WrapNack
      <3> QED
        BY <1>2, <3>1, <3>2, <3>3
    <2>4. result'[r] # "none"
      BY <2>1 DEF CallInv, CallOK
    <2>5. srv[r] \in InHandler
      BY <2>1 DEF InHandler
    <2>6. \A x \in Reqs : x # r => srv'[x] = srv[x] /\ result'[x] = result[x]
      BY <2>1, <2>2, AtEffect
    <2> QED
      BY <2>1, <2>3, <2>4, <2>5, <2>6, CallHandled
  <1> QED
    BY <1>1, <1>2

LEMMA CallRaw ==
  ASSUME Inv, CallInv, NEW r \in Reqs, RawReturns(r) \/ RawAnswer(r)
  PROVE  CallInv'
  <1> USE DEF clientVars
  <1>1. CASE RawAnswer(r)
    BY <1>1, CallHandled DEF RawAnswer, InHandler
  <1>2. CASE RawReturns(r)
    <2>1. PICK v \in {"ok", "err"} :
            /\ result' = [result EXCEPT ![r] = v]
            /\ Once(r, IF v = "ok" THEN 200 ELSE 500)
      BY <1>2 DEF RawReturns
    <2>2. \E s \in {200, 500, 503} : Once(r, s)
      <3>1. CASE v = "ok"
        BY <2>1, <3>1
      <3>2. CASE v # "ok"
        BY <2>1, <3>2
      <3> QED
        BY <3>1, <3>2
    <2>3. result'[r] # "none" /\ \A x \in Reqs : x # r => result'[x] = result[x]
      BY <2>1, ReturnEffect
    <2>4. srv[r] \in InHandler /\ At(r, "end") /\ UNCHANGED client
      BY <1>2 DEF RawReturns, InHandler
    <2> QED
      BY <2>2, <2>3, <2>4, AtEffect, CallHandled
  <1> QED
    BY <1>1, <1>2

LEMMA CallClient ==
  ASSUME Inv, CallInv, NEW r \in Reqs,
         \/ Request(r) \/ ResponseHeader(r) \/ ResponseBody(r)
         \/ Deadline(r) \/ ConnectionLost(r)
  PROVE  CallInv'
  <1> USE DEF srvVars
  <1>1. CASE Request(r)
    BY <1>1, ClientKept DEF Request
  <1>2. CASE Deadline(r)
    <2>1. PICK o \in {"timeout", "failed"} : Ends(r, o)
      BY <1>2 DEF Deadline
    <2> QED
      BY <1>2, <2>1, ClientKept DEF Deadline
  <1>3. CASE ConnectionLost(r)
    BY <1>3, ClientKept DEF ConnectionLost
  <1>4. CASE ResponseHeader(r)
    BY <1>4, ClientKept DEF ResponseHeader
  <1>5. CASE ResponseBody(r)
    <2>1. writes[r] # <<>> /\ UNCHANGED <<srv, writes, result>>
      BY <1>5 DEF ResponseBody, CallInv, CallOK
    <2>2. CASE Head(writes[r]) = 404
      <3>1. Ends(r, "unknown")
        BY <1>5, <2>2 DEF ResponseBody
      <3> QED
        BY <2>1, <2>2, <3>1, ClientKept
    <2>3. CASE Head(writes[r]) # 404
      <3>1. PICK o \in {"remote", "reply"} : Ends(r, o)
        BY <1>5, <2>3 DEF ResponseBody
      <3> QED
        BY <2>1, <3>1, ClientKept
    <2> QED
      BY <2>2, <2>3
  <1> QED
    BY <1>1, <1>2, <1>3, <1>4, <1>5

LEMMA CallStep ==
  ASSUME Inv, CallInv, NEW r \in Reqs,
         \/ Request(r) \/ Arrive(r) \/ Acquire(r) \/ Cancelled(r) \/ ReadBody(r)
         \/ Handle(r) \/ RawAnswer(r)
         \/ ResponseHeader(r) \/ ResponseBody(r) \/ Deadline(r) \/ ConnectionLost(r)
  PROVE  CallInv'
  BY CallBefore, CallWrapped, CallRaw, CallClient DEF Handle

\* The mapped state: the handlers that have run, and what callers have got.
Ran == {r \in Reqs : result[r] # "none"}
Got == [r \in Reqs |-> IF Gone(r) THEN client[r] ELSE "pending"]

\* The handler's return is the abstract Run.
LEMMA RunMaps ==
  ASSUME Inv, CallInv, NEW r \in Reqs, HandlerReturns(r) \/ RawReturns(r)
  PROVE  Call!Run(r)
  <1> USE DEF clientVars
  <1>1. PICK v \in {"ok", "err"} : result' = [result EXCEPT ![r] = v]
    BY DEF HandlerReturns, RawReturns
  <1>2. srv[r] = "run" /\ client' = client
    BY DEF HandlerReturns, RawReturns
  <1>3. result[r] = "none" /\ client[r] # "unknown"
    BY <1>2, OwnPart DEF WrittenOK, CallInv, CallOK
  <1>4. Ran' = Ran \cup {r} /\ r \notin Ran
    BY <1>1, <1>3 DEF Ran, Inv, TypeOK
  <1>5. Got' = Got /\ Got[r] # "unknown"
    BY <1>2, <1>3 DEF Got, Gone, Outcomes
  <1> QED
    BY <1>4, <1>5 DEF Call!Run, Ran, Got

\* An outcome is the abstract Return.
LEMMA ReturnMaps ==
  ASSUME Inv, NEW r \in Reqs, NEW o \in Outcomes, Ends(r, o), ~Gone(r),
         UNCHANGED srvVars,
         o = "reply" => result[r] # "none", o = "unknown" => result[r] = "none"
  PROVE  Call!Next
  <1>1. Ran' = Ran /\ (o = "reply" => r \in Ran) /\ (o = "unknown" => r \notin Ran)
    BY DEF srvVars, Ran
  <1>2. Got' = [Got EXCEPT ![r] = o] /\ Got[r] = "pending"
    BY ZenonT(40) DEF Got, Gone, Ends, Inv, TypeOK
  <1>3. Call!Return(r, o)
    BY <1>1, <1>2 DEF Call!Return, Ran, Got
  <1> QED
    BY <1>3 DEF Call!Next, Outcomes

\* Everything else stutters.
LEMMA QuietMaps ==
  ASSUME Inv, UNCHANGED result,
         \/ UNCHANGED client
         \/ \E r \in Reqs, l \in {"waiting", "reading"} : ~Gone(r) /\ Ends(r, l)
  PROVE  UNCHANGED <<Ran, Got>>
  <1>1. Ran' = Ran
    BY DEF Ran
  <1>2. Got' = Got
    BY DEF Got, Gone, Ends, Outcomes, Inv, TypeOK
  <1> QED
    BY <1>1, <1>2

LEMMA CallMaps ==
  ASSUME Inv, CallInv, [Next]_vars
  PROVE  [Call!Next]_<<Ran, Got>>
  <1> USE DEF lifeVars, srvVars, clientVars
  <1>1. CASE \/ ConsumeRoute \/ ConsumeList \/ SubClose
             \/ CloseMark \/ CloseTake \/ CloseSubs \/ UNCHANGED vars
    <2>1. UNCHANGED <<result, client>>
      BY <1>1 DEF ConsumeRoute, ConsumeList, SubClose, CloseMark, CloseTake, CloseSubs,
         vars
    <2> QED
      BY <2>1, QuietMaps
  <1>2. ASSUME NEW r \in Reqs,
               \/ Arrive(r) \/ Acquire(r) \/ Cancelled(r) \/ ReadBody(r)
               \/ WrapReply(r) \/ WrapAck(r) \/ WrapNack(r) \/ RawAnswer(r)
        PROVE  UNCHANGED <<Ran, Got>>
    <2>1. UNCHANGED <<result, client>>
      BY <1>2 DEF Arrive, Acquire, Cancelled, ReadBody, WrapReply, WrapAck, WrapNack,
         RawAnswer
    <2> QED
      BY <2>1, QuietMaps
  <1>3. ASSUME NEW r \in Reqs, Request(r) \/ ResponseHeader(r)
        PROVE  UNCHANGED <<Ran, Got>>
    BY <1>3, QuietMaps DEF Request, ResponseHeader, Gone, Outcomes
  <1>4. ASSUME NEW r \in Reqs, HandlerReturns(r) \/ RawReturns(r)
        PROVE  Call!Next
    BY <1>4, RunMaps DEF Call!Next
  <1>5. ASSUME NEW r \in Reqs, Deadline(r) \/ ConnectionLost(r)
        PROVE  Call!Next
    <2>1. PICK o \in {"timeout", "failed"} : Ends(r, o)
      BY <1>5 DEF Deadline, ConnectionLost
    <2> QED
      BY <1>5, <2>1, ReturnMaps DEF Deadline, ConnectionLost, Gone, Outcomes
  <1>6. ASSUME NEW r \in Reqs, ResponseBody(r)
        PROVE  Call!Next
    <2>1. /\ client[r] = "reading" /\ srv[r] = "end" /\ UNCHANGED srvVars
          /\ writes[r] # <<>> /\ CallOK(r)
      BY <1>6 DEF ResponseBody, CallInv, CallOK
    <2>2. Head(writes[r]) \in Statuses
      BY <2>1, OwnPart
    <2>3. PICK o \in {"reply", "unknown", "remote"} :
            /\ Ends(r, o)
            /\ o = "reply" => Head(writes[r]) < 400
            /\ o = "unknown" => Head(writes[r]) = 404
      BY <1>6, <2>2 DEF ResponseBody, Statuses
    <2>4. /\ o = "reply" => result[r] # "none"
          /\ o = "unknown" => result[r] = "none"
      BY <2>1, <2>2, <2>3 DEF CallOK, Statuses
    <2>5. ~Gone(r) /\ o \in Outcomes
      BY <2>1 DEF Gone, Outcomes
    <2> QED
      BY <2>1, <2>3, <2>4, <2>5, ReturnMaps
  <1> QED
    BY <1>1, <1>2, <1>3, <1>4, <1>5, <1>6 DEF Next, Handle

-----------------------------------------------------------------------------
\* The slots in use follow the goroutines: one more when a request gets a slot,
\* one less when it ends, and otherwise as many as before.
LEMMA HoldersStep ==
  ASSUME Inv, NEW r \in Reqs, NEW l \in SrvLabels, At(r, l)
  PROVE  /\ srv[r] \notin HoldLabels /\ l \in HoldLabels =>
                Cardinality(Holders') = Cardinality(Holders) + 1
         /\ srv[r] \in HoldLabels /\ l \notin HoldLabels =>
                /\ Cardinality(Holders') = Cardinality(Holders) - 1
                /\ Cardinality(Holders) > 0
         /\ (srv[r] \in HoldLabels <=> l \in HoldLabels) => Holders' = Holders
  <1> USE DEF Inv
  <1>1. /\ srv \in [Reqs -> SrvLabels] /\ srv' = [srv EXCEPT ![r] = l]
        /\ Holders = {x \in Reqs : srv[x] \in HoldLabels}
        /\ Holders' = {x \in Reqs : srv'[x] \in HoldLabels}
    BY DEF TypeOK, At, Holders, HoldLabels
  <1>2. IsFiniteSet(Holders) /\ Cardinality(Holders) \in Nat
    BY <1>1, HttpAssumption, FS_Subset, FS_CardinalityType
  <1>3. ASSUME srv[r] \notin HoldLabels, l \in HoldLabels
        PROVE  Cardinality(Holders') = Cardinality(Holders) + 1
    <2>1. Holders' = Holders \cup {r} /\ r \notin Holders
      BY <1>1, <1>3
    <2> QED
      BY SMTT(30), <1>2, <2>1, FS_AddElement
  <1>4. ASSUME srv[r] \in HoldLabels, l \notin HoldLabels
        PROVE  /\ Cardinality(Holders') = Cardinality(Holders) - 1
               /\ Cardinality(Holders) > 0
    <2>1. Holders' = Holders \ {r} /\ r \in Holders
      BY <1>1, <1>4
    <2>2. Cardinality(Holders) # 0
      BY <1>2, <2>1, FS_EmptySet
    <2>3. Cardinality(Holders \ {r}) = Cardinality(Holders) - 1
      BY <1>2, <2>1, FS_RemoveElement
    <2> QED
      BY <1>2, <2>1, <2>2, <2>3
  <1>5. ASSUME srv[r] \in HoldLabels <=> l \in HoldLabels
        PROVE  Holders' = Holders
    BY <1>1, <1>5
  <1> QED
    BY <1>3, <1>4, <1>5

\* A step outside serveHTTP changes nothing the invariant speaks of.
LEMMA OutsideStep ==
  ASSUME Inv, UNCHANGED srvVars
  PROVE  HttpInv'
  BY DEF Inv, HttpInv, srvVars, Holders, InHandler, WrittenInv, WrittenOK, OneResponse,
         RefusedNotRun

LEMMA OutsideType ==
  ASSUME Inv, UNCHANGED srvVars,
         /\ route' \in {"none", "mux", "listed"}
         /\ subs' \in BOOLEAN /\ shut' \in BOOLEAN /\ taken' \in BOOLEAN
         /\ tclose' \in {"open", "marked", "taken", "closed"}
         /\ client' \in [Reqs -> ClientLabels] /\ late' \in [Reqs -> BOOLEAN]
  PROVE  TypeOK'
  BY DEF Inv, TypeOK, srvVars

\* What a step of serveHTTP may do to the response, and to the semaphore.
Answers(r, status) ==
    \/ UNCHANGED <<replied, writes>>
    \/ Respond(r, status) /\ UNCHANGED replied
    \/ Once(r, status)

Slots(r, l) ==
    \/ /\ srv[r] \notin HoldLabels /\ l \in HoldLabels
       /\ sem < Concurrency /\ sem' = sem + 1
    \/ srv[r] \in HoldLabels /\ l \notin HoldLabels /\ sem' = sem - 1
    \/ (srv[r] \in HoldLabels <=> l \in HoldLabels) /\ sem' = sem

\* v is the handler's result from now on.
Returns(r, v) ==
    v \in {"none", "ok", "err"} /\ result' = [result EXCEPT ![r] = v]

LEMMA AnswersType ==
  ASSUME TypeOK, NEW r \in Reqs, NEW status \in Statuses, Answers(r, status)
  PROVE  /\ writes' \in [Reqs -> Seq(Statuses)] /\ replied' \in [Reqs -> BOOLEAN]
         /\ \A x \in Reqs : x # r => replied'[x] = replied[x] /\ writes'[x] = writes[x]
  <1>0. writes \in [Reqs -> Seq(Statuses)] /\ replied \in [Reqs -> BOOLEAN]
    BY DEF TypeOK, Statuses
  <1>1. Append(writes[r], status) \in Seq(Statuses)
    <2>1. writes[r] \in Seq(Statuses)
      BY <1>0
    <2> QED
      BY <2>1
  <1>2. CASE UNCHANGED <<replied, writes>>
    BY <1>0, <1>2
  <1>3. CASE writes' = [writes EXCEPT ![r] = Append(writes[r], status)] /\ replied' = replied
    BY <1>0, <1>1, <1>3
  <1>4. CASE /\ writes' = [writes EXCEPT ![r] = Append(writes[r], status)]
             /\ replied' = [replied EXCEPT ![r] = TRUE]
    BY <1>0, <1>1, <1>4
  <1> QED
    BY <1>2, <1>3, <1>4 DEF Answers, Once, Respond

LEMMA SlotsCounted ==
  ASSUME Inv, NEW r \in Reqs, NEW l \in SrvLabels, At(r, l), Slots(r, l)
  PROVE  sem' = Cardinality(Holders') /\ sem' \in 0..Concurrency
  <1>1. Cardinality(Holders) = sem /\ sem \in 0..Concurrency
    BY DEF Inv, HttpInv, TypeOK
  <1> QED
    BY <1>1, HoldersStep, HttpAssumption DEF Slots

\* serveHTTP takes r to l with the result v, and the other requests are as before.
Served(r, l, v) ==
    /\ TypeOK' /\ sem' = Cardinality(Holders')
    /\ \A x \in Reqs : x # r =>
        /\ srv'[x] = srv[x] /\ replied'[x] = replied[x]
        /\ writes'[x] = writes[x] /\ result'[x] = result[x]
    /\ srv'[r] = l /\ result'[r] = v

\* A step of serveHTTP for one request keeps types and slots and leaves the
\* other requests alone.
LEMMA ServeStep ==
  ASSUME Inv, NEW r \in Reqs, NEW l \in SrvLabels, At(r, l), Slots(r, l),
         NEW status \in Statuses, Answers(r, status),
         NEW v, Returns(r, v),
         UNCHANGED <<lifeVars, clientVars>>
  PROVE  Served(r, l, v)
  <1>0. /\ srv \in [Reqs -> SrvLabels] /\ srv' = [srv EXCEPT ![r] = l]
        /\ result \in [Reqs -> {"none", "ok", "err"}]
        /\ v \in {"none", "ok", "err"} /\ result' = [result EXCEPT ![r] = v]
    BY DEF Inv, TypeOK, At, Returns
  <1>1. /\ srv' \in [Reqs -> SrvLabels] /\ srv'[r] = l
        /\ result' \in [Reqs -> {"none", "ok", "err"}] /\ result'[r] = v
        /\ \A x \in Reqs : x # r => srv'[x] = srv[x] /\ result'[x] = result[x]
    BY <1>0
  <1>2. sem' = Cardinality(Holders') /\ sem' \in 0..Concurrency
    BY SlotsCounted
  <1>3. /\ writes' \in [Reqs -> Seq(Statuses)] /\ replied' \in [Reqs -> BOOLEAN]
        /\ \A x \in Reqs : x # r => replied'[x] = replied[x] /\ writes'[x] = writes[x]
    BY AnswersType DEF Inv
  <1>4. /\ UNCHANGED <<route, subs, shut, tclose, taken, client, late>>
        /\ TypeOK
    BY DEF Inv, lifeVars, clientVars
  <1>5. TypeOK'
    BY <1>1, <1>2, <1>3, <1>4 DEF TypeOK, Statuses
  <1> QED
    BY <1>1, <1>2, <1>3, <1>5 DEF Served

\* If the request's own part of the invariant holds after the step, all does.
LEMMA ServeInv ==
  ASSUME Inv, TypeOK', sem' = Cardinality(Holders'), NEW r \in Reqs,
         \A x \in Reqs : x # r =>
              /\ srv'[x] = srv[x] /\ replied'[x] = replied[x]
              /\ writes'[x] = writes[x] /\ result'[x] = result[x],
         WrittenOK(r)', Len(writes'[r]) <= 1,
         r \in Wrapped /\ writes'[r] # <<>> /\ Head(writes'[r]) \in {404, 503} =>
              result'[r] = "none"
  PROVE  Inv'
  <1>1. ASSUME NEW x \in Reqs PROVE WrittenOK(x)'
    BY DEF Inv, HttpInv, WrittenInv, WrittenOK
  <1>2. ASSUME NEW x \in Reqs PROVE Len(writes'[x]) <= 1
    BY DEF Inv, HttpInv, OneResponse
  <1>3. ASSUME NEW x \in Reqs,
               x \in Wrapped, writes'[x] # <<>>, Head(writes'[x]) \in {404, 503}
        PROVE  result'[x] = "none"
    BY <1>3 DEF Inv, HttpInv, RefusedNotRun
  <1> QED
    BY <1>1, <1>2, <1>3, HttpAssumption
    DEF Inv, HttpInv, WrittenInv, OneResponse, RefusedNotRun

\* The request is refused, or given up while it waits or reads.
LEMMA RefuseStep ==
  ASSUME Inv, NEW r \in Reqs, srv[r] \in {"none", "queued", "body"},
         NEW status \in Statuses, At(r, "end"), Respond(r, status), Slots(r, "end"),
         UNCHANGED <<lifeVars, replied, result, clientVars>>
  PROVE  Inv'
  <1>1. writes[r] = <<>> /\ ~replied[r] /\ result[r] = "none"
    BY Untouched
  <1>2. Answers(r, status) /\ "end" \in SrvLabels
    BY DEF Answers, SrvLabels
  <1>3. Returns(r, result[r])
    BY OwnPart DEF Returns
  <1>4. /\ TypeOK' /\ sem' = Cardinality(Holders')
        /\ \A x \in Reqs : x # r =>
            /\ srv'[x] = srv[x] /\ replied'[x] = replied[x]
            /\ writes'[x] = writes[x] /\ result'[x] = result[x]
        /\ srv'[r] = "end" /\ result'[r] = result[r]
    <2>1. Served(r, "end", result[r])
      BY <1>2, <1>3, ServeStep
    <2> QED
      BY <2>1 DEF Served
  <1>5. writes'[r] = <<status>>
    BY <1>1, FirstResponse DEF Inv
  <1>6. WrittenOK(r)'
    BY <1>4 DEF WrittenOK
  <1>7. Len(writes'[r]) <= 1
    BY <1>5
  <1> QED
    BY <1>1, <1>4, <1>6, <1>7, ServeInv

\* A request moves on towards its handler without an answer.
LEMMA AdmitStep ==
  ASSUME Inv, NEW r \in Reqs, NEW l \in {"queued", "body", "run"},
         srv[r] \in {"none", "queued", "body"}, At(r, l), Slots(r, l),
         UNCHANGED <<lifeVars, replied, writes, result, clientVars>>
  PROVE  Inv'
  <1>1. writes[r] = <<>> /\ ~replied[r] /\ result[r] = "none"
    BY Untouched
  <1>2. Answers(r, 200) /\ l \in SrvLabels /\ 200 \in Statuses
    BY DEF Answers, SrvLabels, Statuses
  <1>3. Returns(r, result[r])
    BY OwnPart DEF Returns
  <1>4. /\ TypeOK' /\ sem' = Cardinality(Holders')
        /\ \A x \in Reqs : x # r =>
            /\ srv'[x] = srv[x] /\ replied'[x] = replied[x]
            /\ writes'[x] = writes[x] /\ result'[x] = result[x]
        /\ srv'[r] = l /\ result'[r] = result[r]
    <2>1. Served(r, l, result[r])
      BY <1>2, <1>3, ServeStep
    <2> QED
      BY <2>1 DEF Served
  <1>5. WrittenOK(r)'
    BY <1>1, <1>4 DEF WrittenOK
  <1>6. Len(writes'[r]) <= 1
    BY SMTT(30), <1>1
  <1> QED
    BY <1>1, <1>4, <1>5, <1>6, ServeInv

\* What the handler's side may do: answer, return to wrap, or go on in wrap.
Handled(r, l, status, v) ==
    /\ srv[r] \in InHandler
    /\ l \in SrvLabels \ {"none", "queued", "body"}
    /\ UNCHANGED <<replied, writes>> \/ Once(r, status)
    /\ l \in {"returned", "ack", "nack", "requeue"} => r \in Wrapped
    /\ l = "run" => r \notin Wrapped /\ srv[r] = "run" /\ v = "none"
    /\ l = "returned" => srv[r] = "run" /\ UNCHANGED <<replied, writes>>
    /\ l \in {"ack", "nack", "requeue"} =>
        srv[r] = "returned" /\ Once(r, status) /\ status = 200
    /\ r \in Wrapped /\ l = "end" => srv[r] \in {"ack", "nack", "requeue"}

\* Once keeps the response single, and wrap's first answer is the reply.
LEMMA HandlerStep ==
  ASSUME Inv, NEW r \in Reqs, NEW l \in SrvLabels, At(r, l), Slots(r, l),
         NEW status \in {200, 500, 503},
         NEW v, Returns(r, v),
         UNCHANGED <<lifeVars, clientVars>>,
         Handled(r, l, status, v)
  PROVE  Inv'
  <1>0. /\ srv[r] \in InHandler
        /\ l \in SrvLabels \ {"none", "queued", "body"}
        /\ UNCHANGED <<replied, writes>> \/ Once(r, status)
        /\ l \in {"returned", "ack", "nack", "requeue"} => r \in Wrapped
        /\ l = "run" => r \notin Wrapped /\ srv[r] = "run" /\ v = "none"
        /\ l = "returned" => srv[r] = "run" /\ UNCHANGED <<replied, writes>>
        /\ l \in {"ack", "nack", "requeue"} =>
            srv[r] = "returned" /\ Once(r, status) /\ status = 200
        /\ r \in Wrapped /\ l = "end" => srv[r] \in {"ack", "nack", "requeue"}
    BY DEF Handled
  <1>1. Answers(r, status) /\ status \in Statuses /\ l \in SrvLabels
    BY SMTT(30), <1>0 DEF Answers, Statuses
  <1>2. /\ TypeOK' /\ sem' = Cardinality(Holders')
        /\ \A x \in Reqs : x # r =>
            /\ srv'[x] = srv[x] /\ replied'[x] = replied[x]
            /\ writes'[x] = writes[x] /\ result'[x] = result[x]
        /\ srv'[r] = l /\ result'[r] = v
    <2>1. Served(r, l, v)
      BY <1>1, ServeStep
    <2> QED
      BY <2>1 DEF Served
  <1>3. /\ srv[r] \in {"run", "returned"} =>
            /\ replied[r] => Len(writes[r]) = 1
            /\ ~replied[r] => writes[r] = <<>>
            /\ r \in Wrapped => ~replied[r]
        /\ srv[r] \in {"ack", "nack", "requeue"} => replied[r] /\ writes[r] = <<200>>
        /\ writes[r] \in Seq(Statuses)
    BY OwnPart DEF WrittenOK
  <1>4. ASSUME replied[r] \/ UNCHANGED <<replied, writes>>
        PROVE  replied'[r] = replied[r] /\ writes'[r] = writes[r]
    BY <1>0, <1>4 DEF Once
  <1>5. ASSUME ~replied[r], Once(r, status)
        PROVE  replied'[r] /\ writes'[r] = <<status>>
    <2>1. Respond(r, status) /\ replied' = [replied EXCEPT ![r] = TRUE]
      BY <1>0, <1>5 DEF Once
    <2>2. writes[r] = <<>>
      BY <1>0, <1>3, <1>5 DEF InHandler
    <2>3. writes'[r] = <<status>>
      BY <2>1, <2>2, FirstResponse DEF Inv
    <2>4. replied'[r]
      BY <2>1 DEF Inv, TypeOK
    <2> QED
      BY <2>3, <2>4
  <1>5a. l \in {"ack", "nack", "requeue"} => replied'[r] /\ writes'[r] = <<200>>
    BY <1>0, <1>3, <1>5
  <1>6a. \/ replied'[r] = replied[r] /\ writes'[r] = writes[r]
         \/ ~replied[r] /\ replied'[r] /\ writes'[r] = <<status>>
    BY <1>0, <1>4, <1>5
  <1>6. /\ Len(writes'[r]) <= 1
        /\ l \in {"run", "returned"} =>
            /\ replied'[r] => Len(writes'[r]) = 1
            /\ ~replied'[r] => writes'[r] = <<>>
    <2>1. CASE replied'[r] = replied[r] /\ writes'[r] = writes[r]
      <3>1. Len(writes[r]) <= 1
        BY OwnPart
      <3>2. srv[r] \in {"run", "returned"} \/ replied[r]
        BY SMTT(30), <1>0, <1>3 DEF InHandler
      <3> QED
        BY <1>0, <1>3, <2>1, <3>1, <3>2
    <2>2. CASE ~replied[r] /\ replied'[r] /\ writes'[r] = <<status>>
      BY <2>2
    <2> QED
      BY <1>0, <1>6a, <2>1, <2>2
  <1>7. WrittenOK(r)'
    BY SMTT(30), <1>0, <1>2, <1>3, <1>4, <1>5a, <1>6 DEF WrittenOK
  <1>8. r \in Wrapped => writes'[r] = <<>> \/ Head(writes'[r]) = 200
    BY <1>0, <1>3, <1>4, <1>5a, <1>6a DEF InHandler, SrvLabels
  <1>9. r \in Wrapped /\ writes'[r] # <<>> => Head(writes'[r]) \notin {404, 503}
    BY <1>8
  <1>10. Len(writes'[r]) <= 1
    BY <1>6
  <1> QED
    BY SMTT(30), <1>2, <1>7, <1>9, <1>10, ServeInv

-----------------------------------------------------------------------------
LEMMA InvStep == ASSUME Inv, [Next]_vars PROVE Inv'
  <1>0. ASSUME NEW r \in Reqs
        PROVE  /\ result' = result => Returns(r, result[r])
               /\ WrittenOK(r) /\ srv = [srv EXCEPT ![r] = srv[r]]
    BY OwnPart DEF Returns
  <1>1. ASSUME NEW r \in Reqs, Arrive(r) PROVE Inv'
    <2>1. /\ srv[r] = "none" /\ sem' = sem
          /\ UNCHANGED <<lifeVars, replied, result, clientVars>>
          /\ \/ At(r, "end") /\ Respond(r, 404)
             \/ At(r, "end") /\ Respond(r, 503)
             \/ At(r, "queued") /\ UNCHANGED writes
      BY <1>1 DEF Arrive
    <2>2. Slots(r, "end") /\ Slots(r, "queued")
      BY <2>1 DEF Slots, HoldLabels, InHandler
    <2>3. 404 \in Statuses /\ 503 \in Statuses
      BY DEF Statuses
    <2>4. CASE At(r, "end") /\ Respond(r, 404)
      BY <2>1, <2>2, <2>3, <2>4, RefuseStep
    <2>5. CASE At(r, "end") /\ Respond(r, 503)
      BY <2>1, <2>2, <2>3, <2>5, RefuseStep
    <2>6. CASE At(r, "queued") /\ UNCHANGED writes
      BY <2>1, <2>2, <2>6, AdmitStep
    <2> QED
      BY <2>1, <2>4, <2>5, <2>6
  <1>2. ASSUME NEW r \in Reqs, Acquire(r) PROVE Inv'
    <2>1. Slots(r, "body")
      BY <1>2 DEF Acquire, Slots, HoldLabels, InHandler
    <2> QED
      BY <1>2, <2>1, AdmitStep DEF Acquire
  <1>3. ASSUME NEW r \in Reqs, Cancelled(r) PROVE Inv'
    <2>1. Slots(r, "end") /\ 503 \in Statuses
      BY <1>3 DEF Cancelled, Slots, HoldLabels, InHandler, Statuses
    <2> QED
      BY <1>3, <2>1, RefuseStep DEF Cancelled
  <1>4. ASSUME NEW r \in Reqs, ReadBody(r) PROVE Inv'
    <2>1. srv[r] = "body" /\ UNCHANGED <<lifeVars, replied, result, clientVars>>
      BY <1>4 DEF ReadBody
    <2>2. CASE At(r, "run") /\ UNCHANGED <<sem, writes>>
      <3>1. Slots(r, "run")
        BY <2>1, <2>2 DEF Slots, HoldLabels, InHandler
      <3> QED
        BY <2>1, <2>2, <3>1, AdmitStep
    <2>3. CASE At(r, "end") /\ Respond(r, 400) /\ sem' = sem - 1
      <3>1. Slots(r, "end") /\ 400 \in Statuses
        BY <2>1, <2>3 DEF Slots, HoldLabels, InHandler, Statuses
      <3> QED
        BY <2>1, <2>3, <3>1, RefuseStep
    <2> QED
      BY <1>4, <2>2, <2>3 DEF ReadBody
  <1>5. ASSUME NEW r \in Reqs, HandlerReturns(r) PROVE Inv'
    <2>1. PICK v \in {"ok", "err"} : result' = [result EXCEPT ![r] = v]
      BY <1>5 DEF HandlerReturns
    <2>2. /\ r \in Wrapped /\ srv[r] = "run" /\ At(r, "returned") /\ sem' = sem
          /\ UNCHANGED <<lifeVars, replied, writes, clientVars>>
      BY <1>5 DEF HandlerReturns
    <2>3. Slots(r, "returned") /\ "returned" \in SrvLabels
      BY <2>2 DEF Slots, HoldLabels, InHandler, SrvLabels
    <2>3a. Returns(r, v)
      BY <2>1 DEF Returns
    <2>4. Handled(r, "returned", 200, v)
      BY <2>2 DEF Handled, InHandler, SrvLabels
    <2> QED
      BY <2>2, <2>3, <2>3a, <2>4, HandlerStep
  <1>6. ASSUME NEW r \in Reqs, WrapReply(r) PROVE Inv'
    <2>1. PICK l \in {"ack", "nack", "requeue"} : At(r, l)
      BY <1>6 DEF WrapReply
    <2>2. /\ srv[r] = "returned" /\ Once(r, 200) /\ sem' = sem
          /\ UNCHANGED <<lifeVars, result, clientVars>>
      BY <1>6 DEF WrapReply
    <2>3. Slots(r, l) /\ l \in SrvLabels
      BY <2>2 DEF Slots, HoldLabels, InHandler, SrvLabels
    <2>4. r \in Wrapped
      BY <1>0, <2>2 DEF WrittenOK
    <2>5. Handled(r, l, 200, result[r])
      BY <2>2, <2>4 DEF Handled, InHandler, SrvLabels
    <2> QED
      BY <1>0, <2>1, <2>2, <2>3, <2>5, HandlerStep
  <1>7. ASSUME NEW r \in Reqs, WrapAck(r) PROVE Inv'
    <2>1. /\ srv[r] = "ack" /\ At(r, "end") /\ sem' = sem - 1
          /\ UNCHANGED <<lifeVars, replied, writes, result, clientVars>>
      BY <1>7 DEF WrapAck
    <2>2. Slots(r, "end") /\ "end" \in SrvLabels
      BY <2>1 DEF Slots, HoldLabels, InHandler, SrvLabels
    <2>3. Handled(r, "end", 200, result[r])
      BY <2>1 DEF Handled, InHandler, SrvLabels
    <2> QED
      BY <1>0, <2>1, <2>2, <2>3, HandlerStep
  <1>8. ASSUME NEW r \in Reqs, WrapNack(r) PROVE Inv'
    <2>1. PICK status \in {500, 503} : Once(r, status)
      BY <1>8 DEF WrapNack
    <2>2. /\ srv[r] \in {"nack", "requeue"} /\ At(r, "end") /\ sem' = sem - 1
          /\ UNCHANGED <<lifeVars, result, clientVars>>
      BY <1>8 DEF WrapNack
    <2>3. Slots(r, "end") /\ "end" \in SrvLabels
      BY <2>2 DEF Slots, HoldLabels, InHandler, SrvLabels
    <2>4. Handled(r, "end", status, result[r])
      BY <2>1, <2>2 DEF Handled, InHandler, SrvLabels
    <2> QED
      BY <1>0, <2>1, <2>2, <2>3, <2>4, HandlerStep
  <1>9. ASSUME NEW r \in Reqs, RawReturns(r) PROVE Inv'
    <2>1. PICK v \in {"ok", "err"} :
            /\ result' = [result EXCEPT ![r] = v]
            /\ Once(r, IF v = "ok" THEN 200 ELSE 500)
      BY <1>9 DEF RawReturns
    <2>1a. PICK status \in {200, 500} : Once(r, status)
      <3>1. CASE v = "ok"
        BY <2>1, <3>1
      <3>2. CASE v # "ok"
        BY <2>1, <3>2
      <3> QED
        BY <3>1, <3>2
    <2>2. /\ r \notin Wrapped /\ srv[r] = "run" /\ At(r, "end") /\ sem' = sem - 1
          /\ UNCHANGED <<lifeVars, clientVars>>
      BY <1>9 DEF RawReturns
    <2>3. Slots(r, "end") /\ "end" \in SrvLabels
      BY <2>2 DEF Slots, HoldLabels, InHandler, SrvLabels
    <2>3a. Returns(r, v)
      BY <2>1 DEF Returns
    <2>4. Handled(r, "end", status, v)
      BY <2>1a, <2>2 DEF Handled, InHandler, SrvLabels
    <2> QED
      BY <2>2, <2>3, <2>3a, <2>4, HandlerStep
  <1>10. ASSUME NEW r \in Reqs, RawAnswer(r) PROVE Inv'
    <2>1. PICK status \in {200, 500, 503} : Once(r, status)
      BY <1>10 DEF RawAnswer
    <2>2. /\ r \notin Wrapped /\ srv[r] = "run" /\ sem' = sem
          /\ UNCHANGED <<lifeVars, srv, result, clientVars>>
      BY <1>10 DEF RawAnswer
    <2>3. At(r, "run") /\ result[r] = "none"
      BY <1>0, <2>2 DEF At, WrittenOK
    <2>4. Slots(r, "run") /\ "run" \in SrvLabels
      BY <2>2 DEF Slots, HoldLabels, InHandler, SrvLabels
    <2>5. Handled(r, "run", status, result[r])
      BY <2>1, <2>2, <2>3 DEF Handled, InHandler, SrvLabels
    <2> QED
      BY <1>0, <2>1, <2>2, <2>3, <2>4, <2>5, HandlerStep
  <1>11. ASSUME UNCHANGED srvVars, TypeOK' PROVE Inv'
    BY <1>11, OutsideStep DEF Inv
  <1>12. TypeOK
    BY DEF Inv
  <1>13. ASSUME NEW r \in Reqs,
                \/ Request(r) \/ ResponseHeader(r) \/ ResponseBody(r)
                \/ Deadline(r) \/ ConnectionLost(r)
         PROVE  Inv'
    <2>1. UNCHANGED <<lifeVars, srvVars>>
      BY <1>13 DEF Request, ResponseHeader, ResponseBody, Deadline, ConnectionLost
    <2>2. PICK outcome \in ClientLabels : Ends(r, outcome)
      <3>1. CASE Request(r) \/ ResponseHeader(r) \/ ConnectionLost(r)
        BY <3>1 DEF Request, ResponseHeader, ConnectionLost, ClientLabels, Outcomes
      <3>2. CASE ResponseBody(r)
        BY <3>2 DEF ResponseBody, ClientLabels, Outcomes
      <3>3. CASE Deadline(r)
        BY <3>3 DEF Deadline, ClientLabels, Outcomes
      <3> QED
        BY <1>13, <3>1, <3>2, <3>3
    <2>3. late' \in [Reqs -> BOOLEAN]
      <3>1. late' = late \/ late' = [late EXCEPT ![r] = TRUE]
        BY <1>13 DEF Request, ResponseHeader, ResponseBody, Deadline, ConnectionLost
      <3>2. late \in [Reqs -> BOOLEAN]
        BY <1>12 DEF TypeOK
      <3> QED
        BY <3>1, <3>2, Zenon
    <2>4. client' \in [Reqs -> ClientLabels]
      BY <1>12, <2>2 DEF Ends, TypeOK
    <2> QED
      BY SMTT(30), <1>11, <1>12, <2>1, <2>3, <2>4, OutsideType DEF lifeVars, TypeOK
  <1>14. ASSUME \/ ConsumeRoute \/ ConsumeList \/ SubClose
                \/ CloseMark \/ CloseTake \/ CloseSubs
         PROVE  Inv'
    <2>1. UNCHANGED <<srvVars, clientVars>>
      BY <1>14 DEF ConsumeRoute, ConsumeList, SubClose, CloseMark, CloseTake, CloseSubs
    <2>2. /\ route' \in {"none", "mux", "listed"}
          /\ tclose' \in {"open", "marked", "taken", "closed"}
      BY <1>12, <1>14 DEF ConsumeRoute, ConsumeList, SubClose, CloseMark, CloseTake,
         CloseSubs, TypeOK
    <2>3. subs' \in BOOLEAN /\ shut' \in BOOLEAN /\ taken' \in BOOLEAN
      BY <1>12, <1>14 DEF ConsumeRoute, ConsumeList, SubClose, CloseMark, CloseTake,
         CloseSubs, TypeOK
    <2> QED
      BY <1>11, <1>12, <2>1, <2>2, <2>3, OutsideType DEF clientVars, TypeOK
  <1>15. CASE UNCHANGED vars
    BY <1>11, <1>12, <1>15 DEF vars, lifeVars, srvVars, clientVars, TypeOK
  <1> QED
    BY <1>1, <1>2, <1>3, <1>4, <1>5, <1>6, <1>7, <1>8, <1>9, <1>10, <1>13, <1>14,
       <1>15 DEF Next, Handle

LEMMA Invariance == Spec => []Inv
  <1>1. Inv /\ [Next]_vars => Inv'
    BY InvStep
  <1> QED
    BY InitInv, <1>1, PTL DEF Spec

\* The state of transport, requests and clients stays well typed; the semaphore
\* never holds more than Concurrency tokens or fewer than none.
THEOREM TypeCorrect == Spec => []TypeOK
  BY Invariance, PTL DEF Inv

\* The inductive invariant: the semaphore counts the goroutines that hold a slot,
\* and serveHTTP's replied tells whether a response was written.
THEOREM HttpInvariant == Spec => []HttpInv
  BY Invariance, PTL DEF Inv

\* No more than Concurrency handlers run at once over HTTP.
THEOREM AtMostConcurrency == Spec => []HandlersBounded
  <1>1. Inv => HandlersBounded
    <2> SUFFICES ASSUME Inv PROVE Cardinality(Serving) <= Concurrency
      BY DEF HandlersBounded
    <2>1. Serving \in SUBSET Holders /\ IsFiniteSet(Holders)
      BY HttpAssumption, FS_Subset DEF Serving, Holders
    <2>2. Cardinality(Serving) <= Cardinality(Holders)
      BY <2>1, FS_Subset
    <2>3. Cardinality(Holders) <= Concurrency /\ Cardinality(Holders) \in Nat
      BY HttpAssumption DEF Inv, HttpInv, TypeOK
    <2>4. Cardinality(Serving) \in Nat
      BY <2>1, FS_Subset, FS_CardinalityType
    <2> QED
      BY <2>2, <2>3, <2>4, HttpAssumption
  <1> QED
    BY <1>1, Invariance, PTL

\* serveHTTP, Reply and Nack together write one response for a request.
THEOREM SingleResponse == Spec => []OneResponse
  <1>1. Inv => OneResponse
    BY DEF Inv, HttpInv
  <1> QED
    BY <1>1, Invariance, PTL

\* A 404 or 503 from an adapter's endpoint means that the handler has not run.
THEOREM RefusalsAreSafe == Spec => []RefusedNotRun
  <1>1. Inv => RefusedNotRun
    BY DEF Inv, HttpInv
  <1> QED
    BY <1>1, Invariance, PTL

LEMMA CallInvariant == Spec => [](Inv /\ CallInv)
  <1>1. Init => CallInv
    BY DEF Init, CallInv, CallOK
  <1>2. Inv /\ CallInv /\ [Next]_vars => CallInv'
    <2> SUFFICES ASSUME Inv, CallInv, [Next]_vars PROVE CallInv'
      OBVIOUS
    <2>1. CASE \/ ConsumeRoute \/ ConsumeList \/ SubClose
               \/ CloseMark \/ CloseTake \/ CloseSubs \/ UNCHANGED vars
      <3>1. UNCHANGED <<srvVars, clientVars>>
        BY <2>1 DEF ConsumeRoute, ConsumeList, SubClose, CloseMark, CloseTake, CloseSubs,
           vars
      <3> QED
        BY <3>1 DEF srvVars, clientVars, CallInv, CallOK
    <2> QED
      BY <2>1, CallStep DEF Next
  <1> QED
    BY <1>1, <1>2, Invariance, PTL DEF Spec

\* HttpRpc implements AtMostOnce: over HTTP a handler runs once at most, a reply
\* means that it ran and ErrEndpointUnknown that it has not and never will.
THEOREM AtMostOnceRefinement == Spec => CallsAtMostOnce
  <1>1. Init => Call!Init
    BY DEF Init, Call!Init, Gone, Outcomes
  <1>2. Inv /\ CallInv /\ [Next]_vars => [Call!Next]_<<Ran, Got>>
    BY CallMaps
  <1> QED
    BY <1>1, <1>2, CallInvariant, PTL DEF Spec, CallsAtMostOnce, Call!Spec, Ran, Got

-----------------------------------------------------------------------------
\* A subscription is closed only after Consume has returned it.
ShutInv == subs \/ taken \/ shut => route = "listed"

\* How a request that had not arrived when the subscription was closed ends, if
\* it arrives: with 503, and its handler not called.
Refused(r) ==
    \/ srv[r] = "none" /\ writes[r] = <<>>
    \/ srv[r] = "end" /\ writes[r] = <<503>>

TurnedAway(r) == shut /\ Refused(r) /\ result[r] = "none"

\* Once the subscription is closed, by its own Close or by the transport's, a
\* request that arrives is refused with 503 and its handler never runs.  Only
\* requests that were queued before run after it (NoStartAfterClose).
LateArrivalsRefused ==
    \A r \in Reqs : [](shut /\ srv[r] = "none" => []TurnedAway(r))

LEMMA ShutStep ==
  ASSUME Inv, ShutInv, [Next]_vars
  PROVE  ShutInv' /\ (shut => shut')
  <1>1. CASE UNCHANGED vars
    BY <1>1 DEF vars, lifeVars, ShutInv
  <1>2. CASE ConsumeRoute \/ ConsumeList
    BY <1>2 DEF ConsumeRoute, ConsumeList, ShutInv
  <1>3. CASE SubClose \/ CloseMark
    BY <1>3 DEF SubClose, CloseMark, ShutInv
  <1>4. CASE CloseTake
    BY <1>4 DEF CloseTake, ShutInv
  <1>5. CASE CloseSubs
    BY <1>5 DEF CloseSubs, ShutInv, Inv, TypeOK
  <1>6. CASE \E r \in Reqs :
          \/ Request(r) \/ Arrive(r) \/ Acquire(r) \/ Cancelled(r) \/ ReadBody(r)
          \/ Handle(r) \/ RawAnswer(r)
          \/ ResponseHeader(r) \/ ResponseBody(r) \/ Deadline(r) \/ ConnectionLost(r)
    <2>1. UNCHANGED lifeVars
      BY <1>6 DEF Request, Arrive, Acquire, Cancelled, ReadBody, Handle, RawAnswer,
         ResponseHeader, ResponseBody, Deadline, ConnectionLost, HandlerReturns, WrapReply,
         WrapAck, WrapNack, RawReturns
    <2> QED
      BY <2>1 DEF lifeVars, ShutInv
  <1> QED
    BY <1>1, <1>2, <1>3, <1>4, <1>5, <1>6 DEF Next

\* A step of another request, or of the client, leaves a request as it is.
LEMMA OthersKept ==
  ASSUME Inv, [Next]_vars, NEW r \in Reqs, srv[r] \in {"none", "end"}, ~Arrive(r)
  PROVE  srv'[r] = srv[r] /\ writes'[r] = writes[r] /\ result'[r] = result[r]
  <1>0. TypeOK
    BY DEF Inv
  <1>1. CASE UNCHANGED srvVars
    BY <1>1 DEF srvVars
  <1>2. CASE \E x \in Reqs : x # r /\ (Arrive(x) \/ Cancelled(x))
    BY <1>0, <1>2 DEF Arrive, Cancelled, At, Respond, TypeOK
  <1>3. CASE \E x \in Reqs : Acquire(x)
    BY <1>0, <1>3 DEF Acquire, At, TypeOK
  <1>4. CASE \E x \in Reqs : ReadBody(x)
    BY <1>0, <1>4 DEF ReadBody, At, Respond, TypeOK
  <1>5. CASE \E x \in Reqs : HandlerReturns(x) \/ WrapReply(x)
    BY <1>0, <1>5 DEF HandlerReturns, WrapReply, Once, At, Respond, TypeOK
  <1>6. CASE \E x \in Reqs : WrapAck(x) \/ WrapNack(x)
    BY <1>0, <1>6 DEF WrapAck, WrapNack, Once, At, Respond, TypeOK
  <1>7. CASE \E x \in Reqs : RawAnswer(x) \/ RawReturns(x)
    BY <1>0, <1>7 DEF RawAnswer, RawReturns, Once, At, Respond, TypeOK
  <1>8. CASE \E x \in Reqs : Cancelled(x)
    BY <1>0, <1>8 DEF Cancelled, At, Respond, TypeOK
  <1>9. ASSUME NEW x \in Reqs, Request(x) \/ ResponseHeader(x) \/ ResponseBody(x)
                               \/ Deadline(x) \/ ConnectionLost(x)
        PROVE  UNCHANGED srvVars
    BY <1>9 DEF Request, ResponseHeader, ResponseBody, Deadline, ConnectionLost
  <1>10. CASE ConsumeRoute \/ ConsumeList \/ SubClose \/ CloseMark \/ CloseTake \/ CloseSubs
    BY <1>1, <1>10 DEF ConsumeRoute, ConsumeList, SubClose, CloseMark, CloseTake, CloseSubs
  <1>11. CASE UNCHANGED vars
    BY <1>1, <1>11 DEF vars
  <1> QED
    BY <1>1, <1>2, <1>3, <1>4, <1>5, <1>6, <1>7, <1>8, <1>9, <1>10, <1>11 DEF Next, Handle

LEMMA TurnedAwayStays ==
  ASSUME Inv, ShutInv, [Next]_vars, NEW r \in Reqs, TurnedAway(r)
  PROVE  TurnedAway(r)'
  <1>1. shut'
    BY ShutStep DEF TurnedAway
  <1>2. CASE ~Arrive(r)
    <2>1. srv[r] \in {"none", "end"}
      BY DEF TurnedAway, Refused
    <2>2. srv'[r] = srv[r] /\ writes'[r] = writes[r] /\ result'[r] = result[r]
      BY <1>2, <2>1, OthersKept
    <2> QED
      BY <1>1, <2>2 DEF TurnedAway, Refused
  <1>3. CASE Arrive(r)
    <2>1. srv[r] = "none" /\ writes[r] = <<>> /\ route = "listed" /\ result' = result
      BY <1>3 DEF Arrive, TurnedAway, Refused, ShutInv
    <2>2. At(r, "end") /\ Respond(r, 503)
      BY <1>3, <2>1 DEF Arrive, TurnedAway
    <2>3. writes'[r] = <<503>> /\ srv'[r] = "end"
      BY <2>1, <2>2, FirstResponse, AtEffect DEF Inv
    <2> QED
      BY <1>1, <2>1, <2>3 DEF TurnedAway, Refused
  <1> QED
    BY <1>2, <1>3

\* A closed subscription runs no request that arrives later, for any number of
\* requests and any limit.
THEOREM ClosedRefuses == Spec => LateArrivalsRefused
  <1>1. Init => ShutInv
    BY DEF Init, ShutInv
  <1>2. Spec => []ShutInv
    BY <1>1, ShutStep, Invariance, PTL DEF Spec
  <1>3. ASSUME NEW r \in Reqs
        PROVE  Spec => [](shut /\ srv[r] = "none" => []TurnedAway(r))
    <2> DEFINE Late == shut /\ srv[r] = "none"
               Away == TurnedAway(r)
    <2>1. Inv /\ Late => Away
      BY Untouched DEF TurnedAway, Refused
    <2>2. Inv /\ ShutInv /\ Away /\ [Next]_vars => Away'
      BY TurnedAwayStays
    <2> HIDE DEF Late, Away
    <2>3. Spec => [](Late => []Away)
      BY <1>2, <2>1, <2>2, Invariance, PTL DEF Spec
    <2> QED
      BY <2>3 DEF Late, Away
  <1> QED
    BY <1>3 DEF LateArrivalsRefused

=============================================================================
