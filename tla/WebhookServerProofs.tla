-------------------------- MODULE WebhookServerProofs --------------------------
(***************************************************************************)
(* Proofs about WebhookServer, for any routes, events, posts and limits;   *)
(* then about the signatures that its routes verify (Signatures), for any  *)
(* headers, clock readings and tolerances.                                 *)
(***************************************************************************)
EXTENDS WebhookServer, Signatures, TLAPS

\* ListenAndServe, its goroutine and Shutdown.
ServerInv ==
    /\ pc = "build" => srv = "off" /\ \A d \in Posts : at[d] = "none"
    /\ pc \in {"shutdown", "drain", "nil"} => cancelled /\ shut
    /\ shut => pc \in {"shutdown", "drain", "nil"}
    /\ srv = "closed" => shut
    /\ pc \in {"drain", "nil"} => timedOut \/ \A d \in Posts : at[d] \in {"none", "end"}

\* What each stage of serveRoute has established for a post.
PostInv(d) ==
    /\ at[d] # "none" => event[d] \in Events
    /\ at[d] \in {"read", "verify", "run"} => mux[Slot(d)] # None /\ rt[d] = mux[Slot(d)]
    /\ at[d] \in {"verify", "run"} => event[d].size <= mux[Slot(d)].limit
    /\ at[d] = "run" /\ mux[Slot(d)].verify => event[d].genuine
    /\ at[d] = "written" /\ status[d] \in 200..299 => event[d] \in done

WebhookInv == TypeOK /\ ServerInv /\ \A d \in Posts : PostInv(d)

\* Every step is one of these.
LEMMA NextCases ==
    ASSUME Next
    PROVE  \/ \E g \in Regs : Handle(g)
           \/ ListenAndServe \/ Listen \/ Cancel
           \/ SelectDone \/ SelectErr \/ Shutdown \/ Drain
           \/ \E d \in Posts : Accept(d)
           \/ \E d \in Posts : Hangup(d)
           \/ \E d \in Posts : Dispatch(d)
           \/ \E d \in Posts : ReadBody(d)
           \/ \E d \in Posts : Verify(d)
           \/ \E d \in Posts : HandlerReturns(d)
           \/ \E d \in Posts : Respond(d)
BY DEF Next, Serving

\* What Handle stores is a route.
LEMMA RouteType ==
    ASSUME NEW g \in Regs
    PROVE  /\ Route(g) \in Routes
           /\ <<g.method, g.path>> \in Slots
<1>1. MaxBodyBytes \in Int
  BY WebhookAssumption DEF MaxBodyBytes
<1>2. g.limit \in Int /\ g.verify \in BOOLEAN /\ g.key \in BOOLEAN
  BY WebhookAssumption
<1>3. Route(g) \in Routes
  BY <1>1, <1>2 DEF Route, Routes
<1> QED
  BY <1>3 DEF Slots

\* The place in the mux that a post asks for.
LEMMA SlotType ==
    ASSUME NEW d \in Posts, event[d] \in Events
    PROVE  Slot(d) \in Slots
BY DEF Slot, Slots

LEMMA InitInv == Init => WebhookInv
<1> SUFFICES ASSUME Init PROVE WebhookInv
  OBVIOUS
<1>1. TypeOK
  BY DEF Init, TypeOK
<1>2. ServerInv
  BY DEF Init, ServerInv
<1>3. \A d \in Posts : PostInv(d)
  BY DEF Init, PostInv
<1> QED
  BY <1>1, <1>2, <1>3 DEF WebhookInv

\* TypeOK is inductive, given that a post past "none" has an event.
LEMMA TypeStep ==
    ASSUME WebhookInv, [Next]_vars
    PROVE  TypeOK'
<1> USE DEF WebhookInv
<1>1. CASE UNCHANGED vars
  BY <1>1 DEF TypeOK, vars, serverVars, postVars
<1>2. CASE \E g \in Regs : Handle(g)
  <2>1. PICK g \in Regs : Handle(g)
    BY <1>2
  <2> QED
    BY <2>1, RouteType DEF Handle, TypeOK, postVars
<1>3. CASE ListenAndServe \/ Listen \/ Cancel
  <2>1. CASE ListenAndServe
    BY <2>1 DEF ListenAndServe, TypeOK, postVars
  <2>2. CASE Listen
    BY <2>2 DEF Listen, TypeOK, postVars
  <2>3. CASE Cancel
    BY <2>3 DEF Cancel, TypeOK, postVars
  <2> QED
    BY <1>3, <2>1, <2>2, <2>3
<1>4. CASE SelectDone \/ SelectErr \/ Shutdown \/ Drain
  <2>1. CASE SelectDone
    BY <2>1 DEF SelectDone, TypeOK, postVars
  <2>2. CASE SelectErr
    BY <2>2 DEF SelectErr, TypeOK, postVars
  <2>3. CASE Shutdown
    BY <2>3 DEF Shutdown, TypeOK, postVars
  <2>4. CASE Drain
    BY <2>4 DEF Drain, TypeOK, postVars
  <2> QED
    BY <1>4, <2>1, <2>2, <2>3, <2>4
<1>5. CASE \E d \in Posts : Accept(d)
  BY <1>5 DEF Accept, Goto, TypeOK, serverVars
<1>6. CASE \E d \in Posts : Hangup(d)
  BY <1>6 DEF Hangup, Goto, TypeOK, serverVars
<1>7. CASE \E d \in Posts : Dispatch(d)
  <2>1. PICK d \in Posts : Dispatch(d)
    BY <1>7
  <2>2. Slot(d) \in Slots
    BY <2>1, SlotType DEF Dispatch, PostInv
  <2> QED
    BY <2>1, <2>2 DEF Dispatch, Goto, Write, TypeOK, serverVars
<1>8. CASE \E d \in Posts : ReadBody(d)
  BY <1>8 DEF ReadBody, Goto, Write, TypeOK, serverVars
<1>9. CASE \E d \in Posts : Verify(d)
  BY <1>9 DEF Verify, Goto, Write, TypeOK, serverVars
<1>10. CASE \E d \in Posts : HandlerReturns(d)
  <2>1. PICK d \in Posts : HandlerReturns(d)
    BY <1>10
  <2>2. event[d] \in Events
    BY <2>1 DEF HandlerReturns, PostInv
  <2> QED
    BY <2>1, <2>2 DEF HandlerReturns, Goto, Write, TypeOK, serverVars
<1>11. CASE \E d \in Posts : Respond(d)
  <2>1. PICK d \in Posts : Respond(d)
    BY <1>11
  <2>2. event[d] \in Events
    BY <2>1 DEF Respond, PostInv
  <2> QED
    BY <2>1, <2>2 DEF Respond, Goto, TypeOK, serverVars
<1> QED
  BY NextCases, <1>1, <1>2, <1>3, <1>4, <1>5, <1>6, <1>7, <1>8, <1>9, <1>10, <1>11

\* No post is accepted once Shutdown has begun, so none appears in flight.
LEMMA ServerStep ==
    ASSUME WebhookInv, [Next]_vars
    PROVE  ServerInv'
<1> USE DEF WebhookInv
<1>1. CASE UNCHANGED vars
  BY <1>1 DEF ServerInv, vars, serverVars, postVars
<1>2. CASE \E g \in Regs : Handle(g)
  BY <1>2 DEF Handle, ServerInv, postVars
<1>3. CASE ListenAndServe
  BY <1>3 DEF ListenAndServe, ServerInv, postVars
<1>4. CASE Listen
  BY <1>4 DEF Listen, ServerInv, postVars
<1>5. CASE Cancel
  BY <1>5 DEF Cancel, ServerInv, postVars
<1>6. CASE SelectDone
  BY <1>6 DEF SelectDone, ServerInv, postVars
<1>7. CASE SelectErr
  BY <1>7 DEF SelectErr, ServerInv, postVars
<1>8. CASE Shutdown
  BY <1>8 DEF Shutdown, ServerInv, InFlight, postVars, TypeOK
<1>9. CASE Drain
  BY <1>9 DEF Drain, ServerInv, postVars
<1>10. CASE \E d \in Posts : Accept(d)
  BY <1>10 DEF Accept, Goto, ServerInv, TypeOK, serverVars
<1>11. CASE \E d \in Posts : Hangup(d)
  BY <1>11 DEF Hangup, Goto, ServerInv, TypeOK, serverVars
<1>12. CASE \E d \in Posts : Dispatch(d)
  BY <1>12 DEF Dispatch, Goto, Write, ServerInv, TypeOK, serverVars
<1>13. CASE \E d \in Posts : ReadBody(d)
  BY <1>13 DEF ReadBody, Goto, Write, ServerInv, TypeOK, serverVars
<1>14. CASE \E d \in Posts : Verify(d)
  BY <1>14 DEF Verify, Goto, Write, ServerInv, TypeOK, serverVars
<1>15. CASE \E d \in Posts : HandlerReturns(d)
  BY <1>15 DEF HandlerReturns, Goto, Write, ServerInv, TypeOK, serverVars
<1>16. CASE \E d \in Posts : Respond(d)
  BY <1>16 DEF Respond, Goto, ServerInv, TypeOK, serverVars
<1> QED
  BY NextCases, <1>1, <1>2, <1>3, <1>4, <1>5, <1>6, <1>7, <1>8, <1>9, <1>10, <1>11,
     <1>12, <1>13, <1>14, <1>15, <1>16

\* A step of another post leaves what PostInv speaks of, but for a larger done.
LEMMA OtherPost ==
    ASSUME WebhookInv, NEW p \in Posts, NEW d \in Posts, p # d,
           UNCHANGED mux, done \subseteq done',
           at'[p] = at[p], event'[p] = event[p], rt'[p] = rt[p], status'[p] = status[p]
    PROVE  PostInv(p)'
BY DEF WebhookInv, PostInv, Slot

\* Each stage of serveRoute adds what it has checked.
LEMMA PostStep ==
    ASSUME WebhookInv, [Next]_vars, NEW p \in Posts
    PROVE  PostInv(p)'
<1> USE DEF WebhookInv
<1>1. CASE UNCHANGED vars
  BY <1>1 DEF PostInv, Slot, vars, serverVars, postVars
<1>2. CASE (\E g \in Regs : Handle(g)) \/ Listen \/ Cancel
  BY <1>2 DEF Handle, Listen, Cancel, PostInv, Slot, postVars
<1>3. CASE ListenAndServe
  BY <1>3 DEF ListenAndServe, ServerInv, PostInv, postVars
<1>4. CASE SelectDone \/ SelectErr \/ Shutdown \/ Drain
  BY <1>4 DEF SelectDone, SelectErr, Shutdown, Drain, PostInv, Slot, postVars
<1>5. CASE \E d \in Posts : Accept(d)
  <2>1. PICK d \in Posts : Accept(d)
    BY <1>5
  <2>2. CASE p = d
    BY <2>1, <2>2 DEF Accept, Goto, PostInv, TypeOK
  <2>3. CASE p # d
    BY <2>1, <2>3, OtherPost DEF Accept, Goto, TypeOK, serverVars
  <2> QED
    BY <2>2, <2>3
<1>6. CASE \E d \in Posts : Hangup(d)
  <2>1. PICK d \in Posts : Hangup(d)
    BY <1>6
  <2>2. CASE p = d
    BY <2>1, <2>2 DEF Hangup, Goto, PostInv, TypeOK
  <2>3. CASE p # d
    BY <2>1, <2>3, OtherPost DEF Hangup, Goto, TypeOK, serverVars
  <2> QED
    BY <2>2, <2>3
<1>7. CASE \E d \in Posts : Dispatch(d)
  <2>1. PICK d \in Posts : Dispatch(d)
    BY <1>7
  <2>2. CASE p = d
    BY <2>1, <2>2 DEF Dispatch, Goto, Write, PostInv, Slot, TypeOK, serverVars
  <2>3. CASE p # d
    BY <2>1, <2>3, OtherPost DEF Dispatch, Goto, Write, TypeOK, serverVars
  <2> QED
    BY <2>2, <2>3
<1>8. CASE \E d \in Posts : ReadBody(d)
  <2>1. PICK d \in Posts : ReadBody(d)
    BY <1>8
  <2>2. CASE p = d
    BY <2>1, <2>2 DEF ReadBody, Goto, Write, PostInv, Slot, TypeOK, serverVars
  <2>3. CASE p # d
    BY <2>1, <2>3, OtherPost DEF ReadBody, Goto, Write, TypeOK, serverVars
  <2> QED
    BY <2>2, <2>3
<1>9. CASE \E d \in Posts : Verify(d)
  <2>1. PICK d \in Posts : Verify(d)
    BY <1>9
  <2>2. CASE p = d
    BY <2>1, <2>2 DEF Verify, Goto, Write, PostInv, Slot, TypeOK, serverVars
  <2>3. CASE p # d
    BY <2>1, <2>3, OtherPost DEF Verify, Goto, Write, TypeOK, serverVars
  <2> QED
    BY <2>2, <2>3
<1>10. CASE \E d \in Posts : HandlerReturns(d)
  <2>1. PICK d \in Posts : HandlerReturns(d)
    BY <1>10
  <2>2. CASE p = d
    BY <2>1, <2>2 DEF HandlerReturns, Goto, Write, PostInv, Slot, TypeOK, serverVars
  <2>3. CASE p # d
    BY <2>1, <2>3, OtherPost DEF HandlerReturns, Goto, Write, TypeOK, serverVars
  <2> QED
    BY <2>2, <2>3
<1>11. CASE \E d \in Posts : Respond(d)
  <2>1. PICK d \in Posts : Respond(d)
    BY <1>11
  <2>2. CASE p = d
    BY <2>1, <2>2 DEF Respond, Goto, PostInv, TypeOK
  <2>3. CASE p # d
    BY <2>1, <2>3, OtherPost DEF Respond, Goto, TypeOK, serverVars
  <2> QED
    BY <2>2, <2>3
<1> QED
  BY NextCases, <1>1, <1>2, <1>3, <1>4, <1>5, <1>6, <1>7, <1>8, <1>9, <1>10, <1>11

\* WebhookInv is an invariant of the webhook server.
THEOREM WebhookInvariant == Spec => []WebhookInv
<1>1. WebhookInv /\ [Next]_vars => WebhookInv'
  BY TypeStep, ServerStep, PostStep DEF WebhookInv
<1> QED
  BY InitInv, <1>1, PTL DEF Spec

-----------------------------------------------------------------------------
\* A handler is only called for a post that the route in force when the server
\* started admits.
THEOREM Admission == Spec => []AdmittedByItsRoute
<1>1. WebhookInv => AdmittedByItsRoute
  BY DEF WebhookInv, PostInv, AdmittedByItsRoute
<1> QED
  BY <1>1, WebhookInvariant, PTL

\* ListenAndServe returns nil only after a cancellation, and with nothing in
\* flight unless Shutdown gave up.
THEOREM GracefulEnd == Spec => []NilMeansDrained
<1>1. WebhookInv => NilMeansDrained
  BY DEF WebhookInv, ServerInv, NilMeansDrained, InFlight
<1> QED
  BY <1>1, WebhookInvariant, PTL

\* Each step acts on processed and acknowledged events as AtLeastOnce allows.
LEMMA PromiseStep ==
    ASSUME WebhookInv, [Next]_vars
    PROVE  [Promise!Next]_<<done, acked>>
<1> USE DEF WebhookInv
<1>1. CASE UNCHANGED vars
  BY <1>1 DEF vars
<1>2. CASE (\E g \in Regs : Handle(g)) \/ ListenAndServe \/ Listen \/ Cancel
  BY <1>2 DEF Handle, ListenAndServe, Listen, Cancel
<1>3. CASE SelectDone \/ SelectErr \/ Shutdown \/ Drain
  BY <1>3 DEF SelectDone, SelectErr, Shutdown, Drain
<1>4. CASE \E d \in Posts : Accept(d) \/ Hangup(d) \/ Dispatch(d) \/ ReadBody(d) \/ Verify(d)
  BY <1>4 DEF Accept, Hangup, Dispatch, ReadBody, Verify
<1>5. CASE \E d \in Posts : HandlerReturns(d)
  <2>1. PICK d \in Posts : HandlerReturns(d)
    BY <1>5
  <2>2. event[d] \in Events
    BY <2>1 DEF HandlerReturns, PostInv
  <2>3. done' = done \/ done' = done \cup {event[d]}
    BY <2>1 DEF HandlerReturns
  <2>4. acked' = acked
    BY <2>1 DEF HandlerReturns
  <2> QED
    BY <2>2, <2>3, <2>4 DEF Promise!Next, Promise!Answer
<1>6. CASE \E d \in Posts : Respond(d)
  <2>1. PICK d \in Posts : Respond(d)
    BY <1>6
  <2>2. event[d] \in Events /\ (status[d] \in 200..299 => event[d] \in done)
    BY <2>1 DEF Respond, PostInv
  <2>3. acked' = acked \/ (status[d] \in 200..299 /\ acked' = acked \cup {event[d]})
    BY <2>1 DEF Respond
  <2>4. done' = done
    BY <2>1 DEF Respond
  <2> QED
    BY <2>2, <2>3, <2>4 DEF Promise!Next, Promise!Settle
<1> QED
  BY NextCases, <1>1, <1>2, <1>3, <1>4, <1>5, <1>6

\* The webhook server implements AtLeastOnce: no event is acknowledged that no
\* handler processed.
THEOREM AtLeastOnceHolds == Spec => AckedWhenProcessed
<1>1. Init => Promise!Init
  BY DEF Init, Promise!Init
<1> QED
  BY <1>1, PromiseStep, WebhookInvariant, PTL DEF Spec, AckedWhenProcessed, Promise!Spec

-----------------------------------------------------------------------------
(* The check of a Stripe signature: Signatures.                            *)

\* What the wrap-around does to a difference of two integers.
LEMMA WrapOnce ==
  ASSUME NEW n \in (-2 * Half)..(2 * Half)
  PROVE  Wrap(n) = IF n >= Half THEN n - 2 * Half ELSE IF n < -Half THEN n + 2 * Half ELSE n
  <1> DEFINE d == 2 * Half
  <1>0. Half \in Nat \ {0} /\ d \in Nat \ {0} /\ n + Half \in Int
    BY SignatureAssumption
  <1>1. \A a \in 0..(d - 1) : a % d = a
    BY <1>0, SMT
  <1>2. \A a \in d..(2 * d - 1) : a % d = a - d
    BY <1>0, SMT
  <1>3. \A a \in (-d)..(-1) : a % d = a + d
    BY <1>0, SMT
  <1>4. CASE n >= Half
    <2>1. n + Half \in d..(2 * d - 1)
      BY <1>0, <1>4
    <2> QED
      BY <1>0, <1>2, <1>4, <2>1 DEF Wrap
  <1>5. CASE n < -Half
    <2>1. n + Half \in (-d)..(-1)
      BY <1>0, <1>5
    <2> QED
      BY <1>0, <1>3, <1>5, <2>1 DEF Wrap
  <1>6. CASE n < Half /\ n >= -Half
    <2>1. n + Half \in 0..(d - 1)
      BY <1>0, <1>6
    <2> QED
      BY <1>0, <1>1, <1>6, <2>1 DEF Wrap
  <1> QED
    BY <1>0, <1>4, <1>5, <1>6

\* The window that the code computes is the one meant, but for two corners.
LEMMA WindowExact ==
  ASSUME NEW ts \in Stamps, now \in Times, tolerance \in Tolerances
  PROVE  /\ Near(ts) => InWindow(ts)
         /\ InWindow(ts) => Near(ts) \/ now - ts = Half \/ now + tolerance >= Half
  <1>0. /\ Half \in Nat \ {0}
        /\ now \in 0..(Half - 1) /\ ts \in (-Half)..(Half - 1)
        /\ tolerance \in (-Half)..(Half - 1)
    BY SignatureAssumption
  <1> DEFINE skew == Wrap(now - ts)
  <1>1. skew = IF now - ts >= Half THEN now - ts - 2 * Half ELSE now - ts
    BY <1>0, WrapOnce
  <1>2. skew \in (-Half)..(Half - 1)
    BY <1>0, <1>1
  <1>3. skew < 0 => Wrap(-skew) = IF skew = -Half THEN -Half ELSE -skew
    BY <1>0, <1>2, WrapOnce
  <1>4. InWindow(ts) <=> (tolerance > 0 => (IF skew < 0 THEN Wrap(-skew) ELSE skew) <= tolerance)
    BY DEF InWindow
  <1> HIDE DEF skew
  <1> QED
    BY <1>0, <1>1, <1>2, <1>3, <1>4 DEF Near

SignatureInv ==
    /\ \E n \in 0..MaxParts : header \in [1..n -> Parts]
    /\ now \in Times /\ tolerance \in Tolerances
    /\ verdict \in {NoVerdict, VerifyStripe}

\* A header of an honest sender has the stamp of its one t= part.
LEMMA OneStamp ==
  ASSUME NEW i \in 1..Len(header), PartsOf("t") = {i}
  PROVE  Stamp = header[i].val
  BY DEF Stamp

LEMMA SignatureHolds == SignatureInv => SignedInWindow
  <1> SUFFICES ASSUME SignatureInv, verdict # NoVerdict PROVE SignedInWindow
    BY DEF SignedInWindow
  <1>0. /\ Half \in Nat \ {0} /\ Stamps \subseteq (-Half)..(Half - 1)
        /\ Empty \notin Stamps /\ Junk \notin Stamps /\ Empty # Junk
    BY SignatureAssumption DEF Empty, Junk
  <1>1. now \in Times /\ tolerance \in Tolerances /\ verdict = VerifyStripe
    BY DEF SignatureInv
  <1>2. \A i \in 1..Len(header) : header[i] \in Parts
    BY SignatureAssumption DEF SignatureInv
  <1>3. verdict.ok => /\ \E i \in 1..Len(header) : header[i] = [key |-> "v1", val |-> verdict.ts]
                      /\ Near(verdict.ts) \/ now - verdict.ts = Half \/ now + tolerance >= Half
    <2> SUFFICES ASSUME verdict.ok
                 PROVE  /\ \E i \in 1..Len(header) : header[i] = [key |-> "v1", val |-> verdict.ts]
                        /\ Near(verdict.ts) \/ now - verdict.ts = Half \/ now + tolerance >= Half
      OBVIOUS
    <2>1. /\ Stamp # Junk /\ InWindow(Stamp) /\ verdict.ts = Stamp
          /\ \E i \in PartsOf("v1") : header[i].val = Stamp
      BY <1>1 DEF VerifyStripe, Rejected
    <2>2. PICK i \in 1..Len(header) : header[i].key = "v1" /\ header[i].val = Stamp
      BY <2>1 DEF PartsOf
    <2>3. header[i] = [key |-> "v1", val |-> Stamp] /\ Stamp \in Stamps
      BY <1>2, <2>1, <2>2 DEF Parts
    <2> QED
      BY <1>1, <2>1, <2>3, WindowExact
  <1>4. ASSUME NEW ts \in Stamps, Near(ts),
               NEW i \in 1..Len(header), PartsOf("t") = {i}, header[i].val = ts,
               NEW j \in 1..Len(header), header[j] = [key |-> "v1", val |-> ts]
        PROVE  verdict = [ok |-> TRUE, ts |-> ts]
    <2>1. Stamp = ts /\ Stamp # Empty /\ Stamp # Junk
      BY <1>0, <1>4, OneStamp
    <2>2. InWindow(Stamp)
      BY <1>1, <1>4, <2>1, WindowExact
    <2>3. j \in PartsOf("v1") /\ header[j].val = Stamp
      BY <1>4, <2>1 DEF PartsOf
    <2>4. Len(header) # 0
      BY <1>4, SignatureAssumption DEF SignatureInv
    <2> QED
      BY <1>1, <2>1, <2>2, <2>3, <2>4 DEF VerifyStripe
  <1> QED
    BY <1>3, <1>4 DEF SignedInWindow

\* For every header, clock reading and tolerance, the time that VerifyStripe
\* returns is signed and in the window, and an honest header is accepted; the
\* arithmetic is that of integers that wrap around, for every width.
THEOREM StripeTimesSigned == SignatureSpec => []SignedInWindow
  <1>1. SignatureInit => SignatureInv
    BY DEF SignatureInit, SignatureInv
  <1>2. SignatureInv /\ [VerifySignature]_signatureVars => SignatureInv'
    <2> SUFFICES ASSUME SignatureInv, [VerifySignature]_signatureVars PROVE SignatureInv'
      OBVIOUS
    <2>1. header' = header /\ now' = now /\ tolerance' = tolerance
      BY DEF VerifySignature, signatureVars
    <2>2. VerifyStripe' = VerifyStripe
      BY <2>1 DEF VerifyStripe, Stamp, PartsOf, InWindow, Wrap, Rejected, Empty, Junk
    <2>3. verdict' \in {NoVerdict, VerifyStripe}
      BY DEF SignatureInv, VerifySignature, signatureVars
    <2> QED
      BY <2>1, <2>2, <2>3 DEF SignatureInv, NoVerdict, Junk, Parts, Empty
  <1> QED
    BY <1>1, <1>2, SignatureHolds, PTL DEF SignatureSpec

=============================================================================
