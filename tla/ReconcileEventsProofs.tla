------------------------- MODULE ReconcileEventsProofs -------------------------
(***************************************************************************)
(* Proofs about ReconcileEvents, for any runs, requests and number of      *)
(* attempts; then, for every payload, about the ids that the events carry  *)
(* (ResourceId).                                                           *)
(***************************************************************************)
EXTENDS ReconcileEvents, ResourceId, FiniteSetTheorems, TLAPS

\* The key that a run puts into its event.
KeyFor(r, q) == IF q \in Keyed THEN EnvKey(q) ELSE GenKey(r, 0)

\* Where a run is tells what has happened in it.
RunInv(r) ==
    /\ pc[r] # "idle" => req[r] \in Reqs
    /\ pc[r] = "call" => req[r] \in Known
    /\ pc[r] \in {"idle", "call"} => ~told[r]
    /\ pc[r] \in {"emit"} \cup Emitting => told[r] /\ req[r] \in Known \ Observes
    /\ pc[r] \in Emitting => key[r] = KeyFor(r, req[r])
    /\ pc[r] \in {"idle", "call", "emit"} => attempt[r] = 0
    /\ pc[r] \in {"post", "backoff"} => attempt[r] < MaxRetries

\* An event, under way or in the log, is that of a mutation that happened.
EventInv(e) ==
    /\ pc[e.run] # "idle" /\ told[e.run]
    /\ e.req = req[e.run] /\ e.req \in Known \ Observes
    /\ e.key = KeyFor(e.run, e.req)

\* The core keeps one row for a key.
KeysDiffer == \A e, f \in log : e.key = f.key => e = f

EventsInv ==
    /\ TypeOK
    /\ \A r \in Runs : RunInv(r)
    /\ \A e \in wire \cup log : EventInv(e)
    /\ KeysDiffer

LEMMA KeyForType ==
    ASSUME NEW r \in Runs, NEW q \in Reqs
    PROVE  KeyFor(r, q) \in Keys
<1>1. 0 \in 0..MaxRetries
  BY EventsAssumption
<1> QED
  BY <1>1 DEF KeyFor, Keys

\* The steps, and what they leave alone.
LEMMA NextCases ==
    ASSUME Next
    PROVE  \/ \E r \in Runs : Execute(r)
           \/ \E r \in Runs : Reconcile(r)
           \/ \E r \in Runs : Emit(r)
           \/ \E r \in Runs : Post(r)
           \/ \E r \in Runs : Answer(r)
           \/ \E r \in Runs : DoFails(r)
           \/ \E r \in Runs : Backoff(r)
           \/ \E r \in Runs : Expire(r)
           \/ \E r \in Runs : Crash(r)
           \/ \E e \in wire : CoreHandles(e)
BY DEF Next, RunStep

\* The core stores the event of a valid request if it has no row for its key.
LEMMA CoreEffect ==
    ASSUME NEW e \in wire, CoreHandles(e), TypeOK
    PROVE  /\ wire' = wire \ {e}
           /\ \/ log' = log
              \/ log' = log \cup {e} /\ \A row \in log : row.key # e.key
           /\ \/ resp' = resp
              \/ \E status \in {"2xx", "4xx", "5xx"} : resp' = [resp EXCEPT ![e.run] = status]
           /\ UNCHANGED <<pc, runVars, attempt>>
BY DEF CoreHandles

LEMMA InitInv == Init => EventsInv
<1> SUFFICES ASSUME Init PROVE EventsInv
  OBVIOUS
<1>1. NoKey \in Keys /\ 0 \in 0..MaxRetries
  BY EventsAssumption DEF Keys
<1>2. TypeOK
  BY <1>1 DEF Init, TypeOK
<1>3. \A r \in Runs : RunInv(r)
  BY EventsAssumption DEF Init, RunInv, Emitting
<1> QED
  BY <1>2, <1>3 DEF Init, EventsInv, KeysDiffer

-----------------------------------------------------------------------------
\* TypeOK is inductive; the bound on attempts comes from where a run is.
LEMMA TypeStep ==
    ASSUME EventsInv, [Next]_vars
    PROVE  TypeOK'
<1> USE DEF EventsInv
<1>1. CASE UNCHANGED vars
  BY <1>1 DEF TypeOK, vars, runVars, postVars
<1>2. CASE \E r \in Runs : Execute(r)
  BY <1>2 DEF Execute, Goto, TypeOK, postVars, Ended
<1>3. CASE \E r \in Runs : Reconcile(r)
  BY <1>3 DEF Reconcile, Goto, TypeOK, postVars, Ended
<1>4. CASE \E r \in Runs : Emit(r)
  <2>1. PICK r \in Runs : Emit(r)
    BY <1>4
  <2>2. KeyFor(r, req[r]) \in Keys
    BY <2>1, KeyForType DEF Emit, RunInv
  <2>3. key' = key \/ key' = [key EXCEPT ![r] = KeyFor(r, req[r])]
    BY <2>1 DEF Emit, KeyFor
  <2>4. key' \in [Runs -> Keys]
    BY <2>2, <2>3 DEF TypeOK
  <2>5. pc' \in [Runs -> {"idle", "call", "emit"} \cup Emitting \cup Ended]
    BY <2>1 DEF Emit, Goto, TypeOK, Emitting, Ended
  <2> QED
    BY <2>1, <2>4, <2>5 DEF Emit, TypeOK, postVars
<1>5. CASE \E r \in Runs : Post(r)
  <2>1. PICK r \in Runs : Post(r)
    BY <1>5
  <2>2. attempt[r] \in 0..MaxRetries /\ attempt[r] < MaxRetries
    BY <2>1 DEF Post, RunInv, TypeOK
  <2>3. attempt[r] + 1 \in 1..MaxRetries /\ attempt[r] + 1 \in 0..MaxRetries
    BY <2>2, EventsAssumption
  <2>4. Event(r) \in Events
    BY <2>1, <2>3 DEF Post, RunInv, Event, Events, TypeOK
  <2>5. wire' \subseteq Events
    BY <2>1, <2>4 DEF Post, TypeOK
  <2>6. attempt' \in [Runs -> 0..MaxRetries]
    BY <2>1, <2>3 DEF Post, TypeOK
  <2>7. pc' \in [Runs -> {"idle", "call", "emit"} \cup Emitting \cup Ended]
    BY <2>1 DEF Post, Goto, TypeOK, Emitting
  <2> QED
    BY <2>1, <2>5, <2>6, <2>7 DEF Post, TypeOK, runVars
<1>6. CASE \E r \in Runs : Answer(r)
  BY <1>6 DEF Answer, Goto, TypeOK, runVars, Emitting, Ended
<1>7. CASE \E r \in Runs : DoFails(r)
  BY <1>7 DEF DoFails, Goto, TypeOK, runVars, Emitting, Ended
<1>8. CASE \E r \in Runs : Backoff(r)
  BY <1>8 DEF Backoff, Goto, TypeOK, runVars, postVars, Emitting, Ended
<1>9. CASE \E r \in Runs : Expire(r)
  BY <1>9 DEF Expire, TypeOK, postVars
<1>10. CASE \E r \in Runs : Crash(r)
  BY <1>10 DEF Crash, Goto, TypeOK, runVars, postVars, Ended
<1>11. CASE \E e \in wire : CoreHandles(e)
  <2>1. PICK e \in wire : CoreHandles(e)
    BY <1>11
  <2>2. wire' \subseteq Events /\ log' \subseteq Events
    BY <2>1, CoreEffect DEF TypeOK
  <2>3. resp' \in [Runs -> {"none", "2xx", "4xx", "5xx"}]
    BY <2>1, CoreEffect DEF TypeOK
  <2> QED
    BY <2>1, <2>2, <2>3, CoreEffect DEF TypeOK, runVars
<1> QED
  BY NextCases, <1>1, <1>2, <1>3, <1>4, <1>5, <1>6, <1>7, <1>8, <1>9, <1>10, <1>11

\* A run that takes no step keeps its part of the invariant.
LEMMA OtherRun ==
    ASSUME NEW r, RunInv(r),
           pc'[r] = pc[r], req'[r] = req[r], told'[r] = told[r],
           key'[r] = key[r], attempt'[r] = attempt[r]
    PROVE  RunInv(r)'
BY DEF RunInv

LEMMA RunsStep ==
    ASSUME EventsInv, [Next]_vars, NEW s \in Runs
    PROVE  RunInv(s)'
<1>0. TypeOK /\ RunInv(s)
  BY DEF EventsInv
<1>1. CASE UNCHANGED vars
  BY <1>0, <1>1, OtherRun DEF vars, runVars, postVars
<1>2. CASE \E r \in Runs : Execute(r)
  <2>1. PICK r \in Runs : Execute(r)
    BY <1>2
  <2>2. CASE r = s
    BY <1>0, <2>1, <2>2 DEF Execute, Goto, RunInv, TypeOK, Emitting, postVars
  <2>3. CASE r # s
    BY <1>0, <2>1, <2>3, OtherRun DEF Execute, Goto, TypeOK, postVars
  <2> QED
    BY <2>2, <2>3
<1>3. CASE \E r \in Runs : Reconcile(r)
  <2>1. PICK r \in Runs : Reconcile(r)
    BY <1>3
  <2>2. CASE r = s
    BY <1>0, <2>1, <2>2 DEF Reconcile, Goto, RunInv, TypeOK, Emitting, postVars
  <2>3. CASE r # s
    BY <1>0, <2>1, <2>3, OtherRun DEF Reconcile, Goto, TypeOK, postVars
  <2> QED
    BY <2>2, <2>3
<1>4. CASE \E r \in Runs : Emit(r)
  <2>1. PICK r \in Runs : Emit(r)
    BY <1>4
  <2>2. CASE r = s
    <3>1. attempt[s] < MaxRetries
      BY <1>0, <2>1, <2>2, EventsAssumption DEF Emit, RunInv
    <3>2. pc'[s] \in Emitting => key'[s] = KeyFor(s, req[s])
      BY <1>0, <2>1, <2>2 DEF Emit, Goto, KeyFor, TypeOK, Emitting
    <3>3. pc'[s] \in {"post", "done"}
      BY <1>0, <2>1, <2>2 DEF Emit, Goto, TypeOK
    <3> QED
      BY <1>0, <2>1, <2>2, <3>1, <3>2, <3>3 DEF Emit, RunInv, Emitting, postVars
  <2>3. CASE r # s
    BY <1>0, <2>1, <2>3, OtherRun DEF Emit, Goto, TypeOK, postVars
  <2> QED
    BY <2>2, <2>3
<1>5. CASE \E r \in Runs : Post(r)
  <2>1. PICK r \in Runs : Post(r)
    BY <1>5
  <2>2. CASE r = s
    BY <1>0, <2>1, <2>2 DEF Post, Goto, RunInv, TypeOK, Emitting, runVars
  <2>3. CASE r # s
    BY <1>0, <2>1, <2>3, OtherRun DEF Post, Goto, TypeOK, runVars
  <2> QED
    BY <2>2, <2>3
<1>6. CASE \E r \in Runs : Answer(r)
  <2>1. PICK r \in Runs : Answer(r)
    BY <1>6
  <2>2. CASE r = s
    <3>1. attempt[s] # MaxRetries => attempt[s] < MaxRetries
      BY <1>0, EventsAssumption DEF TypeOK
    <3> QED
      BY <1>0, <2>1, <2>2, <3>1 DEF Answer, Goto, Exhausted, RunInv, TypeOK, Emitting, runVars
  <2>3. CASE r # s
    BY <1>0, <2>1, <2>3, OtherRun DEF Answer, Goto, TypeOK, runVars
  <2> QED
    BY <2>2, <2>3
<1>7. CASE \E r \in Runs : DoFails(r)
  <2>1. PICK r \in Runs : DoFails(r)
    BY <1>7
  <2>2. CASE r = s
    <3>1. attempt[s] # MaxRetries => attempt[s] < MaxRetries
      BY <1>0, EventsAssumption DEF TypeOK
    <3> QED
      BY <1>0, <2>1, <2>2, <3>1 DEF DoFails, Goto, Exhausted, RunInv, TypeOK, Emitting, runVars
  <2>3. CASE r # s
    BY <1>0, <2>1, <2>3, OtherRun DEF DoFails, Goto, TypeOK, runVars
  <2> QED
    BY <2>2, <2>3
<1>8. CASE \E r \in Runs : Backoff(r)
  <2>1. PICK r \in Runs : Backoff(r)
    BY <1>8
  <2>2. CASE r = s
    BY <1>0, <2>1, <2>2 DEF Backoff, Goto, RunInv, TypeOK, Emitting, runVars, postVars
  <2>3. CASE r # s
    BY <1>0, <2>1, <2>3, OtherRun DEF Backoff, Goto, TypeOK, runVars, postVars
  <2> QED
    BY <2>2, <2>3
<1>9. CASE \E r \in Runs : Expire(r)
  BY <1>0, <1>9, OtherRun DEF Expire, postVars
<1>10. CASE \E r \in Runs : Crash(r)
  <2>1. PICK r \in Runs : Crash(r)
    BY <1>10
  <2>2. CASE r = s
    BY <1>0, <2>1, <2>2 DEF Crash, Goto, RunInv, TypeOK, Emitting, Ended, runVars, postVars
  <2>3. CASE r # s
    BY <1>0, <2>1, <2>3, OtherRun DEF Crash, Goto, TypeOK, runVars, postVars
  <2> QED
    BY <2>2, <2>3
<1>11. CASE \E e \in wire : CoreHandles(e)
  BY <1>0, <1>11, OtherRun, CoreEffect DEF runVars
<1> QED
  BY NextCases, <1>1, <1>2, <1>3, <1>4, <1>5, <1>6, <1>7, <1>8, <1>9, <1>10, <1>11

\* The mutation that an event tells of stays what it was.
LEMMA EventKept ==
    ASSUME NEW e, EventInv(e),
           pc'[e.run] # "idle", told'[e.run], req'[e.run] = req[e.run]
    PROVE  EventInv(e)'
BY DEF EventInv

\* Events enter the wire by Post and the log from the wire.
LEMMA EventStep ==
    ASSUME EventsInv, [Next]_vars, NEW e \in wire' \cup log'
    PROVE  EventInv(e)'
<1>0. TypeOK /\ (e \in wire \cup log => EventInv(e) /\ e.run \in Runs)
  BY DEF EventsInv, TypeOK, Events
<1>1. CASE UNCHANGED vars
  BY <1>0, <1>1, EventKept DEF vars, runVars, postVars, EventInv
<1>2. CASE \E r \in Runs : Execute(r)
  BY <1>0, <1>2, EventKept DEF Execute, Goto, TypeOK, postVars, EventInv
<1>3. CASE \E r \in Runs : Reconcile(r)
  BY <1>0, <1>3, EventKept DEF Reconcile, Goto, TypeOK, postVars, EventInv
<1>4. CASE \E r \in Runs : Emit(r)
  BY <1>0, <1>4, EventKept DEF Emit, Goto, TypeOK, postVars, EventInv
<1>5. CASE \E r \in Runs : Post(r)
  <2>1. PICK r \in Runs : Post(r)
    BY <1>5
  <2>2. CASE e \in wire \cup log
    BY <1>0, <2>1, <2>2, EventKept DEF Post, Goto, TypeOK, runVars, EventInv
  <2>3. CASE e = Event(r)
    <3>1. RunInv(r) /\ pc[r] = "post"
      BY <2>1 DEF EventsInv, Post
    <3>2. /\ told[r] /\ req[r] \in Known \ Observes
          /\ key[r] = KeyFor(r, req[r])
      BY <3>1 DEF RunInv, Emitting
    <3>3. e.run = r /\ e.req = req[r] /\ e.key = key[r]
      BY <2>3 DEF Event
    <3>4. pc'[r] = "wait" /\ told' = told /\ req' = req
      BY <1>0, <2>1 DEF Post, Goto, TypeOK, runVars
    <3> QED
      BY <3>2, <3>3, <3>4 DEF EventInv
  <2> QED
    BY <2>1, <2>2, <2>3 DEF Post
<1>6. CASE \E r \in Runs : Answer(r)
  BY <1>0, <1>6, EventKept DEF Answer, Goto, TypeOK, runVars, EventInv
<1>7. CASE \E r \in Runs : DoFails(r)
  BY <1>0, <1>7, EventKept DEF DoFails, Goto, TypeOK, runVars, EventInv
<1>8. CASE \E r \in Runs : Backoff(r)
  BY <1>0, <1>8, EventKept DEF Backoff, Goto, TypeOK, runVars, postVars, EventInv
<1>9. CASE \E r \in Runs : Expire(r)
  BY <1>0, <1>9, EventKept DEF Expire, postVars, EventInv
<1>10. CASE \E r \in Runs : Crash(r)
  BY <1>0, <1>10, EventKept DEF Crash, Goto, TypeOK, runVars, postVars, EventInv
<1>11. CASE \E c \in wire : CoreHandles(c)
  <2>1. e \in wire \cup log
    BY <1>0, <1>11, CoreEffect
  <2> QED
    BY <1>0, <1>11, <2>1, EventKept, CoreEffect DEF runVars, EventInv
<1> QED
  BY NextCases, <1>1, <1>2, <1>3, <1>4, <1>5, <1>6, <1>7, <1>8, <1>9, <1>10, <1>11

\* Only the core writes the log.
LEMMA LogStep ==
    ASSUME EventsInv, [Next]_vars
    PROVE  \/ log' = log
           \/ \E e \in wire : log' = log \cup {e} /\ \A row \in log : row.key # e.key
<1>1. CASE \E e \in wire : CoreHandles(e)
  BY <1>1, CoreEffect DEF EventsInv
<1>2. CASE ~\E e \in wire : CoreHandles(e)
  BY <1>2, NextCases DEF vars, Execute, Reconcile, Emit, Post, Answer, DoFails, Backoff,
     Expire, Crash
<1> QED
  BY <1>1, <1>2

\* EventsInv is an invariant of the reconcile handler.
THEOREM EventsInvariant == Spec => []EventsInv
<1>1. EventsInv /\ [Next]_vars => EventsInv'
  <2> SUFFICES ASSUME EventsInv, [Next]_vars PROVE EventsInv'
    OBVIOUS
  <2>1. KeysDiffer'
    BY LogStep DEF EventsInv, KeysDiffer
  <2> QED
    BY <2>1, TypeStep, RunsStep, EventStep DEF EventsInv
<1> QED
  BY InitInv, <1>1, PTL DEF Spec

-----------------------------------------------------------------------------
LEMMA AtMostOne ==
    ASSUME NEW S, \A x, y \in S : x = y
    PROVE  Cardinality(S) <= 1
<1>1. CASE S = {}
  BY <1>1, FS_EmptySet
<1>2. CASE S # {}
  <2>1. PICK x \in S : TRUE
    BY <1>2
  <2>2. S = {x}
    BY <2>1
  <2> QED
    BY <2>2, FS_Singleton
<1> QED
  BY <1>1, <1>2

\* The retries of one Emit leave one row at most.
THEOREM RowPerRun == Spec => []OneRowPerRun
<1>1. EventsInv => OneRowPerRun
  <2> SUFFICES ASSUME EventsInv, NEW r \in Runs
               PROVE  Cardinality({row \in log : row.run = r}) <= 1
    BY DEF OneRowPerRun
  <2>1. \A e, f \in log : e.run = r /\ f.run = r => e = f
    BY DEF EventsInv, EventInv, KeysDiffer
  <2> QED
    BY <2>1, AtMostOne
<1> QED
  BY <1>1, EventsInvariant, PTL

\* A request with an idempotency key leaves one row at most.
THEOREM RowPerKey == Spec => []OneRowPerKeyedRequest
<1>1. EventsInv => OneRowPerKeyedRequest
  <2> SUFFICES ASSUME EventsInv, NEW q \in Keyed
               PROVE  Cardinality({row \in log : row.req = q}) <= 1
    BY DEF OneRowPerKeyedRequest
  <2>1. \A e, f \in log : e.req = q /\ f.req = q => e = f
    BY DEF EventsInv, EventInv, KeysDiffer, KeyFor
  <2> QED
    BY <2>1, AtMostOne
<1> QED
  BY <1>1, EventsInvariant, PTL

\* Once the event is being emitted the call can only succeed.
THEOREM EmissionHarmless == Spec => EmissionNeverFailsCall
<1>1. ASSUME EventsInv, [Next]_vars
      PROVE  [\A r \in Runs : pc[r] \in Emitting => pc'[r] # "failed"]_vars
  <2> SUFFICES ASSUME NEW r \in Runs, pc[r] \in Emitting PROVE pc'[r] # "failed"
    OBVIOUS
  <2>1. TypeOK
    BY <1>1 DEF EventsInv
  <2>2. CASE UNCHANGED vars \/ \E e \in wire : CoreHandles(e)
    BY <2>1, <2>2, CoreEffect DEF vars, Emitting
  <2>3. CASE \E s \in Runs : Execute(s) \/ Reconcile(s) \/ Emit(s)
    BY <2>1, <2>3 DEF Execute, Reconcile, Emit, Goto, TypeOK, Emitting
  <2>4. CASE \E s \in Runs : Post(s) \/ Answer(s) \/ DoFails(s) \/ Backoff(s)
    BY <2>1, <2>4 DEF Post, Answer, DoFails, Backoff, Goto, TypeOK, Emitting
  <2>5. CASE \E s \in Runs : Expire(s) \/ Crash(s)
    BY <2>1, <2>5 DEF Expire, Crash, Goto, TypeOK, Emitting
  <2> QED
    BY <1>1, NextCases, <2>2, <2>3, <2>4, <2>5
<1> QED
  BY <1>1, EventsInvariant, PTL DEF Spec, EmissionNeverFailsCall

-----------------------------------------------------------------------------
(* The log implements EventLog.                                            *)

Facts == {[run |-> r, req |-> req[r]] : r \in {s \in Runs :
              told[s] /\ req[s] \in Known \ Observes}}

\* A run's mutation, once made, stays a fact.
LEMMA FactsGrow ==
    ASSUME EventsInv, [Next]_vars
    PROVE  Facts \subseteq Facts'
<1> SUFFICES ASSUME NEW s \in Runs, told[s] PROVE told'[s] /\ req'[s] = req[s]
  BY DEF Facts
<1>0. TypeOK /\ pc[s] \notin {"idle", "call"}
  BY DEF EventsInv, RunInv
<1>1. CASE UNCHANGED vars \/ \E e \in wire : CoreHandles(e)
  BY <1>0, <1>1, CoreEffect DEF vars, runVars
<1>2. CASE \E r \in Runs : Execute(r) \/ Reconcile(r)
  BY <1>0, <1>2 DEF Execute, Reconcile, TypeOK
<1>3. CASE \E r \in Runs : Emit(r) \/ Post(r) \/ Answer(r) \/ DoFails(r) \/ Backoff(r)
  BY <1>3 DEF Emit, Post, Answer, DoFails, Backoff, runVars
<1>4. CASE \E r \in Runs : Expire(r) \/ Crash(r)
  BY <1>4 DEF Expire, Crash, runVars
<1> QED
  BY NextCases, <1>1, <1>2, <1>3, <1>4

\* Every step maps to one of EventLog, or to none.
LEMMA RefinementStep ==
    ASSUME EventsInv, [Next]_vars
    PROVE  [Log!Next]_<<Facts, log>>
<1>1. CASE log' = log
  BY <1>1, FactsGrow DEF Log!Next, Log!Mutate, Facts
<1>2. CASE log' # log
  <2>1. PICK e \in wire : log' = log \cup {e} /\ \A row \in log : row.key # e.key
    BY <1>2, LogStep
  <2>2. EventInv(e) /\ e.run \in Runs
    BY <2>1 DEF EventsInv, TypeOK, Events
  <2>3. [run |-> e.run, req |-> e.req] \in Facts
    BY <2>2 DEF EventInv, Facts
  <2>5. ASSUME NEW g \in log
        PROVE  g.run # e.run /\ (e.req \in Keyed => g.req # e.req)
    <3>1. EventInv(g) /\ g.key # e.key
      BY <2>1 DEF EventsInv
    <3> QED
      BY <2>2, <3>1 DEF EventInv, KeyFor
  <2>6. Facts' = Facts
    <3>1. \E c \in wire : CoreHandles(c)
      BY <1>2, NextCases DEF vars, Execute, Reconcile, Emit, Post, Answer, DoFails, Backoff,
         Expire, Crash
    <3>2. UNCHANGED <<req, told>>
      BY <3>1, CoreEffect DEF runVars, EventsInv
    <3> QED
      BY <3>2 DEF Facts
  <2>7. Log!Record(e)
    BY <2>1, <2>3, <2>5, <2>6 DEF Log!Record, Facts
  <2> QED
    BY <2>1, <2>7 DEF Log!Next
<1> QED
  BY <1>1, <1>2

\* The rows, with all they hold, stand for mutations that happened, one for a run
\* and one for an idempotency key, whatever is retried, lost or late.
THEOREM LogRefinement == Spec => KeepsLog
<1>1. Init => Log!Init
  BY DEF Init, Log!Init
<1>2. EventsInv /\ [Next]_vars => [Log!Next]_<<Facts, log>>
  BY RefinementStep
<1> QED
  BY <1>1, <1>2, EventsInvariant, PTL DEF Spec, KeepsLog, Log!Spec, Facts

-----------------------------------------------------------------------------
(* The ids that the events carry: ResourceId.                              *)

\* What FirstId returns: the rung before which all are empty, or nothing.
LEMMA FirstRung ==
  ASSUME NEW rungs, NEW k \in 1..Len(rungs), rungs[k] # NoId,
         \A j \in 1..(k - 1) : rungs[j] = NoId
  PROVE  FirstId(rungs) = rungs[k]
  <1> DEFINE Found(i) == rungs[i] # NoId /\ \A j \in 1..(i - 1) : rungs[j] = NoId
  <1>1. \A i \in 1..Len(rungs) : Found(i) => i = k
    OBVIOUS
  <1>2. Found(k)
    OBVIOUS
  <1> QED
    BY <1>1, <1>2 DEF FirstId

LEMMA NoRung ==
  ASSUME NEW rungs, \A i \in 1..Len(rungs) : rungs[i] = NoId
  PROVE  FirstId(rungs) = NoId
  BY DEF FirstId

LEMMA SixRungs ==
  ASSUME NEW a, NEW b, NEW c, NEW d, NEW e, NEW f
  PROVE  FirstId(<<a, b, c, d, e, f>>) =
            IF a # NoId THEN a ELSE IF b # NoId THEN b ELSE IF c # NoId THEN c
            ELSE IF d # NoId THEN d ELSE IF e # NoId THEN e ELSE f
  <1> DEFINE s == <<a, b, c, d, e, f>>
             r == IF a # NoId THEN a ELSE IF b # NoId THEN b ELSE IF c # NoId THEN c
                  ELSE IF d # NoId THEN d ELSE IF e # NoId THEN e ELSE f
  <1>0. Len(s) = 6 /\ s[1] = a /\ s[2] = b /\ s[3] = c /\ s[4] = d /\ s[5] = e /\ s[6] = f
    OBVIOUS
  <1> SUFFICES FirstId(s) = r
    OBVIOUS
  <1> HIDE DEF s
  <1>1. CASE a # NoId
    BY <1>0, <1>1, FirstRung
  <1>2. CASE a = NoId /\ b # NoId
    BY <1>0, <1>2, FirstRung
  <1>3. CASE a = NoId /\ b = NoId /\ c # NoId
    <2>1. 3 \in 1..Len(s) /\ s[3] # NoId /\ \A j \in 1..(3 - 1) : s[j] = NoId
      BY <1>0, <1>3
    <2>2. FirstId(s) = s[3]
      BY ONLY <2>1, FirstRung
    <2> QED
      BY <1>0, <1>3, <2>2
  <1>4. CASE a = NoId /\ b = NoId /\ c = NoId /\ d # NoId
    <2>1. 4 \in 1..Len(s) /\ s[4] # NoId /\ \A j \in 1..(4 - 1) : s[j] = NoId
      BY <1>0, <1>4
    <2>2. FirstId(s) = s[4]
      BY ONLY <2>1, FirstRung
    <2> QED
      BY <1>0, <1>4, <2>2
  <1>5. CASE a = NoId /\ b = NoId /\ c = NoId /\ d = NoId /\ e # NoId
    <2>1. 5 \in 1..Len(s) /\ s[5] # NoId /\ \A j \in 1..(5 - 1) : s[j] = NoId
      BY <1>0, <1>5
    <2>2. FirstId(s) = s[5]
      BY ONLY <2>1, FirstRung
    <2> QED
      BY <1>0, <1>5, <2>2
  <1>6. CASE a = NoId /\ b = NoId /\ c = NoId /\ d = NoId /\ e = NoId /\ f # NoId
    <2>1. 6 \in 1..Len(s) /\ s[6] # NoId /\ \A j \in 1..(6 - 1) : s[j] = NoId
      BY <1>0, <1>6
    <2>2. FirstId(s) = s[6]
      BY ONLY <2>1, FirstRung
    <2> QED
      BY <1>0, <1>6, <2>2
  <1>7. CASE a = NoId /\ b = NoId /\ c = NoId /\ d = NoId /\ e = NoId /\ f = NoId
    <2>1. \A i \in 1..Len(s) : s[i] = NoId
      BY <1>0, <1>7
    <2> QED
      BY <1>7, <2>1, NoRung
  <1> QED
    BY <1>1, <1>2, <1>3, <1>4, <1>5, <1>6, <1>7

LEMMA ThreeRungs ==
  ASSUME NEW a, NEW b, NEW c
  PROVE  FirstId(<<a, b, c>>) = IF a # NoId THEN a ELSE IF b # NoId THEN b ELSE c
  <1> DEFINE s == <<a, b, c>>
             r == IF a # NoId THEN a ELSE IF b # NoId THEN b ELSE c
  <1>0. Len(s) = 3 /\ s[1] = a /\ s[2] = b /\ s[3] = c
    OBVIOUS
  <1> SUFFICES FirstId(s) = r
    OBVIOUS
  <1> HIDE DEF s
  <1>1. CASE a # NoId
    BY <1>0, <1>1, FirstRung
  <1>2. CASE a = NoId /\ b # NoId
    BY <1>0, <1>2, FirstRung
  <1>3. CASE a = NoId /\ b = NoId /\ c # NoId
    <2>1. 3 \in 1..Len(s) /\ s[3] # NoId /\ \A j \in 1..(3 - 1) : s[j] = NoId
      BY <1>0, <1>3
    <2>2. FirstId(s) = s[3]
      BY ONLY <2>1, FirstRung
    <2> QED
      BY <1>0, <1>3, <2>2
  <1>4. CASE a = NoId /\ b = NoId /\ c = NoId
    <2>1. \A i \in 1..Len(s) : s[i] = NoId
      BY <1>0, <1>4
    <2> QED
      BY <1>4, <2>1, NoRung
  <1> QED
    BY <1>1, <1>2, <1>3, <1>4

LEMMA FiveRungs ==
  ASSUME NEW a, NEW b, NEW c, NEW d, NEW e
  PROVE  FirstId(<<a, b, c, d, e>>) =
            IF a # NoId THEN a ELSE IF b # NoId THEN b ELSE IF c # NoId THEN c
            ELSE IF d # NoId THEN d ELSE e
  <1> DEFINE s == <<a, b, c, d, e>>
             r == IF a # NoId THEN a ELSE IF b # NoId THEN b ELSE IF c # NoId THEN c
                  ELSE IF d # NoId THEN d ELSE e
  <1>0. Len(s) = 5 /\ s[1] = a /\ s[2] = b /\ s[3] = c /\ s[4] = d /\ s[5] = e
    OBVIOUS
  <1> SUFFICES FirstId(s) = r
    OBVIOUS
  <1> HIDE DEF s
  <1>1. CASE a # NoId
    BY <1>0, <1>1, FirstRung
  <1>2. CASE a = NoId /\ b # NoId
    BY <1>0, <1>2, FirstRung
  <1>3. CASE a = NoId /\ b = NoId /\ c # NoId
    <2>1. 3 \in 1..Len(s) /\ s[3] # NoId /\ \A j \in 1..(3 - 1) : s[j] = NoId
      BY <1>0, <1>3
    <2>2. FirstId(s) = s[3]
      BY ONLY <2>1, FirstRung
    <2> QED
      BY <1>0, <1>3, <2>2
  <1>4. CASE a = NoId /\ b = NoId /\ c = NoId /\ d # NoId
    <2>1. 4 \in 1..Len(s) /\ s[4] # NoId /\ \A j \in 1..(4 - 1) : s[j] = NoId
      BY <1>0, <1>4
    <2>2. FirstId(s) = s[4]
      BY ONLY <2>1, FirstRung
    <2> QED
      BY <1>0, <1>4, <2>2
  <1>5. CASE a = NoId /\ b = NoId /\ c = NoId /\ d = NoId /\ e # NoId
    <2>1. 5 \in 1..Len(s) /\ s[5] # NoId /\ \A j \in 1..(5 - 1) : s[j] = NoId
      BY <1>0, <1>5
    <2>2. FirstId(s) = s[5]
      BY ONLY <2>1, FirstRung
    <2> QED
      BY <1>0, <1>5, <2>2
  <1>6. CASE a = NoId /\ b = NoId /\ c = NoId /\ d = NoId /\ e = NoId
    <2>1. \A i \in 1..Len(s) : s[i] = NoId
      BY <1>0, <1>6
    <2> QED
      BY <1>6, <2>1, NoRung
  <1> QED
    BY <1>1, <1>2, <1>3, <1>4, <1>5, <1>6

\* The events carry what the two ladders give.
IdInv ==
    /\ payload \in [PayloadKeys -> Contents]
    /\ ensured \in {Pending, inferResourceID(structId, payload)}
    /\ destroyed # Pending /\ payload["ref"] \notin {"number", "zero", "text"} =>
        destroyed = inferRefFromInput(payload)

LEMMA IdInvariant == IdSpec => []IdInv
  <1>1. IdInit => IdInv
    BY DEF IdInit, IdInv
  <1>2. IdInv /\ [IdNext]_idVars => IdInv'
    BY DEF IdInv, IdNext, EnsureEmits, DestroyEmits, idVars
  <1> QED
    BY <1>1, <1>2, PTL DEF IdSpec

LEMMA Ladders ==
  ASSUME NEW s, NEW m
  PROVE  /\ inferResourceID(s, m) =
                IF s = "text" THEN <<"struct">>
                ELSE IF m["id"] \in {"text", "number"} THEN <<"id">>
                ELSE IF m["ID"] \in {"text", "number"} THEN <<"ID">>
                ELSE IF m["Id"] \in {"text", "number"} THEN <<"Id">>
                ELSE IF m["scoped"] \in {"text", "number"} THEN <<"scoped">>
                ELSE IF m["owner"] = "text" /\ m["repo"] = "text" THEN <<"owner", "repo">>
                ELSE IF m["full_name"] \in {"text", "number"} THEN <<"full_name">>
                ELSE IF m["named"] \in {"text", "number"} THEN <<"named">> ELSE NoId
         /\ inferRefFromInput(m) =
                IF m["ref"] = "text" THEN <<"ref">>
                ELSE IF m["scoped"] = "text" THEN <<"scoped">>
                ELSE IF m["id"] = "text" THEN <<"id">>
                ELSE IF m["owner"] = "text" /\ m["repo"] = "text" THEN <<"owner", "repo">>
                ELSE IF m["named"] = "text" THEN <<"named">> ELSE NoId
  <1>1. \A k : <<k>> # NoId /\ <<"owner", "repo">> # NoId
    BY DEF NoId
  <1>2. /\ ReflectID(s) # NoId <=> s = "text"
        /\ \A k : Coerced(m, k) # NoId <=> m[k] \in {"text", "number"}
        /\ \A k : StringAt(m, k) # NoId <=> m[k] = "text"
        /\ OwnerAndRepo(m) # NoId <=> m["owner"] = "text" /\ m["repo"] = "text"
    BY <1>1 DEF ReflectID, Coerced, StringAt, OwnerAndRepo
  <1>3. inferResourceID(s, m) =
            IF ReflectID(s) # NoId THEN ReflectID(s)
            ELSE IF CanonicalID(m) # NoId THEN CanonicalID(m)
            ELSE IF Coerced(m, "scoped") # NoId THEN Coerced(m, "scoped")
            ELSE IF OwnerAndRepo(m) # NoId THEN OwnerAndRepo(m)
            ELSE IF Coerced(m, "full_name") # NoId THEN Coerced(m, "full_name")
            ELSE Coerced(m, "named")
    BY SixRungs DEF inferResourceID
  <1>4. inferRefFromInput(m) =
            IF StringAt(m, "ref") # NoId THEN StringAt(m, "ref")
            ELSE IF StringAt(m, "scoped") # NoId THEN StringAt(m, "scoped")
            ELSE IF StringAt(m, "id") # NoId THEN StringAt(m, "id")
            ELSE IF OwnerAndRepo(m) # NoId THEN OwnerAndRepo(m)
            ELSE StringAt(m, "named")
    BY FiveRungs DEF inferRefFromInput
  <1>5. CanonicalID(m) =
            IF Coerced(m, "id") # NoId THEN Coerced(m, "id")
            ELSE IF Coerced(m, "ID") # NoId THEN Coerced(m, "ID") ELSE Coerced(m, "Id")
    BY ThreeRungs DEF CanonicalID
  <1>6. CanonicalID(m) =
            IF m["id"] \in {"text", "number"} THEN <<"id">>
            ELSE IF m["ID"] \in {"text", "number"} THEN <<"ID">>
            ELSE IF m["Id"] \in {"text", "number"} THEN <<"Id">> ELSE NoId
    BY <1>2, <1>5 DEF Coerced
  <1>7. CanonicalID(m) # NoId <=>
            \/ m["id"] \in {"text", "number"} \/ m["ID"] \in {"text", "number"}
            \/ m["Id"] \in {"text", "number"}
    BY <1>1, <1>6
  <1> QED
    BY <1>2, <1>3, <1>4, <1>6, <1>7 DEF ReflectID, Coerced, StringAt, OwnerAndRepo

\* The .ensured event lacks an id only when no field that inferResourceID looks at
\* holds anything, for every payload.
THEOREM EnsureNeverMissed == IdSpec => []NeverMissed
  <1>1. IdInv => NeverMissed
    <2> SUFFICES ASSUME IdInv, ensured = NoId PROVE NeverMissed
      BY DEF NeverMissed
    <2>1. \A k : <<k>> # NoId /\ <<"owner", "repo">> # NoId
      BY DEF NoId
    <2>2. inferResourceID(structId, payload) = NoId
      BY <2>1 DEF IdInv, Pending
    <2>3. /\ structId # "text"
          /\ \A k \in {"id", "ID", "Id", "scoped", "full_name", "named"} : payload[k] \notin {"text", "number"}
          /\ payload["owner"] # "text" \/ payload["repo"] # "text"
      BY <2>1, <2>2, Ladders
    <2>4. \A k \in {"id", "ID", "Id", "scoped", "full_name", "named"} :
            payload[k] \in {"absent", "empty", "text", "number", "zero"}
      BY ContentsAssumption DEF IdInv, PayloadKeys
    <2> QED
      BY <2>3, <2>4 DEF NeverMissed
  <1> QED
    BY <1>1, IdInvariant, PTL

\* A resource that one field that both sides read names, or owner and repo, and
\* none that ensure alone reads, is ensured and destroyed under one id, for every
\* payload: where only one rung of them holds, the ladders
\* of inferResourceID and inferRefFromInput end at the same field.
THEOREM OneFieldOneId == IdSpec => []SameIdWhenOneField
  <1>1. IdInv => SameIdWhenOneField
    <2> SUFFICES ASSUME IdInv, Both, EnsureOnly = {}, Cardinality(Shared) = 1,
                        payload["ref"] \in {"absent", "empty"},
                        \A k \in Shared : payload[k] = "text"
                 PROVE  ensured = destroyed /\ ensured # NoId
      BY DEF SameIdWhenOneField
    <2>1. \A k : <<k>> # NoId /\ <<"owner", "repo">> # NoId
      BY DEF NoId
    <2>2. /\ ensured = inferResourceID(structId, payload)
          /\ destroyed = inferRefFromInput(payload)
      BY DEF IdInv, Both
    <2>2a. /\ structId # "text"
           /\ payload["ID"] = "absent" /\ payload["Id"] = "absent"
           /\ payload["full_name"] = "absent"
      BY DEF EnsureOnly
    <2>3. PICK f : Shared = {f}
      <3>1. Shared \subseteq {"scoped", "id", "named", "owner"}
        BY DEF Shared
      <3>2. IsFiniteSet({"scoped", "id", "named", "owner"})
        <4>1. IsFiniteSet({"scoped"})
          BY FS_Singleton
        <4>2. IsFiniteSet({"scoped"} \cup {"id"})
          BY <4>1, FS_AddElement
        <4>3. IsFiniteSet(({"scoped"} \cup {"id"}) \cup {"named"})
          BY <4>2, FS_AddElement
        <4>4. IsFiniteSet((({"scoped"} \cup {"id"}) \cup {"named"}) \cup {"owner"})
          BY <4>3, FS_AddElement
        <4>5. (({"scoped"} \cup {"id"}) \cup {"named"}) \cup {"owner"} = {"scoped", "id", "named", "owner"}
          OBVIOUS
        <4> QED
          BY <4>4, <4>5
      <3> QED
        BY <3>1, <3>2, FS_Subset, FS_Singleton
    <2>4. /\ f \in {"scoped", "id", "named", "owner"}
          /\ \A k \in {"scoped", "id", "named"} :
                IF k = f THEN payload[k] = "text" ELSE payload[k] = "absent"
          /\ payload["owner"] = "text" /\ payload["repo"] = "text" <=> f = "owner"
      BY <2>1, <2>3 DEF Shared, OwnerAndRepo
    <2>5. CASE f = "scoped"
      BY <2>1, <2>2, <2>2a, <2>4, <2>5, Ladders
    <2>6. CASE f = "id"
      BY <2>1, <2>2, <2>2a, <2>4, <2>6, Ladders
    <2>7. CASE f = "named"
      BY <2>1, <2>2, <2>2a, <2>4, <2>7, Ladders
    <2>8. CASE f = "owner"
      BY <2>1, <2>2, <2>2a, <2>4, <2>8, Ladders
    <2> QED
      BY <2>4, <2>5, <2>6, <2>7, <2>8
  <1> QED
    BY <1>1, IdInvariant, PTL

=============================================================================
