------------------------ MODULE ReconcileDispatchProofs ------------------------
(***************************************************************************)
(* Proofs about ReconcileDispatch, for any number of registrations with    *)
(* any names, and any requests.                                            *)
(***************************************************************************)
EXTENDS ReconcileDispatch, SequenceTheorems, TLAPS

\* The names that a call has written so far.
Written(c) == {Normal(Writes(c)[k]) : k \in 1..(i[c] - 1)} \ {Blank}

\* The two locks, and how far each call has come.
LockInv ==
    /\ \A c \in Calls : pc[c] = "write" <=> mu = c
    /\ \A c \in Calls : pc[c] = "install" <=> tablesMu = c
    /\ \A c \in Calls : pc[c] \in {"install", "lock", "write", "done"} => created
    /\ \A c, d \in Calls : pc[c] = "install" => pc[d] \notin {"lock", "write", "done"}
    /\ \A c \in Calls : pc[c] \notin {"write", "done"} => i[c] = 1
    /\ \A c \in Calls : i[c] <= Len(Writes(c)) + 1
    /\ ~created => entries = <<>>

\* Under the lock the map is the one from before it, overlaid by the names
\* written so far.
OverlayInv ==
    \A c \in Calls : mu = c =>
        /\ DOMAIN entries = DOMAIN before \cup Written(c)
        /\ \A n \in Written(c) : entries[n].call = c
        /\ \A n \in DOMAIN before \ Written(c) : entries[n] = before[n]

DispatchInv == TypeOK /\ LockInv /\ OverlayInv

-----------------------------------------------------------------------------
\* What a call writes.
LEMMA WritesFacts ==
    ASSUME TypeOK, NEW c \in Calls
    PROVE  /\ Len(Writes(c)) \in Nat /\ Len(Writes(c)) >= 3
           /\ DOMAIN Writes(c) = 1..Len(Writes(c))
           /\ Writes(c)[1] = EnsureName(c)
           /\ Writes(c)[2] = ObserveName(c)
           /\ Writes(c)[3] = DestroyName(c)
           /\ \A k \in 4..Len(Writes(c)) : /\ k - 3 \in DOMAIN cfg[c].legacyNames
                                           /\ Writes(c)[k] = cfg[c].legacyNames[k - 3]
                                           /\ Writes(c)[k] \in NameType
<1> DEFINE three == <<EnsureName(c), ObserveName(c), DestroyName(c)>>
           legacy == cfg[c].legacyNames
           S == NameType \cup {EnsureName(c), ObserveName(c), DestroyName(c)}
<1>1. cfg[c] \in Configs
  BY DEF TypeOK
<1>2. legacy \in Seq(NameType)
  BY <1>1, CallsAssumption
<1>3. three \in Seq(S) /\ Len(three) = 3
  OBVIOUS
<1>4. Writes(c) = three \o legacy
  BY DEF Writes
<1> HIDE DEF legacy
<1>5. legacy \in Seq(S) /\ Len(legacy) \in Nat /\ DOMAIN legacy = 1..Len(legacy)
      /\ \A k \in 1..Len(legacy) : legacy[k] \in NameType
  BY <1>2
<1> HIDE DEF S
<1>6. /\ three \o legacy \in Seq(S)
      /\ Len(three \o legacy) = 3 + Len(legacy)
      /\ \A k \in 1..(3 + Len(legacy)) : (three \o legacy)[k] =
            IF k <= 3 THEN three[k] ELSE legacy[k - 3]
  BY <1>3, <1>5, ConcatProperties
<1>7. Writes(c)[1] = three[1] /\ Writes(c)[2] = three[2] /\ Writes(c)[3] = three[3]
  BY <1>4, <1>5, <1>6
<1>8. /\ Len(Writes(c)) = 3 + Len(legacy)
      /\ DOMAIN Writes(c) = 1..Len(Writes(c))
  BY <1>4, <1>6
<1>9. \A k \in 4..Len(Writes(c)) : k - 3 \in 1..Len(legacy) /\ Writes(c)[k] = legacy[k - 3]
  BY <1>4, <1>5, <1>6, <1>8
<1>10. Len(Writes(c)) \in Nat /\ Len(Writes(c)) >= 3
  BY <1>5, <1>8
<1>11. \A k \in 4..Len(Writes(c)) : /\ k - 3 \in DOMAIN legacy
                                    /\ Writes(c)[k] = legacy[k - 3]
                                    /\ Writes(c)[k] \in NameType
  BY <1>5, <1>9
<1> QED
  BY <1>7, <1>8, <1>10, <1>11 DEF legacy

\* The canonical names are normal and not empty.
LEMMA CanonicalNames ==
    ASSUME NEW c
    PROVE  /\ Normal(EnsureName(c)) = EnsureName(c) /\ EnsureName(c) # Blank
           /\ Normal(ObserveName(c)) = ObserveName(c) /\ ObserveName(c) # Blank
           /\ Normal(DestroyName(c)) = DestroyName(c) /\ DestroyName(c) # Blank
<1>1. \A verb, noun : Normal(Name(verb, noun)) = Name(verb, noun)
  BY DEF Normal, Name
<1>2. \A verb, noun : verb # "" => Name(verb, noun) # Blank
  BY DEF Name, Blank
<1>3. Normal(EnsureName(c)) = EnsureName(c) /\ EnsureName(c) # Blank
  BY <1>1, <1>2 DEF EnsureName
<1>4. Normal(ObserveName(c)) = ObserveName(c) /\ ObserveName(c) # Blank
  BY <1>1, <1>2 DEF ObserveName
<1>5. Normal(DestroyName(c)) = DestroyName(c) /\ DestroyName(c) # Blank
  BY <1>1, <1>2 DEF DestroyName
<1> QED
  BY <1>3, <1>4, <1>5

\* A legacy name means one of the three.
LEMMA PickFacts ==
    ASSUME NEW c, NEW n
    PROVE  PickCanonicalForLegacy(c, n) \in {EnsureName(c), ObserveName(c), DestroyName(c)}
BY DEF PickCanonicalForLegacy

\* Every step is one of these.
LEMMA NextCases ==
    ASSUME Next
    PROVE  \/ \E c \in Calls : RegisterReconciler(c)
           \/ \E c \in Calls : WarnMissingEmitterOnce(c)
           \/ \E c \in Calls : TableFor(c)
           \/ \E c \in Calls : Install(c)
           \/ \E c \in Calls : Lock(c)
           \/ \E c \in Calls : Write(c)
           \/ \E c \in Calls : Unlock(c)
           \/ RegisterExecute \/ Run
           \/ \E q \in Requests : Execute(q) \/ Dispatch(q)
BY DEF Next, Registration

\* Requests change nothing but what they got.
LEMMA RequestEffect ==
    ASSUME NEW q \in Requests, Execute(q) \/ Dispatch(q)
    PROVE  /\ UNCHANGED <<args, pc, i, tableVars, warned, handler, serving>>
           /\ got[q] = Waiting
           /\ \/ /\ mu = None
                 /\ got' = [got EXCEPT ![q] = IF Op(env[q]) \in DOMAIN entries
                                              THEN entries[Op(env[q])] ELSE Unsupported]
              \/ ~created /\ got' = [got EXCEPT ![q] = Unsupported]
BY DEF Execute, Dispatch, Lookup

\* The names that a call has written depend on its arguments and its place.
LEMMA SameWrites ==
    ASSUME UNCHANGED cfg, NEW c
    PROVE  Writes(c)' = Writes(c) /\ Names(c)' = Names(c)
BY DEF Writes, Names, EnsureName, ObserveName, DestroyName

LEMMA InitInv == Init => DispatchInv
<1> SUFFICES ASSUME Init PROVE DispatchInv
  OBVIOUS
<1>1. TypeOK
  <2>1. cfg \in [Calls -> Configs] /\ env \in [Requests -> Envelopes]
    BY DEF Init
  <2>2. /\ pc \in [Calls -> {"idle", "panic", "warn", "table", "install", "lock", "write", "done"}]
        /\ i \in [Calls -> Nat \ {0}]
    BY DEF Init
  <2>3. /\ tablesMu \in Calls \cup {None} /\ mu \in Calls \cup {None}
        /\ created \in BOOLEAN /\ warned \in BOOLEAN
    BY DEF Init
  <2>4. /\ handler \in {"none", "sdk", "custom"}
        /\ serving \in {"off", "none", "sdk", "custom"}
        /\ DOMAIN got = Requests
    BY DEF Init
  <2> QED
    BY <2>1, <2>2, <2>3, <2>4 DEF TypeOK
<1>2. \A c \in Calls : 1 <= Len(Writes(c)) + 1
  <2> TAKE c \in Calls
  <2>1. Len(Writes(c)) \in Nat
    BY <1>1, WritesFacts
  <2> QED
    BY <2>1
<1>3. LockInv
  BY <1>2, CallsAssumption DEF Init, LockInv
<1>4. OverlayInv
  BY CallsAssumption DEF Init, OverlayInv
<1> QED
  BY <1>1, <1>3, <1>4 DEF DispatchInv

LEMMA TypeStep ==
    ASSUME TypeOK, [Next]_vars
    PROVE  TypeOK'
<1>1. CASE UNCHANGED vars
  BY <1>1 DEF TypeOK, vars, args, tableVars
<1>2. CASE \E c \in Calls : RegisterReconciler(c)
  BY <1>2 DEF RegisterReconciler, Goto, TypeOK, args, tableVars
<1>3. CASE \E c \in Calls : WarnMissingEmitterOnce(c)
  BY <1>3 DEF WarnMissingEmitterOnce, Goto, TypeOK, args, tableVars
<1>4. CASE \E c \in Calls : TableFor(c)
  BY <1>4 DEF TableFor, Goto, TypeOK, args
<1>5. CASE \E c \in Calls : Install(c)
  BY <1>5 DEF Install, Goto, TypeOK, args
<1>6. CASE \E c \in Calls : Lock(c)
  BY <1>6 DEF Lock, Goto, TypeOK, args
<1>7. CASE \E c \in Calls : Write(c)
  BY <1>7 DEF Write, TypeOK, args
<1>8. CASE \E c \in Calls : Unlock(c)
  BY <1>8 DEF Unlock, Goto, TypeOK, args
<1>9. CASE RegisterExecute \/ Run
  BY <1>9 DEF RegisterExecute, Run, TypeOK, args, tableVars
<1>10. CASE \E q \in Requests : Execute(q) \/ Dispatch(q)
  BY <1>10, RequestEffect DEF TypeOK, args, tableVars
<1> QED
  BY NextCases, <1>1, <1>2, <1>3, <1>4, <1>5, <1>6, <1>7, <1>8, <1>9, <1>10

\* The arguments of calls and requests never change.
LEMMA ArgsStep ==
    ASSUME [Next]_vars
    PROVE  UNCHANGED <<cfg, env>>
BY NextCases, RequestEffect DEF vars, args, RegisterReconciler, WarnMissingEmitterOnce, TableFor,
   Install, Lock, Write, Unlock, RegisterExecute, Run

LEMMA LockStep ==
    ASSUME DispatchInv, [Next]_vars
    PROVE  LockInv'
<1>0. TypeOK /\ LockInv /\ \A c \in Calls : Writes(c)' = Writes(c) /\ Len(Writes(c)) \in Nat
  BY ArgsStep, SameWrites, WritesFacts DEF DispatchInv
<1>1. CASE UNCHANGED vars
  BY <1>0, <1>1 DEF LockInv, vars, args, tableVars
<1>2. CASE \E c \in Calls : RegisterReconciler(c)
  <2>1. PICK c \in Calls, l \in {"panic", "table", "warn"} :
          pc[c] = "idle" /\ pc' = [pc EXCEPT ![c] = l]
    BY <1>2 DEF RegisterReconciler, Goto
  <2>2. UNCHANGED <<i, tablesMu, created, mu, entries>>
    BY <1>2 DEF RegisterReconciler, tableVars
  <2> QED
    BY <1>0, <2>1, <2>2 DEF LockInv, TypeOK
<1>3. CASE \E c \in Calls : WarnMissingEmitterOnce(c)
  BY <1>0, <1>3 DEF WarnMissingEmitterOnce, Goto, LockInv, TypeOK, args, tableVars
<1>4. CASE \E c \in Calls : TableFor(c)
  <2>1. PICK c \in Calls : TableFor(c)
    BY <1>4
  <2>2. pc[c] = "table" /\ tablesMu = None /\ UNCHANGED <<i, mu, entries>>
    BY <2>1 DEF TableFor
  <2>3. CASE created
    <3>1. pc' = [pc EXCEPT ![c] = "lock"] /\ UNCHANGED <<tablesMu, created>>
      BY <2>1, <2>3 DEF TableFor, Goto
    <3>2. \A d \in Calls : pc[d] # "install"
      BY <1>0, <2>2, CallsAssumption DEF LockInv
    <3> QED
      BY <1>0, <2>2, <2>3, <3>1, <3>2 DEF LockInv, TypeOK
  <2>4. CASE ~created
    <3>1. pc' = [pc EXCEPT ![c] = "install"] /\ tablesMu' = c /\ created' = TRUE
      BY <2>1, <2>4 DEF TableFor, Goto
    <3>2. \A d \in Calls : pc[d] \notin {"install", "lock", "write", "done"}
      BY <1>0, <2>4 DEF LockInv
    <3> QED
      BY <1>0, <2>2, <3>1, <3>2 DEF LockInv, TypeOK
  <2> QED
    BY <2>3, <2>4
<1>5. CASE \E c \in Calls : Install(c)
  BY <1>0, <1>5, CallsAssumption DEF Install, Goto, LockInv, TypeOK, args
<1>6. CASE \E c \in Calls : Lock(c)
  BY <1>0, <1>6, CallsAssumption DEF Lock, Goto, LockInv, TypeOK, args
<1>7. CASE \E c \in Calls : Write(c)
  BY <1>0, <1>7 DEF Write, LockInv, TypeOK, args
<1>8. CASE \E c \in Calls : Unlock(c)
  BY <1>0, <1>8, CallsAssumption DEF Unlock, Goto, LockInv, TypeOK, args
<1>9. CASE RegisterExecute \/ Run
  BY <1>0, <1>9 DEF RegisterExecute, Run, LockInv, args, tableVars
<1>10. CASE \E q \in Requests : Execute(q) \/ Dispatch(q)
  BY <1>0, <1>10, RequestEffect DEF LockInv, args, tableVars
<1> QED
  BY NextCases, <1>1, <1>2, <1>3, <1>4, <1>5, <1>6, <1>7, <1>8, <1>9, <1>10

\* What the k-th write of a call puts into the map is of that call.
LEMMA EntryOfCall ==
    ASSUME DispatchInv, NEW c \in Calls, mu = c, i[c] \in 1..Len(Writes(c))
    PROVE  EntryFor(c, i[c]).call = c
<1>1. CASE i[c] <= 3
  BY <1>1 DEF EntryFor
<1>2. CASE i[c] > 3
  <2>1. 1 \in 1..(i[c] - 1) /\ 2 \in 1..(i[c] - 1) /\ 3 \in 1..(i[c] - 1)
    BY <1>2
  <2>2. EnsureName(c) \in Written(c) /\ ObserveName(c) \in Written(c) /\ DestroyName(c) \in Written(c)
    BY <2>1, WritesFacts, CanonicalNames DEF Written, DispatchInv
  <2>3. \A n \in Written(c) : entries[n].call = c
    BY DEF DispatchInv, OverlayInv
  <2>4. PickCanonicalForLegacy(c, Normal(Writes(c)[i[c]])) \in Written(c)
    BY <2>2, PickFacts
  <2>5. EntryFor(c, i[c]) = entries[PickCanonicalForLegacy(c, Normal(Writes(c)[i[c]]))]
    BY <1>2 DEF EntryFor
  <2> QED
    BY <2>3, <2>4, <2>5
<1> QED
  BY <1>1, <1>2

\* Each write adds its name to the overlay.
LEMMA WriteOverlay ==
    ASSUME DispatchInv, NEW c \in Calls, Write(c)
    PROVE  OverlayInv'
<1> DEFINE n == Normal(Writes(c)[i[c]])
<1>1. TypeOK /\ LockInv /\ OverlayInv
  BY DEF DispatchInv
<1>2. mu = c /\ mu' = mu /\ before' = before
  BY <1>1 DEF Write, LockInv
<1>3. i[c] \in Nat \ {0} /\ i[c] <= Len(Writes(c)) /\ Len(Writes(c)) \in Nat
  BY <1>1, WritesFacts DEF Write, TypeOK
<1>4. i'[c] = i[c] + 1 /\ Writes(c)' = Writes(c)
  BY <1>1, SameWrites DEF Write, TypeOK, args
<1>5. Written(c)' = Written(c) \cup ({n} \ {Blank})
  <2>1. 1..(i'[c] - 1) = 1..(i[c] - 1) \cup {i[c]}
    BY <1>3, <1>4
  <2>2. Written(c)' = {Normal(Writes(c)[k]) : k \in 1..(i'[c] - 1)} \ {Blank}
    BY <1>4 DEF Written
  <2> QED
    BY <2>1, <2>2 DEF Written
<1>6. EntryFor(c, i[c]).call = c
  BY <1>2, <1>3, EntryOfCall
<1>7. /\ DOMAIN entries = DOMAIN before \cup Written(c)
      /\ \A m \in Written(c) : entries[m].call = c
      /\ \A m \in DOMAIN before \ Written(c) : entries[m] = before[m]
  BY <1>1, <1>2 DEF OverlayInv
<1>8. /\ DOMAIN entries' = DOMAIN before \cup Written(c)'
      /\ \A m \in Written(c)' : entries'[m].call = c
      /\ \A m \in DOMAIN before \ Written(c)' : entries'[m] = before[m]
  <2>1. CASE n = Blank
    <3>1. entries' = entries
      BY <2>1 DEF Write
    <3> QED
      BY <1>5, <1>7, <2>1, <3>1
  <2>2. CASE n # Blank
    <3>1. entries' = [m \in DOMAIN entries \cup {n} |->
                        IF m = n THEN EntryFor(c, i[c]) ELSE entries[m]]
      BY <2>2 DEF Write
    <3> HIDE DEF n
    <3> QED
      BY <1>5, <1>6, <1>7, <2>2, <3>1
  <2> QED
    BY <2>1, <2>2
<1> QED
  BY <1>2, <1>8 DEF OverlayInv

LEMMA OverlayStep ==
    ASSUME DispatchInv, [Next]_vars
    PROVE  OverlayInv'
<1>0. TypeOK /\ LockInv /\ OverlayInv
  BY DEF DispatchInv
<1>1. ASSUME UNCHANGED <<cfg, i, mu, entries, before>> PROVE OverlayInv'
  <2>1. \A c \in Calls : Written(c)' = Written(c)
    BY <1>1, SameWrites DEF Written
  <2> QED
    BY <1>0, <1>1, <2>1 DEF OverlayInv
<1>2. CASE \E c \in Calls : Lock(c)
  <2>1. PICK c \in Calls : Lock(c)
    BY <1>2
  <2>2. i[c] = 1 /\ i' = i /\ mu' = c /\ before' = entries /\ entries' = entries
    BY <1>0, <2>1 DEF Lock, LockInv
  <2>3. Written(c)' = {}
    BY <2>2 DEF Written
  <2> QED
    BY <2>2, <2>3 DEF OverlayInv
<1>3. CASE \E c \in Calls : Write(c)
  BY <1>3, WriteOverlay
<1>4. CASE \E c \in Calls : Unlock(c)
  BY <1>4, CallsAssumption DEF Unlock, OverlayInv
<1>5. CASE UNCHANGED vars
  BY <1>1, <1>5 DEF vars, args, tableVars
<1>6. CASE \E c \in Calls : RegisterReconciler(c) \/ WarnMissingEmitterOnce(c)
  BY <1>1, <1>6 DEF RegisterReconciler, WarnMissingEmitterOnce, args, tableVars
<1>7. CASE \E c \in Calls : TableFor(c) \/ Install(c)
  BY <1>1, <1>7 DEF TableFor, Install, args
<1>8. CASE RegisterExecute \/ Run
  BY <1>1, <1>8 DEF RegisterExecute, Run, args, tableVars
<1>9. CASE \E q \in Requests : Execute(q) \/ Dispatch(q)
  BY <1>1, <1>9, RequestEffect DEF args, tableVars
<1> QED
  BY NextCases, <1>2, <1>3, <1>4, <1>5, <1>6, <1>7, <1>8, <1>9

\* DispatchInv is an invariant of registrations and requests.
THEOREM DispatchInvariant == Spec => []DispatchInv
<1>1. DispatchInv /\ [Next]_vars => DispatchInv'
  BY TypeStep, LockStep, OverlayStep DEF DispatchInv
<1> QED
  BY InitInv, <1>1, PTL DEF Spec

-----------------------------------------------------------------------------
(* Registrations implement DispatchTable.                                  *)

TableNow == IF mu = None THEN entries ELSE before
Owned == [c \in Calls |-> Names(c)]
Asked == [q \in Requests |-> Op(env[q])]

\* At Unlock every name of the registration appears at once.
LEMMA UnlockPublishes ==
    ASSUME DispatchInv, NEW c \in Calls, Unlock(c)
    PROVE  Table!Publish(c)
<1>1. TypeOK /\ LockInv /\ OverlayInv
  BY DEF DispatchInv
<1>2. mu = c /\ mu # None /\ mu' = None /\ entries' = entries /\ UNCHANGED <<cfg, env, got>>
  BY <1>1, CallsAssumption DEF Unlock, LockInv, args
<1>3. TableNow = before /\ TableNow' = entries
  BY <1>2 DEF TableNow
<1>4. i[c] = Len(Writes(c)) + 1 /\ Len(Writes(c)) \in Nat /\ DOMAIN Writes(c) = 1..Len(Writes(c))
  BY <1>1, WritesFacts DEF Unlock, LockInv, TypeOK
<1>5. Written(c) = Names(c)
  <2>1. i[c] - 1 = Len(Writes(c))
    BY <1>4
  <2> QED
    BY <1>4, <2>1 DEF Written, Names
<1>6. /\ DOMAIN entries = DOMAIN before \cup Names(c)
      /\ \A n \in Names(c) : entries[n].call = c
      /\ \A n \in DOMAIN before \ Names(c) : entries[n] = before[n]
  BY <1>1, <1>2, <1>5 DEF OverlayInv
<1>7. Owned' = Owned /\ Asked' = Asked /\ Owned[c] = Names(c)
  BY <1>2, SameWrites DEF Owned, Asked
<1>8. /\ DOMAIN TableNow' = DOMAIN TableNow \cup Owned[c]
      /\ \A n \in Owned[c] : TableNow'[n].call = c
      /\ \A n \in DOMAIN TableNow \ Owned[c] : TableNow'[n] = TableNow[n]
      /\ UNCHANGED <<Owned, Asked, got>>
  BY <1>2, <1>3, <1>6, <1>7
<1> QED
  BY <1>8 DEF Table!Publish, TableNow, Owned, Asked

\* A request is served from the table as it is at one moment.
LEMMA RequestServes ==
    ASSUME DispatchInv, NEW q \in Requests, Execute(q) \/ Dispatch(q)
    PROVE  Table!Serve(q)
<1>1. TypeOK /\ LockInv
  BY DEF DispatchInv
<1>2. UNCHANGED <<cfg, env, mu, entries, before>> /\ got[q] = Waiting
  BY RequestEffect DEF args, tableVars
<1>3. Owned' = Owned /\ Asked' = Asked /\ TableNow' = TableNow /\ Asked[q] = Op(env[q])
  BY SMTT(30), <1>2, SameWrites DEF Owned, Asked, TableNow
<1>4. got' = [got EXCEPT ![q] = IF Asked[q] \in DOMAIN TableNow
                                THEN TableNow[Asked[q]] ELSE Unsupported]
  <2>1. CASE mu = None /\ got' = [got EXCEPT ![q] = IF Op(env[q]) \in DOMAIN entries
                                              THEN entries[Op(env[q])] ELSE Unsupported]
    BY <1>3, <2>1 DEF TableNow
  <2>2. CASE ~created /\ got' = [got EXCEPT ![q] = Unsupported]
    <3>1. entries = <<>> /\ mu = None
      BY <1>1, <2>2 DEF LockInv, TypeOK
    <3>2. Asked[q] \notin DOMAIN TableNow
      BY <3>1 DEF TableNow
    <3> QED
      BY <2>2, <3>2
  <2> QED
    BY <2>1, <2>2, RequestEffect
<1> QED
  BY <1>2, <1>3, <1>4 DEF Table!Serve, TableNow, Owned, Asked

\* Every step maps to one of DispatchTable, or to none.
LEMMA TableStep ==
    ASSUME DispatchInv, [Next]_vars
    PROVE  [Table!Next]_<<TableNow, Owned, Asked, got>>
<1>0. TypeOK /\ LockInv /\ Owned' = Owned /\ Asked' = Asked
  BY ArgsStep, SameWrites DEF DispatchInv, Owned, Asked
<1>1. CASE UNCHANGED vars
  BY <1>0, <1>1 DEF vars, tableVars, TableNow
<1>2. CASE \E c \in Calls : RegisterReconciler(c) \/ WarnMissingEmitterOnce(c)
  BY <1>0, <1>2 DEF RegisterReconciler, WarnMissingEmitterOnce, tableVars, TableNow
<1>3. CASE \E c \in Calls : TableFor(c) \/ Install(c)
  BY <1>0, <1>3 DEF TableFor, Install, TableNow
<1>4. CASE \E c \in Calls : Lock(c)
  BY <1>0, <1>4, CallsAssumption DEF Lock, TableNow
<1>5. CASE \E c \in Calls : Write(c)
  BY <1>0, <1>5, CallsAssumption DEF Write, TableNow, LockInv
<1>6. CASE \E c \in Calls : Unlock(c)
  BY <1>6, UnlockPublishes DEF Table!Next, TableNow, Owned, Asked
<1>7. CASE RegisterExecute \/ Run
  BY <1>0, <1>7 DEF RegisterExecute, Run, tableVars, TableNow
<1>8. CASE \E q \in Requests : Execute(q) \/ Dispatch(q)
  BY <1>8, RequestServes DEF Table!Next, TableNow, Owned, Asked
<1> QED
  BY NextCases, <1>1, <1>2, <1>3, <1>4, <1>5, <1>6, <1>7, <1>8

\* A registration takes effect at one moment, for any number of registrations
\* with any names and any requests meanwhile.
THEOREM Atomicity == Spec => AtomicRegistration
<1>1. Init => Table!Init
  BY DEF Init, Table!Init
<1>2. DispatchInv /\ [Next]_vars => [Table!Next]_<<TableNow, Owned, Asked, got>>
  BY TableStep
<1> QED
  BY <1>1, <1>2, DispatchInvariant, PTL
  DEF Spec, AtomicRegistration, Table!Spec, TableNow, Owned, Asked

-----------------------------------------------------------------------------
\* After the first registration has returned, no other replaces the adapter's
\* own execute handler.
THEOREM CustomHandlerStays == Spec => CustomStays
<1>1. ASSUME DispatchInv, [Next]_vars
      PROVE  [handler = "custom" /\ (\E c \in Calls : pc[c] = "done") => handler' = "custom"]_vars
  <2> SUFFICES ASSUME handler = "custom", NEW d \in Calls, pc[d] = "done"
               PROVE  handler' = "custom"
    OBVIOUS
  <2>1. \A c \in Calls : pc[c] # "install"
    BY <1>1 DEF DispatchInv, LockInv
  <2>2. ~\E c \in Calls : Install(c)
    BY <2>1 DEF Install
  <2> QED
    BY <1>1, <2>2, NextCases, RequestEffect DEF vars, RegisterReconciler, WarnMissingEmitterOnce,
       TableFor, Lock, Write, Unlock, RegisterExecute, Run
<1> QED
  BY <1>1, DispatchInvariant, PTL DEF Spec, CustomStays

-----------------------------------------------------------------------------
(* Verbs: the hypothesis names the verbs that the SDK's prefixes know.     *)

ListedEnsure == {"ensure", "create", "update", "register", "set", "apply", "issue"}
ListedObserve == {"get", "list", "describe", "lookup", "retrieve"}
ListedDestroy == {"delete", "unregister", "cancel", "archive"}
Listed == ListedEnsure \cup ListedObserve \cup ListedDestroy

\* A legacy name is empty or has one of those verbs.
LegacyListed ==
    \A a \in Configs : \A k \in DOMAIN a.legacyNames :
        Normal(a.legacyNames[k]) = Blank \/ a.legacyNames[k].verb \in Listed

VerbInv ==
    /\ \A n \in DOMAIN entries : entries[n].verb = Meaning(n.verb)
    /\ VerbRespected

\* The prefix of a legacy name picks the canonical name with its meaning.
LEMMA PickMeaning ==
    ASSUME NEW c, NEW n, n.verb \in Listed
    PROVE  Meaning(PickCanonicalForLegacy(c, n).verb) = Meaning(n.verb)
<1>1. /\ EnsureName(c).verb = "ensure" /\ ObserveName(c).verb = "observe"
      /\ DestroyName(c).verb = "destroy"
  BY DEF EnsureName, ObserveName, DestroyName, Name
<1>2. CASE n.verb \in ListedEnsure
  <2>1. PickCanonicalForLegacy(c, n) = EnsureName(c)
    BY <1>2 DEF ListedEnsure, PickCanonicalForLegacy
  <2>2. Meaning("ensure") = "ensure" /\ Meaning(n.verb) = "ensure"
    BY <1>2 DEF ListedEnsure, Meaning
  <2> QED
    BY <1>1, <2>1, <2>2
<1>3. CASE n.verb \in ListedObserve
  <2>1. PickCanonicalForLegacy(c, n) = ObserveName(c)
    BY <1>3 DEF ListedObserve, PickCanonicalForLegacy
  <2>2. Meaning("observe") = "observe" /\ Meaning(n.verb) = "observe"
    BY <1>3 DEF ListedObserve, Meaning
  <2> QED
    BY <1>1, <2>1, <2>2
<1>4. CASE n.verb \in ListedDestroy
  <2>1. PickCanonicalForLegacy(c, n) = DestroyName(c)
    BY <1>4 DEF ListedDestroy, PickCanonicalForLegacy
  <2>2. Meaning("destroy") = "destroy" /\ Meaning(n.verb) = "destroy"
    BY <1>4 DEF ListedDestroy, Meaning
  <2> QED
    BY <1>1, <2>1, <2>2
<1> QED
  BY <1>2, <1>3, <1>4 DEF Listed

\* A write puts a function of the name's own verb into the map.
LEMMA WriteVerb ==
    ASSUME LegacyListed, DispatchInv, VerbInv, NEW c \in Calls, Write(c),
           Normal(Writes(c)[i[c]]) # Blank
    PROVE  EntryFor(c, i[c]).verb = Meaning(Normal(Writes(c)[i[c]]).verb)
<1> DEFINE w == Writes(c)[i[c]]
<1>1. TypeOK /\ LockInv /\ OverlayInv /\ mu = c
  BY DEF DispatchInv, LockInv, Write
<1>2. i[c] \in 1..Len(Writes(c)) /\ Len(Writes(c)) \in Nat
  BY <1>1, WritesFacts DEF Write, TypeOK
<1>3. CASE i[c] <= 3
  <2>1. i[c] \in {1, 2, 3}
    BY <1>2, <1>3
  <2>2. w \in {EnsureName(c), ObserveName(c), DestroyName(c)}
    BY <1>1, <2>1, WritesFacts
  <2>3. Normal(w) = w /\ w.verb \in {"ensure", "observe", "destroy"}
    <3>1. /\ EnsureName(c).verb = "ensure" /\ ObserveName(c).verb = "observe"
          /\ DestroyName(c).verb = "destroy"
      BY DEF EnsureName, ObserveName, DestroyName, Name
    <3> QED
      BY <2>2, <3>1, CanonicalNames
  <2>4. Meaning(w.verb) = w.verb
    BY <2>3 DEF Meaning
  <2>5. EntryFor(c, i[c]).verb = w.verb
    BY <1>3 DEF EntryFor
  <2> QED
    BY <2>3, <2>4, <2>5
<1>4. CASE i[c] > 3
  <2>1. i[c] \in 4..Len(Writes(c))
    BY <1>2, <1>4
  <2>2. /\ w \in NameType
        /\ i[c] - 3 \in DOMAIN cfg[c].legacyNames /\ w = cfg[c].legacyNames[i[c] - 3]
    BY <1>1, <2>1, WritesFacts
  <2>3. w.verb \in Listed
    BY <1>1, <2>2 DEF LegacyListed, TypeOK
  <2>4. Normal(w).verb = w.verb
    BY <2>2 DEF NameType, Normal
  <2>5. Meaning(PickCanonicalForLegacy(c, Normal(w)).verb) = Meaning(Normal(w).verb)
    BY <2>3, <2>4, PickMeaning
  <2>6. 1 \in 1..(i[c] - 1) /\ 2 \in 1..(i[c] - 1) /\ 3 \in 1..(i[c] - 1)
    BY <1>2, <1>4
  <2>7. EnsureName(c) \in Written(c) /\ ObserveName(c) \in Written(c) /\ DestroyName(c) \in Written(c)
    BY SMTT(30), <1>1, <2>6, WritesFacts, CanonicalNames DEF Written
  <2>8. PickCanonicalForLegacy(c, Normal(w)) \in DOMAIN entries
    <3>1. Written(c) \subseteq DOMAIN entries
      BY <1>1 DEF OverlayInv
    <3>2. PickCanonicalForLegacy(c, Normal(w)) \in {EnsureName(c), ObserveName(c), DestroyName(c)}
      BY PickFacts
    <3> QED
      BY SMTT(30), <2>7, <3>1, <3>2
  <2>9. EntryFor(c, i[c]) = entries[PickCanonicalForLegacy(c, Normal(w))]
    BY <1>2, <1>4 DEF EntryFor
  <2> QED
    BY <2>5, <2>8, <2>9 DEF VerbInv
<1> QED
  BY <1>2, <1>3, <1>4

LEMMA VerbStep ==
    ASSUME LegacyListed, DispatchInv, VerbInv, [Next]_vars
    PROVE  VerbInv'
<1>1. CASE \E c \in Calls : Write(c)
  <2>1. PICK c \in Calls : Write(c)
    BY <1>1
  <2> DEFINE n == Normal(Writes(c)[i[c]])
  <2>2. UNCHANGED <<env, got>>
    BY <2>1 DEF Write, args
  <2>3. VerbRespected'
    BY <2>2 DEF VerbInv, VerbRespected, Served
  <2>4. CASE n = Blank
    <3>1. entries' = entries
      BY <2>1, <2>4 DEF Write
    <3> QED
      BY <2>3, <3>1 DEF VerbInv
  <2>5. CASE n # Blank
    <3>1. entries' = [m \in DOMAIN entries \cup {n} |->
                        IF m = n THEN EntryFor(c, i[c]) ELSE entries[m]]
      BY <2>1, <2>5 DEF Write
    <3>2. EntryFor(c, i[c]).verb = Meaning(n.verb)
      BY <2>1, <2>5, WriteVerb
    <3> HIDE DEF n
    <3>3. \A m \in DOMAIN entries' : entries'[m].verb = Meaning(m.verb)
      BY <3>1, <3>2 DEF VerbInv
    <3> QED
      BY <2>3, <3>3 DEF VerbInv
  <2> QED
    BY <2>4, <2>5
<1>2. CASE \E q \in Requests : Execute(q) \/ Dispatch(q)
  <2>1. PICK q \in Requests : Execute(q) \/ Dispatch(q)
    BY <1>2
  <2>2. entries' = entries /\ env' = env /\ DOMAIN got = Requests
    BY <2>1, RequestEffect DEF args, tableVars, DispatchInv, TypeOK
  <2>3. got'[q] = Unsupported \/ (Op(env[q]) \in DOMAIN entries /\ got'[q] = entries[Op(env[q])])
    BY <2>1, <2>2, RequestEffect
  <2>4. \A p \in Requests : p # q => got'[p] = got[p]
    BY <2>1, <2>2, RequestEffect
  <2>5. VerbRespected'
    BY <2>2, <2>3, <2>4 DEF VerbInv, VerbRespected, Served
  <2> QED
    BY <2>2, <2>5 DEF VerbInv
<1>3. CASE ~(\E c \in Calls : Write(c)) /\ ~\E q \in Requests : Execute(q) \/ Dispatch(q)
  <2>1. UNCHANGED <<entries, env, got>>
    BY <1>3, NextCases DEF vars, args, tableVars, RegisterReconciler, WarnMissingEmitterOnce,
       TableFor, Install, Lock, Unlock, RegisterExecute, Run
  <2> QED
    BY SMTT(30), <2>1 DEF VerbInv, VerbRespected, Served
<1> QED
  BY <1>1, <1>2, <1>3

\* If legacy names begin with verbs that the prefixes know, no request runs
\* another verb than its name says, however registrations overwrite each other.
THEOREM VerbsRespected == LegacyListed => (Spec => []VerbRespected)
<1> SUFFICES ASSUME LegacyListed PROVE Spec => []VerbRespected
  OBVIOUS
<1>1. Init => VerbInv
  BY DEF Init, VerbInv, VerbRespected, Served
<1>2. DispatchInv /\ VerbInv /\ [Next]_vars => VerbInv'
  BY VerbStep
<1>3. VerbInv => VerbRespected
  BY DEF VerbInv
<1> QED
  BY <1>1, <1>2, <1>3, DispatchInvariant, PTL DEF Spec

-----------------------------------------------------------------------------
\* The names of a registration that has returned are in the table for good:
\* no other registration takes a name away, and none is halfway in.
DoneInv == \A c \in Calls : pc[c] = "done" => Names(c) \subseteq DOMAIN entries

\* The request finds the entry of the name it asks for.
Finds(q) == Op(env[q]) \in DOMAIN entries /\ got'[q] = entries[Op(env[q])]

\* A request for a name of a registration that has returned finds an entry,
\* whatever registers meanwhile, whichever handler serves it.
RegisteredServed ==
    [][\A c \in Calls, q \in Requests :
         pc[c] = "done" /\ Op(env[q]) \in Names(c) /\ got[q] = Waiting
            => got'[q] = Waiting \/ Finds(q)]_vars

\* No step takes a name out of the table.
LEMMA EntriesGrow ==
    ASSUME DispatchInv, [Next]_vars
    PROVE  DOMAIN entries \subseteq DOMAIN entries'
<1>1. CASE \E c \in Calls : Write(c)
  BY <1>1 DEF Write
<1>2. CASE UNCHANGED entries
  BY <1>2
<1>3. ASSUME ~\E c \in Calls : Write(c)
      PROVE  UNCHANGED entries
  BY <1>3, NextCases, RequestEffect DEF vars, tableVars, RegisterReconciler,
     WarnMissingEmitterOnce, TableFor, Install, Lock, Unlock, RegisterExecute, Run
<1> QED
  BY <1>1, <1>2, <1>3

\* A call that has come to its unlock has written all its names.
LEMMA NamesWritten ==
    ASSUME DispatchInv, NEW c \in Calls, pc[c] = "write", i[c] > Len(Writes(c))
    PROVE  Names(c) \subseteq DOMAIN entries
<1>1. Len(Writes(c)) \in Nat /\ i[c] \in Nat /\ i[c] - 1 = Len(Writes(c))
  BY WritesFacts DEF DispatchInv, LockInv, TypeOK
<1>3. DOMAIN Writes(c) = 1..(i[c] - 1)
  BY <1>1, WritesFacts DEF DispatchInv
<1>4. Names(c) = Written(c)
  BY <1>3 DEF Names, Written
<1>5. mu = c
  BY DEF DispatchInv, LockInv
<1>6. DOMAIN entries = DOMAIN before \cup Written(c)
  BY <1>5 DEF DispatchInv, OverlayInv
<1> QED
  BY <1>4, <1>6

LEMMA DoneStep ==
    ASSUME DispatchInv, DoneInv, [Next]_vars
    PROVE  DoneInv'
<1>1. \A c \in Calls : Names(c)' = Names(c)
  BY ArgsStep, SameWrites
<1>2. DOMAIN entries \subseteq DOMAIN entries'
  BY EntriesGrow
<1>3. ASSUME NEW c \in Calls, pc'[c] = "done", pc[c] # "done"
      PROVE  Unlock(c)
  <2>1. TypeOK
    BY DEF DispatchInv
  <2>2. ~UNCHANGED pc
    BY <1>3
  <2> QED
    BY <1>3, <2>1, <2>2, NextCases, RequestEffect DEF vars, TypeOK, Goto, RegisterReconciler,
       WarnMissingEmitterOnce, TableFor, Install, Lock, Write, Unlock, RegisterExecute, Run
<1>4. ASSUME NEW c \in Calls, pc'[c] = "done"
      PROVE  Names(c) \subseteq DOMAIN entries
  <2>1. CASE pc[c] = "done"
    BY <2>1 DEF DoneInv
  <2>2. CASE pc[c] # "done"
    <3>1. pc[c] = "write" /\ i[c] > Len(Writes(c))
      BY <1>3, <1>4, <2>2 DEF Unlock
    <3> QED
      BY <3>1, NamesWritten
  <2> QED
    BY <2>1, <2>2
<1> QED
  BY <1>1, <1>2, <1>4 DEF DoneInv

\* A registration that has returned is served, for any calls and requests.
THEOREM ReturnedIsServed == Spec => RegisteredServed
<1>1. Init => DoneInv
  BY DEF Init, DoneInv
<1>2. ASSUME DispatchInv, DoneInv, [Next]_vars
      PROVE  [\A c \in Calls, q \in Requests :
                pc[c] = "done" /\ Op(env[q]) \in Names(c) /\ got[q] = Waiting
                   => got'[q] = Waiting \/ Finds(q)]_vars
  <2> SUFFICES ASSUME Next, NEW c \in Calls, NEW q \in Requests, pc[c] = "done",
                      Op(env[q]) \in Names(c), got[q] = Waiting
               PROVE  got'[q] = Waiting \/ Finds(q)
    BY <1>2
  <2>1. created /\ Op(env[q]) \in DOMAIN entries
    BY <1>2 DEF DispatchInv, LockInv, DoneInv
  <2>2. TypeOK
    BY <1>2 DEF DispatchInv
  <2>3. CASE \E r \in Requests : Execute(r) \/ Dispatch(r)
    <3>1. PICK r \in Requests : Execute(r) \/ Dispatch(r)
      BY <2>3
    <3>2. got' = [got EXCEPT ![r] = IF Op(env[r]) \in DOMAIN entries
                                    THEN entries[Op(env[r])] ELSE Unsupported]
      BY <2>1, <3>1, RequestEffect
    <3>3. CASE r # q
      <4>1. got'[q] = got[q]
        BY <2>2, <3>2, <3>3 DEF TypeOK
      <4> QED
        BY <4>1
    <3>4. CASE r = q
      BY <2>1, <2>2, <3>2, <3>4 DEF TypeOK, Finds
    <3> QED
      BY <3>3, <3>4
  <2>4. CASE ~\E r \in Requests : Execute(r) \/ Dispatch(r)
    <3>1. got' = got
      BY <2>4, NextCases DEF RegisterReconciler, WarnMissingEmitterOnce, TableFor, Install, Lock,
         Write, Unlock, RegisterExecute, Run
    <3> QED
      BY <3>1
  <2> QED
    BY <2>3, <2>4
<1> QED
  BY <1>1, <1>2, DoneStep, DispatchInvariant, PTL DEF Spec, RegisteredServed

=============================================================================
