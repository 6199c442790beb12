-------------------------- MODULE ReconcileDispatch --------------------------
(***************************************************************************)
(* How reconcilers are registered on one adapter and how execute requests  *)
(* find them: RegisterReconciler with its options, the dispatch table and  *)
(* its RWMutex, the execute handler that the first registration installs   *)
(* next to the adapter's own Register calls, Run's copy of the handlers,   *)
(* and Dispatch.  Registrations run on any goroutine, requests meanwhile.  *)
(*                                                                         *)
(* A name is a verb and a noun, as in ensure_user, in one of three styles: *)
(* plain, padded with spaces, or with capitals.  ToLower and TrimSpace act *)
(* on the style.                                                           *)
(***************************************************************************)
EXTENDS Integers, Sequences

CONSTANTS
    Calls,      \* calls of RegisterReconciler
    Configs,    \* their arguments, resource names as ToLower and TrimSpace leave them
    Requests,   \* execute requests
    Envelopes,  \* their contents: [operation, capability]
    None,       \* "nobody": an unlocked mutex
    Waiting,    \* a request that has not been looked up
    Unsupported \* a request whose name has no entry

NameType == [verb : STRING, noun : STRING, style : {"plain", "padded", "upper"}]

ASSUME CallsAssumption ==
    /\ None \notin Calls /\ Waiting # Unsupported
    /\ \A a \in Configs : a.legacyNames \in Seq(NameType)

Name(verb, noun) == [verb |-> verb, noun |-> noun, style |-> "plain"]
Blank == Name("", "")

\* strings.TrimSpace, and strings.ToLower after it.
TrimSpace(n) == IF n.style = "padded" THEN [n EXCEPT !.style = "plain"] ELSE n
Normal(n) == [n EXCEPT !.style = "plain"]

VARIABLES
    cfg,       \* the arguments of each call
    env,       \* the envelope of each request
    pc,        \* where each call is
    i,         \* the next of its writes
    tablesMu,  \* the holder of dispatchTablesMu
    created,   \* dispatchTables has the adapter
    mu,        \* the writer that holds adapterDispatch.mu
    entries,   \* adapterDispatch.entries
    before,    \* entries when mu was locked (history)
    warned,    \* missingEmitterWarned of the adapter
    handler,   \* Adapter.handlers["execute"]
    serving,   \* Run's copy of it, "off" before Run
    got        \* what each request found

args == <<cfg, env>>
tableVars == <<tablesMu, created, mu, entries, before>>
vars == <<args, pc, i, tableVars, warned, handler, serving, got>>

Init ==
    /\ cfg \in [Calls -> Configs] /\ env \in [Requests -> Envelopes]
    /\ pc = [c \in Calls |-> "idle"] /\ i = [c \in Calls |-> 1]
    /\ tablesMu = None /\ created = FALSE
    /\ mu = None /\ entries = <<>> /\ before = <<>>
    /\ warned = FALSE
    /\ handler = "none" /\ serving = "off"
    /\ got = [q \in Requests |-> Waiting]

Goto(c, label) == pc' = [pc EXCEPT ![c] = label]

-----------------------------------------------------------------------------
(* RegisterReconciler.                                                     *)

EnsureName(c) == Name("ensure", cfg[c].resource)
ObserveName(c) == Name("observe", cfg[c].resourceType)
DestroyName(c) == Name("destroy", cfg[c].resource)

\* The call: names that are empty once trimmed make it panic.
RegisterReconciler(c) ==
    /\ pc[c] = "idle"
    /\ Goto(c, IF "" \in {cfg[c].resource, cfg[c].resourceType} THEN "panic"
               ELSE IF cfg[c].emitter THEN "table" ELSE "warn")
    /\ UNCHANGED <<args, i, tableVars, warned, handler, serving, got>>

\* warnMissingEmitterOnce
WarnMissingEmitterOnce(c) ==
    /\ pc[c] = "warn"
    /\ warned' = TRUE
    /\ Goto(c, "table")
    /\ UNCHANGED <<args, i, tableVars, handler, serving, got>>

\* Mutant: every registration installs the execute handler.
TableForInstalls(c) ==
    /\ pc[c] = "table" /\ tablesMu = None
    /\ tablesMu' = c /\ created' = TRUE
    /\ Goto(c, "install")
    /\ UNCHANGED <<args, i, mu, entries, before, warned, handler, serving, got>>

\* tableFor: the first call makes the table, and goes on with the lock held ...
TableFor(c) ==
    /\ pc[c] = "table" /\ tablesMu = None
    /\ IF created THEN Goto(c, "lock") /\ UNCHANGED <<tablesMu, created>>
       ELSE Goto(c, "install") /\ tablesMu' = c /\ created' = TRUE
    /\ UNCHANGED <<args, i, mu, entries, before, warned, handler, serving, got>>

\* Mutant: the lock is released only where the table was there before.
InstallKeepsLock(c) ==
    /\ pc[c] = "install"
    /\ handler' = "sdk"
    /\ Goto(c, "lock")
    /\ UNCHANGED <<args, i, tableVars, warned, serving, got>>

\* ... to install the execute handler.
Install(c) ==
    /\ pc[c] = "install"
    /\ handler' = "sdk"
    /\ tablesMu' = None
    /\ Goto(c, "lock")
    /\ UNCHANGED <<args, i, created, mu, entries, before, warned, serving, got>>

\* t.mu.Lock()
Lock(c) ==
    /\ pc[c] = "lock" /\ mu = None
    /\ mu' = c
    /\ before' = entries
    /\ Goto(c, "write")
    /\ UNCHANGED <<args, i, tablesMu, created, entries, warned, handler, serving, got>>

\* Mutant: a prefix is looked for anywhere in the name.
PickAnywhere(c, legacy) ==
    CASE legacy.verb \in {"create", "update", "upsert", "register", "set", "apply",
                          "issue", "unregister"} -> EnsureName(c)
      [] legacy.verb \in {"get", "list", "describe", "lookup", "retrieve"} -> ObserveName(c)
      [] legacy.verb \in {"delete", "remove", "teardown", "revoke", "cancel",
                          "archive"} -> DestroyName(c)
      [] OTHER -> EnsureName(c)

\* The verb of a legacy name says which of the three canonical ones it means.
PickCanonicalForLegacy(c, legacy) ==
    CASE legacy.verb \in {"create", "update", "upsert", "register", "set", "apply",
                          "issue"} -> EnsureName(c)
      [] legacy.verb \in {"get", "list", "describe", "lookup", "retrieve"} -> ObserveName(c)
      [] legacy.verb \in {"delete", "unregister", "remove", "teardown", "revoke",
                          "cancel", "archive"} -> DestroyName(c)
      [] OTHER -> EnsureName(c)

\* What a call writes: its three functions, then the legacy names.
Writes(c) ==
    <<EnsureName(c), ObserveName(c), DestroyName(c)>> \o cfg[c].legacyNames

\* makeEnsureFn, makeObserveFn and makeDestroyFn over the call's reconciler, or
\* for a legacy name what its canonical name means at this moment (warnShim).
EntryFor(c, k) ==
    IF k <= 3 THEN [call |-> c, verb |-> Writes(c)[k].verb, provider |-> cfg[c].provider]
    ELSE entries[PickCanonicalForLegacy(c, Normal(Writes(c)[k]))]

\* One map write under the lock; an empty legacy name is skipped.
Write(c) ==
    /\ pc[c] = "write" /\ i[c] <= Len(Writes(c))
    /\ LET n == Normal(Writes(c)[i[c]]) IN
        entries' = IF n = Blank THEN entries
                   ELSE [m \in DOMAIN entries \cup {n} |->
                            IF m = n THEN EntryFor(c, i[c]) ELSE entries[m]]
    /\ i' = [i EXCEPT ![c] = @ + 1]
    /\ UNCHANGED <<args, pc, tablesMu, created, mu, before, warned, handler, serving, got>>

\* t.mu.Unlock()
Unlock(c) ==
    /\ pc[c] = "write" /\ i[c] > Len(Writes(c))
    /\ mu' = None
    /\ before' = <<>>
    /\ Goto(c, "done")
    /\ UNCHANGED <<args, i, tablesMu, created, entries, warned, handler, serving, got>>

Registration(c) ==
    \/ WarnMissingEmitterOnce(c) \/ TableFor(c) \/ Install(c)
    \/ Lock(c) \/ Write(c) \/ Unlock(c)

-----------------------------------------------------------------------------
(* The adapter, and requests.                                              *)

\* a.Register("execute", custom): the last write wins.
RegisterExecute ==
    /\ handler' = "custom"
    /\ UNCHANGED <<args, pc, i, tableVars, warned, serving, got>>

\* Run serves a copy of the handlers.
Run ==
    /\ serving = "off"
    /\ serving' = handler
    /\ UNCHANGED <<args, pc, i, tableVars, warned, handler, got>>

\* The operation of an envelope, or else its capability.
Op(e) == IF TrimSpace(e.operation) # Blank THEN TrimSpace(e.operation)
         ELSE TrimSpace(e.capability)

\* Mutant: the table is read without its lock.
LookupUnlocked(q) ==
    /\ got[q] = Waiting
    /\ LET op == Op(env[q]) IN
        got' = [got EXCEPT ![q] =
                  IF op \in DOMAIN entries THEN entries[op] ELSE Unsupported]
    /\ UNCHANGED <<args, pc, i, tableVars, warned, handler, serving>>

\* buildExecuteHandler up to the unlock of t.mu.  No entry is the empty name's,
\* so a request that names no operation fails as one for an unknown one does.
Lookup(q) ==
    /\ got[q] = Waiting
    /\ mu = None
    /\ LET op == Op(env[q]) IN
        got' = [got EXCEPT ![q] =
                  IF op \in DOMAIN entries THEN entries[op] ELSE Unsupported]
    /\ UNCHANGED <<args, pc, i, tableVars, warned, handler, serving>>

\* The execute handler that Run serves gets a request.
Execute(q) == serving = "sdk" /\ Lookup(q)

\* Dispatch, from a custom handler or a test: without a table it fails.
Dispatch(q) ==
    /\ tablesMu = None
    /\ \/ created /\ Lookup(q)
       \/ /\ ~created /\ got[q] = Waiting
          /\ got' = [got EXCEPT ![q] = Unsupported]
          /\ UNCHANGED <<args, pc, i, tableVars, warned, handler, serving>>

-----------------------------------------------------------------------------
Next ==
    \/ \E c \in Calls : RegisterReconciler(c) \/ Registration(c)
    \/ RegisterExecute \/ Run
    \/ \E q \in Requests : Execute(q) \/ Dispatch(q)

Spec == Init /\ [][Next]_vars

\* A call that was made goes on; nothing makes anybody call or ask.
FairSpec == Spec /\ \A c \in Calls : WF_vars(Registration(c))

-----------------------------------------------------------------------------
(* Properties.                                                             *)

Served(q) == got[q] \notin {Waiting, Unsupported}

\* All names that a registration declares, the empty ones left out.
Names(c) == {Normal(Writes(c)[k]) : k \in DOMAIN Writes(c)} \ {Blank}

\* Type invariant.
TypeOK ==
    /\ cfg \in [Calls -> Configs] /\ env \in [Requests -> Envelopes]
    /\ pc \in [Calls -> {"idle", "panic", "warn", "table", "install", "lock", "write", "done"}]
    /\ i \in [Calls -> Nat \ {0}]
    /\ tablesMu \in Calls \cup {None} /\ mu \in Calls \cup {None}
    /\ created \in BOOLEAN /\ warned \in BOOLEAN
    /\ handler \in {"none", "sdk", "custom"}
    /\ serving \in {"off", "none", "sdk", "custom"}
    /\ DOMAIN got = Requests

\* Registrations are atomic for requests and for each other, although each
\* writes the map name by name: no request finds one name of a registration
\* and misses another, or finds two registrations mixed under one.
Table == INSTANCE DispatchTable WITH
            table <- IF mu = None THEN entries ELSE before,
            owned <- [c \in Calls |-> Names(c)],
            asked <- [q \in Requests |-> Op(env[q])],
            got <- got
AtomicRegistration == Table!Spec

\* What the verb of a name says, by the comments of WithLegacyNames and
\* RegisterReconciler.
Meaning(verb) ==
    CASE verb \in {"ensure", "create", "update", "register", "set", "apply", "issue"} -> "ensure"
      [] verb \in {"observe", "get", "list", "describe", "lookup", "retrieve"} -> "observe"
      [] verb \in {"destroy", "delete", "unregister", "cancel", "archive"} -> "destroy"

\* No request runs another verb than its name says, however registrations of
\* the same names overwrite each other: a delete never creates.
VerbRespected == \A q \in Requests : Served(q) => got[q].verb = Meaning(Op(env[q]).verb)

\* Once a registration has returned, an execute handler of the adapter's own
\* stays: tableFor installs the SDK's once, not per registration.
CustomStays ==
    [][handler = "custom" /\ (\E c \in Calls : pc[c] = "done") => handler' = "custom"]_vars

\* RegisterReconciler returns: its locks nest in one order, and requests hold
\* none while a reconciler runs.
RegistrationReturns == \A c \in Calls : pc[c] = "table" ~> pc[c] = "done"

\* A legacy name means what the canonical name means for which it stands.
AliasFollows ==
    mu = None => \A c \in Calls : pc[c] = "done" =>
        \A k \in 4..Len(Writes(c)) :
            LET n == Normal(Writes(c)[k]) IN
            n # Blank => entries[n] = entries[PickCanonicalForLegacy(c, n)]

\* A name declared with WithLegacyNames is accepted as it was declared.
DeclaredAccepted ==
    [][\A q \in Requests, c \in Calls : \A k \in 4..Len(Writes(c)) :
        pc[c] = "done" /\ Op(env[q]) = TrimSpace(Writes(c)[k]) /\ got[q] = Waiting
            => got'[q] # Unsupported]_vars

\* The events of a registration without WithProvider carry the provider of the
\* adapter's Config.
ProviderDefaults == \A q \in Requests : Served(q) => got[q].provider # ""

=============================================================================
