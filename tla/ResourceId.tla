------------------------------ MODULE ResourceId ------------------------------
(***************************************************************************)
(* How the SDK names a resource in a MutationEvent: inferResourceID reads  *)
(* what Ensure observed, inferRefFromInput the input of Destroy.  The      *)
(* payload maps the keys that the two look at to what is found there; the  *)
(* fields' texts differ, so an id is told by the fields it comes from.     *)
(*                                                                         *)
(* A behaviour is one life of a resource: ensured, then destroyed with the *)
(* identifying fields that Ensure returned, both with an event.            *)
(***************************************************************************)
EXTENDS Integers, Sequences, FiniteSets

CONSTANT Contents  \* what may be under a key

ASSUME ContentsAssumption == Contents \subseteq {"absent", "empty", "text", "number", "zero"}

\* "scoped" stands for <resource>_id and "named" for <resource>.  The keys of a
\* Go map are told apart by case.
PayloadKeys ==
    {"ref", "scoped", "id", "ID", "Id", "owner", "repo", "full_name", "named"}

VARIABLES
    payload,     \* what is under each key
    structId,    \* the string field ID of the observed struct, if it has one
    ensured,     \* resource_id of the .ensured event
    destroyed    \* resource_id of the .destroyed event, or ParseError

idVars == <<payload, structId, ensured, destroyed>>

\* An id is the sequence of the fields it is made of; NoId is "".
NoId == <<>>
Pending == <<"pending">>
ParseError == <<"error">>

\* The first rung of a ladder of ids that is not "".
FirstId(rungs) ==
    LET Found(i) == rungs[i] # NoId /\ \A j \in 1..(i - 1) : rungs[j] = NoId
    IN IF \E i \in 1..Len(rungs) : Found(i)
       THEN rungs[CHOOSE i \in 1..Len(rungs) : Found(i)] ELSE NoId

\* m[k].(string) with v # ""
StringAt(m, k) == IF m[k] = "text" THEN <<k>> ELSE NoId

\* Mutant: numbers are not converted.
CoercedStringOnly(m, k) == StringAt(m, k)

\* coerceToNonEmptyString: strings as they are, numbers other than 0 in digits.
Coerced(m, k) == IF m[k] \in {"text", "number"} THEN <<k>> ELSE NoId

\* owner + "/" + repo
OwnerAndRepo(m) ==
    IF m["owner"] = "text" /\ m["repo"] = "text" THEN <<"owner", "repo">> ELSE NoId

\* reflectID: an ID field that is a string, if there is one.
ReflectID(s) == IF s = "text" THEN <<"struct">> ELSE NoId

\* The loop over the three spellings, of which inferRefFromInput knows the first.
CanonicalID(m) == FirstId(<<Coerced(m, "id"), Coerced(m, "ID"), Coerced(m, "Id")>>)

inferResourceID(s, m) ==
    FirstId(<<ReflectID(s), CanonicalID(m), Coerced(m, "scoped"), OwnerAndRepo(m),
              Coerced(m, "full_name"), Coerced(m, "named")>>)

\* Mutant: the rung for composite names is missing.
inferRefNoComposite(m) ==
    FirstId(<<StringAt(m, "ref"), StringAt(m, "scoped"), StringAt(m, "id"),
              StringAt(m, "named")>>)

inferRefFromInput(m) ==
    FirstId(<<StringAt(m, "ref"), StringAt(m, "scoped"), StringAt(m, "id"),
              OwnerAndRepo(m), StringAt(m, "named")>>)

-----------------------------------------------------------------------------
IdInit ==
    /\ payload \in [PayloadKeys -> Contents]
    /\ structId \in {"absent", "empty", "text"}
    /\ ensured = Pending /\ destroyed = Pending

\* makeEnsureFn: the id of its event.
EnsureEmits ==
    /\ ensured = Pending
    /\ ensured' = inferResourceID(structId, payload)
    /\ UNCHANGED <<payload, structId, destroyed>>

\* makeDestroyFn: the ref of its call and its event.  A ref that is not a string
\* fails the parse; an empty one is searched for.
DestroyEmits ==
    /\ ensured # Pending /\ destroyed = Pending
    /\ destroyed' =
        IF payload["ref"] \in {"number", "zero"} THEN ParseError
        ELSE IF payload["ref"] = "text" THEN <<"ref">>
        ELSE inferRefFromInput(payload)
    /\ UNCHANGED <<payload, structId, ensured>>

IdNext == EnsureEmits \/ DestroyEmits

IdSpec == IdInit /\ [][IdNext]_idVars

-----------------------------------------------------------------------------
(* Properties.                                                             *)

\* Fields that both sides look at; owner and repo count as one.
Shared == {k \in {"scoped", "id", "named"} : payload[k] # "absent"}
          \cup {k \in {"owner"} : OwnerAndRepo(payload) # NoId}

Both == ensured # Pending /\ destroyed # Pending

\* Fields that give an id to ensure alone: the struct's own ID, which need not be
\* marshalled as "id", the other spellings of "id", and full_name.
EnsureOnly ==
    {k \in {"ID", "Id", "full_name"} : payload[k] # "absent"}
    \cup {k \in {"struct"} : structId = "text"}

\* A provider that names a resource by one field that both sides read, in text,
\* or by owner and repo, and by none that ensure alone reads, has it ensured and
\* destroyed under one resource_id.
SameIdWhenOneField ==
    /\ Both /\ EnsureOnly = {} /\ Cardinality(Shared) = 1
    /\ payload["ref"] \in {"absent", "empty"}
    /\ \A k \in Shared : payload[k] = "text"
    => ensured = destroyed /\ ensured # NoId

\* The event of an ensure lacks an id, and is refused by the core, only if no
\* field that could give one holds anything.
NeverMissed ==
    ensured = NoId =>
        /\ structId # "text"
        /\ \A k \in {"id", "ID", "Id", "scoped", "full_name", "named"} :
            payload[k] \in {"absent", "empty", "zero"}
        /\ payload["owner"] # "text" \/ payload["repo"] # "text"

\* The two sides look the fields up in the same order: a payload without a ref
\* names one resource (what ensure alone reads left aside).
MirrorsPrecedence ==
    Both /\ EnsureOnly = {} /\ payload["ref"] = "absent" => ensured = destroyed

=============================================================================
