----------------------------- MODULE MCOperators -----------------------------
(***************************************************************************)
(* The SDK's pure functions with the few steps around them: resource ids,  *)
(* framing, surfaces and signatures.  They share no state; a behaviour is  *)
(* one of one part, and the others stay as they are.                       *)
(***************************************************************************)
EXTENDS ResourceId, Framing, Surface, Signatures, TLC

VARIABLE part

mcVars == <<part, idVars, framingVars, surfaceVars, signatureVars>>

\* Manifests: a good one, and others that differ from it in one place.
MCPage(id) == [id |-> id, rooted |-> TRUE, title |-> "Title", kind |-> "table",
               component |-> "", fields |-> <<>>]
MCField == [field |-> "f", label |-> "F", kind |-> "string", options |-> 0]
MCFields == {MCField, [MCField EXCEPT !.field = " "], [MCField EXCEPT !.label = ""],
             [MCField EXCEPT !.kind = "color"], [MCField EXCEPT !.kind = "select"],
             [MCField EXCEPT !.kind = "select", !.options = 2]}
MCPages ==
    {<<>>} \cup
    {<<p>> : p \in {MCPage("a"), [MCPage("a") EXCEPT !.rooted = FALSE],
                    [MCPage("a") EXCEPT !.title = " "], [MCPage("a") EXCEPT !.kind = "chart"],
                    [MCPage("a") EXCEPT !.kind = "custom"],
                    [MCPage("a") EXCEPT !.kind = "custom", !.component = "C"],
                    [MCPage("a") EXCEPT !.kind = "form"]}} \cup
    {<<[MCPage("a") EXCEPT !.kind = "form", !.fields = <<MCField, f>>]>> : f \in MCFields} \cup
    {<<MCPage(i), MCPage(j), MCPage(k)>> : i, j, k \in {"", " ", "a", " a"}}
MCWidget(id, target, kind) ==
    [id |-> id, target |-> target, kind |-> kind, component |-> ""]
MCWidgets ==
    {<<>>} \cup
    {<<MCWidget("w", "t", "table"), MCWidget(i, t, k)>> :
        i \in {"", "w", " w"}, t \in {"", "t"}, k \in {"table", "custom", "chart"}}
MCPermissions == {<<>>} \cup {<<[id |-> "p"], [id |-> i]>> : i \in {"", "p", " p"}}

MCLists == [pages |-> <<MCPage("a")>>, widgets |-> <<>>, permissions |-> <<>>]
MCFieldsOfDoc == [surface |-> "s", schema |-> 1, version |-> "1.0", display |-> "S"]
MCDocs ==
    [fields : [surface : {" ", "s"}, schema : {-1, 0, 1, 2}, version : {"", "1.0"},
               display : {"", "S"}],
     lists : {MCLists}]
    \cup [fields : {MCFieldsOfDoc},
          lists : {[MCLists EXCEPT !.pages = p] : p \in MCPages}
                  \cup {[MCLists EXCEPT !.widgets = w] : w \in MCWidgets}
                  \cup {[MCLists EXCEPT !.permissions = q] : q \in MCPermissions}]

\* Nothing, bytes, what a client posts, and an Envelope within the Envelope.
MCBodies == {<<>>, <<"payload">>} \cup RawTexts
            \cup {Marshal(Message(<<"payload">>, "h", "c", "t")), Marshal(Nothing)}

\* Payloads with at most MCMaxFields fields: every pair of rungs, and more.
MCMaxFields == 4
MCFewFields ==
    \E S \in {T \in SUBSET PayloadKeys : Cardinality(T) <= MCMaxFields} :
        \E f \in [S -> Contents \ {"absent"}] :
            payload = [k \in PayloadKeys |-> IF k \in S THEN f[k] ELSE "absent"]

MCTimes == {0, 2}
MCStamps == {-8, -1, 0, 1, 2, 4, 7}
MCTolerances == {-1, 0, 1, 3, 7}

-----------------------------------------------------------------------------
\* A part that has no turn.
IdsIdle ==
    /\ payload = [k \in PayloadKeys |-> "absent"] /\ structId = "absent"
    /\ ensured = Pending /\ destroyed = Pending

FramingIdle ==
    /\ link = "amqp" /\ sent = Nothing /\ wire = Nothing
    /\ delivery = FramingPending /\ answer = FramingPending /\ reply = FramingPending

SignatureIdle == header = <<>> /\ now = 0 /\ tolerance = 0 /\ verdict = NoVerdict

MCInit ==
    \/ /\ part = "ids" /\ MCFewFields /\ IdInit
       /\ FramingIdle /\ SurfaceInit /\ SignatureIdle
    \/ part = "framing" /\ IdsIdle /\ FramingInit /\ SurfaceInit /\ SignatureIdle
    \/ part = "surface" /\ IdsIdle /\ FramingIdle /\ SurfaceInit /\ SignatureIdle
    \/ part = "signature" /\ IdsIdle /\ FramingIdle /\ SurfaceInit /\ SignatureInit

MCNext ==
    /\ UNCHANGED part
    /\ \/ part = "ids" /\ IdNext /\ UNCHANGED <<framingVars, surfaceVars, signatureVars>>
       \/ part = "framing" /\ FramingNext /\ UNCHANGED <<idVars, surfaceVars, signatureVars>>
       \/ part = "surface" /\ SurfaceNext /\ UNCHANGED <<idVars, framingVars, signatureVars>>
       \/ part = "signature" /\ VerifySignature /\ UNCHANGED <<idVars, framingVars, surfaceVars>>

MCSpec == MCInit /\ [][MCNext]_mcVars

=============================================================================
