------------------------------- MODULE Surface -------------------------------
(***************************************************************************)
(* An adapter's surface: a Manifest, loaded and validated or put together  *)
(* by the adapter, is handed to RegisterHandlers, which checks nothing,    *)
(* and served by GET /surface/manifest; data and action requests go to the *)
(* adapter's DataHandler.                                                  *)
(*                                                                         *)
(* A Manifest is a Go struct.  Its text fields are copied with it, and its *)
(* slices keep pointing at the same elements: fields holds the former, and *)
(* lists, shared by all copies, the latter.  A text is a string, of which  *)
(* TrimSpace leaves nothing if it is in Blanks.                            *)
(***************************************************************************)
EXTENDS Integers, Sequences

CONSTANTS
    Texts,                 \* what a text field may hold
    Docs,                  \* manifests as YAML: [fields, lists]
    SchemaVersionCurrent,
    ViewKinds,             \* SupportedViewKinds()
    FormFieldKinds,        \* SupportedFormFieldKinds()
    BodySizes,             \* sizes of action bodies
    MaxActionBodyBytes

NoText == ""
Blanks == {NoText, " "}

\* The text fields of a Manifest and its schema version.
Fields == [surface : Texts, schema : Int, version : Texts, display : Texts]

ASSUME SurfaceAssumption ==
    /\ NoText \in Texts /\ \A d \in Docs : d.fields \in Fields
    /\ SchemaVersionCurrent \in Int
    /\ BodySizes \subseteq Nat /\ MaxActionBodyBytes \in Nat

VARIABLES
    manifest,  \* the adapter's Manifest variable: its text fields
    lists,     \* the pages, widgets and permissions that its slices refer to
    origin,    \* history: it is "zero", as it was "loaded", or "other"
    mounted,   \* the handlers' Manifest: its fields and, as history, the lists
               \* and the origin that it had then
    wrote,     \* history: an element of a slice was written after that
    got,       \* the manifest that a console got last
    acted      \* the last action request: [size, seen, status]

surfaceVars == <<manifest, lists, origin, mounted, wrote, got, acted>>

NoFields == [surface |-> NoText, schema |-> 0, version |-> NoText, display |-> NoText]
NoLists == [pages |-> <<>>, widgets |-> <<>>, permissions |-> <<>>]
Mount(f, l, o) == [fields |-> f, lists |-> l, origin |-> o]
NotMounted == Mount(NoFields, NoLists, "none")
NotGot == <<>>
NotActed == [size |-> 0, seen |-> -1, status |-> 0]

-----------------------------------------------------------------------------
(* Validate: the first check that fails ends it.                           *)

FieldOK(f) ==
    /\ f.field \notin Blanks /\ f.label \notin Blanks
    /\ f.kind \in FormFieldKinds
    /\ f.kind = "select" => f.options > 0

\* Mutant: a page's view is not looked up.
PageOKAnyKind(p, ids) ==
    /\ p.id \notin Blanks /\ p.id \notin ids
    /\ p.rooted /\ p.title \notin Blanks
    /\ p.kind = "custom" => p.component \notin Blanks
    /\ p.kind = "form" => p.fields # <<>> /\ \A i \in 1..Len(p.fields) : FieldOK(p.fields[i])

\* One round of the loop over the pages; ids holds the keys of pageIDs.
PageOK(p, ids) ==
    /\ p.id \notin Blanks /\ p.id \notin ids
    /\ p.rooted /\ p.title \notin Blanks
    /\ p.kind \in ViewKinds
    /\ p.kind = "custom" => p.component \notin Blanks
    /\ p.kind = "form" => p.fields # <<>> /\ \A i \in 1..Len(p.fields) : FieldOK(p.fields[i])

WidgetOK(w, ids) ==
    /\ w.id \notin Blanks /\ w.id \notin ids
    /\ w.target \notin Blanks /\ w.kind \in ViewKinds

PermissionOK(p, ids) == p.id \notin Blanks /\ p.id \notin ids

\* Mutant: an id is compared with the one before it only.
IdsBeforeLast(s, i) == {s[j].id : j \in {i - 1} \ {0}}

\* The ids of the rounds before the i-th.
IdsBefore(s, i) == {s[j].id : j \in 1..(i - 1)}

Validate(f, l) ==
    /\ f.surface \notin Blanks
    /\ f.schema > 0 /\ f.schema <= SchemaVersionCurrent
    /\ f.version \notin Blanks /\ f.display \notin Blanks
    /\ l.pages # <<>>
    /\ \A i \in 1..Len(l.pages) : PageOK(l.pages[i], IdsBefore(l.pages, i))
    /\ \A i \in 1..Len(l.widgets) : WidgetOK(l.widgets[i], IdsBefore(l.widgets, i))
    /\ \A i \in 1..Len(l.permissions) :
        PermissionOK(l.permissions[i], IdsBefore(l.permissions, i))

-----------------------------------------------------------------------------
Mounted == mounted.origin # "none"

SurfaceInit ==
    /\ manifest = NoFields /\ lists = NoLists /\ origin = "zero" /\ mounted = NotMounted
    /\ wrote = FALSE /\ got = NotGot /\ acted = NotActed

\* LoadManifestFromBytes: a Manifest, or an error and an empty one.  (One that is
\* made when the handlers are there already is none of theirs.)
LoadManifest ==
    /\ origin = "zero" /\ ~Mounted
    /\ \E d \in Docs :
        /\ Validate(d.fields, d.lists)
        /\ manifest' = d.fields /\ lists' = d.lists
    /\ origin' = "loaded"
    /\ UNCHANGED <<mounted, wrote, got, acted>>

\* The adapter puts a Manifest together, and no one need call Validate.
BuildManifest ==
    /\ origin = "zero" /\ ~Mounted
    /\ \E d \in Docs : manifest' = d.fields /\ lists' = d.lists
    /\ origin' = "other"
    /\ UNCHANGED <<mounted, wrote, got, acted>>

\* RegisterHandlers(mux, m, h): m is a copy, of whatever Manifest it is.  A second
\* call for the mux panics.
RegisterHandlers ==
    /\ ~Mounted
    /\ mounted' = Mount(manifest, lists, origin)
    /\ UNCHANGED <<manifest, lists, origin, wrote, got, acted>>

\* Before or after that the adapter assigns a field of its Manifest ...
AssignField ==
    /\ manifest' = [manifest EXCEPT !.display = NoText]
    /\ origin' = "other"
    /\ UNCHANGED <<lists, mounted, wrote, got, acted>>

\* ... or an element of one of its slices.
AssignElement ==
    /\ lists.pages # <<>>
    /\ lists' = [lists EXCEPT !.pages[1].id = NoText]
    /\ origin' = "other" /\ wrote' = Mounted
    /\ UNCHANGED <<manifest, mounted, got, acted>>

\* Mutant: the handlers hold a pointer to the adapter's Manifest.
GetManifestByPointer ==
    /\ Mounted
    /\ got' = <<manifest, lists>>
    /\ UNCHANGED <<manifest, lists, origin, mounted, wrote, acted>>

\* GET /surface/manifest
GetManifest ==
    /\ Mounted
    /\ got' = <<mounted.fields, lists>>
    /\ UNCHANGED <<manifest, lists, origin, mounted, wrote, acted>>

\* Mutant: the reader stops at the limit, so no body exceeds it.
ReadActionBodyCuts(size) == IF size > MaxActionBodyBytes THEN MaxActionBodyBytes ELSE size

\* What io.ReadAll returns of the body; -1 is the error for too much of it.
ReadActionBody(size) ==
    LET read == IF size > MaxActionBodyBytes + 1 THEN MaxActionBodyBytes + 1 ELSE size
    IN IF read > MaxActionBodyBytes THEN -1 ELSE read

\* POST /surface/action/{actionId}: 400, also for a body that breaks off, or what
\* HandleAction makes of it.
PostAction ==
    /\ Mounted
    /\ \E size \in BodySizes :
        \E body \in {ReadActionBody(size), -1} :
            \E code \in (IF body = -1 THEN {400} ELSE {200, 500}) :
                acted' = [size |-> size, seen |-> body, status |-> code]
    /\ UNCHANGED <<manifest, lists, origin, mounted, wrote, got>>

SurfaceNext ==
    \/ LoadManifest \/ BuildManifest \/ RegisterHandlers
    \/ AssignField \/ AssignElement \/ GetManifest \/ PostAction

SurfaceSpec == SurfaceInit /\ [][SurfaceNext]_surfaceVars

-----------------------------------------------------------------------------
(* Properties.                                                             *)

DistinctIds(s) == \A i, j \in 1..Len(s) : s[i].id = s[j].id => i = j

\* What a console relies on: it can tell pages, widgets and permissions by their
\* ids, and knows every view and form field by its kind (the component of a custom
\* widget, unlike a page's, is not asked for).
Usable(f, l) ==
    /\ f.schema \in 1..SchemaVersionCurrent
    /\ DistinctIds(l.pages) /\ DistinctIds(l.widgets) /\ DistinctIds(l.permissions)
    /\ \A i \in 1..Len(l.widgets) : l.widgets[i].kind \in ViewKinds
    /\ \A i \in 1..Len(l.pages) :
        LET p == l.pages[i] IN
            /\ p.id \notin Blanks /\ p.kind \in ViewKinds
            /\ p.kind = "custom" => p.component \notin Blanks
            /\ p.kind = "form" =>
                /\ p.fields # <<>>
                /\ \A j \in 1..Len(p.fields) :
                    /\ p.fields[j].kind \in FormFieldKinds
                    /\ p.fields[j].kind = "select" => p.fields[j].options > 0
    /\ {f.surface, f.version, f.display} \cap Blanks = {}

\* A Manifest that RegisterHandlers was given as LoadManifest returned it is
\* usable by every console that gets it, whatever the adapter assigns to its own
\* afterwards, as long as it does not write through the slices.  (One that the
\* adapter built or changed before is served as it is: nothing checks it.)
ServedIsUsable ==
    got # NotGot /\ mounted.origin = "loaded" /\ ~wrote => Usable(got[1], got[2])

\* HandleAction is given the whole body that was sent, or is not called and the
\* sender is told: no body is cut at the limit.
ActionBodyWhole ==
    acted # NotActed => \/ acted.seen = acted.size
                        \/ acted.seen = -1 /\ acted.status = 400

\* What the adapter does to its Manifest after RegisterHandlers is not seen.
MutationIgnored == got # NotGot => got = <<mounted.fields, mounted.lists>>

=============================================================================
