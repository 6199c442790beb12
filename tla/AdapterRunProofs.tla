--------------------------- MODULE AdapterRunProofs ---------------------------
(***************************************************************************)
(* Proofs about AdapterRun: for every set of handlers and every retry      *)
(* budget, Run releases what it opened on every path, in the right order.  *)
(* Then, for every body, header and document, about what an adapter sends  *)
(* (Framing) and what it serves to the console (Surface).                  *)
(***************************************************************************)
EXTENDS AdapterRun, Framing, Surface, TLAPS

Inv == TypeOK /\ RunInv

LEMMA InitInv == Init => Inv
  <1> SUFFICES ASSUME Init PROVE Inv
    OBVIOUS
  <1>1. attempt \in 0..MaxAttempts /\ backoff \in 0..MaxBackoff /\ slept \in Nat
    BY RunAssumption DEF Init
  <1>2. cancelled \in BOOLEAN
    BY DEF Init
  <1>3. TypeOK
    BY <1>1, <1>2 DEF Init, TypeOK, Kinds
  <1>4. RunInv
    BY DEF Init, RunInv, ReleasesAll, Returned, Wired
  <1> QED
    BY <1>3, <1>4 DEF Inv

\* The builder calls.
LEMMA BuilderStep ==
  ASSUME Inv,
         \/ Transport \/ ListenHTTP \/ ListenAMQP \/ Cancel
         \/ \E c \in Capabilities : Register(c)
  PROVE  Inv'
  <1> USE DEF Inv, builder, locals, dial
  <1>0. cancelled' \in BOOLEAN
    BY DEF TypeOK, Transport, ListenHTTP, ListenAMQP, Cancel, Register
  <1>1. TypeOK'
    BY <1>0 DEF TypeOK, Transport, ListenHTTP, ListenAMQP, Cancel, Register, Kinds
  <1>2. RunInv'
    BY DEF TypeOK, RunInv, ReleasesAll, Returned, Wired, Transport, ListenHTTP,
       ListenAMQP, Cancel, Register
  <1> QED
    BY <1>1, <1>2

\* From the start of Run to the end of beforeRun.
LEMMA BeforeStep ==
  ASSUME Inv, RunStart \/ ListenWait \/ ListenAndServe \/ Dial \/ Backoff
  PROVE  Inv'
  <1> USE RunAssumption DEF Inv, builder, locals, dial
  <1>1. CASE RunStart
    <2>1. /\ pc = "build" /\ subs = {} /\ conn = "none" /\ srv = "off"
          /\ todo' = handlers /\ before \in {"none", "http", "amqp"}
          /\ UNCHANGED <<builder, tr, ar, subs, backoff, slept, conn, cancelled>>
      BY <1>1 DEF RunStart, RunInv, TypeOK, Kinds
    <2>2. \/ pc' \in {"failed", "wire"} /\ srv' = srv /\ attempt' = attempt
          \/ before = "http" /\ pc' = "listen" /\ srv' = "starting" /\ attempt' = attempt
          \/ before = "amqp" /\ pc' = "dial" /\ attempt' = 1 /\ srv' = srv
      BY <1>1, <2>1 DEF RunStart
    <2>3. attempt' \in 0..MaxAttempts
      BY <2>2 DEF TypeOK
    <2>4. TypeOK'
      BY <2>1, <2>2, <2>3 DEF TypeOK, Kinds
    <2>5. RunInv'
      BY <2>1, <2>2 DEF TypeOK, RunInv, ReleasesAll, Returned, Wired
    <2> QED
      BY <2>4, <2>5
  <1>2. CASE ListenWait
    BY <1>2 DEF TypeOK, RunInv, ReleasesAll, Returned, Wired, ListenWait
  <1>3. CASE ListenAndServe
    BY <1>3 DEF TypeOK, RunInv, ReleasesAll, Returned, Wired, ListenAndServe
  <1>4. CASE Dial
    BY <1>4 DEF TypeOK, RunInv, ReleasesAll, Returned, Wired, Dial, Kinds
  <1>5. CASE Backoff
    <2>1. attempt' \in 0..MaxAttempts /\ backoff' \in 0..MaxBackoff /\ slept' \in Nat
      BY <1>5 DEF TypeOK, RunInv, Backoff
    <2> QED
      BY <1>5, <2>1 DEF TypeOK, RunInv, ReleasesAll, Returned, Wired, Backoff
  <1> QED
    BY <1>1, <1>2, <1>3, <1>4, <1>5

\* From the defer of afterRun to the return.
LEMMA WiredStep ==
  ASSUME Inv, Wire \/ Consume \/ Serve \/ CloseSubs \/ AfterRun
  PROVE  Inv'
  <1> USE DEF Inv, builder, locals, dial
  <1>1. CASE Wire
    BY <1>1 DEF TypeOK, RunInv, ReleasesAll, Returned, Wired, Wire, Kinds
  <1>2. CASE Consume
    BY <1>2 DEF TypeOK, RunInv, ReleasesAll, Returned, Wired, Consume
  <1>3. CASE Serve
    BY <1>3 DEF TypeOK, RunInv, ReleasesAll, Returned, Wired, Serve
  <1>4. CASE CloseSubs
    BY <1>4 DEF TypeOK, RunInv, ReleasesAll, Returned, Wired, CloseSubs
  <1>5. CASE AfterRun
    <2>1. /\ pc \in {"after/failed", "after/done"} /\ pc' \in {"failed", "done"}
          /\ ar = "http" => srv' = "shut"
          /\ ar # "http" => srv' = srv
          /\ ar = "amqp" => conn' = "closed"
          /\ ar # "amqp" => conn' = conn
          /\ UNCHANGED <<builder, locals, attempt, backoff, slept, cancelled>>
      BY <1>5 DEF AfterRun
    <2>2. TypeOK'
      BY <2>1 DEF TypeOK
    <2>3. RunInv'
      <3>1. ar = after /\ subs = {}
        BY <2>1 DEF RunInv, Wired
      <3>2. /\ conn' # "open"
            /\ srv' # "off" => after = "http"
            /\ srv' \notin {"starting", "listening"}
        BY <2>1, <3>1 DEF RunInv
      <3>3. Returned' /\ pc' \notin Wired
        BY <2>1 DEF Returned, Wired
      <3> QED
        BY <2>1, <3>1, <3>2, <3>3 DEF RunInv, ReleasesAll
    <2> QED
      BY <2>2, <2>3
  <1> QED
    BY <1>1, <1>2, <1>3, <1>4, <1>5

LEMMA Invariance == Spec => []Inv
  <1>1. Inv /\ [Next]_vars => Inv'
    <2>1. Inv /\ UNCHANGED vars => Inv'
      BY DEF Inv, vars, builder, locals, dial, TypeOK, RunInv, ReleasesAll, Returned
    <2> QED
      BY <2>1, BuilderStep, BeforeStep, WiredStep DEF Next, RunStep
  <1> QED
    BY InitInv, <1>1, PTL DEF Spec

\* Adapter, Run's locals and the dial loop stay well typed; the attempts never
\* exceed their limit nor the pause its cap.
THEOREM TypeCorrect == Spec => []TypeOK
  BY Invariance, PTL DEF Inv

\* The inductive invariant: what Run has opened, its afterRun closes.
THEOREM RunInvariant == Spec => []RunInv
  BY Invariance, PTL DEF Inv

\* On every path out of Run, subscriptions, connection and server are closed.
THEOREM RunReleasesAll == Spec => []ReleasesAll
  <1>1. Inv => ReleasesAll
    BY DEF Inv, RunInv
  <1> QED
    BY <1>1, Invariance, PTL

\* Over AMQP Run consumes on the open connection it dialled itself.
THEOREM RunUsesOwnConnection == Spec => []ConsumesOnOwnConnection
  <1>1. Inv => ConsumesOnOwnConnection
    BY DEF Inv, TypeOK, RunInv, ConsumesOnOwnConnection, Returned, Wired
  <1> QED
    BY <1>1, Invariance, PTL

\* Subscriptions are closed before the server or the connection goes.
THEOREM SubscriptionsGoFirst == Spec => UnsubscribeFirst
  <1>1. Inv /\ [Next]_vars =>
          [(srv' = "shut" /\ srv # "shut") \/ (conn' = "closed" /\ conn # "closed")
            => subs = {}]_vars
    <2> SUFFICES ASSUME Inv, [Next]_vars,
                        (srv' = "shut" /\ srv # "shut")
                          \/ (conn' = "closed" /\ conn # "closed")
                 PROVE  subs = {}
      OBVIOUS
    <2>1. AfterRun
      <3> USE DEF builder, locals, dial
      <3>1. Next
        BY DEF vars
      <3>2. ~RunStart
        BY DEF RunStart, Inv, TypeOK, Kinds
      <3>3. ~(Transport \/ ListenHTTP \/ ListenAMQP \/ Cancel)
        BY DEF Transport, ListenHTTP, ListenAMQP, Cancel
      <3>4. ~(\E c \in Capabilities : Register(c)) /\ ~ListenAndServe
        BY DEF Register, ListenAndServe
      <3>5. ~(ListenWait \/ Dial \/ Backoff \/ Wire)
        BY DEF ListenWait, Dial, Backoff, Wire
      <3>6. ~(Consume \/ Serve \/ CloseSubs)
        BY DEF Consume, Serve, CloseSubs
      <3> QED
        BY <3>1, <3>2, <3>3, <3>4, <3>5, <3>6 DEF Next, RunStep
    <2> QED
      BY <2>1 DEF AfterRun, Inv, RunInv
  <1> QED
    BY <1>1, Invariance, PTL DEF Spec, UnsubscribeFirst

\* What the builder calls leave behind: beforeRun is the one of the last Listen,
\* and only a dial makes transport differ from the last call's.
LastInv ==
    /\ last = "none" => before = "none"
    /\ last = "http" => before = "http"
    /\ transport # last =>
        \/ last = "custom" /\ transport = "amqp"
        \/ /\ last = "amqp" /\ before = "amqp"
           /\ pc \in {"build", "dial", "backoff", "failed"}

LEMMA LastStep ==
  ASSUME Inv, LastInv, [Next]_vars
  PROVE  LastInv'
  <1> USE DEF LastInv, builder, locals, dial
  <1>1. CASE \/ Transport \/ ListenHTTP \/ ListenAMQP \/ Cancel \/ UNCHANGED vars
             \/ \E c \in Capabilities : Register(c)
    BY <1>1 DEF Transport, ListenHTTP, ListenAMQP, Cancel, Register, vars
  <1>2. CASE RunStart
    BY <1>2 DEF RunStart, Inv, RunInv
  <1>3. CASE ListenWait \/ ListenAndServe \/ Backoff
    BY <1>3 DEF ListenWait, ListenAndServe, Backoff
  <1>4. CASE Dial
    <2>1. before = "amqp" /\ last \in {"amqp", "custom"}
      BY <1>4 DEF Dial, Inv, TypeOK, Kinds, RunInv
    <2> QED
      BY <1>4, <2>1 DEF Dial
  <1>5. CASE Wire \/ Consume \/ Serve \/ CloseSubs \/ AfterRun
    BY <1>5 DEF Wire, Consume, Serve, CloseSubs, AfterRun
  <1> QED
    BY <1>1, <1>2, <1>3, <1>4, <1>5 DEF Next, RunStep

\* The last of Transport, ListenHTTP and ListenAMQP decides what Run serves on,
\* except that a Transport after ListenAMQP loses to the connection dialled.
THEOREM LastCallDecides == Spec => []OnlyTransportLoses
  <1>1. Init => LastInv
    BY DEF Init, LastInv
  <1>2. Inv /\ LastInv /\ [Next]_vars => LastInv'
    BY LastStep
  <1>3. Inv /\ LastInv => OnlyTransportLoses
    BY DEF Inv, RunInv, LastInv, OnlyTransportLoses, Wired
  <1> QED
    BY <1>1, <1>2, <1>3, Invariance, PTL DEF Spec

-----------------------------------------------------------------------------
(* What an adapter and its clients send: Framing.                          *)

\* What is on the wire, and what was made of it, is determined by what was sent.
FramingInv ==
    /\ sent \in IF link = "publisher" THEN Publishings ELSE Requests
    /\ link = "client" => \E b \in {<<>>} \cup RawTexts : sent = [Nothing EXCEPT !.body = b]
    /\ delivery = FramingPending =>
        answer = FramingPending /\ wire \in {Nothing, RequestWire}
    /\ delivery # FramingPending => delivery = DeliveryOf(RequestWire)
    /\ answer = FramingPending => reply = FramingPending
    /\ answer # FramingPending => wire = ReplyWire(answer)
    /\ reply # FramingPending => reply = ReplyOf(ReplyWire(answer))

LEMMA FramingInitInv == FramingInit => FramingInv
  BY DEF FramingInit, FramingInv

LEMMA FramingStep == FramingInv /\ [FramingNext]_framingVars => FramingInv'
  <1> SUFFICES ASSUME FramingInv, [FramingNext]_framingVars PROVE FramingInv'
    OBVIOUS
  <1> USE DEF FramingInv, RequestWire, DeliveryOf, ReplyWire, ReplyOf, Amqp
  <1>1. CASE SendRequest
    BY <1>1 DEF SendRequest
  <1>2. CASE DeliverRequest
    BY <1>2 DEF DeliverRequest
  <1>3. CASE SendReply
    BY <1>3 DEF SendReply
  <1>4. CASE ReceiveReply
    BY <1>4 DEF ReceiveReply
  <1>5. CASE UNCHANGED framingVars
    BY <1>5 DEF framingVars
  <1> QED
    BY <1>1, <1>2, <1>3, <1>4, <1>5 DEF FramingNext

\* An Envelope is read as it was written, but for strings that JSON cannot hold.
LEMMA MarshalDecodes ==
  ASSUME NEW m
  PROVE  /\ Decodes(Marshal(m)) /\ Marshal(m) # <<>>
         /\ Unmarshal(Marshal(m)) = Message(m.body, JsonString(m.headers),
                                            JsonString(m.corr), JsonString(m.ctype))
  BY DEF Marshal, Decodes, Unmarshal

\* A string that is set is not unset by JSON, and is not replaced twice.
LEMMA JsonStringSet ==
  ASSUME NEW t
  PROVE  /\ JsonString(t) = Unset <=> t = Unset
         /\ JsonString(JsonString(t)) = JsonString(t)
         /\ t \notin NotUtf8 => JsonString(t) = t
  <1>1. "replaced" # Unset /\ Unset \notin NotUtf8 /\ "replaced" \notin NotUtf8
    BY FramingAssumption, Zenon DEF Unset
  <1> QED
    BY <1>1 DEF JsonString

LEMMA EnvelopeArrives ==
  ASSUME NEW m, ~Bare(m)
  PROVE  EnvelopeOf(Marshal(m)) =
            Message(m.body, JsonString(m.headers), JsonString(m.corr), JsonString(m.ctype))
  BY MarshalDecodes, JsonStringSet DEF EnvelopeOf, Bare, Message

\* So is a table of strings.
LEMMA HeadersArrive ==
  ASSUME NEW h \in Headers
  PROVE  TableToHeaders(HeadersToTable(h)) = h
  BY FramingAssumption DEF TableToHeaders, HeadersToTable, ForeignTables

\* A text without the Envelope's keys is a body.
LEMMA TextArrives ==
  ASSUME NEW b \in {<<>>} \cup RawTexts, b # <<"raw", "keyed">>
  PROVE  EnvelopeOf(b).body = b
  BY DEF RawTexts, EnvelopeOf, Decodes, Unmarshal, Nothing, Message

\* Framing is transparent: the lemmas above, for the four kinds of link.
LEMMA FramingHolds == FramingInv => FramingTransparent
  <1> SUFFICES ASSUME FramingInv PROVE FramingTransparent
    OBVIOUS
  <1>0. /\ link # "publisher" => sent.headers \in Headers
        /\ link = "publisher" => sent.headers \in ForeignTables
        /\ sent = Message(sent.body, sent.headers, sent.corr, sent.ctype)
    BY DEF FramingInv, Requests, Publishings, Message
  <1>1. ASSUME SdkBothEnds, delivery # FramingPending, ~Bare(sent)
        PROVE  /\ delivery.body = sent.body
               /\ Carries(sent.headers) => delivery.headers = sent.headers
               /\ sent.corr # Unset /\ Carries(sent.corr) => delivery.corr = sent.corr
    <2>0. delivery = DeliveryOf(RequestWire)
      BY <1>1 DEF FramingInv
    <2>1. CASE link = "amqp"
      <3>1. Amqp /\ RequestWire =
                Message(sent.body, HeadersToTable(sent.headers),
                        IF sent.corr = Unset THEN "uuid" ELSE sent.corr,
                        ContentType(sent.ctype))
        BY <2>1 DEF RequestWire, Amqp
      <3> QED
        BY <1>0, <2>0, <2>1, <3>1, HeadersArrive DEF DeliveryOf, Message
    <2>2. CASE link = "http"
      <3>1. ~Amqp /\ RequestWire.body = Marshal(sent)
        BY <2>2 DEF RequestWire, Amqp, Nothing, Message
      <3>2. delivery = Message(sent.body, JsonString(sent.headers),
                               JsonString(sent.corr), JsonString(sent.ctype))
        BY <1>1, <2>0, <3>1, EnvelopeArrives DEF DeliveryOf
      <3> QED
        BY <2>2, <3>2, JsonStringSet DEF Carries, Message
    <2> QED
      BY <1>1, <2>1, <2>2 DEF SdkBothEnds
  <1>2. ASSUME SdkBothEnds, reply # FramingPending
        PROVE  /\ reply.body = answer.body /\ reply.corr = delivery.corr
               /\ Carries(ContentType(answer.ctype)) =>
                    reply.ctype = ContentType(answer.ctype)
    <2> DEFINE env == Message(answer.body, Unset, delivery.corr, ContentType(answer.ctype))
    <2>0. /\ reply = ReplyOf(ReplyWire(answer))
          /\ delivery = DeliveryOf(RequestWire)
      BY <1>2 DEF FramingInv
    <2>1. CASE link = "amqp"
      <3>1. Amqp /\ ReplyWire(answer) = [env EXCEPT !.headers = "nil"]
        BY <2>1 DEF ReplyWire, Amqp
      <3> QED
        BY <2>0, <3>1 DEF ReplyOf, Message
    <2>2. CASE link = "http"
      <3>1. ~Amqp /\ ReplyWire(answer).body = Marshal(env)
        BY <2>2 DEF ReplyWire, Amqp, Nothing, Message
      <3>2. reply = Message(env.body, JsonString(env.headers),
                            JsonString(env.corr), JsonString(env.ctype))
        BY <2>0, <3>1, MarshalDecodes DEF ReplyOf
      <3>3. JsonString(delivery.corr) = delivery.corr
        <4>1. ~Amqp /\ RequestWire.body = Marshal(sent)
          BY <2>2 DEF RequestWire, Amqp, Nothing, Message
        <4>2. delivery = EnvelopeOf(Marshal(sent))
          BY <2>0, <4>1 DEF DeliveryOf
        <4>3. CASE ~Bare(sent)
          BY <4>2, <4>3, EnvelopeArrives, JsonStringSet DEF Message
        <4>4. CASE Bare(sent)
          <5>1. delivery.corr = Unset
            BY <4>2, <4>4, MarshalDecodes, JsonStringSet DEF EnvelopeOf, Bare, Message, Nothing
          <5> QED
            BY <5>1, JsonStringSet
        <4> QED
          BY <4>3, <4>4
      <3> QED
        BY <2>2, <3>2, <3>3, JsonStringSet DEF Carries, Message
    <2> QED
      BY <1>2, <2>1, <2>2 DEF SdkBothEnds
  <1>3. ASSUME link = "client", delivery # FramingPending, sent.body # <<"raw", "keyed">>
        PROVE  delivery.body = sent.body
    <2>1. PICK b \in {<<>>} \cup RawTexts : sent = [Nothing EXCEPT !.body = b]
      BY <1>3 DEF FramingInv
    <2>2. sent.body = b
      BY <2>1 DEF Nothing, Message
    <2>3. ~Amqp /\ RequestWire.body = b
      BY <1>3, <2>2 DEF RequestWire, Amqp, Nothing, Message
    <2> QED
      BY <1>3, <2>2, <2>3, TextArrives DEF FramingInv, DeliveryOf
  <1>4. ASSUME link = "publisher", delivery # FramingPending
        PROVE  /\ delivery.body = sent.body /\ delivery.corr = sent.corr
               /\ delivery.headers # Unset
               /\ sent.headers = "native" => delivery.headers = "json"
    <2>1. Amqp /\ RequestWire = sent
      BY <1>4 DEF RequestWire, Amqp
    <2>2. delivery = [sent EXCEPT !.headers = TableToHeaders(sent.headers)]
      BY <1>4, <2>1 DEF FramingInv, DeliveryOf
    <2>3. "json" # Unset /\ "partial" # Unset
      BY Zenon DEF Unset
    <2>4. /\ sent.headers = "native" => TableToHeaders(sent.headers) = "json"
          /\ sent.headers = "odd" => TableToHeaders(sent.headers) = "partial"
      BY DEF TableToHeaders
    <2> QED
      BY <1>0, <1>4, <2>2, <2>3, <2>4 DEF Message, ForeignTables
  <1> QED
    BY <1>1, <1>2, <1>3, <1>4 DEF FramingTransparent

\* Whatever the body, headers, correlation id and content type, a handler gets
\* what was sent and the caller what was replied, through the Envelope of HTTP and
\* the properties of AMQP alike, with the exceptions that FramingTransparent names.
THEOREM FramingIsTransparent == FramingSpec => []FramingTransparent
  BY FramingInitInv, FramingStep, FramingHolds, PTL DEF FramingSpec

-----------------------------------------------------------------------------
(* What an adapter serves to the console: Surface.                         *)

\* The Manifest on its way to the console.  What is as it was loaded is valid,
\* the adapter's and the handlers' alike; afterwards only writes through the slices
\* can part what is served from what was mounted.
SurfaceInv ==
    /\ manifest \in Fields /\ mounted.fields \in Fields
    /\ origin # "none"
    /\ origin = "loaded" => Validate(manifest, lists)
    /\ ~Mounted => got = NotGot /\ ~wrote
    /\ mounted.origin = "loaded" => Validate(mounted.fields, mounted.lists)
    /\ Mounted /\ ~wrote => lists = mounted.lists
    /\ got # NotGot => got[1] = mounted.fields /\ (~wrote => got[2] = mounted.lists)

\* An id that is not among those of earlier rounds is not met again later.
LEMMA IdsDistinct ==
  ASSUME NEW s, \A i \in 1..Len(s) : s[i].id \notin IdsBefore(s, i)
  PROVE  DistinctIds(s)
  <1> SUFFICES ASSUME NEW i \in 1..Len(s), NEW j \in 1..Len(s), s[i].id = s[j].id, i # j
               PROVE  FALSE
    BY DEF DistinctIds
  <1>1. CASE i < j
    BY <1>1 DEF IdsBefore
  <1>2. CASE j < i
    BY <1>2 DEF IdsBefore
  <1> QED
    BY <1>1, <1>2

\* What Validate lets through can be used.
LEMMA ValidUsable ==
  ASSUME NEW f, NEW l, f.schema \in Int, Validate(f, l)
  PROVE  Usable(f, l)
  <1>1. f.schema \in 1..SchemaVersionCurrent
    BY SurfaceAssumption DEF Validate
  <1>2. DistinctIds(l.pages) /\ DistinctIds(l.widgets) /\ DistinctIds(l.permissions)
    BY IdsDistinct DEF Validate, PageOK, WidgetOK, PermissionOK
  <1>3. ASSUME NEW i \in 1..Len(l.pages)
        PROVE  LET p == l.pages[i] IN
                 /\ p.id \notin Blanks /\ p.kind \in ViewKinds
                 /\ p.kind = "custom" => p.component \notin Blanks
                 /\ p.kind = "form" =>
                     /\ p.fields # <<>>
                     /\ \A j \in 1..Len(p.fields) :
                         /\ p.fields[j].kind \in FormFieldKinds
                         /\ p.fields[j].kind = "select" => p.fields[j].options > 0
    BY DEF Validate, PageOK, FieldOK
  <1>4. {f.surface, f.version, f.display} \cap Blanks = {}
    BY DEF Validate
  <1>5. \A i \in 1..Len(l.widgets) : l.widgets[i].kind \in ViewKinds
    BY DEF Validate, WidgetOK
  <1> QED
    BY <1>1, <1>2, <1>3, <1>4, <1>5 DEF Usable

LEMMA SurfaceInitInv == SurfaceInit => SurfaceInv
  <1>1. NoFields \in Fields
    BY SurfaceAssumption DEF NoFields, Fields
  <1> QED
    BY <1>1 DEF SurfaceInit, SurfaceInv, NotMounted, Mount, Mounted

LEMMA SurfaceStep == SurfaceInv /\ [SurfaceNext]_surfaceVars => SurfaceInv'
  <1> SUFFICES ASSUME SurfaceInv, [SurfaceNext]_surfaceVars PROVE SurfaceInv'
    OBVIOUS
  <1> USE DEF SurfaceInv, Mounted
  <1>1. CASE LoadManifest
    BY <1>1, SurfaceAssumption DEF LoadManifest
  <1>2. CASE BuildManifest
    BY <1>2, SurfaceAssumption DEF BuildManifest
  <1>3. CASE RegisterHandlers
    BY <1>3 DEF RegisterHandlers, Mount
  <1>4. CASE AssignField
    <2>1. manifest' \in Fields
      BY <1>4, SurfaceAssumption DEF AssignField, Fields
    <2> QED
      BY <1>4, <2>1 DEF AssignField
  <1>5. CASE AssignElement
    BY <1>5 DEF AssignElement
  <1>6. CASE GetManifest
    BY <1>6 DEF GetManifest
  <1>7. CASE PostAction \/ UNCHANGED surfaceVars
    <2>1. UNCHANGED <<manifest, lists, origin, mounted, wrote, got>>
      BY <1>7 DEF PostAction, surfaceVars
    <2> QED
      BY <2>1
  <1> QED
    BY <1>1, <1>2, <1>3, <1>4, <1>5, <1>6, <1>7 DEF SurfaceNext

\* Every Manifest that is registered as it was loaded is served with all that
\* Validate is there for, whatever document it was and whatever the adapter assigns
\* to its own, as long as it does not write through the slices that they share.
THEOREM ConsoleGetsUsable == SurfaceSpec => []ServedIsUsable
  <1>1. SurfaceInv => ServedIsUsable
    BY ValidUsable DEF SurfaceInv, ServedIsUsable, Fields
  <1> QED
    BY <1>1, SurfaceInitInv, SurfaceStep, PTL DEF SurfaceSpec

\* An action gets the whole of the body that was posted or the request is
\* refused, for every size and limit: ReadActionBody never cuts one.
THEOREM ActionsGetWholeBodies == SurfaceSpec => []ActionBodyWhole
  <1>1. SurfaceInit => ActionBodyWhole
    BY DEF SurfaceInit, ActionBodyWhole
  <1>2. ActionBodyWhole /\ [SurfaceNext]_surfaceVars => ActionBodyWhole'
    <2> SUFFICES ASSUME ActionBodyWhole, [SurfaceNext]_surfaceVars PROVE ActionBodyWhole'
      OBVIOUS
    <2>1. CASE PostAction
      <3>1. PICK size \in BodySizes : \E body \in {ReadActionBody(size), -1} :
              \E code \in (IF body = -1 THEN {400} ELSE {200, 500}) :
                acted' = [size |-> size, seen |-> body, status |-> code]
        BY <2>1 DEF PostAction
      <3>2. ReadActionBody(size) \in {size, -1}
        BY SurfaceAssumption DEF ReadActionBody
      <3>3. PICK body \in {size, -1} :
              \E code \in (IF body = -1 THEN {400} ELSE {200, 500}) :
                acted' = [size |-> size, seen |-> body, status |-> code]
        BY <3>1, <3>2
      <3> QED
        BY <3>3 DEF ActionBodyWhole
    <2>2. CASE UNCHANGED acted
      BY <2>2 DEF ActionBodyWhole
    <2> QED
      BY <2>1, <2>2 DEF SurfaceNext, LoadManifest, BuildManifest, RegisterHandlers,
         AssignField, AssignElement, GetManifest, surfaceVars
  <1> QED
    BY <1>1, <1>2, PTL DEF SurfaceSpec

=============================================================================
