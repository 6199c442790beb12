------------------------------- MODULE Framing -------------------------------
(***************************************************************************)
(* One request and its reply on the way through a transport: the fields of *)
(* rpc.Request become an AMQP publishing, or a JSON Envelope in an HTTP    *)
(* body, and then the fields of rpc.Delivery; the reply goes back the same *)
(* way.  The other side need not use the SDK: over HTTP a simple client    *)
(* posts its payload as it is, and some adapters reply like that; an AMQP  *)
(* publisher may send headers that are no strings.  Go's strings are any   *)
(* bytes, and those of JSON are not.                                       *)
(*                                                                         *)
(* A text is a tuple: <<>> is empty, <<"payload">> stands for bytes that   *)
(* no transport looks into, <<"raw", k>> for JSON, or something else, that *)
(* is read by encoding/json, and Marshal gives an encoded Envelope.        *)
(***************************************************************************)
EXTENDS Sequences

CONSTANTS
    Bodies,        \* texts of requests and replies
    Headers,       \* header maps
    CorrIds,       \* correlation ids
    ContentTypes,
    NotUtf8        \* those of the last three that are not, or have a string that is not, UTF-8

\* Tables of an AMQP publisher with values that are no strings: in "odd" there is
\* one that JSON cannot hold, such as a float that is no number.  "nil" is no table.
ForeignTables == {"native", "odd"}

\* The names of tables, and of what they and replaced strings become, are apart.
ASSUME FramingAssumption ==
    /\ ({"nil"} \cup ForeignTables) \cap Headers = {}
    /\ {"", "replaced"} \cap NotUtf8 = {}

VARIABLES
    link,      \* "amqp" and "http"; or who is not the SDK: on AMQP "publisher",
               \* on HTTP "client" or "server"
    sent,      \* the rpc.Request, or a publisher's own publishing
    wire,      \* what is under way
    delivery,  \* the rpc.Delivery that the handler sees
    answer,    \* what the handler replies with
    reply      \* the rpc.Reply

Amqp == link \in {"amqp", "publisher"}

framingVars == <<link, sent, wire, delivery, answer, reply>>

Message(b, h, c, t) == [body |-> b, headers |-> h, corr |-> c, ctype |-> t]
Unset == ""
Nothing == Message(<<>>, Unset, Unset, Unset)
FramingPending == Message(<<"pending">>, Unset, Unset, Unset)

\* "object" is a JSON object without the Envelope's keys, "keyed" one that has
\* a correlation_id too, "clash" one whose body is no base64, "prose" no JSON.
RawTexts == {<<"raw", k>> : k \in {"object", "keyed", "clash", "prose"}}

\* encoding/json writes U+FFFD for each byte of a string that is not UTF-8.
JsonString(t) == IF t \in NotUtf8 THEN "replaced" ELSE t

\* json.Marshal of an Envelope; the body, a []byte, is written in base64.
Marshal(e) ==
    <<"envelope", e.body, JsonString(e.headers), JsonString(e.corr), JsonString(e.ctype)>>

\* json.Unmarshal into an Envelope, for the texts for which it succeeds: unknown
\* keys are skipped and missing ones stay empty.
Decodes(text) ==
    /\ text # <<>> /\ text # <<"payload">>
    /\ text \notin {<<"raw", "clash">>, <<"raw", "prose">>}

Unmarshal(text) ==
    IF text = <<"raw", "object">> THEN Nothing
    ELSE IF text = <<"raw", "keyed">> THEN [Nothing EXCEPT !.corr = "c"]
    ELSE Message(text[2], text[3], text[4], text[5])

\* Mutant: an Envelope is one that has a body.
EnvelopeOfWithBody(text) ==
    IF text = <<>> THEN Nothing
    ELSE IF Decodes(text) /\ Unmarshal(text).body # <<>> THEN Unmarshal(text)
    ELSE [Nothing EXCEPT !.body = text]

\* serveHTTP: an Envelope in which anything is set, or else all of it is body.
EnvelopeOf(text) ==
    IF text = <<>> THEN Nothing
    ELSE IF /\ Decodes(text)
            /\ \/ Unmarshal(text).body # <<>> \/ Unmarshal(text).corr # Unset
               \/ Unmarshal(text).headers # Unset
    THEN Unmarshal(text)
    ELSE [Nothing EXCEPT !.body = text]

ContentType(t) == IF t = Unset THEN "application/json" ELSE t

\* stringHeadersToTable; an empty map becomes nil.
HeadersToTable(h) == IF h = Unset THEN "nil" ELSE h

\* Mutant: the first value that JSON cannot hold, or any that is no string, is
\* the end of the loop.
TableToHeadersStrings(t) == IF t \in {"nil", "native", "odd"} THEN Unset ELSE t

\* tableToStringHeaders: strings as they are and the rest as JSON, without what
\* JSON cannot hold.
TableToHeaders(t) ==
    CASE t = "nil" -> Unset [] t = "native" -> "json" [] t = "odd" -> "partial" [] OTHER -> t

-----------------------------------------------------------------------------
Requests == [body : Bodies, headers : Headers, corr : CorrIds, ctype : ContentTypes]
Publishings == [body : Bodies, headers : ForeignTables, corr : CorrIds, ctype : ContentTypes]

FramingInit ==
    /\ link \in {"amqp", "publisher", "http", "client", "server"}
    /\ sent \in IF link = "publisher" THEN Publishings ELSE Requests
    /\ link = "client" => \E b \in {<<>>} \cup RawTexts : sent = [Nothing EXCEPT !.body = b]
    /\ wire = Nothing
    /\ delivery = FramingPending /\ answer = FramingPending /\ reply = FramingPending

\* What Request publishes or posts; on HTTP it is a body.
RequestWire ==
    CASE link = "amqp" ->
            Message(sent.body, HeadersToTable(sent.headers),
                    IF sent.corr = Unset THEN "uuid" ELSE sent.corr,
                    ContentType(sent.ctype))
      [] link = "publisher" -> sent
      [] link = "client" -> [Nothing EXCEPT !.body = sent.body, !.ctype = "posted"]
      [] OTHER -> [Nothing EXCEPT !.body = Marshal(sent), !.ctype = "posted"]

\* The Delivery that deliverLoop or serveHTTP builds.
DeliveryOf(w) ==
    IF Amqp THEN [w EXCEPT !.headers = TableToHeaders(w.headers)] ELSE EnvelopeOf(w.body)

\* Delivery.Reply and the transport's ReplyFn, or the server's own way.
ReplyWire(a) ==
    LET env == Message(a.body, Unset, delivery.corr, ContentType(a.ctype)) IN
        CASE Amqp -> [env EXCEPT !.headers = "nil"]
          [] link = "server" -> [Nothing EXCEPT !.body = a.body, !.ctype = a.ctype]
          [] OTHER -> [Nothing EXCEPT !.body = Marshal(env)]

\* The Reply of Request: the fields of the publishing, those of the Envelope, or
\* a text that is none.
ReplyOf(w) ==
    IF Amqp THEN [w EXCEPT !.headers = TableToHeaders(w.headers)]
    ELSE IF Decodes(w.body) THEN Unmarshal(w.body)
    ELSE Message(w.body, Unset, sent.corr, w.ctype)

SendRequest ==
    /\ wire = Nothing /\ delivery = FramingPending
    /\ wire' = RequestWire
    /\ UNCHANGED <<link, sent, delivery, answer, reply>>

DeliverRequest ==
    /\ wire # Nothing /\ delivery = FramingPending
    /\ delivery' = DeliveryOf(wire)
    /\ UNCHANGED <<link, sent, wire, answer, reply>>

SendReply ==
    /\ delivery # FramingPending /\ answer = FramingPending
    /\ \E b \in Bodies, t \in ContentTypes : answer' = Message(b, Unset, Unset, t)
    /\ wire' = ReplyWire(answer')
    /\ UNCHANGED <<link, sent, delivery, reply>>

ReceiveReply ==
    /\ answer # FramingPending /\ reply = FramingPending
    /\ link \notin {"publisher", "client"}
    /\ reply' = ReplyOf(wire)
    /\ UNCHANGED <<link, sent, wire, delivery, answer>>

FramingNext == SendRequest \/ DeliverRequest \/ SendReply \/ ReceiveReply

FramingSpec == FramingInit /\ [][FramingNext]_framingVars

-----------------------------------------------------------------------------
(* Properties.                                                             *)

SdkBothEnds == link \in {"amqp", "http"}
Bare(m) == m.body = <<>> /\ m.headers = Unset /\ m.corr = Unset

\* AMQP carries any string; the Envelope, which is JSON, those that are UTF-8.
Carries(t) == link = "amqp" \/ t \notin NotUtf8

\* A handler sees what the caller sent and the caller what the handler replied,
\* whatever the bytes of the bodies and whichever transport is between; over HTTP
\* a header, id or content type that is not UTF-8 is excepted, and a request
\* without body, headers and correlation id.  A client that knows nothing of
\* Envelopes has its body delivered whole, unless it is a JSON object with keys
\* of an Envelope.  A foreign publisher's message is delivered with all its
\* headers that JSON can hold, and one that it cannot costs no other.
FramingTransparent ==
    /\ SdkBothEnds /\ delivery # FramingPending /\ ~Bare(sent) =>
        /\ delivery.body = sent.body
        /\ Carries(sent.headers) => delivery.headers = sent.headers
        /\ sent.corr # Unset /\ Carries(sent.corr) => delivery.corr = sent.corr
    /\ SdkBothEnds /\ reply # FramingPending =>
        /\ reply.body = answer.body /\ reply.corr = delivery.corr
        /\ Carries(ContentType(answer.ctype)) => reply.ctype = ContentType(answer.ctype)
    /\ link = "client" /\ delivery # FramingPending /\ sent.body # <<"raw", "keyed">> =>
        delivery.body = sent.body
    /\ link = "publisher" /\ delivery # FramingPending =>
        /\ delivery.body = sent.body /\ delivery.corr = sent.corr
        /\ delivery.headers # Unset
        /\ sent.headers = "native" => delivery.headers = "json"

\* A request arrives as it was sent, an empty one too.
BareArrives ==
    SdkBothEnds /\ delivery # FramingPending => delivery.body = sent.body

\* The reply of an adapter that knows no Envelopes arrives as it is.
RawReplyArrives ==
    link = "server" /\ reply # FramingPending /\ answer.body \in RawTexts =>
        reply.body = answer.body

=============================================================================
