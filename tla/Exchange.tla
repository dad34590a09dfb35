------------------------------- MODULE Exchange -------------------------------
(***************************************************************************)
(* One HTTP exchange with a hub: how PublisherClient encodes an operation, *)
(* where ServeHTTP routes a POST, which answer a callback's result becomes *)
(* and what the client makes of that answer (src/publisher.go,             *)
(* src/handler.go).  Operators only; HubProcess lets the two ends run.     *)
(***************************************************************************)
EXTENDS Integers

CONSTANT EnablePublisherExtension   \* Config.EnablePublisherExtension

ASSUME ExtensionAssumption == EnablePublisherExtension \in BOOLEAN

-----------------------------------------------------------------------------
(* Requests.                                                               *)

Modes == {"subscribe", "unsubscribe", "register", "deregister", "publish"}

\* A POST, as far as ServeHTTP looks at it: the X-Go-Publisher header, the media
\* type ("foreign" is a form in a charset other than UTF-8), hub.mode in the body
\* when that parses as a form, hub.mode in the query, and whether the hub.topic of
\* the place it is read from is a usable URL.
Posts == [header : {"none", "event", "publish", "other", "repeated"},
          media  : {"form", "other", "foreign", "malformed"},
          form   : Modes \cup {"none"},
          query  : {"none", "publish"},
          topic  : BOOLEAN]

\* The methods of PublisherClient; the content that is published may have the
\* form media type, and may even read as somebody's subscribe request.
Operations ==
    [method : {"register", "deregister", "event"}]
        \cup [method : {"content"}, media : {"form", "other", "foreign"}, form : {"none", "subscribe"}]

\* RegisterTopic, DeregisterTopic and Notify send a form, Publish the content
\* with its mode in the query.  The topic was validated before anything is sent.
Encode(op) ==
    IF op.method = "content"
    THEN [header |-> "publish", media |-> op.media, form |-> op.form,
          query |-> "publish", topic |-> TRUE]
    ELSE [header |-> IF op.method = "event" THEN "event" ELSE "none", media |-> "form",
          form |-> IF op.method = "event" THEN "publish" ELSE op.method,
          query |-> "none", topic |-> TRUE]

\* serveEvent
EventRoute(p) ==
    IF EnablePublisherExtension /\ p.media = "form" /\ p.form = "publish" /\ p.topic
    THEN "event" ELSE "badRequest"

\* servePublisherContent
ContentRoute(p) ==
    IF EnablePublisherExtension /\ p.header \in {"none", "publish"}
         /\ p.query = "publish" /\ p.topic
    THEN "content" ELSE "badRequest"

\* The switch on hub.mode, with the parsing of each mode.
FormRoute(p) ==
    IF /\ p.topic
       /\ \/ p.form \in {"subscribe", "unsubscribe"}
          \/ EnablePublisherExtension /\ p.form \in {"register", "deregister"}
    THEN p.form ELSE "badRequest"

\* ServeHTTP: the callback a POST reaches, if any.
Route(p) ==
    IF p.media \in {"foreign", "malformed"} \/ p.header = "repeated" THEN "badRequest"
    ELSE IF p.header = "event" THEN EventRoute(p)
    ELSE IF p.header # "none" \/ p.media = "other" THEN ContentRoute(p)
    ELSE FormRoute(p)

PublisherCallbacks == {"register", "deregister", "event", "content"}

-----------------------------------------------------------------------------
(* Answers.                                                                *)

\* What a callback returns: an error, or a Result with a status (0 stands for
\* the default), a body (nil, the accepted form, or another one), and headers
\* and content type that are safe or not.
Results == [status : 0..999, body : {"nil", "accepted", "other"}, safe : BOOLEAN]

HTTPAnswer(status, body) == [status |-> status, body |-> body]

Answers == [status : 100..599, body : {"none", "accepted", "other"}]

\* validateResult
Valid(result) == result.safe /\ (result.status = 0 \/ result.status \in 200..599)

\* Mutant of Write: a status left at 0 is written as it is.
WriteZero(result, defaultStatus, defaultBody) ==
    HTTPAnswer(result.status, IF result.body = "nil" THEN defaultBody ELSE result.body)

\* writeResult: net/http drops the body of a 204 and a 304.
Write(result, defaultStatus, defaultBody) ==
    LET status == IF result.status = 0 THEN defaultStatus ELSE result.status
        body   == IF result.body = "nil" THEN defaultBody ELSE result.body
    IN  HTTPAnswer(status, IF status \in {204, 304} THEN "none" ELSE body)

\* serveRegistration and serveUpdate, after the callback returned a Result.
PublisherAnswer(callback, result) ==
    IF Valid(result)
    THEN Write(result, IF callback \in {"register", "deregister"} THEN 200 ELSE 202, "accepted")
    ELSE HTTPAnswer(500, "other")

\* writeExtensionDenied: the callback returned an error or panicked.
DeniedAnswer == HTTPAnswer(400, "other")

\* ServeHTTP on a handler that is closed; a request that cannot be parsed.
ClosedAnswer     == HTTPAnswer(503, "other")
BadRequestAnswer == HTTPAnswer(400, "other")

\* Mutant of Verdict: any answer is good news.
VerdictAnswered(answer) == "nil"

\* PublisherClient.do: redirects are refused, so a 3xx is an answer like another;
\* nil needs a 2xx and the accepted form.
Verdict(answer) ==
    IF answer.status \in 200..299 /\ answer.body = "accepted" THEN "nil" ELSE "error"

-----------------------------------------------------------------------------
(* The admission decision of OnSubscription and OnUnsubscription.          *)

\* The error it may return instead of a Result.
Refusals == [kind : {"redirect"}, status : 0..999, location : BOOLEAN]
                \cup [kind : {"denied", "failed"}]

\* validateAdmissionResult
Admitted(result)  == Valid(result) /\ result.status \in {0, 202}
TurnedDown(result) == Valid(result) /\ result.status \in 400..599

\* serveSubscription and serveUnsubscription: what is answered without a job.
ResultAnswer(result) ==
    IF TurnedDown(result) THEN Write(result, 400, "none") ELSE HTTPAnswer(500, "other")

\* handleInitialError
RefusalAnswer(refusal) ==
    IF refusal.kind = "redirect"
    THEN IF refusal.status \in {307, 308} /\ refusal.location
         THEN HTTPAnswer(refusal.status, "none") ELSE HTTPAnswer(500, "other")
    ELSE HTTPAnswer(IF refusal.kind = "denied" THEN 400 ELSE 500, "other")
=============================================================================
