------------------------------- MODULE RtspClient -------------------------------
(***************************************************************************)
(* An RTSP session with a camera, from its URL to the playing stream: what  *)
(* the parsers and the builder of components/rtsp_proto (modules RtspUrl,   *)
(* RtspMessages) do in the hands of a client.                               *)
(*                                                                          *)
(* The client, the camera and the TCP connection are not in the repository. *)
(* The client uses the component as its headers offer it: it tries          *)
(* rtsp_response_parse on what it has received and waits for more when that *)
(* returns false; it takes an answered message off its buffer, the body     *)
(* included; it echoes the session; it logs in once when it is challenged.  *)
(* Once the stream plays it keeps it alive with GET_PARAMETER, and does not *)
(* wait for the answer to the one before.  The connection loses nothing and *)
(* keeps the order, but delivers in pieces of any size.                     *)
(***************************************************************************)
EXTENDS RtspMessages

CONSTANTS
    Urls,       \* texts the client may be configured with; any tokens
    Cameras,    \* records: url and what it means (scheme, user, password,
                \* host, port, path); the challenges it asks a login with; the
                \* session it gives, and its timeout; the body of its
                \* descriptions and parameters
    Room,       \* the size of the client's buffer for a request
    MaxCSeq     \* keeps the number of keepalives finite

ASSUME TextsAssumption ==
    \A text \in Urls \cup {c.url : c \in Cameras} :
        /\ text \in Seq(Range(text))
        /\ \A i \in DOMAIN text : text[i][2] \in Nat

IsWord(w) == w = Word(w[3], w[2]) /\ w[2] \in Nat

\* An address leads to one camera.
ASSUME CamerasAssumption ==
    /\ \A c, d \in Cameras : c.host = d.host /\ c.port = d.port => c = d
    /\ \A c \in Cameras :
          /\ IsWord(c.session)
          /\ c.challenges \in Seq(Range(c.challenges))
          /\ \A i \in DOMAIN c.challenges : IsWord(c.challenges[i])
          /\ c.body \in Seq(Range(c.body))

\* Room for the four requests to get to play and one to end, numbers of two
\* digits.
ASSUME BoundsAssumption == Room \in Nat /\ MaxCSeq \in 5 .. 98

VARIABLES
    url,        \* the URL the client was configured with
    target,     \* what rtsp_url_parse made of it
    step,       \* the method to send next, or where the client is
    cseq,       \* the number of the next request
    login,      \* its Authorization, or None
    session,    \* the session it was given, or None
    pending,    \* the requests not answered yet, as <<cseq, method>>
    requests,   \* requests on their way to the camera, each a sequence of lines
    wire,       \* the cells on their way to the client
    received,   \* the cells in the client's buffer
    owed,       \* history: the responses sent and not taken yet, as meant
    answer      \* history: the response last taken, as read and as meant

exchange == <<cseq, login, session, pending, requests, wire, received, owed, answer>>
vars == <<url, target, step, exchange>>

Init ==
    /\ url \in Urls \cup {c.url : c \in Cameras}
    /\ target = RtspUrlParse(url)
    /\ step = "connect"
    /\ cseq = 1
    /\ login = None /\ session = None
    /\ pending = <<>> /\ requests = <<>> /\ wire = <<>> /\ received = <<>> /\ owed = <<>>
    /\ answer = [taken |-> FALSE]

-----------------------------------------------------------------------------
\* The client's sending side

At(t) == {c \in Cameras : c.host = t.host /\ c.port = t.port}

Connect ==
    /\ step = "connect"
    /\ step' = IF ~target.parsed THEN "refused"
               ELSE IF At(target) = {} THEN "unreachable" ELSE "DESCRIBE"
    /\ UNCHANGED <<url, target, exchange>>

\* The URI of a request: the URL without user, password and port.
Uri(t) == t.scheme \o Slashes \o t.host \o t.path

\* An Authorization: "Basic " and three characters made four.
Credentials(t) ==
    Word(<<t.user, t.password>>, 6 + 4 * ((Width(t.user) + 1 + Width(t.password) + 2) \div 3))

\* NULL is neither a session id nor a login.
ASSUME NoneAssumption ==
    /\ \A c \in Cameras : Bounded(c.session, SessionMax) # None
    /\ \A text \in Urls \cup {c.url : c \in Cameras} :
          LET t == RtspUrlParse(text) IN t.parsed => Credentials(t) # None

\* The request as rtsp_request_t; the texts are as long as real ones.
Request(method) ==
    [method |-> method, uri |-> Uri(target), cseq |-> cseq,
     session |-> session,
     transport |-> IF method = "SETUP" THEN Word("RTP/AVP;unicast;client_port", 43) ELSE None,
     user_agent |-> Word("smart-intercom", 17),
     accept |-> IF method = "DESCRIBE" THEN Word("application/sdp", 15) ELSE None,
     authorization |-> login]

\* What is built is sent; the client gives up on what is too long to build.
Send(method) ==
    \E built \in {RtspRequestBuild(Request(method), Room)} :
    LET sent == built.returned # -1
    IN  /\ step' = IF ~sent THEN "too long"
                   ELSE IF method = "GET_PARAMETER" THEN "playing" ELSE "waiting"
        /\ requests' = IF sent THEN Append(requests, built.lines) ELSE requests
        /\ pending' = IF sent THEN Append(pending, <<cseq, method>>) ELSE pending
        /\ cseq' = IF sent THEN cseq + 1 ELSE cseq
        /\ UNCHANGED <<url, target, login, session, wire, received, owed, answer>>

SendNext == step \in {"DESCRIBE", "SETUP", "PLAY"} /\ Send(step)

Keepalive == step = "playing" /\ Len(pending) < 2 /\ cseq < MaxCSeq /\ Send("GET_PARAMETER")

Teardown == step = "playing" /\ Send("TEARDOWN")

-----------------------------------------------------------------------------
\* The camera

HasLine(request, name) == \E i \in DOMAIN request : request[i].name = name

ValueOf(request, name) ==
    request[SelectInSeq(request, LAMBDA line : line.name = name)].value

\* A response, as it is meant.
Response(code, n, headers, body) ==
    [code |-> code, cseq |-> n,
     headers |-> << <<"header", "CSeq", n>>, <<"header", "Server", Word("camera", 6)>> >> \o headers
                 \o (IF body = <<>> THEN <<>>
                     ELSE << <<"header", "Content-Length", Len(body)>>,
                             <<"header", "Content-Type", Word("application/sdp", 15)>> >>),
     body |-> body]

\* The cells that say it.
CellsOf(response) ==
    LET headers == response.headers IN
    << <<"status", response.code, Word("reason", 64)>>, Cr, Lf >>
    \o [k \in 1 .. 3 * Len(headers) |->
           IF k % 3 = 1 THEN headers[(k + 2) \div 3] ELSE IF k % 3 = 2 THEN Cr ELSE Lf]
    \o <<Cr, Lf>> \o response.body

RespondTo(c, request) ==
    LET method == request[1].value[1]
        n == ValueOf(request, "CSeq")
    IN  IF request[1].value[2] # Uri(c) THEN Response(404, n, <<>>, <<>>)
        ELSE IF /\ c.challenges # <<>>
                /\ ~ (/\ HasLine(request, "Authorization")
                      /\ ValueOf(request, "Authorization") = Credentials(c))
        THEN Response(401, n, [i \in DOMAIN c.challenges |->
                                  <<"header", "WWW-Authenticate", c.challenges[i]>>], <<>>)
        ELSE IF method = "DESCRIBE" THEN Response(200, n, <<>>, c.body)
        ELSE IF method = "SETUP"
        THEN Response(200, n,
                 << <<"header", "Session", [id |-> c.session, timeout |-> c.timeout]>>,
                    <<"header", "Transport", Word("RTP/AVP;server_port", 256)>> >>, <<>>)
        ELSE IF ~HasLine(request, "Session") \/ ValueOf(request, "Session") # c.session
        THEN Response(454, n, <<>>, <<>>)
        ELSE Response(200, n, <<>>, IF method = "GET_PARAMETER" THEN c.body ELSE <<>>)

\* The camera answers a request when it has the whole of it.
Serve ==
    /\ requests # <<>>
    /\ Last(Head(requests)) = Line("blank", None, 2)
    /\ \E c \in At(target) : \E response \in {RespondTo(c, Head(requests))} :
          /\ wire' = wire \o CellsOf(response)
          /\ owed' = Append(owed, response)
    /\ requests' = Tail(requests)
    /\ UNCHANGED <<url, target, step, cseq, login, session, pending, received, answer>>

-----------------------------------------------------------------------------
\* The client's receiving side

Arrive(n) ==
    /\ n <= Len(wire)
    /\ received' = received \o SubSeq(wire, 1, n)
    /\ wire' = SubSeq(wire, n + 1, Len(wire))
    /\ UNCHANGED <<url, target, step, cseq, login, session, pending, requests, owed, answer>>

NextStep == [DESCRIBE |-> "SETUP", SETUP |-> "PLAY", PLAY |-> "playing", TEARDOWN |-> "closed"]

TakeAnswer ==
    \E got \in {RtspResponseParse(received)} :
    LET answered == {i \in DOMAIN pending : pending[i][1] = got.cseq}
        method   == pending[Min(answered)][2]
        retry    == got.code = 401 /\ login = None /\ got.texts["WWW-Authenticate"] # None
    IN  /\ got.parsed
        /\ received' = SubSeq(received, HeaderEnd(received) + 4 + got.length, Len(received))
        /\ pending' = IF answered = {} THEN pending ELSE RemoveAt(pending, Min(answered))
        /\ owed' = IF owed = <<>> THEN owed ELSE Tail(owed)
        /\ answer' = [taken |-> TRUE, due |-> owed # <<>>, got |-> got,
                      meant |-> IF owed = <<>> THEN None ELSE Head(owed)]
        /\ step' = IF answered = {} THEN step
                   ELSE IF retry THEN method
                   ELSE IF got.code # 200 THEN "rejected"
                   ELSE IF method = "GET_PARAMETER" THEN step
                   ELSE NextStep[method]
        /\ login' = IF retry THEN Credentials(target) ELSE login
        /\ session' = IF got.session # None THEN got.session ELSE session
        /\ UNCHANGED <<url, target, cseq, requests, wire>>

Next ==
    \/ Connect
    \/ SendNext
    \/ Keepalive
    \/ Teardown
    \/ Serve
    \/ \E n \in 1 .. Len(wire) : Arrive(n)
    \/ TakeAnswer

\* The client, the camera and the network each get on; nobody has to keep the
\* stream alive or to end it.
Fairness ==
    /\ WF_vars(Connect) /\ WF_vars(SendNext) /\ WF_vars(TakeAnswer)
    /\ WF_vars(Serve)
    /\ WF_vars(\E n \in 1 .. Len(wire) : Arrive(n))

Spec == Init /\ [][Next]_vars /\ Fairness

-----------------------------------------------------------------------------

\* What the fields of rtsp_url_t can hold (rtsp_url.c:8, :95), and the
\* client's own bookkeeping: every request not answered yet is on its way or
\* its response is owed, and they are numbered in the order they were sent.
TypeOK ==
    /\ target.parsed =>
          /\ target.port \in Ports
          /\ \A part \in DOMAIN UrlMax : Width(target[part]) < UrlMax[part]
    /\ cseq \in 1 .. MaxCSeq + 1
    /\ Len(pending) = Len(requests) + Len(owed)
    /\ \A i \in DOMAIN pending : pending[i][1] = cseq - Len(pending) + i - 1

\* The texts that say these parts: without a userinfo if it is empty, the
\* port in any digits or left out if it is 554, the path left out if it is "/".
Spellings(t, digits) ==
    LET userinfos == {t.user \o <<Sep("@")>>, t.user \o <<Sep(":")>> \o t.password \o <<Sep("@")>>}
                     \cup (IF t.user \o t.password = <<>> THEN {<<>>} ELSE {})
        ports == {<<Sep(":")>> \o d : d \in {d \in digits : Number(d) = t.port}}
                 \cup (IF t.port = 554 THEN {<<>>} ELSE {})
        paths == {t.path} \cup (IF t.path = <<Sep("/")>> THEN {<<>>} ELSE {})
    IN  {t.scheme \o Slashes \o u \o t.host \o p \o path : u \in userinfos, p \in ports, path \in paths}

\* rtsp_url_parse makes nothing up: what it accepts says the parts it is read
\* as, nothing of it is passed over, and the port is one (rtsp_url.c:18-115).
\* That it is also read as it is meant is part of CameraGetsItsOutcome.
UrlSaysItsParts ==
    step = "connect" /\ target.parsed =>
        LET runs == {SubSeq(url, i, j) : i, j \in DOMAIN url}
            IsNumber(d) == Width(d) \in 1..5 /\ \A i \in DOMAIN d : d[i][1] = "digits"
        IN  url \in Spellings(target, {d \in runs : IsNumber(d)})

\* Every request sent is there to the last line, the blank one, and says what
\* the session needs: the URI and the number, the login once there is one,
\* the session once it is given, a range only to start to play
\* (rtsp_request.c:20-74).
RequestsAreWhole ==
    \A i \in DOMAIN requests :
        LET r == requests[i]
            method == r[1].value[1]
        IN  /\ Last(r) = Line("blank", None, 2)
            /\ FoldLeft(LAMBDA n, line : n + line.width, 0, r) + 1 <= Room
            /\ r[1].value[2] = Uri(target)
            /\ <<ValueOf(r, "CSeq"), method>> = pending[Len(pending) - Len(requests) + i]
            /\ HasLine(r, "Authorization") <=> login # None
            /\ HasLine(r, "Session") <=> method \notin {"DESCRIBE", "SETUP"}
            /\ HasLine(r, "Range") <=> method = "PLAY"

\* What a list of headers says last under a name, cut to what the field holds.
LastSaid(headers, name, max) ==
    LET said == {i \in DOMAIN headers : headers[i][2] = name}
        value == headers[Max(said)][3]
        word == IF name = "Session" THEN value.id ELSE value
    IN  IF said = {} THEN None ELSE Word(word[3], Min({word[2], max - 1}))

\* Though the buffer may end anywhere in a response or hold more than one,
\* and rtsp_response_parse does not say how much it read, the responses are
\* taken in the order of sending, each as it was meant: its own headers and
\* its own body, whole (rtsp_response.c:109-174).
AnswerIsAsMeant ==
    answer.taken =>
        LET got == answer.got  meant == answer.meant IN
        /\ answer.due
        /\ got.code = meant.code /\ got.cseq = meant.cseq /\ got.body = meant.body
        /\ got.session = LastSaid(meant.headers, "Session", 64)
        /\ got.timeout = (IF got.session = None THEN 0
                           ELSE (CHOOSE c \in At(target) : TRUE).timeout)
        /\ got.texts["Transport"] = LastSaid(meant.headers, "Transport", 256)
        /\ got.texts["Content-Type"] = LastSaid(meant.headers, "Content-Type", 64)
        /\ got.texts["WWW-Authenticate"] = LastSaid(meant.headers, "WWW-Authenticate", 512)

\* The characters of a session's longest request: SETUP with its Transport or
\* PLAY with Session and Range.
Needs(c) ==
    LET id      == Min({c.session[2], SessionMax - 1})
        loginLine == IF c.challenges = <<>> THEN 0 ELSE 17 + Credentials(c)[2]
    IN  Width(Uri(c)) + 54 + loginLine + Max({61, 34 + id})

\* Where the session with a camera goes.  A session id of 64 characters or
\* more is cut by the response parser, and the camera does not know it.
Outcome(c) ==
    IF Needs(c) >= Room THEN "too long"
    ELSE IF c.session[2] >= SessionMax THEN "rejected" ELSE "playing"

\* From a camera's URL the stream gets to play if the requests fit into the
\* client's buffer and the session id into its field, and the client finds
\* out at once if they do not: the URL is read as it is meant, each request
\* is understood, and no response is waited for in vain
\* (rtsp_url.c:18, rtsp_request.c:36, rtsp_response.c:109).
CameraGetsItsOutcome ==
    \A c \in Cameras : (url = c.url /\ step = "connect") ~> (step = Outcome(c))

=============================================================================
