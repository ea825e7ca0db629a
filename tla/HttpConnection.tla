--------------------------- MODULE HttpConnection ---------------------------
(***************************************************************************)
(* HttpConnection (src/airdcpp/connection/http/HttpConnection.cpp): one   *)
(* HTTP/1.1 GET over a BufferedSocket.  The connection is a listener of   *)
(* its socket; every handler (Connected, Line, Data, ModeChange, Failed)  *)
(* runs on the socket thread, so the handlers of one connection never     *)
(* interleave.  What the model explores is the server: for each request   *)
(* it answers with any well-formed response (status 200, 302 or 404,      *)
(* Content-Length, chunked or close-delimited body), which the socket     *)
(* delivers as lines or as data depending on the mode the connection set, *)
(* and the network may fail the socket at any point.                      *)
(*                                                                         *)
(* A URL is abstracted to its path, its query and whether it shows a port *)
(* (":80"), which is what the redirect-loop check compares as strings.    *)
(***************************************************************************)
EXTENDS Integers, Sequences

CONSTANTS
    Paths,          \* paths on the server
    Queries,        \* query strings, NoQuery among them
    NoQuery,
    MaxBody,        \* bound on the body length a server sends
    MaxRedirects,   \* bound on the redirects a server answers with
    MaxRequests,    \* bound on downloadFile calls by the owner
    BadChunk,       \* the value strtoul returns on overflow (ULONG_MAX)
    None

ASSUME NoQuery \in Queries /\ BadChunk \notin 0..MaxBody

Urls == [path : Paths, query : Queries, port : BOOLEAN]

\* Location values: absolute (with or without a port), "/path", "path"
Locations == [kind : {"abs"}, path : Paths, port : BOOLEAN]
               \cup [kind : {"root", "rel"}, path : Paths]

Framings == {"length", "chunked", "close"}

Responses ==
    [status : {200, 404}, framing : Framings, body : 0..MaxBody]
      \cup [status : {302}, location : Locations]

VARIABLES
    currentUrl,   \* currentUrl
    query,        \* query of the current request (LinkUtil::decodeUrl)
    connState,    \* connState
    size,         \* size: Content-Length, -1 if none
    done,         \* done: body bytes passed on as Data
    sock,         \* socket: None, "connecting", "line", "data", "modechange", "inert"
    dataLeft,     \* bytes left in the socket's data mode
    listening,    \* the socket has this connection as a listener
    stream,       \* what the server sent that the socket has not read yet
    resp,         \* the response the server chose for the current socket
    completes,    \* Complete events fired for the owner's downloadFile
    fails,        \* Failed events fired for the owner's downloadFile
    redirects,    \* Redirected events so far
    selfHops,     \* consecutive redirects that fetch the same path and query again
    requests      \* downloadFile calls by the owner so far

vars == <<currentUrl, query, connState, size, done, sock, dataLeft, listening,
          stream, resp, completes, fails, redirects, selfHops, requests>>

-----------------------------------------------------------------------------
(* The server's bytes as the socket sees them: a line token, or one byte  *)
(* of body, which a socket in line mode reads as a line of text.  A      *)
(* chunked body is sent in chunks of one byte.                            *)

Bytes(n) == [i \in 1..n |-> <<"byte">>]

ChunkedBody(n) ==
    [i \in 1..3 * n |-> CASE i % 3 = 1 -> <<"chunk", 1>>
                          [] i % 3 = 2 -> <<"byte">>
                          [] OTHER     -> <<"blank">>]
      \o <<<<"chunk", 0>>, <<"blank">>>>

Script(r) ==
    IF r.status = 302
    THEN <<<<"status", 302>>, <<"location", r.location>>, <<"length", 0>>, <<"blank">>>>
    ELSE <<<<"status", r.status>>>>
         \o (CASE r.framing = "length"  -> <<<<"length", r.body>>>>
               [] r.framing = "chunked" -> <<<<"header">>>>
               [] r.framing = "close"   -> <<>>)
         \o <<<<"blank">>>>
         \o (IF r.framing = "chunked" THEN ChunkedBody(r.body) ELSE Bytes(r.body))

-----------------------------------------------------------------------------
\* mutant: the socket is put back without removing the listener
AbortRequestKeepsListener ==
    /\ UNCHANGED listening
    /\ sock' = None
    /\ dataLeft' = 0
    /\ stream' = <<>>

(* abortRequest(disconnect): the listener is removed and the socket put   *)
(* back; what the server still sends is not read by this connection.      *)
AbortRequest ==
    /\ listening' = FALSE
    /\ sock' = None
    /\ dataLeft' = 0
    /\ stream' = <<>>

(* prepareRequest (from downloadFile): resets size, done and connState,   *)
(* takes the query of the URL, gets a socket if there is none, adds the  *)
(* listener and connects; a connect that throws fires Failed at once and *)
(* leaves the socket, listener attached, unconnected.  f is the count of *)
(* Failed events of the owner's request so far.                          *)
PrepareRequest(url, f) ==
    /\ currentUrl' = url
    /\ query' = url.query
    /\ size' = -1
    /\ done' = 0
    /\ listening' = TRUE
    /\ stream' = <<>>
    /\ dataLeft' = 0
    /\ \/ /\ sock' = "connecting"
          /\ connState' = "UNKNOWN"
          /\ fails' = f
       \/ /\ sock' = "inert"
          /\ connState' = "FAILED"
          /\ fails' = f + 1

\* downloadFile(aFile), called by the owner when no request is running
DownloadFile(url) ==
    /\ requests < MaxRequests
    /\ sock \in {None, "inert"}
    /\ requests' = requests + 1
    /\ completes' = 0
    /\ PrepareRequest(url, 0)
    /\ UNCHANGED <<resp, redirects, selfHops>>

-----------------------------------------------------------------------------
(* Socket events *)

(* on(Connected): the request is written; the server answers it (at most *)
(* MaxRedirects times with a redirect).                                    *)
Connected ==
    /\ sock = "connecting"
    /\ \E r \in Responses :
          /\ r.status = 302 => redirects < MaxRedirects
          /\ resp' = r
          /\ stream' = Script(r)
    /\ sock' = "line"
    /\ UNCHANGED <<currentUrl, query, connState, size, done, dataLeft, listening,
                   completes, fails, redirects, selfHops, requests>>

(* setDataMode(n): the socket passes the next n bytes as Data and then    *)
(* fires ModeChange; with n = 0 the mode change is immediate.             *)
SetDataMode(n) ==
    /\ sock' = IF n = 0 THEN "modechange" ELSE "data"
    /\ dataLeft' = n

\* the location of a redirect, as the string the loop check compares
LocationUrl(loc) ==
    CASE loc.kind = "abs"  -> [path |-> loc.path, query |-> NoQuery, port |-> loc.port]
      \* "port != 80 || port != 443" is always true: a port is always appended
      [] loc.kind = "root" -> [path |-> loc.path, query |-> NoQuery, port |-> TRUE]
      [] loc.kind = "rel"  -> [path |-> loc.path, query |-> NoQuery, port |-> currentUrl.port]

SameResource(u, v) == u.path = v.path /\ u.query = v.query

\* what strtoul(.., 16) reads from a line taken as a chunk size
ChunkValues(t) ==
    CASE t[1] = "chunk" -> {t[2]}
      [] t[1] = "byte"  -> {0, 1, BadChunk}   \* body text: its leading hex digits
      [] OTHER          -> {0}

(* on(Line), the cases of the handler in the order of the code *)

\* connState == CONN_CHUNKED && aLine.size() > 1: a chunk-size line
LineChunk(t) ==
    \E v \in ChunkValues(t) :
        IF v = 0 \/ v = BadChunk
        THEN /\ AbortRequest
             /\ IF v = 0
                THEN /\ completes' = completes + 1
                     /\ connState' = "OK"
                     /\ UNCHANGED fails
                ELSE /\ fails' = fails + 1
                     /\ connState' = "FAILED"
                     /\ UNCHANGED completes
        ELSE /\ SetDataMode(v)
             /\ stream' = Tail(stream)
             /\ UNCHANGED <<listening, connState, completes, fails>>

\* mutant: an unexpected status aborts the request without firing Failed
LineStatusNoFailed(t) ==
    CASE t \in {<<"status", 200>>, <<"status", 302>>} ->
            /\ connState' = IF t[2] = 200 THEN "OK" ELSE "MOVED"
            /\ stream' = Tail(stream)
            /\ UNCHANGED <<sock, dataLeft, listening, fails>>
      [] OTHER ->
            /\ AbortRequest
            /\ connState' = "FAILED"
            /\ UNCHANGED fails

\* connState == CONN_UNKNOWN: the status line
LineStatus(t) ==
    CASE t = <<"status", 200>> ->
            /\ connState' = "OK"
            /\ stream' = Tail(stream)
            /\ UNCHANGED <<sock, dataLeft, listening, fails>>
      [] t = <<"status", 302>> ->
            /\ connState' = "MOVED"
            /\ stream' = Tail(stream)
            /\ UNCHANGED <<sock, dataLeft, listening, fails>>
      [] OTHER ->
            /\ AbortRequest
            /\ fails' = fails + 1
            /\ connState' = "FAILED"

(* connState == CONN_MOVED and a Location line: the socket is aborted;    *)
(* a location equal to currentUrl fails the request as an endless loop,  *)
(* otherwise the query of the current request is appended and the new    *)
(* location is fetched with downloadFile.                                 *)
LineLocation(t) ==
    LET loc == LocationUrl(t[2])
        next == [loc EXCEPT !.query = query]
    IN IF loc = currentUrl
       THEN /\ AbortRequest
            /\ fails' = fails + 1
            /\ connState' = "FAILED"
            /\ UNCHANGED <<currentUrl, query, size, done, redirects, selfHops>>
       ELSE /\ redirects' = redirects + 1
            /\ selfHops' = IF SameResource(next, currentUrl) THEN selfHops + 1 ELSE 0
            /\ PrepareRequest(next, fails)

\* the empty line ending the headers: a body of size bytes, or chunks
LineBlank ==
    /\ IF size # -1
       THEN SetDataMode(size) /\ UNCHANGED connState
       ELSE connState' = "CHUNKED" /\ UNCHANGED <<sock, dataLeft>>
    /\ stream' = Tail(stream)

\* a header line: only Content-Length changes the state
LineHeader(t) ==
    /\ size' = IF t[1] = "length" THEN t[2] ELSE size
    /\ stream' = Tail(stream)
    /\ UNCHANGED <<sock, dataLeft, connState>>

Line ==
    /\ sock = "line"
    /\ stream # <<>>
    /\ LET t == Head(stream) IN
       \/ /\ connState = "CHUNKED" /\ t # <<"blank">>
          /\ LineChunk(t)
          /\ UNCHANGED <<currentUrl, query, size, done, redirects, selfHops>>
       \/ /\ connState = "UNKNOWN"
          /\ LineStatus(t)
          /\ UNCHANGED <<currentUrl, query, size, done, completes, redirects, selfHops>>
       \/ /\ connState = "MOVED" /\ t[1] = "location"
          /\ LineLocation(t)
          /\ UNCHANGED completes
       \/ /\ connState \notin {"UNKNOWN"}
          /\ ~(connState = "CHUNKED" /\ t # <<"blank">>)
          /\ ~(connState = "MOVED" /\ t[1] = "location")
          /\ \/ t = <<"blank">> /\ LineBlank /\ UNCHANGED size
             \/ t # <<"blank">> /\ LineHeader(t)
          /\ UNCHANGED <<currentUrl, query, done, listening, completes, fails,
                         redirects, selfHops>>
    /\ UNCHANGED <<resp, requests>>

\* mutant: the data mode ends one byte late
DataEndsLate ==
    /\ sock = "data"
    /\ stream # <<>>
    /\ IF size # -1 /\ size - done < 1
       THEN /\ AbortRequest
            /\ connState' = "FAILED"
            /\ fails' = fails + 1
            /\ UNCHANGED done
       ELSE /\ done' = done + 1
            /\ dataLeft' = dataLeft - 1
            /\ sock' = IF dataLeft = 0 THEN "modechange" ELSE "data"
            /\ stream' = Tail(stream)
            /\ UNCHANGED <<listening, connState, fails>>
    /\ UNCHANGED <<currentUrl, query, size, resp, completes, redirects, selfHops, requests>>

(* on(Data): more than Content-Length fails the request; otherwise the    *)
(* data is passed on and counted in done.                                  *)
Data ==
    /\ sock = "data"
    /\ stream # <<>>
    /\ IF size # -1 /\ size - done < 1
       THEN /\ AbortRequest
            /\ connState' = "FAILED"
            /\ fails' = fails + 1
            /\ UNCHANGED done
       ELSE /\ done' = done + 1
            /\ dataLeft' = dataLeft - 1
            /\ sock' = IF dataLeft = 1 THEN "modechange" ELSE "data"
            /\ stream' = Tail(stream)
            /\ UNCHANGED <<listening, connState, fails>>
    /\ UNCHANGED <<currentUrl, query, size, resp, completes, redirects, selfHops, requests>>

\* mutant: every mode change completes, also between chunks
ModeChangeCompletes ==
    /\ sock = "modechange"
    /\ AbortRequest /\ completes' = completes + 1
    /\ UNCHANGED <<currentUrl, query, connState, size, done, resp, fails, redirects,
                   selfHops, requests>>

(* on(ModeChange): the end of a Content-Length body completes the request;*)
(* in chunked mode the socket just returns to reading lines.              *)
ModeChange ==
    /\ sock = "modechange"
    /\ IF connState # "CHUNKED"
       THEN AbortRequest /\ completes' = completes + 1
       ELSE sock' = "line" /\ UNCHANGED <<listening, dataLeft, stream, completes>>
    /\ UNCHANGED <<currentUrl, query, connState, size, done, resp, fails, redirects,
                   selfHops, requests>>

(* on(Failed): the socket failed, or the server closed the connection.    *)
SocketFailed ==
    /\ listening
    /\ sock \in {None, "connecting", "line", "data"}
    /\ AbortRequest
    /\ connState' = "FAILED"
    /\ fails' = fails + 1
    /\ UNCHANGED <<currentUrl, query, size, done, resp, completes, redirects,
                   selfHops, requests>>

\* the server closes the connection once it has sent its response
ServerClosed == stream = <<>> /\ sock \in {"line", "data"} /\ SocketFailed

-----------------------------------------------------------------------------
Init ==
    /\ currentUrl = None
    /\ query = NoQuery
    /\ connState = "UNKNOWN"
    /\ size = -1
    /\ done = 0
    /\ sock = None
    /\ dataLeft = 0
    /\ listening = FALSE
    /\ stream = <<>>
    /\ resp = None
    /\ completes = 0
    /\ fails = 0
    /\ redirects = 0
    /\ selfHops = 0
    /\ requests = 0

Next ==
    \/ \E url \in Urls : url.port = FALSE /\ DownloadFile(url)
    \/ Connected
    \/ Line
    \/ Data
    \/ ModeChange
    \/ SocketFailed

(* All handlers run on the socket's thread, which keeps reading; a server *)
(* that has sent its whole response closes the connection.  Network      *)
(* failures and the owner's calls get no fairness.                         *)
Fairness ==
    /\ WF_vars(Connected)
    /\ WF_vars(Line)
    /\ WF_vars(Data)
    /\ WF_vars(ModeChange)
    /\ WF_vars(ServerClosed)

Spec == Init /\ [][Next]_vars /\ Fairness

-----------------------------------------------------------------------------
(* Properties *)

TypeOK ==
    /\ currentUrl \in Urls \cup {None}
    /\ query \in Queries
    /\ connState \in {"UNKNOWN", "OK", "MOVED", "CHUNKED", "FAILED"}
    /\ size \in {-1} \cup 0..MaxBody
    /\ done \in 0..MaxBody
    /\ sock \in {None, "connecting", "line", "data", "modechange", "inert"}
    /\ dataLeft \in 0..MaxBody
    /\ listening \in BOOLEAN
    /\ resp \in Responses \cup {None}
    /\ completes \in Nat /\ fails \in Nat
    /\ redirects \in 0..MaxRedirects /\ selfHops \in Nat
    /\ requests \in 0..MaxRequests

(* The owner hears one outcome per downloadFile: at most one Complete or *)
(* Failed in all, whichever of the status, chunk, Location, data, mode    *)
(* change and socket failure paths ends it, including after redirects;   *)
(* abortRequest's removeListener is what keeps the dying socket quiet.   *)
OutcomeOnce == completes + fails <= 1

(* A 200 response framed by Content-Length or by chunks is complete when *)
(* Complete is fired: done is the whole body.  ModeChange must not       *)
(* complete a chunked response at the end of a chunk.                     *)
FramedBodyComplete ==
    (completes > 0 /\ resp.status = 200 /\ resp.framing # "close")
        => done = resp.body

(* Complete is fired only for a 200 response after its whole body, also  *)
(* when the server ends the body by closing the connection (HTTP/1.1      *)
(* with Connection: close, as the request says).                          *)
BodyComplete == completes > 0 => resp.status = 200 /\ done = resp.body

-----------------------------------------------------------------------------
(* Refinement: the owner's view of the request, read off the events      *)
(* fired for the current downloadFile.                                     *)
RequestStatus ==
    CASE requests = 0  -> "idle"
      [] completes > 0 -> "completed"
      [] fails > 0     -> "failed"
      [] OTHER         -> "running"

Request == INSTANCE HttpRequest WITH status <- RequestStatus, started <- requests

(* HttpConnection implements HttpRequest: every downloadFile ends with     *)
(* one Complete or one Failed, never both and never a second one, and     *)
(* under the socket thread's fairness a started request (through its      *)
(* redirects, chunks and mode changes) always reaches one of them.  A     *)
(* handler path that calls abortRequest without firing an event leaves   *)
(* the request running for ever.                                          *)
ImplementsHttpRequest == Request!Spec

====
