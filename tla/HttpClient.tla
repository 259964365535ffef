------------------------------ MODULE HttpClient ------------------------------
(***************************************************************************)
(* The HTTPX snapshot of examples/eval-repos: tasks that share one         *)
(* AsyncClient, its cookie store and one DigestAuth, against servers that  *)
(* redirect, challenge and fail.  A step runs from one await to the next;  *)
(* a task can fail or be cancelled at every await.                         *)
(***************************************************************************)
EXTENDS Integers, Sequences, FiniteSets, TLC

CONSTANTS
    Tasks,
    Urls,           \* records [scheme, host]; ports are the default ones
    Requests,       \* what a task may ask for: [method, url, body, auth, follow, stream]
    Statuses,       \* status codes the servers answer with
    MaxRedirects,   \* max_redirects
    MaxNonces       \* bound: challenges the servers issue

ASSUME HttpAssumption ==
    /\ MaxRedirects \in Nat /\ MaxNonces \in Nat
    /\ Urls \subseteq [scheme : {"http", "https"}, host : STRING]
    /\ Requests \subseteq [method : {"GET", "OPTIONS", "HEAD", "POST", "PUT", "PATCH", "DELETE"}, url : Urls, body : {"none", "bytes", "generator"},
                           auth : {"none", "basic", "digest"}, follow : BOOLEAN, stream : BOOLEAN]
    /\ Statuses \subseteq 200..599

VARIABLES
    client,         \* _state
    jar,            \* hosts with a cookie in the client's store
    challenge,      \* DigestAuth: nonce of _last_challenge (0: none) and _nonce_count
    nonces,         \* nonces the servers have issued
    built,          \* history: (nonce, count) pairs put into a header
    repeated,       \* history: some pair was put into a header again
    task            \* task -> where its send is

httpVars == <<client, jar, challenge, nonces, built, repeated, task>>

NoHeader == [for |-> [scheme |-> "none", host |-> "none"], nonce |-> 0, nc |-> 0]
NoTask == [pc |-> "idle", ask |-> [method |-> "none"], stage |-> "first", req |-> [method |-> "none"], cookie0 |-> {},
           spent |-> FALSE, hollow |-> FALSE, n |-> 0, open |-> {}, hist |-> <<>>, outer |-> <<>>, history |-> <<>>, end |-> "none"]

Put(t, fields) == task' = [task EXCEPT ![t] = fields @@ @]

-------------------------------------------------------------------------------
(* Requests *)

\* CookieJar.add_cookie_header (standard library): the cookies of the request's host.
CookieHeader(store, url) == store \cap {url.host}

\* Request._prepare: a body has Content-Length or Transfer-Encoding, and these methods always.
Framed(method, body) == body # "none" \/ method \in {"POST", "PUT", "PATCH"}

\* build_request: the request with what the client adds to it.
BuildRequest(ask) ==
    [method |-> ask.method, url |-> ask.url, body |-> ask.body, framed |-> Framed(ask.method, ask.body),
     cookie |-> CookieHeader(jar, ask.url), auth |-> NoHeader]

\* _same_origin, _is_https_redirect
SameOrigin(url, other) == url = other
IsHttpsRedirect(url, location) ==
    url.host = location.host /\ url.scheme = "http" /\ location.scheme = "https"

RedirectMethod(method, status) ==
    IF (status \in {302, 303} /\ method # "HEAD") \/ (status = 301 /\ method = "POST") THEN "GET" ELSE method

\* _redirect_url: a Location without a host, or without anything before its path, is completed.
RedirectUrl(req, location) ==
    IF location.host # "" THEN location
    ELSE [host |-> req.url.host, scheme |-> IF location.scheme # "" THEN location.scheme ELSE req.url.scheme]

\* Mutant: credentials follow every redirect.
MutRedirectAuth(req, url) == req.auth
\* _redirect_headers, first half
RedirectAuth(req, url) ==
    IF SameOrigin(url, req.url) \/ IsHttpsRedirect(req.url, url) THEN req.auth ELSE NoHeader

\* _redirect_stream and the content headers of _redirect_headers
DropsBody(req, method) == method # req.method /\ method = "GET"

RedirectFramed(req, method) == req.framed /\ ~ DropsBody(req, method)

\* headers.pop("Cookie"), then Request(cookies=Cookies(self.cookies))
RedirectCookie(store, req, url) == CookieHeader(store, url)

\* _build_redirect_request
RedirectRequest(req, status, location, store) ==
    LET method == RedirectMethod(req.method, status)
        url == RedirectUrl(req, location)
    IN [method |-> method, url |-> url, body |-> IF DropsBody(req, method) THEN "none" ELSE req.body,
        framed |-> RedirectFramed(req, method),
        cookie |-> RedirectCookie(store, req, url), auth |-> RedirectAuth(req, url)]

NoLocation == [scheme |-> "", host |-> ""]
\* Absolute, relative, or a scheme and a path.
Locations == Urls \cup {NoLocation, [scheme |-> "https", host |-> ""]}
HasRedirectLocation(status) == status \in {301, 302, 303, 307, 308}

-------------------------------------------------------------------------------
(* Authentication *)

\* DigestAuth._build_auth_header: the header names the nonce and its count, which advances.
Stamped(state, url) ==
    [header |-> [for |-> url, nonce |-> state.nonce, nc |-> state.count],
     state |-> [state EXCEPT !.count = @ + 1]]

Remember(header) ==
    /\ built' = IF header.nonce = 0 THEN built ELSE built \cup {<<header.nonce, header.nc>>}
    /\ repeated' = (repeated \/ <<header.nonce, header.nc>> \in built)

\* auth_flow up to the first yield: BasicAuth, DigestAuth with a challenge it remembers, and others.
FlowStart(ask) ==
    IF ask.auth = "digest" /\ challenge.nonce # 0 THEN Stamped(challenge, ask.url)
    ELSE [state |-> challenge,
          header |-> IF ask.auth = "basic" THEN [for |-> ask.url, nonce |-> 0, nc |-> 0] ELSE NoHeader]

\* DigestAuth.auth_flow after the first yield: only the first 401 with a Digest challenge is answered.
Challenges(t, status) == task[t].ask.auth = "digest" /\ task[t].stage = "first" /\ status = 401

\* The request of the flow again, with the new header; a cookie that came with the challenge is added
\* to it unless it has a Cookie header.
RetryRequest(ask, cookie0, header, setCookie, from) ==
    [BuildRequest(ask) EXCEPT !.auth = header,
        !.cookie = IF cookie0 # {} THEN cookie0
                   ELSE IF setCookie /\ from.host = ask.url.host THEN {from.host} ELSE {}]

-------------------------------------------------------------------------------
(* AsyncClient *)

HttpInit ==
    /\ client = "unopened" /\ jar = {} /\ challenge = [nonce |-> 0, count |-> 1]
    /\ nonces = 0 /\ built = {} /\ repeated = FALSE
    /\ task = [t \in Tasks |-> NoTask]

\* __aenter__: RuntimeError unless the client was never used.
Enter == /\ client = "unopened" /\ client' = "opened"
         /\ UNCHANGED <<jar, challenge, nonces, built, repeated, task>>
\* aclose, __aexit__
Close == /\ client # "closed" /\ client' = "closed"
         /\ UNCHANGED <<jar, challenge, nonces, built, repeated, task>>

\* The guard of send.
Admitted == client # "closed"

\* send up to the first await.
Send(t, ask, request) ==
    /\ task[t].pc = "idle"
    /\ IF Admitted
       THEN /\ client' = "opened"
            /\ LET flow == FlowStart(ask)
                   req == [request EXCEPT !.auth = flow.header]
               IN /\ challenge' = flow.state /\ Remember(flow.header)
                  /\ Put(t, [pc |-> "send", ask |-> ask, req |-> req, cookie0 |-> req.cookie])
       ELSE /\ Put(t, [pc |-> "done", ask |-> ask, end |-> "RuntimeError"])
            /\ UNCHANGED <<client, challenge, built, repeated>>
    /\ UNCHANGED <<jar, nonces>>

\* request, stream, get, post, ...
Request(t, ask) == Send(t, ask, BuildRequest(ask))

\* `except BaseException: await response.aclose(); raise`: every level closes the response it holds.
Raise(t, e) == Put(t, [pc |-> "done", end |-> e, open |-> task[t].open \ {task[t].n}])

\* transport error, raising request hook or cancellation while a request is under way
SendFails(t) ==
    /\ task[t].pc = "send" /\ Put(t, [pc |-> "done", end |-> "error", spent |-> TRUE])
    /\ UNCHANGED <<client, jar, challenge, nonces, built, repeated>>

\* AsyncIteratorByteStream.__aiter__: a generator is sent once.
Replayable(t) == task[t].req.body # "generator" \/ ~ task[t].spent
SendRefused(t) ==
    /\ task[t].pc = "send" /\ ~ Replayable(t)
    /\ Put(t, [pc |-> "done", end |-> "StreamConsumed"])
    /\ UNCHANGED <<client, jar, challenge, nonces, built, repeated>>

\* response.history = list(history)
History(hist, n) == hist

\* _send_single_request up to what the response's status decides, then the rest of
\* _send_handling_redirects and the auth flow up to the next await.
Answered(t, status, location, setCookie) ==
    LET me == task[t]
        id == me.n + 1
        got == [n |-> id, open |-> me.open \cup {id}, spent |-> me.spent \/ me.req.body = "generator",
                history |-> History(me.hist, id), hollow |-> me.spent /\ me.req.body = "generator"]
    IN \/ /\ HasRedirectLocation(status) /\ me.ask.follow
          /\ Put(t, [pc |-> "drain", req |-> RedirectRequest(me.req, status, location, jar')] @@ got)
          /\ UNCHANGED <<challenge, nonces, built, repeated>>
       \/ /\ ~ (HasRedirectLocation(status) /\ me.ask.follow) /\ ~ Challenges(t, status)
          /\ Put(t, [pc |-> IF me.ask.stream THEN "streaming" ELSE "final"] @@ got)
          /\ UNCHANGED <<challenge, nonces, built, repeated>>
       \/ /\ Challenges(t, status)
          /\ nonces < MaxNonces /\ nonces' = nonces + 1
          /\ LET s == Stamped([nonce |-> nonces', count |-> 1], me.ask.url)
             IN /\ challenge' = s.state /\ Remember(s.header)
                /\ Put(t, [pc |-> "challenged", stage |-> "retry", history |-> me.outer,
                           req |-> RetryRequest(me.ask, me.cookie0, s.header, setCookie, me.req.url)] @@ got)

KeepCookie(t, setCookie) == jar' = IF setCookie THEN jar \cup {task[t].req.url.host} ELSE jar

Exchange(t, status, location, setCookie) ==
    /\ task[t].pc = "send" /\ Replayable(t)
    /\ KeepCookie(t, setCookie)
    /\ Answered(t, status, location, setCookie)
    /\ UNCHANGED client

\* A response hook raises, or the Location cannot be parsed: the response is closed, its cookies stay.
ExchangeFails(t, setCookie) ==
    /\ task[t].pc = "send" /\ Replayable(t)
    /\ KeepCookie(t, setCookie)
    /\ Put(t, [n |-> task[t].n + 1, spent |-> TRUE, pc |-> "done", end |-> "error"])
    /\ UNCHANGED <<client, challenge, nonces, built, repeated>>

\* response.aread(): to the end of the body, which closes the response.
ReadUp(t) == task[t].open \ {task[t].n}

\* The check at the top of _send_handling_redirects.
TooMany(hist) == Len(hist) > MaxRedirects

Loop(t, hist, fields) ==
    Put(t, [open |-> ReadUp(t), hist |-> hist] @@
           (IF TooMany(hist) THEN [pc |-> "done", end |-> "TooManyRedirects"] ELSE [pc |-> "send"]) @@ fields)

\* The rest of the redirect loop: the redirect is read and becomes history.
Drained(t) ==
    /\ task[t].pc = "drain" /\ Loop(t, Append(task[t].hist, task[t].n), [end |-> "none"])
    /\ UNCHANGED <<client, jar, challenge, nonces, built, repeated>>
\* The rest of the auth loop: the challenge is read and becomes history; the redirects before it are dropped.
ChallengeRead(t) ==
    LET outer == Append(task[t].outer, task[t].n)
    IN /\ task[t].pc = "challenged" /\ Loop(t, outer, [outer |-> outer, end |-> "none"])
       /\ UNCHANGED <<client, jar, challenge, nonces, built, repeated>>
\* The end of send, and of a streamed response: read, or closed by the context manager.
Returned(t) ==
    /\ task[t].pc = "final" /\ Put(t, [pc |-> "done", end |-> "response", open |-> ReadUp(t)])
    /\ UNCHANGED <<client, jar, challenge, nonces, built, repeated>>
StreamClosed(t) ==
    /\ task[t].pc = "streaming" /\ Put(t, [pc |-> "done", end |-> "response", open |-> task[t].open \ {task[t].n}])
    /\ UNCHANGED <<client, jar, challenge, nonces, built, repeated>>
\* The body breaks off, or the task is cancelled while it reads.
ReadFails(t) ==
    /\ task[t].pc \in {"drain", "challenged", "final"} /\ Raise(t, "error")
    /\ UNCHANGED <<client, jar, challenge, nonces, built, repeated>>

HttpNext ==
    \/ Enter \/ Close
    \/ \E t \in Tasks, ask \in Requests : Request(t, ask)
    \/ \E t \in Tasks, status \in Statuses, setCookie \in BOOLEAN :
          \E location \in IF HasRedirectLocation(status) THEN Locations ELSE {NoLocation} :
              Exchange(t, status, location, setCookie)
    \/ \E t \in Tasks, setCookie \in BOOLEAN : ExchangeFails(t, setCookie)
    \/ \E t \in Tasks : \/ SendFails(t) \/ SendRefused(t) \/ Drained(t) \/ ChallengeRead(t)
                        \/ Returned(t) \/ StreamClosed(t) \/ ReadFails(t)

-------------------------------------------------------------------------------
(* Properties *)

HttpTypeOK ==
    /\ client \in {"unopened", "opened", "closed"} /\ jar \subseteq {u.host : u \in Urls}
    /\ challenge.nonce \in 0..nonces /\ challenge.count \in Nat
    /\ \A t \in Tasks : /\ task[t].open \subseteq 1..task[t].n
                        /\ task[t].n <= 2 * (MaxRedirects + 1)
                        /\ Len(task[t].hist) <= MaxRedirects + 1

\* send, _send_handling_auth, _send_handling_redirects: when a send is over, by a returned, drained or
\* streamed and closed response, or by an error at any await, no response it received holds its
\* connection; before, at most the response that is being looked at does.
NoConnectionIsLeft ==
    \A t \in Tasks : task[t].open \subseteq (IF task[t].pc = "done" THEN {} ELSE {task[t].n})

\* _redirect_headers: an Authorization header goes only to the origin it was made for, or to the same
\* host over HTTPS, and a Cookie header only to its host, over any chain of redirects and retries.
CredentialsStayHome ==
    \A t \in Tasks : task[t].pc = "send" =>
        LET req == task[t].req
        IN /\ req.auth # NoHeader => req.url = req.auth.for \/ IsHttpsRedirect(req.auth.for, req.url)
           /\ req.cookie \subseteq {req.url.host}

\* _redirect_method, _redirect_stream, IteratorByteStream: a request that is about to be sent has the
\* headers of the body it has, and a body that cannot be sent again is never sent as an empty one.
BodiesAreWhole ==
    \A t \in Tasks : LET req == task[t].req IN
        /\ task[t].pc = "send" => (req.framed <=> req.body # "none" \/ req.method \in {"POST", "PUT", "PATCH"})
        /\ ~ task[t].hollow

\* DigestAuth shared by tasks: no header repeats the nonce and count of another.
NonceCountsAreUnique == ~ repeated

\* response.history: without a challenge the returned response tells every response before it, in order.
HistoryIsComplete ==
    \A t \in Tasks : (task[t].end = "response" /\ task[t].stage = "first") =>
        task[t].history = [i \in 1..(task[t].n - 1) |-> i]

\* However a send goes on and ends, through redirects, challenges, failures and cancellation, it leaves
\* no connection, gives credentials to nobody else, sends whole bodies and tells its history.
SendsAreSafe ==
    /\ HttpTypeOK
    /\ NoConnectionIsLeft
    /\ CredentialsStayHome
    /\ BodiesAreWhole
    /\ NonceCountsAreUnique
    /\ HistoryIsComplete
===============================================================================
