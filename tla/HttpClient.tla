----------------------------- MODULE HttpClient -----------------------------
(***************************************************************************)
(* One request of the HTTP client (util/http_client.h): requestAsync with  *)
(* its redirects and its one deadline, exchange, and the URL a redirect    *)
(* leads to.  The server answers what it likes, or nothing, and time       *)
(* passes at any point.  A URL is a record: the directory and the file of  *)
(* its path, and what its query holds, which the code takes for a part of  *)
(* the path.                                                               *)
(***************************************************************************)
EXTENDS Naturals

CONSTANTS Hosts, Dirs,      \* the hosts, and the directories of paths
          FollowRedirect    \* redirects that are followed

Queries == {"none", "slash", "url"}    \* no slash in it, one, a URL ("://")
Urls == [scheme : {"http", "https"}, host : Hosts, dir : Dirs, query : Queries]
First == [scheme |-> "http", host |-> CHOOSE h \in Hosts : TRUE, dir |-> CHOOSE d \in Dirs : TRUE,
          query |-> "none"]
\* A location; what one of its kind does not spell out is as in First.
Locations ==
  {l \in [kind : {"absolute", "protocol", "rooted", "relative", "none"}, to : Urls] :
     /\ l.kind # "absolute" => l.to.scheme = First.scheme
     /\ l.kind \notin {"absolute", "protocol"} => l.to.host = First.host
     /\ l.kind = "relative" => l.to.dir = First.dir
     /\ l.kind = "none" => l.to = First}
Methods == {"GET", "POST", "HEAD"}
Statuses == {200, 302, 307}
Invalid == [scheme |-> "none", host |-> "none", dir |-> "none", query |-> "none"]

VARIABLES
  phase,     \* where the coroutine is
  url, method, body, count,   \* currentUrl, currentMethod, whether there is a body, redirectCount
  expired,   \* the deadline has passed
  reply,     \* the response of the last exchange
  result,    \* what is returned
  made       \* exchanges made

roundVars == <<url, method, body, count>>
vars == <<phase, roundVars, expired, reply, result, made>>

NoReply == [status |-> 0, location |-> [kind |-> "none", to |-> Invalid]]

Init ==
  /\ phase = "begin" /\ method \in Methods /\ body = (method = "POST")
  /\ url \in {u \in Urls : u.dir = First.dir /\ u.host = First.host}   \* they are alike
  /\ count = 0 /\ made = 0 /\ expired = FALSE
  /\ reply = NoReply /\ result = "none"

----------------------------------------------------------------------------
Expires == ~expired /\ expired' = TRUE
           /\ UNCHANGED <<phase, roundVars, reply, result, made>>

Returns(r) == phase' = "returned" /\ result' = r

\* The head of the loop: the deadline, then parseUrl.
Begins ==
  /\ phase = "begin"
  /\ IF expired THEN Returns("timeout")
     ELSE IF url = Invalid THEN Returns("error")
     ELSE phase' = "connecting" /\ UNCHANGED result
  /\ UNCHANGED <<roundVars, expired, reply, made>>

\* The name is resolved, the connection made, the handshake over, the request written.
Connected ==
  /\ phase = "connecting" /\ phase' = "exchanging"
  /\ made' = made + 1
  /\ UNCHANGED <<roundVars, expired, reply, result>>

\* Any of these steps fails.
Fails ==
  /\ phase \in {"connecting", "exchanging", "bodyless"} /\ Returns("error")
  /\ UNCHANGED <<roundVars, expired, reply, made>>

\* Slip: nothing limits the reading.
NotTheReading == {"connecting"}

\* What has no more than what is left of the time: all of these steps, and the reading.
Timed == {"connecting", "exchanging", "bodyless"}

TimesOut ==
  /\ phase \in Timed /\ expired /\ Returns("timeout")
  /\ UNCHANGED <<roundVars, expired, reply, made>>

\* The response has been read; a TLS stream is then shut down.
Answered(status, location) ==
  /\ phase = "exchanging"
  /\ reply' = [status |-> status, location |-> location]
  /\ phase' = IF url.scheme = "https" THEN "closing" ELSE "answered"
  /\ UNCHANGED <<roundVars, expired, result, made>>

\* The head of a response to HEAD: the parser is not told that no body follows it.
HeadAnswered ==
  /\ phase = "exchanging" /\ method = "HEAD" /\ phase' = "bodyless"
  /\ UNCHANGED <<roundVars, expired, reply, result, made>>

\* async_shutdown ends when the server closes its side; it has no deadline.
ShutDown ==
  /\ phase = "closing" /\ phase' = "answered"
  /\ UNCHANGED <<roundVars, expired, reply, result, made>>

isRedirectStatus(status) == status \in {302, 307}
redirectChangesToGet(status) == status = 302

\* A location with "://" in it is taken whole, and "//" as one with a host; what is neither is
\* put behind the host, or behind the last slash of the original.
resolveRedirectUrl(from, location) ==
  CASE location.kind = "absolute" -> location.to
    [] location.kind # "absolute" /\ location.to.query = "url" -> Invalid
    [] location.kind = "protocol" /\ location.to.query # "url" ->
         [location.to EXCEPT !.scheme = from.scheme]
    [] location.kind = "rooted" /\ location.to.query # "url" ->
         [location.to EXCEPT !.scheme = from.scheme, !.host = from.host]
    [] location.kind = "relative" /\ location.to.query # "url" ->
         [from EXCEPT !.dir = IF from.query = "none" THEN @ ELSE "inQuery",
                      !.query = location.to.query]

\* Slip: the body stays.
BodyStays(status) == body

\* What becomes of the body.
NextBody(status) == body /\ ~redirectChangesToGet(status)

\* A response that is a redirect, with a location, is followed while redirects are left.
MayFollow == count < FollowRedirect

Decides ==
  /\ phase = "answered"
  /\ IF MayFollow /\ isRedirectStatus(reply.status) /\ reply.location.kind # "none"
     THEN /\ phase' = "begin" /\ count' = count + 1
          /\ url' = resolveRedirectUrl(url, reply.location)
          /\ method' = IF redirectChangesToGet(reply.status) THEN "GET" ELSE method
          /\ body' = NextBody(reply.status)
          /\ UNCHANGED result
     ELSE Returns("response") /\ UNCHANGED roundVars
  /\ reply' = NoReply   \* a variable of the loop's body
  /\ UNCHANGED <<expired, made>>

----------------------------------------------------------------------------
\* Replies of the server; without a redirect it does not matter where it leads.
Replies == {r \in [status : Statuses, location : Locations] :
              isRedirectStatus(r.status) \/ r.location.kind = "none"}

Next ==
  \/ Expires \/ Begins \/ Connected \/ Fails \/ TimesOut \/ HeadAnswered \/ ShutDown \/ Decides
  \/ phase = "exchanging" /\ \E r \in Replies : Answered(r.status, r.location)

\* Time passes; the server need not answer.
Fairness == WF_vars(Expires) /\ WF_vars(Begins) /\ WF_vars(TimesOut) /\ WF_vars(Decides)

Spec == Init /\ [][Next]_vars /\ Fairness

----------------------------------------------------------------------------
\* A body goes only with the method it was given for, through any sequence of redirects, and no
\* more than FollowRedirect of them are followed (http_client.h:461-482).
BodyWithItsMethod == (body => method = "POST") /\ made <= FollowRedirect + 1

\* A redirect is followed to the place it names, where neither URL has a slash in its query
\* (http_client.h:171-191): a relative location stands in the directory of the URL before it.
RedirectTarget ==
  [][LET where == reply.location
     IN  count' > count /\ url.query = "none" /\ where.to.query = "none" =>
           /\ url'.dir = IF where.kind = "relative" THEN url.dir ELSE where.to.dir
           /\ url'.host = IF where.kind \in {"absolute", "protocol"} THEN where.to.host ELSE url.host
           /\ url'.scheme = IF where.kind = "absolute" THEN where.to.scheme ELSE url.scheme]_vars

\* A request returns, at the latest when its time is over, unless it is closing a TLS stream
\* (http_client.h:338-460).
RequestEnds == <>(phase \in {"returned", "closing"})

\* (Does not hold.)  A request returns when its time is over: the shutdown of a TLS stream has
\* no deadline (http_client.h:434-436), while everything before it has what is left of timeout.
RequestReturns == <>(phase = "returned")

\* (Does not hold.)  A redirect to a valid URL is followed: "/a?next=http://b" is taken for an
\* absolute URL, and is none (http_client.h:174).
RedirectFollowed ==
  phase = "begin" /\ count > 0 => url # Invalid /\ url.dir # "inQuery"

\* (Does not hold.)  The answer to HEAD is returned: test_http.cpp:504 has it "return headers
\* only, no body", and the client waits for a body (http_client.h:319-323).
HeadReturned == phase # "bodyless"
=============================================================================
