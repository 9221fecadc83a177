------------------------------ MODULE Gateway ------------------------------
(***************************************************************************)
(* One exchange with the backend cloudpool: a client's request from its    *)
(* dispatch (NewServer, pkg/proxy/server.go) to the answer that            *)
(* ForwardToBackend copies piece by piece, or a call of the proxy's own    *)
(* (doRequest, pkg/cloudpool/client.go).  Both use Forward.  Module Proxy  *)
(* relies on what is shown here: forwarded requests are not size updates,  *)
(* and a call of its own either has the backend's whole answer or fails.   *)
(***************************************************************************)
EXTENDS Integers, Sequences, SequencesExt

CONSTANTS
  Request,    \* records [caller, method, resource, form]
  Response,   \* what the backend may answer: records [status, length, chunked]
  ErrorLength \* the length of an error message; lengths are in pieces

VARIABLES
  pc,         \* "dispatch", "forward", "copy", "write" and "fail" (which wait
              \* for the client to take a piece or an error message), or the
              \* end: "handled" (by the operations of module Proxy),
              \* "answered" or "returned"
  request,
  asked,      \* history: what the backend has been asked
  response,   \* the backend's response, as far as its header goes
  arrived,    \* how many pieces of its body have arrived at the caller
  answer      \* what the caller gets: status (0: none yet), declared (the
              \* Content-Length, -1: none), body, and how it ended

gatewayVars == <<pc, request, asked, response, arrived, answer>>

NoResponse == [status |-> 0, length |-> 0, chunked |-> FALSE]
SizeUpdate == {"size", "terminate"}

(* A client that is redirected may ask again with GET. *)
Method == {r.method : r \in Request} \cup {"GET"}

(* A path is clean, or has a doubled slash or a trailing one. *)
RequestType ==
  [caller : {"client", "proxy"}, method : Method, resource : STRING,
   form : {"plain", "doubled", "slash"}]

ASSUME GatewayAssumption ==
  /\ Request \subseteq RequestType
  /\ Response \subseteq [status : Nat \ {0}, length : Nat, chunked : BOOLEAN]
  /\ ErrorLength \in Nat

GatewayInit ==
  /\ request \in Request
  /\ pc = IF request.caller = "client" THEN "dispatch" ELSE "forward"
  /\ asked = {}
  /\ response = NoResponse
  /\ arrived = 0
  /\ answer = [status |-> 0, declared |-> -1, body |-> <<>>, end |-> "none"]

-----------------------------------------------------------------------------
(* Dispatch.                                                               *)

(* cleanPath of the router (gorilla/mux): it removes doubled slashes and   *)
(* dots but keeps a trailing slash.                                        *)
cleanPath(form) == IF form = "doubled" THEN "plain" ELSE form

(* A path that is not clean is answered with a redirection (301), and the  *)
(* client asks again, most of them with GET.                               *)
Redirect ==
  /\ pc = "dispatch"
  /\ cleanPath(request.form) # request.form
  /\ \E m \in {request.method, "GET"} :
       request' = [request EXCEPT !.form = cleanPath(@), !.method = m]
  /\ UNCHANGED <<pc, asked, response, arrived, answer>>

(* Mutant of IsUpdateRoute: the route of /pool/size is missing. *)
IsTerminateRoute(r) == r.method = "POST" /\ r.resource = "terminate" /\ r.form = "plain"

(* The two routes that are not forwarded. *)
IsUpdateRoute(r) == r.method = "POST" /\ r.resource \in SizeUpdate /\ r.form = "plain"

Dispatch ==
  /\ pc = "dispatch"
  /\ cleanPath(request.form) = request.form
  /\ pc' = IF IsUpdateRoute(request) THEN "handled" ELSE "forward"
  /\ UNCHANGED <<request, asked, response, arrived, answer>>

-----------------------------------------------------------------------------
(* The answer to a client, through http.ResponseWriter (external): the     *)
(* first status counts, and a piece that would exceed the declared length  *)
(* is refused as a whole.                                                  *)

WriteHeader(a, status) == IF a.status = 0 THEN [a EXCEPT !.status = status] ELSE a

Write(a, pieces) ==
  IF a.declared >= 0 /\ Len(a.body) + Len(pieces) > a.declared THEN a
  ELSE [a EXCEPT !.body = @ \o pieces]

(* When the handler returns, an answer that is shorter than declared is    *)
(* cut off by closing the connection.                                      *)
Finish(a) ==
  [a EXCEPT !.end = IF a.declared >= 0 /\ Len(a.body) < a.declared THEN "cut off" ELSE "complete"]

writeErrorResponse(a, status) ==
  Write(WriteHeader(a, status), [k \in 1..ErrorLength |-> "error"])

-----------------------------------------------------------------------------
(* Forward, and what its two callers do with the response.                 *)

(* What an error leads to: ForwardToBackend turns to writeErrorResponse,   *)
(* doRequest returns the error.                                            *)
Fail ==
  \/ request.caller = "client" /\ pc' = "fail" /\ UNCHANGED answer
  \/ /\ request.caller = "proxy"
     /\ answer' = [answer EXCEPT !.end = "error"]
     /\ pc' = "returned"

(* poolURL: path.Clean removes a trailing slash as well. *)
poolURL(r) == [method |-> r.method, resource |-> r.resource, form |-> "plain"]

(* The request is lost on the way, or the response is. *)
ForwardFails ==
  /\ pc = "forward"
  /\ asked' \in {asked, asked \cup {poolURL(request)}}
  /\ Fail
  /\ UNCHANGED <<request, response, arrived>>

(* Mutant of copyHeader: the status is not copied, and 200 is implied. *)
copyHeaderFields(a, r) ==
  WriteHeader([a EXCEPT !.declared = IF r.chunked THEN -1 ELSE r.length], 200)

(* Mutant of copyHeader: the header fields are not copied. *)
copyStatus(a, r) == WriteHeader(a, r.status)

(* The header fields, the Content-Length among them, and the status. *)
copyHeader(a, r) ==
  WriteHeader([a EXCEPT !.declared = IF r.chunked THEN -1 ELSE r.length], r.status)

Forward ==
  /\ pc = "forward"
  /\ asked' = asked \cup {poolURL(request)}
  /\ response' \in Response
  /\ answer' = copyHeader(answer, response')
  /\ pc' = "copy"
  /\ UNCHANGED <<request, arrived>>

(* ioutil.ReadAll appends what it reads; io.Copy goes on to write it. *)
ReadPiece ==
  /\ pc = "copy"
  /\ arrived < response.length
  /\ \/ /\ request.caller = "proxy"
        /\ arrived' = arrived + 1
        /\ answer' = Write(answer, <<"backend">>)
        /\ UNCHANGED pc
     \/ request.caller = "client" /\ pc' = "write" /\ UNCHANGED <<arrived, answer>>
  /\ UNCHANGED <<request, asked, response>>

(* io.Copy's Write returns when the client has taken enough of what was    *)
(* written before, however long that takes; the backend is not read        *)
(* meanwhile, and its timeout is not noticed.                              *)
WritePiece ==
  /\ pc = "write"
  /\ arrived' = arrived + 1
  /\ answer' = Write(answer, <<"backend">>)
  /\ pc' = "copy"
  /\ UNCHANGED <<request, asked, response>>

(* writeErrorResponse of ForwardToBackend: 502, if it is not too late. *)
WriteError ==
  /\ pc = "fail"
  /\ answer' = Finish(writeErrorResponse(answer, 502))
  /\ pc' = "answered"
  /\ UNCHANGED <<request, asked, response, arrived>>

(* The client closes the connection, and Write fails: io.Copy ends, and    *)
(* the error message is written to no one.                                 *)
HangUp ==
  /\ pc \in {"write", "fail"}
  /\ answer' = [answer EXCEPT !.end = "cut off"]
  /\ pc' = "answered"
  /\ UNCHANGED <<request, asked, response, arrived>>

(* The connection breaks, or the client's timeout (http.Client.Timeout     *)
(* includes the body) runs out before the end of the body is seen.         *)
BodyBreaks ==
  /\ pc = "copy"
  /\ arrived < response.length \/ response.chunked
  /\ Fail
  /\ UNCHANGED <<request, asked, response, arrived>>

(* Mutant of returnBody: the status is not looked at. *)
returnAnyBody(a) == [a EXCEPT !.end = "body"]

(* doRequest: a status other than 200 is an error. *)
returnBody(a) == [a EXCEPT !.end = IF a.status = 200 THEN "body" ELSE "error"]

BodyEnds ==
  /\ pc = "copy"
  /\ arrived = response.length
  /\ \/ request.caller = "client" /\ answer' = Finish(answer) /\ pc' = "answered"
     \/ request.caller = "proxy" /\ answer' = returnBody(answer) /\ pc' = "returned"
  /\ UNCHANGED <<request, asked, response, arrived>>

Exchange ==
  \/ Redirect \/ Dispatch \/ ForwardFails \/ Forward \/ ReadPiece \/ BodyBreaks \/ BodyEnds
  \/ WritePiece \/ WriteError \/ HangUp

-----------------------------------------------------------------------------
(* Properties.                                                             *)

Body(n) == [k \in 1..n |-> "backend"]

(* Server "forwards all requests to a backend cloudpool, except for        *)
(* operations that affect the size of the cloudpool": the backend is not   *)
(* asked by the forwarding path to set the size or to terminate a machine, *)
(* unless the client's path has a trailing slash, which the routes do not  *)
(* match and poolURL removes: the `POST /pool/terminate/` that a comment   *)
(* of server_test.go names is forwarded.                                   *)
SizeUpdatesAreNotForwarded ==
  request.caller = "client" /\ request.form # "slash" =>
    \A a \in asked : ~(a.method = "POST" /\ a.resource \in SizeUpdate)

(* ForwardToBackend: the client's answer begins like the backend's, with   *)
(* its status and as much of its body as was passed on, and is the         *)
(* backend's if all of it was; an error of the proxy's own never comes     *)
(* before it, and no piece is missing, however slowly the client reads.    *)
AnswerFollowsTheBackend ==
  request.caller = "client" /\ response # NoResponse =>
    /\ answer.status = response.status
    /\ IsPrefix(Body(arrived), answer.body)
    /\ (arrived = response.length /\ ~response.chunked /\ pc = "answered" =>
          answer.body = Body(response.length) /\ answer.end = "complete")

(* "pass a copy of the backend response to the client": when the backend's *)
(* body breaks off after its header was passed on, the client can tell,    *)
(* since its answer is cut off.  It cannot if no length was declared, or   *)
(* if the error message that is appended makes up for what is missing.     *)
BrokenBodyIsNoticed ==
  pc = "answered" /\ ~response.chunked /\ arrived < response.length =>
    answer.end = "cut off" \/ arrived + ErrorLength = response.length

(* doRequest returns a body only if the backend reported success and all   *)
(* of the body has arrived; so the operations never decide from a part of  *)
(* the machine pool.                                                       *)
ResultIsWhole ==
  answer.end = "body" => response.status = 200 /\ answer.body = Body(response.length)
=============================================================================
