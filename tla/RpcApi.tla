------------------------------- MODULE RpcApi -------------------------------
(***************************************************************************)
(* RPCApi.Fetch of src/fe/src/lib/rpcapi.js.  A call goes through its two  *)
(* awaits as three steps: it is sent (lines 28-49), fetch() settles with a *)
(* response or a network error (line 52), and response.json() settles and  *)
(* the response is classified (lines 53-78).  Other code may run between   *)
(* these steps, so several calls can be in flight at once.                 *)
(*                                                                         *)
(* The catch block (lines 79-91) tests `err instanceof NetworkError` and   *)
(* `err instanceof AbortError`.  Neither is a global of any browser, so    *)
(* evaluating the test throws a ReferenceError, and the call rejects with  *)
(* that error.  Every error thrown inside the try block therefore ends as  *)
(* a ReferenceError.                                                       *)
(***************************************************************************)
EXTENDS Naturals

CONSTANTS
    Calls,          \* identities of the Fetch calls that may be made
    Methods,        \* RPC method names
    Payloads,       \* values a successful response carries in data.result
    None

\* What the server's HTTP response can look like, as far as Fetch reads it.
Statuses   == {200, 400}
JsonType   == "application/json"
Types      == {JsonType, "text/html"}
RpcErrors  == [code : {401, 500}, hasData : BOOLEAN]

\* status, content-type, whether the body parses as JSON, data.error (None
\* when absent; hasData: data.error.data is present) and data.result.
Response ==
    [status : Statuses, type : Types, json : BOOLEAN,
     error : {None} \cup RpcErrors, result : Payloads]

\* How the promise returned by Fetch settles.
Resolved(v)       == [kind |-> "resolve", value |-> v]
RPCError(code)    == [kind |-> "RPCError", code |-> code]
ValidationError   == [kind |-> "ValidationError"]
ReferenceError    == [kind |-> "ReferenceError"]

IsRejection(o) == o.kind # "resolve"

VARIABLES
    method,     \* call -> the method it was sent with
    fpc,        \* call -> "idle" | "sent" | "received" | "settled"
    fresp,      \* call -> the HTTP response once fetch() resolved
    fout        \* call -> how the call settled

rpcVars == <<method, fpc, fresp, fout>>

\* Seeded fault: the status check of line 55 dropped.
ClassifyNoStatus(r) ==
    CASE ~r.json -> ReferenceError
      [] r.type # JsonType -> RPCError(400)
      [] r.error = None -> Resolved(r.result)
      [] r.error.code = 401 /\ ~r.error.hasData -> ReferenceError
      [] r.error.code = 401 -> ValidationError
      [] OTHER -> RPCError(r.error.code)

\* Lines 53-78 with the catch block: a body that is not JSON throws at
\* line 53 before the status is looked at; a 401 error object without a
\* `data` member throws a TypeError at line 69; both end in the catch block.
Classify(r) ==
    CASE ~r.json -> ReferenceError
      [] r.status # 200 -> RPCError(400)
      [] r.type # JsonType -> RPCError(400)
      [] r.error = None -> Resolved(r.result)
      [] r.error.code = 401 /\ ~r.error.hasData -> ReferenceError
      [] r.error.code = 401 -> ValidationError
      [] OTHER -> RPCError(r.error.code)

\* The response a server sends when it handles a call with result p.
SuccessResponse(p) ==
    [status |-> 200, type |-> JsonType, json |-> TRUE, error |-> None, result |-> p]

\* One failing response for each way Fetch can reject: the view-model
\* functions only pass a rejection on, so responses that Fetch classifies
\* alike are interchangeable for them.
FailureOutcomes == {Classify(r) : r \in Response} \ {Classify(SuccessResponse("none"))}
FailureResponses ==
    {CHOOSE r \in Response : Classify(r) = o : o \in FailureOutcomes}

RpcInit ==
    /\ method = [c \in Calls |-> None]
    /\ fpc = [c \in Calls |-> "idle"]
    /\ fresp = [c \in Calls |-> None]
    /\ fout = [c \in Calls |-> None]

\* client.Fetch(m, params, session): the request is built and sent.
FetchSend(c, m) ==
    /\ fpc[c] = "idle"
    /\ fpc' = [fpc EXCEPT ![c] = "sent"]
    /\ method' = [method EXCEPT ![c] = m]
    /\ UNCHANGED <<fresp, fout>>

\* await fetch(request) rejects (network failure, abort): caught, and the
\* instanceof test in the catch block throws.
FetchNetworkError(c) ==
    /\ fpc[c] = "sent"
    /\ fpc' = [fpc EXCEPT ![c] = "settled"]
    /\ fout' = [fout EXCEPT ![c] = ReferenceError]
    /\ UNCHANGED <<method, fresp>>

\* Seeded fault: the response not kept for the json() continuation.
FetchReceiveNoStore(c, r) ==
    /\ fpc[c] = "sent"
    /\ fpc' = [fpc EXCEPT ![c] = "received"]
    /\ UNCHANGED <<method, fresp, fout>>

\* await fetch(request) resolves with response r.
FetchReceive(c, r) ==
    /\ fpc[c] = "sent"
    /\ fpc' = [fpc EXCEPT ![c] = "received"]
    /\ fresp' = [fresp EXCEPT ![c] = r]
    /\ UNCHANGED <<method, fout>>

\* await response.json() settles, and the response is classified.
FetchSettle(c) ==
    /\ fpc[c] = "received"
    /\ fpc' = [fpc EXCEPT ![c] = "settled"]
    /\ fout' = [fout EXCEPT ![c] = Classify(fresp[c])]
    /\ UNCHANGED <<method, fresp>>

RpcNext ==
    \E c \in Calls :
        \/ \E m \in Methods : FetchSend(c, m)
        \/ FetchNetworkError(c)
        \/ \E r \in Response : FetchReceive(c, r)
        \/ FetchSettle(c)

RpcSpec == RpcInit /\ [][RpcNext]_rpcVars

-----------------------------------------------------------------------------
RpcTypeOK ==
    /\ fpc \in [Calls -> {"idle", "sent", "received", "settled"}]
    /\ \A c \in Calls : fpc[c] = "received" => fresp[c] \in Response
    /\ \A c \in Calls : fpc[c] = "settled" => fout[c] # None

\* A call resolves only with the result of a 200 JSON response that carries
\* no error object, and a response of that kind always resolves: the
\* server's success is never reported as an error, nor an error as success.
ResolvesExactlyOnSuccess ==
    \A c \in Calls :
        fpc[c] = "settled" /\ fresp[c] # None =>
            ((fout[c].kind = "resolve") <=>
                 /\ fresp[c].json /\ fresp[c].status = 200
                 /\ fresp[c].type = JsonType /\ fresp[c].error = None)

\* Spec section 1: the RPC client classifies every response into success,
\* validation error or generic error (RPCError); the callers' catch blocks
\* and the pages rely on err.code / err.field being there.
RejectionsClassified ==
    \A c \in Calls :
        fpc[c] = "settled" => fout[c].kind \in {"resolve", "RPCError", "ValidationError"}
==============================================================================
