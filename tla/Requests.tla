------------------------------ MODULE Requests ------------------------------
(***************************************************************************)
(* The way of one JSON-RPC request through the node: the middleware of     *)
(* rpc/router.go, Server.ServeHTTP and handleRequest of rpc/server.go, the *)
(* parameter parsers and required fields of rpc/handlers.go, and what the  *)
(* service of rpc/service/node_service.go answers.  A request is what each *)
(* of these stages can tell apart.                                         *)
(***************************************************************************)
EXTENDS Naturals

VARIABLES req,    \* the request
          stage,  \* where it is
          reply   \* the answer: error code, 0 for a result, and the id

qvars == <<req, stage, reply>>

Methods == {"getBlock", "getTransaction", "sendTransaction", "getAccount", "getBalance",
  "getContract", "callContract", "estimateGas", "getContractState",
  "getTransactionReceipt", "getEvents", "getValidators", "getSupply",
  "getStateRoot", "getPendingTxs"}
Unparameterised == {"getSupply", "getStateRoot", "getPendingTxs"}
Positional == {"getBalance", "sendTransaction", "getValidators", "getTransactionReceipt"}
Optional == {"getBlock", "getEvents", "getValidators"} \cup Unparameterised

Shapes == [http : {"POST", "other"}, tokens : BOOLEAN,
           body : {"object", "large", "batch", "garbled"}, version : BOOLEAN,
           method : Methods \cup {"", "other"},
           params : {"named", "positional", "incomplete", "garbled"}]

NoReply == [code |-> 1, id |-> FALSE]

NoRequest == [http |-> "other", tokens |-> FALSE, body |-> "garbled", version |-> FALSE,
              method |-> "", params |-> "garbled"]

RequestsInit == req = NoRequest /\ stage = "none" /\ reply = NoReply

Arrive(r) == stage = "none" /\ stage' = "limit" /\ req' = r /\ UNCHANGED reply

Answer(code, id) == stage' = "answered" /\ reply' = [code |-> code, id |-> id]
Pass(next) == stage' = next /\ UNCHANGED reply

(* The router serves POST only.  BodySizeLimit only wraps the body; the    *)
(* rate limiter refuses without a token.  Request id and metrics follow    *)
(* and change nothing.                                                     *)
Middleware ==
  /\ stage = "limit"
  /\ CASE req.http # "POST" -> Answer(405, FALSE)
       [] req.http = "POST" /\ ~req.tokens -> Answer(429, FALSE)
       [] OTHER -> Pass("http")
  /\ UNCHANGED req

(* ValidateBatchRequest: the first character that is not blank.            *)
IsBatch(r) == r.body = "batch"

(* ServeHTTP: a body that is too large fails to read, a batch is refused   *)
(* by its first character, then the JSON object is parsed.  (Its answers   *)
(* to methods other than POST are never reached through the router.)       *)
ServeHTTP ==
  /\ stage = "http"
  /\ CASE req.body \in {"large", "garbled"} -> Answer(32700, FALSE)
       [] IsBatch(req) -> Answer(32600, FALSE)
       [] req.body = "object" -> Pass("validate")
  /\ UNCHANGED req

ValidateVersionOnly ==
  /\ stage = "validate"
  /\ IF req.version THEN Pass("dispatch") ELSE Answer(32600, TRUE)
  /\ UNCHANGED req

(* ValidateRequest.                                                        *)
ValidateRequest ==
  /\ stage = "validate"
  /\ IF req.version /\ req.method # "" THEN Pass("dispatch") ELSE Answer(32600, TRUE)
  /\ UNCHANGED req

(* handleRequest: the method's handler, or method not found.               *)
handleRequest ==
  /\ stage = "dispatch"
  /\ IF req.method \in Methods THEN Pass("params") ELSE Answer(32601, TRUE)
  /\ UNCHANGED req

(* Parsing the parameters: four methods also take an array.                *)
ParseParams ==
  /\ stage = "params"
  /\ IF \/ req.method \in Unparameterised
        \/ req.params \in {"named", "incomplete"}
        \/ req.params = "positional" /\ req.method \in Positional
       THEN Pass("fields") ELSE Answer(32602, TRUE)
  /\ UNCHANGED req

(* The handler's required fields.                                          *)
RequireFields ==
  /\ stage = "fields"
  /\ IF req.params = "incomplete" /\ req.method \notin Optional
       THEN Answer(32000, TRUE) ELSE Pass("service")
  /\ UNCHANGED req

(* Methods of nodeService that only ever fail: two have no implementation  *)
(* yet, and the binary search of EstimateGas starts at five million gas    *)
(* where CallContract refuses more than one million, and then goes up.     *)
Unavailable == {"getEvents", "getValidators", "estimateGas"}

(* The service: an invalid address, an account, block, contract or         *)
(* transaction that is not there, or a refused transaction is an error.    *)
Serve ==
  /\ stage = "service"
  /\ \/ req.method \notin Unavailable
        /\ ~(req.method = "getBlock" /\ req.params = "incomplete")
        /\ Answer(0, TRUE)
     \/ req.method \notin Unparameterised /\ Answer(32000, TRUE)
  /\ UNCHANGED req

Handle == Middleware \/ ServeHTTP \/ ValidateRequest \/ handleRequest
            \/ ParseParams \/ RequireFields \/ Serve
RequestsNext == Handle \/ \E r \in Shapes : Arrive(r)

(* What JSON-RPC 2.0 and the method's signature ask of a request.          *)
WellFormed(r) ==
  /\ r.http = "POST" /\ r.body = "object" /\ r.version /\ r.method \in Methods
  /\ r.method \notin Unparameterised =>
       /\ r.params # "garbled"
       /\ r.params = "positional" => r.method \in Positional
  /\ r.params = "incomplete" => r.method \in Optional

(* The service is reached by well-formed requests that had a token and by  *)
(* no others, and every other request is answered with the code of what is *)
(* wrong with it: a request without a method is invalid, not unknown.      *)
ServedIsWellFormed ==
  /\ stage = "service" => WellFormed(req) /\ req.tokens
  /\ reply.code = 0 => WellFormed(req)
  /\ reply.code = 32601 => req.method \notin Methods \cup {""}
  /\ (stage = "answered" /\ reply.code \in {32600, 32601, 32602, 32700}) => ~WellFormed(req)
=============================================================================
