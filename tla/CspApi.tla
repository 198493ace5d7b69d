------------------------------- MODULE CspApi -------------------------------
(***************************************************************************)
(* How the step functions turn a CSP's HTTP answer into the response that  *)
(* the state machine sees (api/provision/csp-*.ts over                     *)
(* api/client/client.ts), and which responses the later steps accept.      *)
(* Payloads are abstracted to what those steps test: the status code and   *)
(* whether the response is an object, an object with a location, or not    *)
(* an object at all.                                                       *)
(***************************************************************************)
EXTENDS Naturals

CONSTANT Payloads  \* what the bodies of two CSP answers may differ in

\* ProvisionRequestType
Operations == {"ADD_PORTFOLIO", "ADD_ENVIRONMENT", "UPDATE_TASK_ORDER", "GET_PORTFOLIO",
               "ADD_TASK_ORDER", "ADD_ADMINISTRATOR"}

\* A request as ServiceNow posts it.  hasIds: the portfolio id, and for a task
\* order its id too, is there.
Requests == [op: Operations, hasIds: BOOLEAN]

\* An HTTP answer.  json: the body is a JSON object, which has no field named
\* location of its own; location: it carries a location header.  The status 500
\* stands for all that no one treats specially.
Statuses == {200, 202, 400, 404, 500}
Answers == [status: Statuses, json: BOOLEAN, location: BOOLEAN, payload: Payloads]

Shapes == {"object", "located", "other"}
OwnPayload == "none"   \* of a response that quotes no answer
Responses == [code: Statuses, shape: Shapes, payload: Payloads \cup {OwnPayload}]

\* A function that throws instead of responding, once errorHandlingMiddleware
\* has replaced its error by a response without code and content.
NoResponse == [code |-> 0, shape |-> "other", payload |-> OwnPayload]

\* cspPortfolioIdChecker, before the validator: the two operations whose
\* requests are turned away without a portfolio id.
Acceptable(request) ==
  request.op \in {"ADD_TASK_ORDER", "ADD_ADMINISTRATOR"} => request.hasIds

\* The operations StartState knows.
Handled == {"ADD_PORTFOLIO", "ADD_ENVIRONMENT", "UPDATE_TASK_ORDER", "GET_PORTFOLIO"}

\* Does the function of this operation reach its CSP call?
Calls(request) == request.op = "ADD_PORTFOLIO" \/ request.hasIds

\* What it responds when it does not: a 404 of its own, or a throw outside the
\* try block.
RefusedResponse(request) ==
  IF request.op = "GET_PORTFOLIO"
    THEN [code |-> 404, shape |-> "object", payload |-> OwnPayload]
    ELSE NoResponse

\* updateTaskOrder does not take a 202, although its type promises an asynchronous
\* response.
TaskOrderReturned == {200}

\* The statuses the client returns; it throws an AtatApiError for all others.
Returned(op) ==
  CASE op = "ADD_ENVIRONMENT" -> {200, 202}
    [] op = "UPDATE_TASK_ORDER" -> TaskOrderReturned
    [] OTHER -> {200}

\* Mutant: the location is not checked.
AsyncUnchecked(answer) ==
  [code |-> 202, shape |-> IF answer.location THEN "located" ELSE "object",
   payload |-> answer.payload]

\* transformAsynchronousResponse: an answer without a location becomes a 500.
AsyncResponse(answer) ==
  IF answer.location
    THEN [code |-> 202, shape |-> "located", payload |-> answer.payload]
    ELSE [code |-> 500, shape |-> "object", payload |-> OwnPayload]

\* makeRequest: what was returned is wrapped in an object; an AtatApiError, of
\* whatever name, becomes the status and the body of the answer.
CspResponse(op, answer) ==
  IF answer.status = 202 /\ answer.status \in Returned(op)
    THEN AsyncResponse(answer)
    ELSE [code |-> answer.status,
          shape |-> IF answer.status \in Returned(op) \/ answer.json THEN "object" ELSE "other",
          payload |-> answer.payload]

\* The codes the HttpResponse choice sends on to EnqueueResults; it has no
\* default branch.
Routed == {200, 202, 400, 402, 403, 404}

\* provisionResponseSchema: the response is an object, and the request is of one
\* of the types of provisionRequestSchema.
ValidResult(request, response) ==
  /\ request.op # "GET_PORTFOLIO"
  /\ response.shape \in {"object", "located"}
==============================================================================
