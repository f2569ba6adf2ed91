------------------------------- MODULE Pipeline -------------------------------
(***************************************************************************)
(* One API call at a time, from a method of the generated client through    *)
(* the server's middleware chain (server.go) to a handler and back:         *)
(*                                                                          *)
(*   PanicRecovery > metrics.Middleware > Timeout > MaxBodySize             *)
(*     > OapiRequestValidator > route > wrapper > strict handler > handler  *)
(*                                                                          *)
(* A middleware acts when the request reaches it and again, from the        *)
(* inside out, when the handler below it returns or panics.  The deadline   *)
(* of Timeout may pass and the client may hang up between any two steps.    *)
(* What the handlers do to the rest of the system is in Handlers; here      *)
(* they answer anything they can answer.                                    *)
(***************************************************************************)
EXTENDS ServerApi

CONSTANTS Id,     \* ids a caller passes, "health" and "" among them
          Field   \* names a caller puts into a spec

VARIABLES call,     \* the client's call: [op, id, spec, large], or None
          at,       \* where the request is
          served,   \* the operation chi routed the request to
          seen,     \* the decoded spec the handler gets
          reply,    \* what is on the wire: the first header wins
          code,     \* statusWriter.code
          counted,  \* the code RequestsTotal was incremented for
          fate,     \* what happened on the way: "expired", "panic", "hangup", "broken"
          result    \* what the client's method returned

pipelineVars == <<call, at, served, seen, reply, code, counted, fate, result>>

Places == {"client", "validator", "router", "wrapper", "strict", "handler",
           "timeout", "metrics", "recovery", "wire"}

Fates == {"expired", "panic", "hangup", "broken"}

\* The pointers of the spec that a create takes.
SpecFields(op) == IF op = "CreateVM" THEN VMSpecFields ELSE ClusterSpecFields

Specs(op) ==
    IF op \notin CreateOps THEN {None}
    ELSE [fields : SUBSET (Field \cap SpecFields(op)), extra : SUBSET Field]

Calls == UNION {[op : {op}, id : Id, spec : Specs(op),
                 large : IF op \in CreateOps THEN BOOLEAN ELSE {FALSE}] : op \in Ops}

\* The types the client has for the body of a reply.
Bodies == {"ClusterList", "Cluster", "VMList", "VM", "Health", "Error"}

Replies == [code : 100..599, type : JsonTypes \cup {"text/plain", None},
            body : Bodies \cup {"text", None}]

ASSUME PipelineAssumption ==
    /\ None \notin Ops \cup JsonTypes \cup Bodies
    /\ None \notin Calls \cup Replies \cup 100..599

PipelineTypeOK ==
    /\ call = None \/ call \in Calls
    /\ at \in Places
    /\ served \in Ops \cup {None}
    /\ reply = None \/ reply \in Replies
    /\ code \in 100..599 /\ counted \in 100..599 \cup {None}
    /\ fate \subseteq Fates
    /\ result \in Bodies \cup {None, "error", "undecoded"}

PipelineInit ==
    /\ call = None /\ at = "client" /\ served = None /\ seen = None
    /\ reply = None /\ code = 200 /\ counted = None /\ fate = {} /\ result = None

----------------------------------------------------------------------------
\* Request bodies and paths as the client's method builds them.
Body(c) == IF c.op = "CreateVM" THEN MarshalVMSpec(c.spec)
           ELSE MarshalClusterSpec(c.spec)

\* A mutant of Send: statusWriter starts without a code.
SendNoCode(c) ==
    /\ at = "client"
    /\ call' = c /\ at' = "validator"
    /\ served' = None /\ seen' = None /\ reply' = None /\ code' = 0
    /\ counted' = None /\ fate' = {} /\ result' = None

\* A method of ClientWithResponses builds its request, runs the request
\* editors over it and sends it.
Send(c) ==
    /\ at = "client"
    /\ call' = c /\ at' = "validator"
    /\ served' = None /\ seen' = None /\ reply' = None /\ code' = 200
    /\ counted' = None /\ fate' = {} /\ result' = None

\* The request is not built, an editor refuses it, or Do fails to connect.
SendFails(c) ==
    /\ at = "client"
    /\ call' = c /\ result' = "error"
    /\ served' = None /\ seen' = None /\ reply' = None /\ code' = 200
    /\ counted' = None /\ fate' = {}
    /\ UNCHANGED at

----------------------------------------------------------------------------
\* A mutant of Write: statusWriter does not override WriteHeader.
WriteUnrecorded(r) ==
    /\ reply' = IF reply = None THEN r ELSE reply
    /\ UNCHANGED code

\* http.ResponseWriter below the metrics middleware: WriteHeader is recorded
\* by statusWriter and sent unless a header has been sent.
Write(r) ==
    /\ code' = r.code
    /\ reply' = IF reply = None THEN r ELSE reply

\* A layer writes its reply and the chain starts to return.
AnswerWith(r) ==
    /\ Write(r)
    /\ at' = "timeout"
    /\ UNCHANGED <<call, served, seen, counted, fate, result>>

Goto(place) ==
    /\ at' = place
    /\ UNCHANGED <<call, reply, code, counted, fate, result>>

\* OapiRequestValidator: it reads a body, through MaxBodySize, to check it
\* against the schema, and answers in plain text.
Refuse ==
    /\ at = "validator"
    /\ \E c \in {400, 404} : AnswerWith(httpError(c))

Validate ==
    /\ at = "validator"
    /\ Goto("router") /\ UNCHANGED <<served, seen>>

RouteRequest ==
    /\ at = "router"
    /\ LET op == Route(NewRequest(call.op, call.id))
       IN  IF op = None THEN AnswerWith(httpError(404))
           ELSE /\ served' = op
                /\ Goto("wrapper") /\ UNCHANGED seen

Bind ==
    /\ at = "wrapper"
    /\ Goto("strict") /\ UNCHANGED <<served, seen>>

\* ErrorHandlerFunc of HandlerWithOptions.
BindFails ==
    /\ at = "wrapper" /\ Params(served) # {}
    /\ AnswerWith(httpError(400))

----------------------------------------------------------------------------
\* A body that does not decode goes to RequestErrorHandlerFunc, which tells
\* a body that MaxBodySize cut off from any other.
RequestError ==
    /\ at = "strict" /\ served \in CreateOps
    /\ AnswerWith(IF call.large THEN WriteRFC7807(413) ELSE WriteRFC7807(400))

Strict(ops, spec) ==
    /\ at = "strict" /\ served \in ops
    /\ served \in CreateOps => ~call.large
    /\ seen' = IF served \in CreateOps THEN spec ELSE None
    /\ Goto("handler") /\ UNCHANGED served

StrictCluster == Strict(ClusterOps, UnmarshalClusterSpec(Body(call)))

StrictHealth == Strict({"GetHealth"}, None)

StrictVM == Strict(VMOps, UnmarshalVMSpec(Body(call)))

\* The handler answers and the Visit method encodes the answer into a
\* buffer, then writes header and body.
Answer ==
    /\ at = "handler"
    /\ \E a \in Answers(served) : AnswerWith(a)

\* The body cannot be written: ResponseErrorHandlerFunc sends a second header.
VisitFails ==
    /\ at = "handler" /\ "hangup" \in fate
    /\ \E a \in Answers(served) :
           /\ a.body # None
           /\ reply' = a
           /\ code' = WriteRFC7807(500).code
    /\ fate' = fate \cup {"broken"}
    /\ at' = "timeout"
    /\ UNCHANGED <<call, served, seen, counted, result>>

Panic ==
    /\ at \in {"wrapper", "strict", "handler"}
    /\ fate' = fate \cup {"panic"}
    /\ at' = "timeout"
    /\ UNCHANGED <<call, served, seen, reply, code, counted, result>>

----------------------------------------------------------------------------
\* chi's middleware.Timeout returns, by a deferred function.
Timeout ==
    /\ at = "timeout"
    /\ IF "expired" \in fate THEN Write(Bare(504)) ELSE UNCHANGED <<reply, code>>
    /\ at' = "metrics"
    /\ UNCHANGED <<call, served, seen, counted, fate, result>>

\* metrics.Middleware: not deferred, a panic passes it by.
Middleware ==
    /\ at = "metrics"
    /\ counted' = IF "panic" \in fate THEN None ELSE code
    /\ at' = "recovery"
    /\ UNCHANGED <<call, served, seen, reply, code, fate, result>>

\* A mutant of PanicRecovery: the panic is recovered and not answered, and
\* net/http answers 200 for a handler that has written nothing.
PanicSwallowed ==
    /\ at = "recovery"
    /\ reply' = IF reply = None THEN Bare(200) ELSE reply
    /\ at' = "wire"
    /\ UNCHANGED <<call, served, seen, code, counted, fate, result>>

\* After a header without a Content-Type the problem is sent as what
\* net/http takes its first bytes for.
PanicRecovery ==
    /\ at = "recovery"
    /\ reply' = IF "panic" \notin fate THEN reply
                ELSE IF reply = None THEN WriteRFC7807(500)
                ELSE Reply(reply.code, "text/plain", "Error")
    /\ at' = "wire"
    /\ UNCHANGED <<call, served, seen, code, counted, fate, result>>

\* Client.Do returns and the Parse function fills one field of the response,
\* or no field; a broken connection is an error.
Receive ==
    /\ at = "wire"
    /\ result' = IF "hangup" \in fate THEN "error"
                 ELSE IF Decoded(call.op, reply) = None THEN "undecoded"
                 ELSE Decoded(call.op, reply)
    /\ at' = "client"
    /\ UNCHANGED <<call, served, seen, reply, code, counted, fate>>

----------------------------------------------------------------------------
\* The request's deadline passes while Timeout is on the stack.
Expire ==
    /\ at \in {"validator", "router", "wrapper", "strict", "handler", "timeout"}
    /\ fate' = fate \cup {"expired"}
    /\ UNCHANGED <<call, at, served, seen, reply, code, counted, result>>

HangUp ==
    /\ at # "client"
    /\ fate' = fate \cup {"hangup"}
    /\ UNCHANGED <<call, at, served, seen, reply, code, counted, result>>

Inward == Refuse \/ Validate \/ RouteRequest \/ Bind \/ BindFails \/ RequestError
          \/ StrictCluster \/ StrictHealth \/ StrictVM

Outward == Answer \/ VisitFails \/ Timeout \/ Middleware \/ PanicRecovery \/ Receive

PipelineNext ==
    \/ \E c \in Calls : Send(c) \/ SendFails(c)
    \/ Inward \/ Outward
    \/ Panic \/ Expire \/ HangUp

PipelineSpec == PipelineInit /\ [][PipelineNext]_pipelineVars

----------------------------------------------------------------------------
\* GET of a resource whose id is the name of the health path.
Shadowed == call.op \in {"GetVM", "GetCluster"} /\ call.id = "health"

HealthOps == {"GetHealth", "GetVMHealth", "GetClusterHealth"}

Finished == at = "client" /\ call # None

\* The client never hands its caller a value of the wrong type: what it
\* decodes a reply into is what the server wrote, for every operation and
\* every layer that may have answered, except for a resource with the id
\* "health".  It decodes every JSON reply but a problem on a health path,
\* whose response structs have no field for one.
RightDecoded ==
    Finished /\ result # "error" /\ ~Shadowed =>
        /\ result = reply.body \/ result = "undecoded"
        /\ reply.type \in JsonTypes /\ result = "undecoded"
           => reply.body = "Error" /\ call.op \in HealthOps

\* The handler of the operation the client called gets the request, with the
\* spec the caller gave: the struct's fields as fields, the rest as additional
\* properties.  An additional property named like a field takes its place.
DeliveredIntact ==
    at = "handler" /\ ~Shadowed =>
        /\ served = call.op
        /\ call.op \in CreateOps
           /\ call.spec.extra \cap (SpecFields(call.op) \cup {"service_type"}) = {}
           => seen = [fields |-> [f \in call.spec.fields \cup {"service_type"} |-> "field"],
                      extra  |-> [f \in call.spec.extra |-> "extra"]]

\* RequestsTotal counts the code the client got.  It counts another one only
\* for a request that outlived its deadline after it was answered (504) or
\* whose client hung up (500), and leaves out exactly the panics.
MetricsTruth ==
    at \in {"recovery", "wire"} =>
        /\ (counted = None) <=> ("panic" \in fate)
        /\ counted # None /\ counted # reply.code
           => \/ counted = 504 /\ "expired" \in fate
              \/ counted = 500 /\ "broken" \in fate

\* A panic is told to whoever is still there to be told: the client gets an
\* error, never an implicit 200, and its caller the problem that PanicRecovery
\* wrote, unless Timeout's deferred function, which runs before PanicRecovery,
\* has sent a bare 504 already or the operation's response has no field for a
\* problem.
PanicTold ==
    Finished /\ "panic" \in fate /\ result # "error" =>
        /\ reply.code = IF "expired" \in fate THEN 504 ELSE 500
        /\ result = IF "expired" \in fate \/ call.op \in HealthOps THEN "undecoded" ELSE "Error"
=============================================================================
