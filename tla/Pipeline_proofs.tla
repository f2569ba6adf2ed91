--------------------------- MODULE Pipeline_proofs ---------------------------
(* What the client, the chain of middlewares and the generated server keep   *)
(* of a call, for any ids and any names in a spec.                           *)
EXTENDS Pipeline, TLAPS

(* The operations' tables *)

\* Replies that a layer above or below the handler of op may send, or the
\* handler itself.
RightReply(op, r) ==
    \/ r.type \notin JsonTypes
    \/ r = WriteRFC7807(500)
    \/ op \in CreateOps /\ r \in {WriteRFC7807(400), WriteRFC7807(413)}
    \/ r \in Answers(op)

\* A response struct whose fields are types of the API.
KnownTypes(parse) ==
    /\ \A c \in DOMAIN parse.byCode : parse.byCode[c] \in Bodies \cup {None}
    /\ parse.default \in Bodies \cup {None}

\* Its table has them if the entries of the table have.
LEMMA DecodesKnown ==
    ASSUME NEW ok, NEW body \in Bodies \cup {None}, NEW problems,
           NEW default \in Bodies \cup {None}
    PROVE  KnownTypes(Decodes(ok, body, problems, default))
  BY DEF KnownTypes, Decodes, Bodies

\* The Parse functions know no other types than those of the API.
LEMMA DecodedType ==
    ASSUME NEW op \in Ops, NEW r
    PROVE  Decoded(op, r) \in Bodies \cup {None}
<1>1. ParseResponse(op) \in {Decodes({200}, "ClusterList", {}, "Error"),
                             Decodes({201}, "Cluster", {400, 409}, "Error"),
                             Decodes({200, 503}, "Health", {}, None),
                             Decodes({}, None, {404}, "Error"),
                             Decodes({200}, "Cluster", {404}, "Error"),
                             Decodes({200}, "VMList", {}, "Error"),
                             Decodes({201}, "VM", {400, 409}, "Error"),
                             Decodes({200}, "VM", {404}, "Error")}
  BY DEF ParseResponse, OfOp, Ops, ClusterOps, VMOps, ParseClusterResponse,
         ParseGetHealthResponse, ParseVMResponse
<1>2. KnownTypes(ParseResponse(op))
  <2>1. {"ClusterList", "Cluster", "VMList", "VM", "Health", "Error", None} \subseteq Bodies \cup {None}
    BY DEF Bodies
  <2> QED BY <1>1, <2>1, DecodesKnown
<1> QED BY <1>2 DEF Decoded, KnownTypes

\* Every answer of a handler is a well-formed reply.
LEMMA AnswersType ==
    ASSUME NEW op \in Ops
    PROVE  Answers(op) \subseteq Replies
  BY DEF Answers, OfOp, Ops, ClusterOps, VMOps, ClusterAnswers, HealthAnswers, VMAnswers,
         Json, WriteRFC7807, Bare, Reply, Replies, JsonTypes, Bodies

\* The client decodes a reply of its own operation into what was written, or,
\* for a problem on a health path, into nothing.
LEMMA DecodeRight ==
    ASSUME NEW op \in Ops, NEW r \in Replies, RightReply(op, r)
    PROVE  /\ Decoded(op, r) = None \/ Decoded(op, r) = r.body
           /\ r.type \in JsonTypes /\ Decoded(op, r) = None
              => r.body = "Error" /\ op \in HealthOps
<1>1. CASE r.type \notin JsonTypes
  BY <1>1 DEF Decoded
<1>2. CASE r \in {WriteRFC7807(400), WriteRFC7807(413)} /\ op \in CreateOps
  BY <1>2, PipelineAssumption
     DEF Decoded, ParseResponse, OfOp, CreateOps, ClusterOps, VMOps, ParseClusterResponse,
         ParseVMResponse, Decodes, WriteRFC7807, Reply, JsonTypes, Bodies
<1>3. CASE r = WriteRFC7807(500)
  BY <1>3, PipelineAssumption
     DEF Decoded, ParseResponse, OfOp, Ops, ClusterOps, VMOps, ParseClusterResponse,
         ParseVMResponse, ParseGetHealthResponse, Decodes, WriteRFC7807, Reply, JsonTypes,
         Bodies, HealthOps
<1>4. CASE r \in Answers(op)
  BY <1>4, PipelineAssumption
     DEF Decoded, ParseResponse, OfOp, Ops, ClusterOps, VMOps, ParseClusterResponse,
         ParseVMResponse, ParseGetHealthResponse, Decodes, WriteRFC7807, Json, Bare, Reply,
         JsonTypes, Bodies, HealthOps, Answers, ClusterAnswers, HealthAnswers, VMAnswers
<1> QED BY <1>1, <1>2, <1>3, <1>4 DEF RightReply

\* What the client makes of the two replies to a panic.
LEMMA PanicDecoded ==
    ASSUME NEW op \in Ops
    PROVE  /\ Decoded(op, Reply(504, "text/plain", "Error")) = None
           /\ Decoded(op, WriteRFC7807(500)) = IF op \in HealthOps THEN None ELSE "Error"
<1>1. Decoded(op, Reply(504, "text/plain", "Error")) = None
  BY DEF Decoded, Reply, JsonTypes
<1>2. Decoded(op, WriteRFC7807(500)) = IF op \in HealthOps THEN None ELSE "Error"
  BY PipelineAssumption
     DEF Decoded, ParseResponse, OfOp, Ops, ClusterOps, VMOps, ParseClusterResponse,
         ParseVMResponse, ParseGetHealthResponse, Decodes, WriteRFC7807, Reply, JsonTypes,
         Bodies, HealthOps
<1> QED BY <1>1, <1>2

\* A pattern of one segment against a path of one,
LEMMA FitsOne ==
    ASSUME NEW a, NEW x, Fits(<<a>>, <<x>>)
    PROVE  a = x \/ a = "{id}"
<1> DEFINE p == <<a>>
           q == <<x>>
<1> HIDE DEF p, q
<1>1. Len(q) = 1 /\ p[1] = a /\ q[1] = x
  BY DEF p, q
<1>2. 1 \in 1..1
  OBVIOUS
<1>3. Fits(p, q)
  BY DEF p, q
<1> QED BY <1>1, <1>2, <1>3 DEF Fits

\* ... of two segments against a path of two,
LEMMA FitsTwo ==
    ASSUME NEW a, NEW b, NEW x, NEW y, Fits(<<a, b>>, <<x, y>>)
    PROVE  (a = x \/ a = "{id}") /\ (b = y \/ b = "{id}")
<1> DEFINE p == <<a, b>>
           q == <<x, y>>
<1> HIDE DEF p, q
<1>1. Len(q) = 2 /\ p[1] = a /\ q[1] = x /\ p[2] = b /\ q[2] = y
  BY DEF p, q
<1>2. 1 \in 1..2 /\ 2 \in 1..2
  OBVIOUS
<1>3. Fits(p, q)
  BY DEF p, q
<1> QED BY <1>1, <1>2, <1>3 DEF Fits

\* ... and when the lengths differ.
LEMMA FitsNot ==
    ASSUME NEW a, NEW x, NEW y
    PROVE  ~Fits(<<a>>, <<x, y>>) /\ ~Fits(<<x, y>>, <<a>>)
<1>1. Len(<<a>>) = 1 /\ Len(<<x, y>>) = 2
  OBVIOUS
<1> QED BY <1>1 DEF Fits

\* A path without a parameter fits itself.
LEMMA FitsItself == ASSUME NEW p PROVE Fits(p, p)
  BY DEF Fits

\* The pattern of o takes the request.
Takes(o, req) ==
    /\ HandlerWithOptions[o].method = req.method
    /\ Fits(HandlerWithOptions[o].path, req.path)

\* The operations whose path has one segment, and those where it has two.
One(o, m, x) ==
    \/ o = "ListClusters" /\ m = "GET" /\ x = "clusters"
    \/ o = "CreateCluster" /\ m = "POST" /\ x = "clusters"
    \/ o = "GetHealth" /\ m = "GET" /\ x = "health"
    \/ o = "ListVMs" /\ m = "GET" /\ x = "vms"
    \/ o = "CreateVM" /\ m = "POST" /\ x = "vms"

Two(o, m, x, y) ==
    \/ o = "GetClusterHealth" /\ m = "GET" /\ x = "clusters" /\ y = "health"
    \/ o = "DeleteCluster" /\ m = "DELETE" /\ x = "clusters" /\ y = "{id}"
    \/ o = "GetCluster" /\ m = "GET" /\ x = "clusters" /\ y = "{id}"
    \/ o = "GetVMHealth" /\ m = "GET" /\ x = "vms" /\ y = "health"
    \/ o = "DeleteVM" /\ m = "DELETE" /\ x = "vms" /\ y = "{id}"
    \/ o = "GetVM" /\ m = "GET" /\ x = "vms" /\ y = "{id}"

\* They are the routes of the server,
LEMMA Routes ==
    ASSUME NEW o \in Ops
    PROVE  \/ \E m, x : One(o, m, x) /\ HandlerWithOptions[o] = Request(m, <<x>>)
           \/ \E m, x, y : Two(o, m, x, y) /\ HandlerWithOptions[o] = Request(m, <<x, y>>)
<1>1. One("ListClusters", "GET", "clusters") /\ HandlerWithOptions["ListClusters"] = Request("GET", <<"clusters">>)
  BY DEF One, HandlerWithOptions
<1>2. One("CreateCluster", "POST", "clusters") /\ HandlerWithOptions["CreateCluster"] = Request("POST", <<"clusters">>)
  BY DEF One, HandlerWithOptions
<1>3. One("GetHealth", "GET", "health") /\ HandlerWithOptions["GetHealth"] = Request("GET", <<"health">>)
  BY DEF One, HandlerWithOptions
<1>4. One("ListVMs", "GET", "vms") /\ HandlerWithOptions["ListVMs"] = Request("GET", <<"vms">>)
  BY DEF One, HandlerWithOptions
<1>5. One("CreateVM", "POST", "vms") /\ HandlerWithOptions["CreateVM"] = Request("POST", <<"vms">>)
  BY DEF One, HandlerWithOptions
<1>6. /\ Two("GetClusterHealth", "GET", "clusters", "health")
      /\ HandlerWithOptions["GetClusterHealth"] = Request("GET", <<"clusters", "health">>)
  BY DEF Two, HandlerWithOptions
<1>7. /\ Two("DeleteCluster", "DELETE", "clusters", "{id}")
      /\ HandlerWithOptions["DeleteCluster"] = Request("DELETE", <<"clusters", "{id}">>)
  BY DEF Two, HandlerWithOptions
<1>8. /\ Two("GetCluster", "GET", "clusters", "{id}")
      /\ HandlerWithOptions["GetCluster"] = Request("GET", <<"clusters", "{id}">>)
  BY DEF Two, HandlerWithOptions
<1>9. /\ Two("GetVMHealth", "GET", "vms", "health")
      /\ HandlerWithOptions["GetVMHealth"] = Request("GET", <<"vms", "health">>)
  BY DEF Two, HandlerWithOptions
<1>10. /\ Two("DeleteVM", "DELETE", "vms", "{id}")
      /\ HandlerWithOptions["DeleteVM"] = Request("DELETE", <<"vms", "{id}">>)
  BY DEF Two, HandlerWithOptions
<1>11. /\ Two("GetVM", "GET", "vms", "{id}")
      /\ HandlerWithOptions["GetVM"] = Request("GET", <<"vms", "{id}">>)
  BY DEF Two, HandlerWithOptions
<1> QED
  BY <1>1, <1>2, <1>3, <1>4, <1>5, <1>6, <1>7, <1>8, <1>9, <1>10, <1>11 DEF Ops, ClusterOps, VMOps

\* ... and the requests of the client, with the id in its place.
LEMMA Requests ==
    ASSUME NEW op \in Ops, NEW id
    PROVE  \/ \E m, x : One(op, m, x) /\ NewRequest(op, id) = Request(m, <<x>>)
           \/ \E m, x, y : /\ Two(op, m, x, y) /\ y # "{id}"
                           /\ NewRequest(op, id) = Request(m, <<x, y>>)
           \/ \E m, x : Two(op, m, x, "{id}") /\ NewRequest(op, id) = Request(m, <<x, id>>)
<1> USE DEF NewRequest, OfOp, ClusterOps, VMOps
<1>1. One("ListClusters", "GET", "clusters") /\ NewRequest("ListClusters", id) = Request("GET", <<"clusters">>)
  BY DEF One, NewClusterRequest
<1>2. One("CreateCluster", "POST", "clusters") /\ NewRequest("CreateCluster", id) = Request("POST", <<"clusters">>)
  BY DEF One, NewClusterRequest
<1>3. One("GetHealth", "GET", "health") /\ NewRequest("GetHealth", id) = Request("GET", <<"health">>)
  BY DEF One, NewGetHealthRequest
<1>4. One("ListVMs", "GET", "vms") /\ NewRequest("ListVMs", id) = Request("GET", <<"vms">>)
  BY DEF One, NewVMRequest
<1>5. One("CreateVM", "POST", "vms") /\ NewRequest("CreateVM", id) = Request("POST", <<"vms">>)
  BY DEF One, NewVMRequest
<1>6. /\ Two("GetClusterHealth", "GET", "clusters", "health")
      /\ NewRequest("GetClusterHealth", id) = Request("GET", <<"clusters", "health">>)
  BY DEF Two, NewClusterRequest
<1>7. /\ Two("DeleteCluster", "DELETE", "clusters", "{id}")
      /\ NewRequest("DeleteCluster", id) = Request("DELETE", <<"clusters", id>>)
  BY DEF Two, NewClusterRequest
<1>8. /\ Two("GetCluster", "GET", "clusters", "{id}")
      /\ NewRequest("GetCluster", id) = Request("GET", <<"clusters", id>>)
  BY DEF Two, NewClusterRequest
<1>9. /\ Two("GetVMHealth", "GET", "vms", "health")
      /\ NewRequest("GetVMHealth", id) = Request("GET", <<"vms", "health">>)
  BY DEF Two, NewVMRequest
<1>10. /\ Two("DeleteVM", "DELETE", "vms", "{id}")
      /\ NewRequest("DeleteVM", id) = Request("DELETE", <<"vms", id>>)
  BY DEF Two, NewVMRequest
<1>11. /\ Two("GetVM", "GET", "vms", "{id}")
      /\ NewRequest("GetVM", id) = Request("GET", <<"vms", id>>)
  BY DEF Two, NewVMRequest
<1> HIDE DEF NewRequest, OfOp
<1> QED
  BY <1>1, <1>2, <1>3, <1>4, <1>5, <1>6, <1>7, <1>8, <1>9, <1>10, <1>11 DEF Ops

\* Which routes take a request of one segment,
LEMMA TakesOne ==
    ASSUME NEW o \in Ops, NEW m, NEW x, Takes(o, Request(m, <<x>>))
    PROVE  One(o, m, x)
<1>0. HandlerWithOptions[o].method = m /\ Fits(HandlerWithOptions[o].path, <<x>>)
  BY DEF Takes, Request
<1>1. CASE \E l, a : One(o, l, a) /\ HandlerWithOptions[o] = Request(l, <<a>>)
  <2>1. PICK l, a : One(o, l, a) /\ HandlerWithOptions[o] = Request(l, <<a>>)
    BY <1>1
  <2>2. l = m /\ Fits(<<a>>, <<x>>)
    BY <1>0, <2>1 DEF Request
  <2>3. a = x \/ a = "{id}"
    BY <2>2, FitsOne
  <2> QED BY <2>1, <2>2, <2>3 DEF One
<1>2. CASE \E l, a, b : Two(o, l, a, b) /\ HandlerWithOptions[o] = Request(l, <<a, b>>)
  BY <1>0, <1>2, FitsNot DEF Request
<1> QED BY <1>1, <1>2, Routes

\* ... and of two.
LEMMA TakesTwo ==
    ASSUME NEW o \in Ops, NEW m, NEW x, NEW y, Takes(o, Request(m, <<x, y>>))
    PROVE  Two(o, m, x, y) \/ Two(o, m, x, "{id}")
<1>0. HandlerWithOptions[o].method = m /\ Fits(HandlerWithOptions[o].path, <<x, y>>)
  BY DEF Takes, Request
<1>1. CASE \E l, a : One(o, l, a) /\ HandlerWithOptions[o] = Request(l, <<a>>)
  <2>1. PICK l, a : One(o, l, a) /\ HandlerWithOptions[o] = Request(l, <<a>>)
    BY <1>1
  <2>2. Fits(<<a>>, <<x, y>>)
    BY <1>0, <2>1 DEF Request
  <2> QED BY <2>2, FitsNot
<1>2. CASE \E l, a, b : Two(o, l, a, b) /\ HandlerWithOptions[o] = Request(l, <<a, b>>)
  <2>1. PICK l, a, b : Two(o, l, a, b) /\ HandlerWithOptions[o] = Request(l, <<a, b>>)
    BY <1>2
  <2>2. l = m /\ Fits(<<a, b>>, <<x, y>>)
    BY <1>0, <2>1 DEF Request
  <2>3. (a = x \/ a = "{id}") /\ (b = y \/ b = "{id}")
    BY <2>2, FitsTwo
  <2> QED BY <2>1, <2>2, <2>3 DEF Two
<1> QED BY <1>1, <1>2, Routes

\* A request fits its own operation's pattern at most, except between the
\* health path of a resource and its pattern with an id.
LEMMA TakesOwn ==
    ASSUME NEW op \in Ops, NEW id, NEW o \in Ops, Takes(o, NewRequest(op, id))
    PROVE  \/ o = op
           \/ op \in HealthOps /\ o \in {"GetVM", "GetCluster"}
           \/ op \in {"GetVM", "GetCluster"} /\ id = "health"
<1>1. CASE \E m, x : One(op, m, x) /\ NewRequest(op, id) = Request(m, <<x>>)
  <2>1. PICK m, x : One(op, m, x) /\ NewRequest(op, id) = Request(m, <<x>>)
    BY <1>1
  <2>2. One(o, m, x)
    BY <2>1, TakesOne
  <2> QED BY <2>1, <2>2 DEF One
<1>2. CASE \E m, x, y : /\ Two(op, m, x, y) /\ y # "{id}"
                        /\ NewRequest(op, id) = Request(m, <<x, y>>)
  <2>1. PICK m, x, y : /\ Two(op, m, x, y) /\ y # "{id}"
                       /\ NewRequest(op, id) = Request(m, <<x, y>>)
    BY <1>2
  <2>2. Two(o, m, x, y) \/ Two(o, m, x, "{id}")
    BY <2>1, TakesTwo
  <2> QED BY <2>1, <2>2 DEF Two, HealthOps
<1>3. CASE \E m, x : Two(op, m, x, "{id}") /\ NewRequest(op, id) = Request(m, <<x, id>>)
  <2>1. PICK m, x : Two(op, m, x, "{id}") /\ NewRequest(op, id) = Request(m, <<x, id>>)
    BY <1>3
  <2>2. Two(o, m, x, id) \/ Two(o, m, x, "{id}")
    BY <2>1, TakesTwo
  <2> QED BY <2>1, <2>2 DEF Two
<1> QED BY <1>1, <1>2, <1>3, Requests

\* The health path is a static one.
LEMMA HealthStatic ==
    ASSUME NEW op \in HealthOps, NEW id
    PROVE  /\ Takes(op, NewRequest(op, id))
           /\ HandlerWithOptions[op].path = NewRequest(op, id).path
           /\ \A o \in {"GetVM", "GetCluster"} :
                  HandlerWithOptions[o].path # NewRequest(op, id).path
<1>1. /\ HandlerWithOptions["GetHealth"] = Request("GET", <<"health">>)
      /\ HandlerWithOptions["GetClusterHealth"] = Request("GET", <<"clusters", "health">>)
      /\ HandlerWithOptions["GetVMHealth"] = Request("GET", <<"vms", "health">>)
      /\ HandlerWithOptions["GetCluster"] = Request("GET", <<"clusters", "{id}">>)
      /\ HandlerWithOptions["GetVM"] = Request("GET", <<"vms", "{id}">>)
  BY DEF HandlerWithOptions
<1>2. /\ NewRequest("GetHealth", id) = Request("GET", <<"health">>)
      /\ NewRequest("GetClusterHealth", id) = Request("GET", <<"clusters", "health">>)
      /\ NewRequest("GetVMHealth", id) = Request("GET", <<"vms", "health">>)
  BY DEF NewRequest, OfOp, ClusterOps, VMOps, NewClusterRequest, NewVMRequest, NewGetHealthRequest
<1>3. HandlerWithOptions[op] = NewRequest(op, id)
  BY <1>1, <1>2 DEF HealthOps
<1>4. \A a, b : /\ Request("GET", <<a, "{id}">>).path # Request("GET", <<"health">>).path
                /\ Request("GET", <<a, "{id}">>).path # Request("GET", <<b, "health">>).path
  BY DEF Request
<1>5. ASSUME NEW o \in {"GetVM", "GetCluster"}
      PROVE  HandlerWithOptions[o].path # NewRequest(op, id).path
  <2>1. HandlerWithOptions[o] \in {Request("GET", <<"clusters", "{id}">>), Request("GET", <<"vms", "{id}">>)}
    BY <1>1
  <2>2. NewRequest(op, id) \in {Request("GET", <<"health">>), Request("GET", <<"clusters", "health">>),
                                Request("GET", <<"vms", "health">>)}
    BY <1>2 DEF HealthOps
  <2> QED BY <1>4, <2>1, <2>2
<1> QED BY <1>3, <1>5, FitsItself DEF Takes

\* chi hands a request of the client to the operation it was made for, or to
\* none; only GET of the id "health" goes to the health endpoint.
LEMMA RouteRight ==
    ASSUME NEW op \in Ops, NEW id
    PROVE  /\ Route(NewRequest(op, id)) \in Ops \cup {None}
           /\ ~(op \in {"GetVM", "GetCluster"} /\ id = "health") =>
                  Route(NewRequest(op, id)) \in {op, None}
<1> DEFINE req == NewRequest(op, id)
           fit == {o \in Ops : Takes(o, req)}
           static == {o \in fit : HandlerWithOptions[o].path = req.path}
<1>1. Route(req) = IF fit = {} THEN None ELSE CHOOSE o \in fit : static = {} \/ o \in static
  BY DEF Route, Takes
<1>2. fit # {} => \E o \in fit : static = {} \/ o \in static
  OBVIOUS
<1>3. fit # {} => Route(req) \in fit /\ (static = {} \/ Route(req) \in static)
  BY <1>1, <1>2
<1>4. CASE op \in HealthOps
  <2>1. static = {op}
    <3>1. op \in static
      BY <1>4, HealthStatic
    <3>2. ASSUME NEW o \in static PROVE o = op
      <4>1. o \in {op, "GetVM", "GetCluster"}
        BY <1>4, TakesOwn DEF HealthOps
      <4> QED BY <1>4, <4>1, HealthStatic
    <3> QED BY <3>1, <3>2
  <2> QED BY <1>1, <1>3, <2>1
<1>5. CASE op \notin HealthOps /\ ~(op \in {"GetVM", "GetCluster"} /\ id = "health")
  <2>1. fit \subseteq {op}
    BY <1>5, TakesOwn
  <2> QED BY <1>1, <1>3, <2>1
<1>6. CASE op \in {"GetVM", "GetCluster"} /\ id = "health"
  BY <1>1, <1>3, <1>6
<1> QED BY <1>4, <1>5, <1>6

----------------------------------------------------------------------------
(* The spec of a create *)

\* The parts of a call.
LEMMA CallFields ==
    ASSUME NEW c \in Calls
    PROVE  c.op \in Ops /\ c.id \in Id /\ c.spec \in Specs(c.op)
<1> PICK op \in Ops : c \in [op : {op}, id : Id, spec : Specs(op),
                            large : IF op \in CreateOps THEN BOOLEAN ELSE {FALSE}]
  BY DEF Calls
<1> QED OBVIOUS

\* Writing a spec and reading it with the fields of its type gives the spec
\* back, unless an additional property has the name of a field.
LEMMA RoundTrip ==
    ASSUME NEW spec, NEW known, spec.fields \subseteq known,
           spec.extra \cap (known \cup {"service_type"}) = {}
    PROVE  Unmarshal(Marshal(spec, known), known \cup {"service_type"})
           = [fields |-> [f \in spec.fields \cup {"service_type"} |-> "field"],
              extra  |-> [f \in spec.extra |-> "extra"]]
<1> DEFINE body == Marshal(spec, known)
           all == known \cup {"service_type"}
<1>1. DOMAIN body = spec.fields \cup {"service_type"} \cup spec.extra
  BY DEF Marshal
<1>2. \A f \in DOMAIN body : body[f] = IF f \in spec.extra THEN "extra" ELSE "field"
  BY DEF Marshal
<1> HIDE DEF body
<1>3. /\ DOMAIN body \cap all = spec.fields \cup {"service_type"}
      /\ DOMAIN body \ all = spec.extra
  BY <1>1
<1>4. [f \in DOMAIN body \cap all |-> body[f]] = [f \in spec.fields \cup {"service_type"} |-> "field"]
  BY <1>2, <1>3
<1>5. [f \in DOMAIN body \ all |-> body[f]] = [f \in spec.extra |-> "extra"]
  BY <1>2, <1>3
<1>6. Unmarshal(body, all) = [fields |-> [f \in DOMAIN body \cap all |-> body[f]],
                              extra  |-> [f \in DOMAIN body \ all |-> body[f]]]
  BY DEF Unmarshal
<1> QED BY <1>4, <1>5, <1>6 DEF body

\* Both create operations read a spec with the fields of its type.
LEMMA SpecArrives ==
    ASSUME NEW c \in Calls, c.op \in CreateOps,
           c.spec.extra \cap (SpecFields(c.op) \cup {"service_type"}) = {}
    PROVE  (IF c.op = "CreateVM" THEN UnmarshalVMSpec(Body(c)) ELSE UnmarshalClusterSpec(Body(c)))
           = [fields |-> [f \in c.spec.fields \cup {"service_type"} |-> "field"],
              extra  |-> [f \in c.spec.extra |-> "extra"]]
<1>1. c.spec.fields \subseteq SpecFields(c.op)
  BY CallFields DEF Specs
<1>2. CASE c.op = "CreateVM"
  <2>1. {"access", "guest_os", "memory", "metadata", "provider_hints", "service_type",
         "storage", "vcpu"} = VMSpecFields \cup {"service_type"}
    BY DEF VMSpecFields
  <2>2. UnmarshalVMSpec(Body(c)) = Unmarshal(Marshal(c.spec, VMSpecFields), VMSpecFields \cup {"service_type"})
    BY <1>2, <2>1 DEF UnmarshalVMSpec, Body, MarshalVMSpec
  <2>3. SpecFields(c.op) = VMSpecFields
    BY <1>2 DEF SpecFields
  <2> QED BY <1>1, <1>2, <2>2, <2>3, RoundTrip
<1>3. CASE c.op = "CreateCluster"
  <2>1. {"metadata", "nodes", "provider_hints", "service_type", "version"}
        = ClusterSpecFields \cup {"service_type"}
    BY DEF ClusterSpecFields
  <2>2. UnmarshalClusterSpec(Body(c))
        = Unmarshal(Marshal(c.spec, ClusterSpecFields), ClusterSpecFields \cup {"service_type"})
    BY <1>3, <2>1 DEF UnmarshalClusterSpec, Body, MarshalClusterSpec
  <2>3. SpecFields(c.op) = ClusterSpecFields
    BY <1>3 DEF SpecFields
  <2> QED BY <1>1, <1>3, <2>2, <2>3, RoundTrip
<1> QED BY <1>2, <1>3 DEF CreateOps

----------------------------------------------------------------------------
(* The invariant *)

InwardPlaces == {"validator", "router", "wrapper", "strict", "handler"}

\* A call is on its way.
CallThere == at # "client" => call \in Calls

\* On its way in, a request has not been answered and nothing has panicked.
Unanswered == at \in InwardPlaces => reply = None /\ "panic" \notin fate

\* Behind the router it is at the operation the client meant.
RoutedRight ==
    at \in {"wrapper", "strict", "handler"} =>
        served \in Ops /\ (~Shadowed => served = call.op)

\* On its way out it has been answered, unless PanicRecovery still has to.
RepliedOrPanicked ==
    /\ at \in {"timeout", "metrics", "recovery"} => reply # None \/ "panic" \in fate
    /\ at = "wire" => reply # None

\* Whoever has answered, it is an answer that the operation may get.
RepliedRight == reply # None /\ call # None /\ ~Shadowed => RightReply(call.op, reply)

\* What statusWriter has recorded, before the metrics are counted.
CodeTruth ==
    at \in {"timeout", "metrics"} /\ "panic" \notin fate =>
        \/ code = reply.code
        \/ code = 504 /\ "expired" \in fate
        \/ code = 500 /\ "broken" \in fate

\* What has been sent of a panic, on its way out and after.
PanicReply ==
    "panic" \in fate =>
        /\ at = "timeout" => reply = None
        /\ at \in {"metrics", "recovery"} =>
              reply = IF "expired" \in fate THEN Bare(504) ELSE None
        /\ at \in {"wire", "client"} =>
              reply = IF "expired" \in fate THEN Reply(504, "text/plain", "Error")
                      ELSE WriteRFC7807(500)

PipelineInv ==
    /\ PipelineTypeOK /\ CallThere /\ Unanswered /\ RoutedRight /\ RepliedOrPanicked
    /\ RepliedRight /\ CodeTruth
    /\ RightDecoded /\ DeliveredIntact /\ MetricsTruth /\ PanicReply /\ PanicTold

\* No call is there at the start.
LEMMA InvInit == PipelineInit => PipelineInv
  BY PipelineAssumption
     DEF PipelineInit, PipelineInv, PipelineTypeOK, CallThere, Unanswered, RoutedRight,
         RepliedOrPanicked, RepliedRight, CodeTruth, RightDecoded, DeliveredIntact,
         MetricsTruth, PanicReply, PanicTold, Finished, Shadowed, Places, InwardPlaces, Fates

\* The conjuncts that speak of a place the request is not at.
LEMMA Elsewhere ==
    ASSUME NEW p, at' = p
    PROVE  /\ p # "client" => RightDecoded' /\ PanicTold'
           /\ p # "handler" => DeliveredIntact'
           /\ p \notin {"recovery", "wire"} => MetricsTruth'
           /\ p \notin {"timeout", "metrics"} => CodeTruth'
           /\ p \notin InwardPlaces => Unanswered'
           /\ p \notin {"wrapper", "strict", "handler"} => RoutedRight'
           /\ p \notin {"timeout", "metrics", "recovery", "wire"} => RepliedOrPanicked'
  BY DEF RightDecoded, DeliveredIntact, MetricsTruth, CodeTruth, Unanswered, RoutedRight,
         RepliedOrPanicked, PanicTold, Finished

\* The client sends a new call, or fails to.
LEMMA SendStep ==
    ASSUME PipelineInv, NEW c \in Calls, Send(c) \/ SendFails(c)
    PROVE  PipelineInv'
<1>1. PipelineTypeOK' /\ CallThere' /\ Unanswered' /\ RoutedRight' /\ RepliedOrPanicked' /\ RepliedRight'
  BY PipelineAssumption
     DEF PipelineInv, PipelineTypeOK, CallThere, Unanswered, RoutedRight, RepliedOrPanicked,
         RepliedRight, Send, SendFails, Places, InwardPlaces, Fates
<1>2. /\ CodeTruth' /\ RightDecoded' /\ DeliveredIntact' /\ MetricsTruth'
      /\ PanicReply' /\ PanicTold'
  BY DEF CodeTruth, RightDecoded, DeliveredIntact, MetricsTruth, PanicReply, PanicTold, Finished,
         Send, SendFails
<1> QED BY <1>1, <1>2 DEF PipelineInv

\* A layer on the way in answers, and what it answers suits the operation.
LEMMA AnswerStep ==
    ASSUME PipelineInv, at \in InwardPlaces, NEW r \in Replies,
           ~Shadowed => RightReply(call.op, r), AnswerWith(r)
    PROVE  PipelineInv'
<1>1. /\ reply = None /\ reply' = r /\ code' = r.code /\ "panic" \notin fate
      /\ at' = "timeout" /\ call' = call /\ served' = served /\ seen' = seen
      /\ counted' = counted /\ fate' = fate /\ result' = result
  BY DEF PipelineInv, Unanswered, AnswerWith, Write
<1>2. r # None /\ r.code \in 100..599 /\ call \in Calls
  BY PipelineAssumption DEF Replies, PipelineInv, CallThere, InwardPlaces
<1>3. PipelineTypeOK' /\ CallThere'
  BY <1>1, <1>2 DEF PipelineInv, PipelineTypeOK, CallThere, Places
<1>4. RepliedRight'
  BY <1>1 DEF RepliedRight, Shadowed
<1>5. RepliedOrPanicked' /\ CodeTruth'
  BY <1>1, <1>2 DEF RepliedOrPanicked, CodeTruth
<1>7. PanicReply'
  BY <1>1 DEF PanicReply
<1>6. Unanswered' /\ RoutedRight' /\ RightDecoded' /\ PanicTold' /\ DeliveredIntact' /\ MetricsTruth'
  BY <1>1, Elsewhere DEF InwardPlaces
<1> QED BY <1>3, <1>4, <1>5, <1>6, <1>7 DEF PipelineInv

\* A plain text answer suits every operation.
LEMMA ErrorReply ==
    ASSUME NEW c \in 100..599, NEW op
    PROVE  httpError(c) \in Replies /\ RightReply(op, httpError(c))
  BY DEF httpError, Reply, Replies, RightReply, JsonTypes

\* OapiRequestValidator refuses a request.
LEMMA RefuseStep ==
    ASSUME PipelineInv, Refuse
    PROVE  PipelineInv'
<1>1. PICK c \in {400, 404} : AnswerWith(httpError(c))
  BY DEF Refuse
<1>2. c \in 100..599
  OBVIOUS
<1>3. httpError(c) \in Replies /\ RightReply(call.op, httpError(c))
  BY <1>2, ErrorReply
<1>4. at \in InwardPlaces
  BY DEF Refuse, InwardPlaces
<1> QED BY <1>1, <1>3, <1>4, AnswerStep

\* A wrapper refuses a parameter.
LEMMA BindFailsStep ==
    ASSUME PipelineInv, BindFails
    PROVE  PipelineInv'
<1>1. 400 \in 100..599
  OBVIOUS
<1>2. httpError(400) \in Replies /\ RightReply(call.op, httpError(400))
  BY <1>1, ErrorReply
<1>3. at \in InwardPlaces /\ AnswerWith(httpError(400))
  BY DEF BindFails, InwardPlaces
<1> QED BY <1>2, <1>3, AnswerStep

\* The strict handler cannot decode a body: only a create has one, and the
\* client of a create knows both problems.
LEMMA RequestErrorStep ==
    ASSUME PipelineInv, RequestError
    PROVE  PipelineInv'
<1>1. at \in InwardPlaces /\ served \in CreateOps
  BY DEF RequestError, InwardPlaces
<1>2. PICK r \in {WriteRFC7807(413), WriteRFC7807(400)} : AnswerWith(r)
  BY DEF RequestError
<1>3. r \in Replies
  BY <1>2 DEF WriteRFC7807, Reply, Replies, JsonTypes, Bodies
<1>4. ~Shadowed => RightReply(call.op, r)
  BY <1>1, <1>2 DEF RequestError, PipelineInv, RoutedRight, RightReply
<1> QED BY <1>1, <1>2, <1>3, <1>4, AnswerStep

\* A handler answers with one of the answers of its operation.
LEMMA HandlerStep ==
    ASSUME PipelineInv, Answer
    PROVE  PipelineInv'
<1>1. at \in InwardPlaces /\ served \in Ops /\ (~Shadowed => served = call.op)
  BY DEF Answer, InwardPlaces, PipelineInv, RoutedRight
<1>2. PICK r \in Answers(served) : AnswerWith(r)
  BY DEF Answer
<1>3. r \in Replies
  BY <1>1, AnswersType
<1>4. ~Shadowed => RightReply(call.op, r)
  BY <1>1 DEF RightReply
<1> QED BY <1>1, <1>2, <1>3, <1>4, AnswerStep

\* The request moves inwards and nothing is written.
LEMMA GotoStep ==
    ASSUME PipelineInv, at \in InwardPlaces, NEW p \in InwardPlaces, Goto(p),
           served' \in Ops \cup {None}, RoutedRight', DeliveredIntact'
    PROVE  PipelineInv'
<1>1. /\ at' = p /\ call' = call /\ reply' = reply /\ code' = code
      /\ counted' = counted /\ fate' = fate /\ result' = result
  BY DEF Goto
<1>2. PipelineTypeOK' /\ CallThere' /\ Unanswered'
  BY <1>1 DEF PipelineInv, PipelineTypeOK, CallThere, Unanswered, Places, InwardPlaces
<1>3. RepliedRight'
  BY <1>1 DEF PipelineInv, RepliedRight, Shadowed
<1>5. PanicReply'
  BY <1>1 DEF PipelineInv, Unanswered, PanicReply
<1>4. RightDecoded' /\ PanicTold' /\ MetricsTruth' /\ CodeTruth' /\ RepliedOrPanicked'
  BY <1>1, Elsewhere DEF InwardPlaces
<1> QED BY <1>2, <1>3, <1>4, <1>5 DEF PipelineInv

\* The validator lets a request through.
LEMMA ValidateStep ==
    ASSUME PipelineInv, Validate
    PROVE  PipelineInv'
<1>1. at \in InwardPlaces /\ "router" \in InwardPlaces /\ Goto("router") /\ served' = served
  BY DEF Validate, InwardPlaces
<1>2. at' = "router" /\ served \in Ops \cup {None}
  BY <1>1 DEF Goto, PipelineInv, PipelineTypeOK
<1>3. RoutedRight' /\ DeliveredIntact'
  BY <1>2, Elsewhere
<1> QED BY <1>1, <1>2, <1>3, GotoStep

\* chi finds the operation, or none.
LEMMA RouteStep ==
    ASSUME PipelineInv, RouteRequest
    PROVE  PipelineInv'
<1> DEFINE op == Route(NewRequest(call.op, call.id))
<1>1. at \in InwardPlaces /\ "wrapper" \in InwardPlaces /\ call \in Calls
  BY DEF RouteRequest, InwardPlaces, PipelineInv, CallThere
<1>2. call.op \in Ops
  BY <1>1, CallFields
<1>3. op \in Ops \cup {None} /\ (~Shadowed => op \in {call.op, None})
  BY <1>2, RouteRight DEF Shadowed
<1> HIDE DEF op
<1>4. IF op = None THEN AnswerWith(httpError(404))
      ELSE served' = op /\ Goto("wrapper")
  BY DEF RouteRequest, op
<1>5. CASE op = None
  <2>1. 404 \in 100..599
    OBVIOUS
  <2>2. httpError(404) \in Replies /\ RightReply(call.op, httpError(404))
    BY <2>1, ErrorReply
  <2> QED BY <1>1, <1>4, <1>5, <2>2, AnswerStep
<1>6. CASE op # None
  <2>1. at' = "wrapper" /\ served' = op /\ call' = call /\ Goto("wrapper")
    BY <1>4, <1>6 DEF Goto
  <2>2. RoutedRight'
    BY <1>3, <1>6, <2>1 DEF RoutedRight, Shadowed
  <2>3. DeliveredIntact'
    BY <2>1, Elsewhere
  <2> QED BY <1>1, <1>3, <2>1, <2>2, <2>3, GotoStep
<1> QED BY <1>5, <1>6

\* The wrapper binds the parameters.
LEMMA BindStep ==
    ASSUME PipelineInv, Bind
    PROVE  PipelineInv'
<1>1. at \in InwardPlaces /\ "strict" \in InwardPlaces /\ Goto("strict") /\ served' = served
  BY DEF Bind, InwardPlaces
<1>2. at = "wrapper" /\ at' = "strict" /\ call' = call
  BY DEF Bind, Goto
<1>3. served' \in Ops \cup {None} /\ RoutedRight'
  BY <1>1, <1>2 DEF PipelineInv, RoutedRight, Shadowed, PipelineTypeOK
<1>4. DeliveredIntact'
  BY <1>2, Elsewhere
<1> QED BY <1>1, <1>3, <1>4, GotoStep

\* The strict handler of an operation decodes the spec of a create.
LEMMA StrictStep ==
    ASSUME PipelineInv, StrictCluster \/ StrictHealth \/ StrictVM
    PROVE  PipelineInv'
<1> DEFINE spec == IF served = "CreateVM" THEN UnmarshalVMSpec(Body(call))
                   ELSE UnmarshalClusterSpec(Body(call))
<1>1. /\ at = "strict" /\ Goto("handler") /\ served' = served /\ at' = "handler" /\ call' = call
      /\ served \in CreateOps => seen' = spec
  <2>1. CASE StrictCluster
    BY <2>1 DEF StrictCluster, Strict, Goto, ClusterOps, CreateOps
  <2>2. CASE StrictHealth
    BY <2>2 DEF StrictHealth, Strict, Goto, CreateOps
  <2>3. CASE StrictVM
    BY <2>3 DEF StrictVM, Strict, Goto, VMOps, CreateOps
  <2> QED BY <2>1, <2>2, <2>3
<1>2. call \in Calls /\ served \in Ops /\ (~Shadowed => served = call.op)
  BY <1>1 DEF PipelineInv, CallThere, RoutedRight
<1>3. RoutedRight' /\ served' \in Ops \cup {None}
  BY <1>1, <1>2 DEF RoutedRight, Shadowed
<1>4. DeliveredIntact'
  <2> DEFINE given == [fields |-> [f \in call.spec.fields \cup {"service_type"} |-> "field"],
                       extra  |-> [f \in call.spec.extra |-> "extra"]]
  <2>1. ASSUME ~Shadowed, call.op \in CreateOps,
               call.spec.extra \cap (SpecFields(call.op) \cup {"service_type"}) = {}
        PROVE  seen' = given
    <3>1. served = call.op /\ seen' = spec
      BY <1>1, <1>2, <2>1
    <3>2. (IF call.op = "CreateVM" THEN UnmarshalVMSpec(Body(call))
           ELSE UnmarshalClusterSpec(Body(call))) = given
      BY <1>2, <2>1, SpecArrives
    <3> QED BY <3>1, <3>2
  <2> QED BY <1>1, <1>2, <2>1 DEF DeliveredIntact, Shadowed
<1>5. at \in InwardPlaces /\ "handler" \in InwardPlaces
  BY <1>1 DEF InwardPlaces
<1> QED BY <1>1, <1>3, <1>4, <1>5, GotoStep

----------------------------------------------------------------------------
(* The way out *)

\* The body of an answer cannot be written.
LEMMA VisitFailsStep ==
    ASSUME PipelineInv, VisitFails
    PROVE  PipelineInv'
<1>1. PICK a \in Answers(served) : reply' = a
  BY DEF VisitFails
<1>2. /\ at = "handler" /\ at' = "timeout" /\ code' = 500 /\ fate' = fate \cup {"broken"}
      /\ call' = call /\ served' = served /\ counted' = counted /\ result' = result
  BY DEF VisitFails, WriteRFC7807, Reply
<1>3. served \in Ops /\ (~Shadowed => served = call.op) /\ call \in Calls
  BY <1>2 DEF PipelineInv, RoutedRight, CallThere
<1>4. a \in Replies /\ a # None
  BY <1>3, AnswersType, PipelineAssumption
<1>5. PipelineTypeOK' /\ CallThere'
  BY <1>1, <1>2, <1>3, <1>4 DEF PipelineInv, PipelineTypeOK, CallThere, Places, Fates
<1>6. RepliedRight'
  BY <1>1, <1>2, <1>3 DEF RepliedRight, Shadowed, RightReply
<1>7. RepliedOrPanicked' /\ CodeTruth'
  BY <1>1, <1>2, <1>4 DEF RepliedOrPanicked, CodeTruth
<1>9. PanicReply'
  BY <1>2 DEF PipelineInv, Unanswered, InwardPlaces, PanicReply
<1>8. Unanswered' /\ RoutedRight' /\ RightDecoded' /\ PanicTold' /\ DeliveredIntact' /\ MetricsTruth'
  BY <1>2, Elsewhere DEF InwardPlaces
<1> QED BY <1>5, <1>6, <1>7, <1>8, <1>9 DEF PipelineInv

\* A handler or a layer above it panics.
LEMMA PanicStep ==
    ASSUME PipelineInv, Panic
    PROVE  PipelineInv'
<1>1. /\ at # "client" /\ at' = "timeout" /\ fate' = fate \cup {"panic"}
      /\ call' = call /\ served' = served /\ reply' = reply /\ code' = code
      /\ counted' = counted /\ result' = result
  BY DEF Panic
<1>2. PipelineTypeOK' /\ CallThere' /\ RepliedOrPanicked' /\ CodeTruth'
  BY <1>1 DEF PipelineInv, PipelineTypeOK, CallThere, RepliedOrPanicked, CodeTruth, Places, Fates
<1>3. RepliedRight'
  BY <1>1 DEF PipelineInv, RepliedRight, Shadowed
<1>5. PanicReply'
  BY <1>1 DEF Panic, PipelineInv, Unanswered, InwardPlaces, PanicReply
<1>4. Unanswered' /\ RoutedRight' /\ RightDecoded' /\ PanicTold' /\ DeliveredIntact' /\ MetricsTruth'
  BY <1>1, Elsewhere DEF InwardPlaces
<1> QED BY <1>2, <1>3, <1>4, <1>5 DEF PipelineInv

\* Timeout's deferred function writes 504 if the deadline has passed.
LEMMA TimeoutStep ==
    ASSUME PipelineInv, Timeout
    PROVE  PipelineInv'
<1>1. /\ at = "timeout" /\ at' = "metrics" /\ call' = call /\ served' = served
      /\ counted' = counted /\ fate' = fate /\ result' = result
  BY DEF Timeout
<1>2. \/ "expired" \notin fate /\ reply' = reply /\ code' = code
      \/ /\ "expired" \in fate /\ code' = 504
         /\ reply' = IF reply = None THEN Bare(504) ELSE reply
  BY DEF Timeout, Write, Bare, Reply
<1>3. Bare(504) \in Replies /\ Bare(504) # None /\ Bare(504).type \notin JsonTypes
  BY PipelineAssumption DEF Bare, Reply, Replies
<1>4. PipelineTypeOK' /\ CallThere' /\ RepliedOrPanicked' /\ CodeTruth'
  BY <1>1, <1>2, <1>3
     DEF PipelineInv, PipelineTypeOK, CallThere, RepliedOrPanicked, CodeTruth, Places
<1>5. RepliedRight'
  <2>1. RightReply(call.op, Bare(504))
    BY <1>3 DEF RightReply
  <2> QED BY <1>1, <1>2, <2>1 DEF PipelineInv, RepliedRight, Shadowed
<1>7. PanicReply'
  BY <1>1, <1>2 DEF PipelineInv, PanicReply
<1>6. Unanswered' /\ RoutedRight' /\ RightDecoded' /\ PanicTold' /\ DeliveredIntact' /\ MetricsTruth'
  BY <1>1, Elsewhere DEF InwardPlaces
<1> QED BY <1>4, <1>5, <1>6, <1>7 DEF PipelineInv

\* The metrics count what statusWriter recorded.
LEMMA MiddlewareStep ==
    ASSUME PipelineInv, Middleware
    PROVE  PipelineInv'
<1>1. /\ at = "metrics" /\ at' = "recovery" /\ call' = call /\ served' = served
      /\ reply' = reply /\ code' = code /\ fate' = fate /\ result' = result
      /\ counted' = IF "panic" \in fate THEN None ELSE code
  BY DEF Middleware
<1>2. PipelineTypeOK' /\ CallThere' /\ RepliedOrPanicked'
  BY <1>1 DEF PipelineInv, PipelineTypeOK, CallThere, RepliedOrPanicked, Places
<1>3. RepliedRight'
  BY <1>1 DEF PipelineInv, RepliedRight, Shadowed
<1>4. MetricsTruth'
  <2>1. code # None
    BY PipelineAssumption DEF PipelineInv, PipelineTypeOK
  <2> QED BY <1>1, <2>1 DEF PipelineInv, CodeTruth, MetricsTruth
<1>6. PanicReply'
  BY <1>1 DEF PipelineInv, PanicReply
<1>5. Unanswered' /\ RoutedRight' /\ RightDecoded' /\ PanicTold' /\ DeliveredIntact' /\ CodeTruth'
  BY <1>1, Elsewhere DEF InwardPlaces
<1> QED BY <1>2, <1>3, <1>4, <1>5, <1>6 DEF PipelineInv

\* PanicRecovery answers a panic, or adds to what had been sent.
LEMMA RecoveryStep ==
    ASSUME PipelineInv, PanicRecovery
    PROVE  PipelineInv'
<1>1. /\ at = "recovery" /\ at' = "wire" /\ call' = call /\ served' = served
      /\ code' = code /\ counted' = counted /\ fate' = fate /\ result' = result
  BY DEF PanicRecovery
<1>2. \/ "panic" \notin fate /\ reply # None /\ reply' = reply
      \/ "panic" \in fate /\ reply = None /\ reply' = WriteRFC7807(500)
      \/ "panic" \in fate /\ reply # None /\ reply' = Reply(reply.code, "text/plain", "Error")
  BY <1>1 DEF PanicRecovery, PipelineInv, RepliedOrPanicked
<1>3. /\ WriteRFC7807(500) \in Replies
      /\ reply # None => Reply(reply.code, "text/plain", "Error") \in Replies
  BY DEF WriteRFC7807, Reply, Replies, JsonTypes, Bodies, PipelineInv, PipelineTypeOK
<1>4. reply' \in Replies /\ reply' # None
  BY <1>2, <1>3, PipelineAssumption DEF PipelineInv, PipelineTypeOK
<1>5. PipelineTypeOK' /\ CallThere' /\ RepliedOrPanicked'
  BY <1>1, <1>4 DEF PipelineInv, PipelineTypeOK, CallThere, RepliedOrPanicked, Places
<1>6. RepliedRight'
  <2>1. \A op : /\ RightReply(op, WriteRFC7807(500))
                /\ RightReply(op, Reply(reply.code, "text/plain", "Error"))
    BY DEF RightReply, Reply, JsonTypes
  <2> QED BY <1>1, <1>2, <2>1 DEF PipelineInv, RepliedRight, Shadowed
<1>7. MetricsTruth'
  BY <1>1, <1>2 DEF PipelineInv, MetricsTruth
<1>9. PanicReply'
  <2>1. Bare(504) # None /\ Bare(504).code = 504
    BY PipelineAssumption DEF Bare, Reply, Replies
  <2> QED BY <1>1, <1>2, <2>1 DEF PipelineInv, PanicReply
<1>8. Unanswered' /\ RoutedRight' /\ RightDecoded' /\ PanicTold' /\ DeliveredIntact' /\ CodeTruth'
  BY <1>1, Elsewhere DEF InwardPlaces
<1> QED BY <1>5, <1>6, <1>7, <1>8, <1>9 DEF PipelineInv

\* The client decodes the reply.
LEMMA ReceiveStep ==
    ASSUME PipelineInv, Receive
    PROVE  PipelineInv'
<1> DEFINE d == Decoded(call.op, reply)
<1>1. /\ at = "wire" /\ at' = "client" /\ call' = call /\ served' = served
      /\ reply' = reply /\ code' = code /\ counted' = counted /\ fate' = fate
      /\ result' = IF "hangup" \in fate THEN "error" ELSE IF d = None THEN "undecoded" ELSE d
  BY DEF Receive
<1>2. call \in Calls /\ call # None /\ reply # None /\ reply \in Replies
  BY <1>1, PipelineAssumption DEF PipelineInv, PipelineTypeOK, CallThere, RepliedOrPanicked
<1>3. call.op \in Ops
  BY <1>2, CallFields
<1>4. d \in Bodies \cup {None}
  BY <1>3, DecodedType
<1>5. ~Shadowed => /\ d = None \/ d = reply.body
                   /\ reply.type \in JsonTypes /\ d = None
                      => reply.body = "Error" /\ call.op \in HealthOps
  BY <1>2, <1>3, DecodeRight DEF PipelineInv, RepliedRight
<1> HIDE DEF d
<1>10. PanicReply'
  BY <1>1 DEF PipelineInv, PanicReply
<1>11. PanicTold'
  <2>1. "panic" \in fate => reply = IF "expired" \in fate THEN Reply(504, "text/plain", "Error")
                                    ELSE WriteRFC7807(500)
    BY <1>1 DEF PipelineInv, PanicReply
  <2>2. "panic" \in fate =>
            /\ reply.code = IF "expired" \in fate THEN 504 ELSE 500
            /\ d = IF "expired" \in fate \/ call.op \in HealthOps THEN None ELSE "Error"
    BY <1>3, <2>1, PanicDecoded DEF d, WriteRFC7807, Reply
  <2>3. "Error" # None
    BY PipelineAssumption DEF Bodies
  <2> QED BY <1>1, <2>2, <2>3 DEF PanicTold
<1>6. PipelineTypeOK' /\ CallThere'
  BY <1>1, <1>4 DEF PipelineInv, PipelineTypeOK, CallThere, Places
<1>7. RepliedRight'
  BY <1>1 DEF PipelineInv, RepliedRight, Shadowed
<1>8. RightDecoded'
  <2>1. "undecoded" \notin Bodies
    BY DEF Bodies
  <2> QED BY <1>1, <1>4, <1>5, <2>1 DEF RightDecoded, Finished, Shadowed, HealthOps
<1>9. Unanswered' /\ RoutedRight' /\ RepliedOrPanicked' /\ DeliveredIntact' /\ CodeTruth' /\ MetricsTruth'
  BY <1>1, Elsewhere DEF InwardPlaces
<1> QED BY <1>6, <1>7, <1>8, <1>9, <1>10, <1>11 DEF PipelineInv

\* The deadline passes, or the client hangs up.
LEMMA FateStep ==
    ASSUME PipelineInv, Expire \/ HangUp
    PROVE  PipelineInv'
<1>1. /\ at # "client" /\ at' = at /\ call' = call /\ served' = served /\ seen' = seen
      /\ reply' = reply /\ code' = code /\ counted' = counted /\ result' = result
      /\ fate' = fate \cup {"expired"} \/ fate' = fate \cup {"hangup"}
  BY DEF Expire, HangUp
<1>2. /\ fate \subseteq fate' /\ fate' \subseteq fate \cup {"expired", "hangup"}
      /\ ("panic" \in fate') <=> ("panic" \in fate)
  BY <1>1
<1>3. PipelineTypeOK' /\ CallThere'
  BY <1>1, <1>2 DEF PipelineInv, PipelineTypeOK, CallThere, Fates
<1>4. Unanswered' /\ RepliedOrPanicked'
  BY <1>1, <1>2 DEF PipelineInv, Unanswered, RepliedOrPanicked
<1>5. RoutedRight' /\ RepliedRight' /\ DeliveredIntact'
  BY <1>1 DEF PipelineInv, RoutedRight, RepliedRight, DeliveredIntact, Shadowed
<1>6. CodeTruth' /\ MetricsTruth'
  BY <1>1, <1>2 DEF PipelineInv, CodeTruth, MetricsTruth
<1>8. PanicReply'
  BY <1>1, <1>2 DEF Expire, HangUp, PipelineInv, PanicReply
<1>7. RightDecoded' /\ PanicTold'
  BY <1>1, Elsewhere
<1> QED BY <1>3, <1>4, <1>5, <1>6, <1>7, <1>8 DEF PipelineInv

\* Every step keeps the invariant.
LEMMA InvStep == PipelineInv /\ [PipelineNext]_pipelineVars => PipelineInv'
<1> SUFFICES ASSUME PipelineInv, [PipelineNext]_pipelineVars PROVE PipelineInv'
  OBVIOUS
<1>1. CASE \E c \in Calls : Send(c) \/ SendFails(c)
  BY <1>1, SendStep
<1>2. CASE Inward
  BY <1>2, RefuseStep, ValidateStep, RouteStep, BindStep, BindFailsStep, RequestErrorStep,
     StrictStep DEF Inward
<1>3. CASE Outward
  BY <1>3, HandlerStep, VisitFailsStep, TimeoutStep, MiddlewareStep, RecoveryStep, ReceiveStep
     DEF Outward
<1>4. CASE Panic
  BY <1>4, PanicStep
<1>5. CASE Expire \/ HangUp
  BY <1>5, FateStep
<1>6. CASE UNCHANGED pipelineVars
  BY <1>6 DEF pipelineVars, PipelineInv, PipelineTypeOK, CallThere, Unanswered, RoutedRight,
         RepliedOrPanicked, RepliedRight, CodeTruth, RightDecoded, DeliveredIntact,
         MetricsTruth, PanicReply, PanicTold, Finished, Shadowed
<1> QED BY <1>1, <1>2, <1>3, <1>4, <1>5, <1>6 DEF PipelineNext

\* It holds always.
LEMMA Invariance == PipelineSpec => []PipelineInv
  BY InvInit, InvStep, PTL DEF PipelineSpec

\* Whatever layer answers, whenever the deadline passes or the client hangs
\* up, the call, the reply, the recorded codes and what the client's method
\* returned stay within the types of the API: statusWriter always has a code.
THEOREM PipelineTypeTheorem == PipelineSpec => []PipelineTypeOK
<1>1. PipelineInv => PipelineTypeOK
  BY DEF PipelineInv
<1> QED BY <1>1, Invariance, PTL

\* No reply of any layer, to any operation with any id but "health", is
\* decoded by the client into a type other than the one that was written.
THEOREM RightDecodedTheorem == PipelineSpec => []RightDecoded
<1>1. PipelineInv => RightDecoded
  BY DEF PipelineInv
<1> QED BY <1>1, Invariance, PTL

\* For any ids and any names in the specs, a request reaches the handler of
\* the operation that was called, with the spec the caller gave.
THEOREM DeliveredIntactTheorem == PipelineSpec => []DeliveredIntact
<1>1. PipelineInv => DeliveredIntact
  BY DEF PipelineInv
<1> QED BY <1>1, Invariance, PTL

\* RequestsTotal counts the code the client got but for a late 504 or a 500
\* to a client that is gone, and misses exactly the panics.
THEOREM MetricsTruthTheorem == PipelineSpec => []MetricsTruth
<1>1. PipelineInv => MetricsTruth
  BY DEF PipelineInv
<1> QED BY <1>1, Invariance, PTL

\* A panic in a wrapper, a decoder or a handler reaches the caller as an error:
\* with a problem where the operation's response has a field for one, and with
\* nothing but the code if Timeout got to write first.
THEOREM PanicToldTheorem == PipelineSpec => []PanicTold
<1>1. PipelineInv => PanicTold
  BY DEF PipelineInv
<1> QED BY <1>1, Invariance, PTL
=============================================================================
