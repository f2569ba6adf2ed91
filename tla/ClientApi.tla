------------------------------ MODULE ClientApi ------------------------------
(***************************************************************************)
(* The generated Go client (pkg/client/client.gen.go): which request each   *)
(* method sends, how it encodes the body of a create, and which field of    *)
(* its response struct a reply ends up in.                                  *)
(*                                                                          *)
(* A path is the sequence of its segments below the base URL.  The JSON     *)
(* encoding of a spec maps each name in the object to where its value came  *)
(* from: a field of the struct or the map of additional properties.         *)
(***************************************************************************)
EXTENDS Naturals, Sequences

CONSTANT None

ClusterOps == {"ListClusters", "CreateCluster", "GetClusterHealth",
               "DeleteCluster", "GetCluster"}
VMOps == {"ListVMs", "CreateVM", "GetVMHealth", "DeleteVM", "GetVM"}
Ops == ClusterOps \cup {"GetHealth"} \cup VMOps
CreateOps == {"CreateCluster", "CreateVM"}

\* One table for all operations out of one per resource.
OfOp(op, cluster, health, vm) ==
    IF op \in ClusterOps THEN cluster[op] ELSE IF op \in VMOps THEN vm[op] ELSE health[op]

----------------------------------------------------------------------------
Request(m, p) == [method |-> m, path |-> p]

NewClusterRequest(id) ==
    [ListClusters     |-> Request("GET", <<"clusters">>),
     CreateCluster    |-> Request("POST", <<"clusters">>),
     GetClusterHealth |-> Request("GET", <<"clusters", "health">>),
     DeleteCluster    |-> Request("DELETE", <<"clusters", id>>),
     GetCluster       |-> Request("GET", <<"clusters", id>>)]

NewGetHealthRequest == [GetHealth |-> Request("GET", <<"health">>)]

NewVMRequest(id) ==
    [ListVMs     |-> Request("GET", <<"vms">>),
     CreateVM    |-> Request("POST", <<"vms">>),
     GetVMHealth |-> Request("GET", <<"vms", "health">>),
     DeleteVM    |-> Request("DELETE", <<"vms", id>>),
     GetVM       |-> Request("GET", <<"vms", id>>)]

NewRequest(op, id) ==
    OfOp(op, NewClusterRequest(id), NewGetHealthRequest, NewVMRequest(id))

----------------------------------------------------------------------------
\* A spec is the set of its non-nil fields and the names in its
\* AdditionalProperties.  service_type is no pointer and always written;
\* the additional properties are written last.
Marshal(spec, pointers) ==
    [f \in (spec.fields \cap pointers) \cup {"service_type"} \cup spec.extra |->
        IF f \in spec.extra THEN "extra" ELSE "field"]

ClusterSpecFields == {"metadata", "nodes", "provider_hints", "version"}

VMSpecFields == {"access", "guest_os", "memory", "metadata", "provider_hints",
                 "storage", "vcpu"}

MarshalClusterSpec(spec) == Marshal(spec, ClusterSpecFields)

MarshalVMSpec(spec) == Marshal(spec, VMSpecFields)

----------------------------------------------------------------------------
\* The fields of a response struct: a body for some status codes, a problem
\* for others, and what is left over.
Decodes(ok, body, problems, default) ==
    [byCode |-> [c \in ok \cup problems |-> IF c \in ok THEN body ELSE "Error"],
     default |-> default]

ParseClusterResponse ==
    [ListClusters     |-> Decodes({200}, "ClusterList", {}, "Error"),
     CreateCluster    |-> Decodes({201}, "Cluster", {400, 409}, "Error"),
     GetClusterHealth |-> Decodes({200, 503}, "Health", {}, None),
     DeleteCluster    |-> Decodes({}, None, {404}, "Error"),
     GetCluster       |-> Decodes({200}, "Cluster", {404}, "Error")]

ParseGetHealthResponse == [GetHealth |-> Decodes({200, 503}, "Health", {}, None)]

ParseVMResponse ==
    [ListVMs     |-> Decodes({200}, "VMList", {}, "Error"),
     CreateVM    |-> Decodes({201}, "VM", {400, 409}, "Error"),
     GetVMHealth |-> Decodes({200, 503}, "Health", {}, None),
     DeleteVM    |-> Decodes({}, None, {404}, "Error"),
     GetVM       |-> Decodes({200}, "VM", {404}, "Error")]

ParseResponse(op) == OfOp(op, ParseClusterResponse, ParseGetHealthResponse, ParseVMResponse)

JsonTypes == {"application/json", "application/problem+json"}

\* A mutant of Decoded: the Content-Type is not looked at.
DecodedAnyType(op, reply) ==
    LET parse == ParseResponse(op)
    IN  IF reply.code \in DOMAIN parse.byCode THEN parse.byCode[reply.code]
        ELSE parse.default

\* The Go type a reply is decoded into, None when no field is filled.
Decoded(op, reply) ==
    LET parse == ParseResponse(op)
    IN  IF reply.type \notin JsonTypes THEN None
        ELSE IF reply.code \in DOMAIN parse.byCode THEN parse.byCode[reply.code]
        ELSE parse.default
=============================================================================
