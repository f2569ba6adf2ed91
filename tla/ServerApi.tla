------------------------------ MODULE ServerApi ------------------------------
(***************************************************************************)
(* The generated Go server (internal/api/server/server.gen.go): the routes, *)
(* the parameters each wrapper binds, the decoding of a create's body and   *)
(* the replies the Visit methods can write.                                 *)
(***************************************************************************)
EXTENDS ClientApi

\* chi.Router: a static segment is tried before a parameter, and a parameter
\* needs at least one character.
Fits(pattern, path) ==
    /\ Len(pattern) = Len(path)
    /\ \A i \in 1..Len(path) :
           pattern[i] = path[i] \/ (pattern[i] = "{id}" /\ path[i] # "")

HandlerWithOptions ==
    [ListClusters     |-> Request("GET", <<"clusters">>),
     CreateCluster    |-> Request("POST", <<"clusters">>),
     GetClusterHealth |-> Request("GET", <<"clusters", "health">>),
     DeleteCluster    |-> Request("DELETE", <<"clusters", "{id}">>),
     GetCluster       |-> Request("GET", <<"clusters", "{id}">>),
     GetHealth        |-> Request("GET", <<"health">>),
     ListVMs          |-> Request("GET", <<"vms">>),
     CreateVM         |-> Request("POST", <<"vms">>),
     GetVMHealth      |-> Request("GET", <<"vms", "health">>),
     DeleteVM         |-> Request("DELETE", <<"vms", "{id}">>),
     GetVM            |-> Request("GET", <<"vms", "{id}">>)]

Route(req) ==
    LET fit == {op \in Ops : /\ HandlerWithOptions[op].method = req.method
                             /\ Fits(HandlerWithOptions[op].path, req.path)}
        static == {op \in fit : HandlerWithOptions[op].path = req.path}
    IN  IF fit = {} THEN None
        ELSE CHOOSE op \in fit : static = {} \/ op \in static

----------------------------------------------------------------------------
\* The query and path parameters the wrapper of an operation binds.
BindClusterParams ==
    [ListClusters     |-> {"max_page_size", "page_token"},
     CreateCluster    |-> {"id"},
     GetClusterHealth |-> {},
     DeleteCluster    |-> {"clusterId"},
     GetCluster       |-> {"clusterId"}]

BindHealthParams == [GetHealth |-> {}]

BindVMParams ==
    [ListVMs     |-> {"max_page_size", "page_token"},
     CreateVM    |-> {"id"},
     GetVMHealth |-> {},
     DeleteVM    |-> {"vmId"},
     GetVM       |-> {"vmId"}]

Params(op) == OfOp(op, BindClusterParams, BindHealthParams, BindVMParams)

----------------------------------------------------------------------------
\* The known names of the object fill the fields, the rest goes to
\* AdditionalProperties.
Unmarshal(body, known) ==
    [fields |-> [f \in DOMAIN body \cap known |-> body[f]],
     extra  |-> [f \in DOMAIN body \ known |-> body[f]]]

UnmarshalClusterSpec(body) ==
    Unmarshal(body, {"metadata", "nodes", "provider_hints", "service_type",
                     "version"})

\* A mutant of UnmarshalVMSpec: vcpu is not taken out of the object.
UnmarshalVMSpecForgets(body) ==
    Unmarshal(body, {"access", "guest_os", "memory", "metadata",
                     "provider_hints", "service_type", "storage"})

UnmarshalVMSpec(body) ==
    Unmarshal(body, {"access", "guest_os", "memory", "metadata",
                     "provider_hints", "service_type", "storage", "vcpu"})

----------------------------------------------------------------------------
Reply(code, type, body) == [code |-> code, type |-> type, body |-> body]

Json(code, body) == Reply(code, "application/json", body)
WriteRFC7807(code) == Reply(code, "application/problem+json", "Error")
httpError(code) == Reply(code, "text/plain", "text")   \* http.Error
Bare(code) == Reply(code, None, None)                  \* a header, no body

\* What the handlers answer, as the Visit methods write it.
ClusterAnswers ==
    [ListClusters     |-> {Json(200, "ClusterList"), WriteRFC7807(400),
                           WriteRFC7807(500), WriteRFC7807(502)},
     CreateCluster    |-> {Json(201, "Cluster"), WriteRFC7807(400),
                           WriteRFC7807(409), WriteRFC7807(500),
                           WriteRFC7807(502)},
     GetClusterHealth |-> {Json(200, "Health"), Json(503, "Health")},
     DeleteCluster    |-> {Bare(204), WriteRFC7807(404), WriteRFC7807(500),
                           WriteRFC7807(502)},
     GetCluster       |-> {Json(200, "Cluster"), WriteRFC7807(404),
                           WriteRFC7807(500)}]

HealthAnswers == [GetHealth |-> {Json(200, "Health"), Json(503, "Health")}]

VMAnswers ==
    [ListVMs     |-> {Json(200, "VMList"), WriteRFC7807(400), WriteRFC7807(500),
                      WriteRFC7807(502)},
     CreateVM    |-> {Json(201, "VM"), WriteRFC7807(400), WriteRFC7807(409),
                      WriteRFC7807(500), WriteRFC7807(502)},
     GetVMHealth |-> {Json(200, "Health"), Json(503, "Health")},
     DeleteVM    |-> {Bare(204), WriteRFC7807(404), WriteRFC7807(500),
                      WriteRFC7807(502)},
     GetVM       |-> {Json(200, "VM"), WriteRFC7807(404), WriteRFC7807(500)}]

Answers(op) == OfOp(op, ClusterAnswers, HealthAnswers, VMAnswers)
=============================================================================
