--------------------------- MODULE ModelRouting ---------------------------
(* Which model calls the deployment's policy lets through                  *)
(* (model_routing.py, process_capabilities.py and                          *)
(* ssp_workspace/model_policy.py).                                         *)

Origins == {"synthetic", "redacted_nonproduction", "customer_production"}

Sensitivities == {"public", "internal_unclassified", "customer_sensitive", "cui",
                  "classified", "unknown"}

Endpoints == {"mock", "external_openai", "internal_openai_compatible"}

\* evaluate_model_routing: the error code, or "allowed"
Decision(origin, sensitivity, endpoint, approved, cui) ==
  IF sensitivity = "classified" THEN "classified_data_unsupported"
  ELSE IF sensitivity = "unknown" THEN "model_routing_denied"
  ELSE IF origin = "synthetic" /\ sensitivity \in {"public", "internal_unclassified"}
    THEN "allowed"
  ELSE IF /\ endpoint = "external_openai"
          /\ \/ origin # "redacted_nonproduction"
             \/ sensitivity \notin {"public", "internal_unclassified"}
    THEN "model_routing_denied"
  ELSE IF ~approved THEN "model_policy_not_approved"
  ELSE IF endpoint = "external_openai" THEN "allowed"
  ELSE IF sensitivity = "cui" /\ ~cui THEN "model_policy_not_approved"
  ELSE IF sensitivity \in {"cui", "customer_sensitive"} THEN "allowed"
  ELSE IF origin \in {"customer_production", "redacted_nonproduction"} THEN "allowed"
  ELSE "model_routing_denied"

Configs == [profile : {"dev_local", "onprem_production"}, capable : BOOLEAN,
            endpoint : Endpoints, approved : BOOLEAN, cui : BOOLEAN]

\* resolve_process_capabilities: text_model_calls
Capable(c) == c.capable

\* the labels that SSP content gets, since its revisions carry none
SspLabels(c) ==
  IF c.profile = "dev_local"
  THEN [origin |-> "synthetic", sensitivity |-> "internal_unclassified"]
  ELSE [origin |-> "customer_production", sensitivity |-> "unknown"]

\* require_ssp_model_allowed
SspModelAllowed(c) ==
  /\ Capable(c) /\ c.approved
  /\ LET l == SspLabels(c)
     IN  Decision(l.origin, l.sensitivity, c.endpoint, c.approved, c.cui) = "allowed"

(***************************************************************************)
(* What the routing table promises: nothing classified or unlabelled goes  *)
(* anywhere, customer data never leaves for an external endpoint, an       *)
(* endpoint without approval gets synthetic data only, and the SSP steps   *)
(* have no model outside of the development profile.                       *)
(***************************************************************************)
ASSUME RoutingAssumption ==
  /\ \A o \in Origins, s \in Sensitivities, e \in Endpoints, a, u \in BOOLEAN :
       Decision(o, s, e, a, u) = "allowed" =>
         /\ s \notin {"classified", "unknown"}
         /\ e = "external_openai" =>
              o # "customer_production" /\ s \notin {"customer_sensitive", "cui"}
         /\ a \/ o = "synthetic"
         /\ s = "cui" => u
  /\ \A c \in Configs : SspModelAllowed(c) => c.profile = "dev_local"
=============================================================================
