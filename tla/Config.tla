--------------------------------- MODULE Config ---------------------------------
(***************************************************************************)
(* What config.Validate (internal/config) lets through of the part of the  *)
(* configuration that chooses the workload: load.scenario, load.mixed and  *)
(* load.routeCertIssuance.  What it guarantees of the rest -- positive     *)
(* rates, thresholds and counts -- is assumed by the modules that use it.  *)
(***************************************************************************)
EXTENDS Naturals, FiniteSets

Logins == {"local-login-webauthn", "local-login-totp"}

Certs == {"cert-renewal", "route-cert-issuance"}

\* mixableScenarios: every scenario but mixed itself.
Mixable == Logins \cup Certs \cup {"bot-join-renew"}

ScenarioNames == Mixable \cup {"mixed"}

\* "" is the zero value: the field is missing from the file.
RouteTypes == {"app", "database", "kubernetes"}

Route == [type : RouteTypes \cup {""}, target : BOOLEAN, protocol : BOOLEAN]

ValidRoute(route) ==
  /\ route.type \in RouteTypes
  /\ route.target
  /\ route.type = "database" => route.protocol

ValidMixed(weights) ==
  /\ Cardinality(DOMAIN weights) >= 2
  /\ \A name \in DOMAIN weights : name \in Mixable /\ weights[name] > 0

\* Validate.  The route is looked at only when it is the whole workload.
Valid(config) ==
  /\ config.scenario \in ScenarioNames
  /\ config.scenario = "route-cert-issuance" => ValidRoute(config.route)
  /\ config.scenario = "mixed" => ValidMixed(config.weights)

\* The scenarios a valid configuration runs: newScenario's, or mixed's children.
Workload(config) ==
  IF config.scenario = "mixed" THEN DOMAIN config.weights ELSE {config.scenario}

=================================================================================
