------------------------------ MODULE MCScenarios ------------------------------
(***************************************************************************)
(* Two pods, small state files and a handful of configuration files.       *)
(***************************************************************************)
EXTENDS Scenarios, TLC

NoRoute == [type |-> "", target |-> FALSE, protocol |-> FALSE]

AppRoute == [type |-> "app", target |-> TRUE, protocol |-> FALSE]

Alone(name, route) == [scenario |-> name, weights |-> <<>>, route |-> route]

Blend(weights, route) == [scenario |-> "mixed", weights |-> weights, route |-> route]

\* Two of them are refused: a route without a target, and a blend of one.
MCConfigs ==
  {Alone("local-login-totp", NoRoute),
   Alone("local-login-webauthn", NoRoute),
   Alone("route-cert-issuance", [AppRoute EXCEPT !.target = FALSE]),
   Blend("cert-renewal" :> 1, NoRoute),
   Blend("local-login-webauthn" :> 2 @@ "cert-renewal" :> 1, NoRoute),
   Blend("route-cert-issuance" :> 1 @@ "cert-renewal" :> 3, AppRoute)}

\* Fewer keys than users, fewer users than keys, and a pod left with nothing.
MCFixtureFiles ==
  {[factor |-> "local-login-totp", users |-> 3, keys |-> 2],
   [factor |-> "local-login-totp", users |-> 1, keys |-> 3],
   [factor |-> "local-login-webauthn", users |-> 2, keys |-> 2]}

===============================================================================
