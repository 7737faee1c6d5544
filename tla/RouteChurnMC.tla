---------------------------- MODULE RouteChurnMC ----------------------------
(* Two keys, either of one peer or of two; a route through one origin, one that
   two origins share (with another path) and one without an AS path.  Other routes of
   the keys with a single one come from the dumps. *)
EXTENDS RouteChurn, TLC

CONSTANTS p1, p2, x1, x2, a1, a2

Route(path, origins, attributes) ==
  [as_path |-> path, origin_set |-> origins, path_member_set |-> origins,
   attributes |-> attributes]
Single == Route("short", {a1}, "plain")
Shared == Route("long", {a1, a2}, "plain")
Bare == Route("none", {}, "tagged")
MCDigest == {Single, Shared, Bare}
MCRoutes == [k \in Peer \X Prefix |->
  IF k = <<p1, x1>> THEN {Single, Shared} ELSE IF k[1] = p1 THEN {Bare} ELSE {Shared}]

MCRouteKeys == {{<<p1, x1>>, <<p1, x2>>}, {<<p1, x1>>, <<p2, x2>>}}

Configured(warmup, grace, assume) ==
  [warmup |-> warmup, grace |-> grace, assume_complete |-> assume]
MCOptions == {Configured(1, 1, FALSE), Configured(0, 1, TRUE)}

=============================================================================
