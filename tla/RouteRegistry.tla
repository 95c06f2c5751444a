--------------------------- MODULE RouteRegistry ---------------------------
(***************************************************************************)
(* envd-proxy's route table (internal/dataplane/proxy.go) and the admin    *)
(* API that changes it (admin.go).  A target is the address of an envd.    *)
(* Every method holds the table's lock, so each is one step.               *)
(***************************************************************************)
CONSTANTS Sandboxes, Targets, NoTarget

ASSUME NoTargetIsNone == NoTarget \notin Targets

VARIABLE routes

RouteTables == [Sandboxes -> Targets \cup {NoTarget}]

NoRoutes == [id \in Sandboxes |-> NoTarget]

(* POST /internal/v1/routes: register, or replace, the route of id. *)
Set(id, target) == routes' = [routes EXCEPT ![id] = target]

(* DELETE /internal/v1/routes/{id}: a route that is not there is a 404. *)
Unregister(id) == routes' = [routes EXCEPT ![id] = NoTarget]
============================================================================
