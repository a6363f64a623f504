---------------------------- MODULE MCDeployment ----------------------------
(***************************************************************************)
(* Instances of module Deployment for TLC, with the requests of MCHandler. *)
(***************************************************************************)
EXTENDS Deployment, MCHandler

\* A creation and a search that nginx may pass on.
CrashInput == {PostOf(a), GetTerm({a})}

\* One client and every way through handler(), nginx and a second server.
SettleInput == {PostOf(a), GetCount, [Basic EXCEPT !.kind = "OTHER"]}
=============================================================================
