---------------------------- MODULE MCDeployments ----------------------------
(* Releases cut around the migrations that meet data: 018, 023 and 025. *)
EXTENDS Deployments
MCReleases == {4, 7, 17, 22, 25}
MCOthers == {"EURUSD"}
=============================================================================
