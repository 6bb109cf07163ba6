----------------------------- MODULE MCSessions -----------------------------
(* Two PullRequests; see the cfg files for the writes in play and the bounds. *)
EXTENDS Sessions
=============================================================================
