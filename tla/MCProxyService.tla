-------------------------- MODULE MCProxyService --------------------------
(* ProxyService with few connections and stoppers. *)
EXTENDS ProxyService
=============================================================================
