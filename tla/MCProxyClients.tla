--------------------------- MODULE MCProxyClients ---------------------------
(* Two leases with two services each.                                         *)
EXTENDS ProxyClients

MCUrls == Leases \X Services
==============================================================================
