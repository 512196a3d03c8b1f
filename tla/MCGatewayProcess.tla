--------------------------- MODULE MCGatewayProcess ---------------------------
(* GatewayProcess with metrics credentials and a certificate configured.      *)
EXTENDS GatewayProcess
=============================================================================
