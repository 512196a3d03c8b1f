--------------------------- MODULE MCSecretManager ---------------------------
(* SecretManager on small instances: the configurations give the constants. *)
EXTENDS SecretManager
=============================================================================
