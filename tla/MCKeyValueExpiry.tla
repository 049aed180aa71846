--------------------------- MODULE MCKeyValueExpiry ---------------------------
(* Small instances of KeyValueExpiry.                                      *)
EXTENDS KeyValueExpiry, MCKeyValueStorage
=============================================================================
