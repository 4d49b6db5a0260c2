---------------------------- MODULE MCServerShutdown ---------------------------
(* Small instances of ServerShutdown.                                        *)
EXTENDS ServerShutdown
================================================================================
