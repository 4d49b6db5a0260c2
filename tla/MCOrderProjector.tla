---------------------------- MODULE MCOrderProjector ---------------------------
(* Small instances of OrderProjector.                                        *)
EXTENDS OrderProjector
================================================================================
