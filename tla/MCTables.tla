-------------------------------- MODULE MCTables -------------------------------
(* Small instances of Tables: the workloads of MCBanking, those of             *)
(* InventoryUses, and an organization of three invoices.                       *)
EXTENDS Tables, MCBanking, InventoryUses
================================================================================
