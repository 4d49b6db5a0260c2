------------------------------ MODULE MCInventory ------------------------------
(* Small instances of Inventory, with the stock and the uses of InventoryUses. *)
EXTENDS Inventory, InventoryUses
================================================================================
