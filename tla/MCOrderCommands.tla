---------------------------- MODULE MCOrderCommands ----------------------------
(* Small instances of OrderWrites; the invocations of OrderCommands are alike. *)
EXTENDS OrderWrites, TLC

InvocationsAreAlike == Permutations(Workers)
================================================================================
