------------------------------ MODULE MCNestedSafes ------------------------------
EXTENDS NestedSafes

(* The parent is owned by two Safes and needs both.  ann and bob own the first  *)
(* together, bob owns the second alone; cat may replace either.                 *)
MCOwnersOf ==
  [s \in Safe |-> CASE s = "parent" -> {"first", "second"}
                    [] s = "first"  -> {"ann", "bob"}
                    [] s = "second" -> {"bob"}]
MCThresholdOf == [s \in Safe |-> IF s = "second" THEN 1 ELSE 2]
================================================================================
