---------------------------- MODULE MCSafeExecution -----------------------------
EXTENDS SafeExecution

Call == [do |-> "call"]
Change(do, arg) == [do |-> do, arg |-> arg]

StorageWith(guard, moduleGuard, modules) ==
  [nonce |-> 0, guard |-> guard, moduleGuard |-> moduleGuard, modules |-> modules,
   busy |-> FALSE, strangers |-> <<>>, trace |-> <<>>]

(* Transactions that owners sign: one that must succeed, a batch that changes   *)
(* the guard and may fail, one that pays a refund, and a batch that installs    *)
(* the reentrancy guard while it runs.  Several are confirmed for each nonce,   *)
(* so that relayers and reentrant code have a choice.                           *)
MCTx == {"strict", "batch", "refunded", "guarded"}

MCOps == [strict   |-> <<Call>>,
          batch    |-> <<Change("setGuard", "g2"), Call>>,
          refunded |-> <<Call>>,
          guarded  |-> <<Call, Change("setGuard", "reentrancy")>>]
MCSafeTxGas == [strict |-> 0, batch |-> 1, refunded |-> 0, guarded |-> 1]
MCGasPrice == [strict |-> 0, batch |-> 0, refunded |-> 1, guarded |-> 0]

MCSigned ==
  [tx : {"strict"}, nonce : {0, 2}] \cup [tx : {"batch"}, nonce : {0, 1}]
    \cup [tx : {"refunded"}, nonce : {1, 2}] \cup [tx : {"guarded"}, nonce : {0, 1}]

(* A module's call, a batch that removes its own guard and the Safe's, and a    *)
(* module that disables itself and then calls out.                              *)
MCModuleOps ==
  {<<Call>>,
   <<Change("setModuleGuard", "none"), Change("setGuard", "none"), Call>>,
   <<Change("disableModule", "m1"), Call>>}

\* Safes without modules, and with one that others guard, or the same guard as the Safe.
MCWorlds ==
  {StorageWith(g, "none", {}) : g \in {"none", "g1"}} \cup
  {StorageWith("none", "reentrancy", {"m1"}), StorageWith("reentrancy", "g1", {"m1"}),
   StorageWith("reentrancy", "reentrancy", {"m1"})}
================================================================================
