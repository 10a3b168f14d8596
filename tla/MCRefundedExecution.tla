-------------------------- MODULE MCRefundedExecution ---------------------------
EXTENDS RefundedExecution

(* A client that is refunded in ether or in tokens, transactions without any    *)
(* refund and one with a high one that were signed elsewhere.  The target needs *)
(* 20000 gas, or more than the helper's margin covers, or reverts.              *)
Opts(value, gasToken, sent, fails) ==
  [value |-> value, gasToken |-> gasToken, sent |-> sent, fails |-> fails,
   gasPrice |-> 0, txGasPrice |-> 0, extraGas |-> 0]

MCOptions == {Opts(0, Token, 0, FALSE), Opts(500000, Ether, 0, FALSE)}

MCPresigned ==
  {[value |-> 0, gasToken |-> Ether, nonce |-> 0, gasPrice |-> 0, safeTxGas |-> s,
    baseGas |-> 0] : s \in {0, 200000}} \cup
  {[value |-> 0, gasToken |-> Ether, nonce |-> 0, gasPrice |-> 2, safeTxGas |-> 30000,
    baseGas |-> 40000]}

MCTarget ==
  {[cost |-> 20000, reverts |-> FALSE], [cost |-> 30500, reverts |-> FALSE],
   [cost |-> 50000, reverts |-> FALSE], [cost |-> 20000, reverts |-> TRUE]}

(* What the token is does not matter where nobody pays in it.  At first the     *)
(* target is cheap, or reverts.                                                 *)
MCInit ==
  /\ Init
  /\ mode # "bool" => \E c \in Client : client[c].opts.gasToken = Token
  /\ target.cost = 20000

MCSpec == MCInit /\ [][Next]_vars /\ Fairness

MCPayload == <<"0x", "6a", "00", "00", "01">>
================================================================================
