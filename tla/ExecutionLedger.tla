---------------------------- MODULE ExecutionLedger -----------------------------
(***************************************************************************)
(* What the owners of a Safe rely on when they sign: a ledger with one     *)
(* entry per nonce, without gaps, each a transaction that was confirmed    *)
(* for that very nonce, and never rewritten.  An Ethereum transaction may  *)
(* add several entries at once, and all of them or none.                   *)
(***************************************************************************)
EXTENDS Integers

CONSTANT Signed         \* the confirmed transactions: records with a nonce field

VARIABLES nonce, executed

vars == <<nonce, executed>>

Init == nonce = 0 /\ executed = {}

OnePerNonce(hashes, from, to) ==
  /\ \A h \in hashes : h.nonce \in from..(to - 1)
  /\ \A n \in from..(to - 1) : \E h \in hashes : h.nonce = n
  /\ \A g, h \in hashes : g.nonce = h.nonce => g = h

Commit(hashes) ==
  /\ hashes \subseteq Signed
  /\ executed' = executed \cup hashes
  /\ nonce' \in Nat /\ nonce' >= nonce
  /\ OnePerNonce(hashes, nonce, nonce')

Next == Commit(executed' \ executed)

Spec == Init /\ [][Next]_vars
================================================================================
