-------------------------------- MODULE Multisig --------------------------------
(***************************************************************************)
(* What a Safe promises about confirmations, with no trace of signatures   *)
(* and of the bytes they travel in: the transaction with the next nonce is *)
(* executed only if enough of those who are members at that moment stand   *)
(* behind it.  Members change by transactions, or by modules.              *)
(***************************************************************************)
EXTENDS Integers, FiniteSets

CONSTANTS
  Account,        \* those who may be members, and relay
  Outsider,       \* anyone else who relays
  Tx              \* transactions

VARIABLES members, quorum, nonce, confirmed

vars == <<members, quorum, nonce, confirmed>>

Registry == INSTANCE OwnerRegistry WITH Candidate <- Account

Hash(tx) == [tx |-> tx, nonce |-> nonce]

\* The members behind a transaction: whoever relays it confirms it by that.
Behind(relayer, hash) ==
  {m \in members : m = relayer \/ [by |-> m, hash |-> hash] \in confirmed}

Init == members \subseteq Account /\ quorum \in Nat /\ nonce = 0 /\ confirmed = {}

Execute(tx) ==
  /\ quorum > 0
  /\ \E relayer \in Account \cup {Outsider} :
        Cardinality(Behind(relayer, Hash(tx))) >= quorum
  /\ nonce' = nonce + 1
  /\ [Registry!Next]_<<members, quorum>>
  /\ UNCHANGED confirmed

\* Anyone gives confirmations, and takes some of them back, at any time: only his own.
Confirm(account) ==
  /\ {c \in confirmed' : c.by # account} = {c \in confirmed : c.by # account}
  /\ UNCHANGED <<members, quorum, nonce>>

Govern == Registry!Next /\ UNCHANGED <<nonce, confirmed>>

Next == (\E tx \in Tx : Execute(tx)) \/ (\E a \in Account : Confirm(a)) \/ Govern

Spec == Init /\ [][Next]_vars
================================================================================
