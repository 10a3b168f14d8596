---------------------------- MODULE AccountRegistry -----------------------------
(***************************************************************************)
(* What someone who computes the address of a Safe before it exists relies *)
(* on: the address promises a setting, on every chain, and a Safe that is  *)
(* there has been set up with it and was set up once.  An address whose    *)
(* initializer is empty promises nothing, and one that was computed for a  *)
(* chain exists on no other.                                               *)
(***************************************************************************)
CONSTANTS Empty,        \* the empty initializer
          NoHandler,    \* no fallback handler is set
          NoChain       \* of an address that is the same on every chain

VARIABLE accounts       \* [chain, at, setting] of every Safe

Fresh == [owners |-> {}, threshold |-> 0, handler |-> NoHandler, modules |-> {}]

Configured(config) ==
  [owners |-> config.owners, threshold |-> config.threshold,
   handler |-> config.handler, modules |-> config.modules]

Kept(account) ==
  \/ account.at.initializer = Empty
  \/ account.setting = Configured(account.at.initializer)

Init == accounts = {}

\* One Ethereum transaction may create and set up any number of accounts.
Found(founded) ==
  /\ accounts' = founded
  /\ \A old \in accounts :
       \/ old \in founded
       \/ /\ old.setting = Fresh
          /\ \E new \in founded : new.chain = old.chain /\ new.at = old.at
  /\ \A new, other \in founded :
       new.chain = other.chain /\ new.at = other.at => new = other
  /\ \A new \in founded : Kept(new) /\ new.at.chain \in {NoChain, new.chain}

Next == Found(accounts')

Spec == Init /\ [][Next]_accounts
================================================================================
