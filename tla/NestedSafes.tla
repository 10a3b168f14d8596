------------------------------- MODULE NestedSafes -------------------------------
(***************************************************************************)
(* Safes that own a Safe.  A child confirms a transaction of its parent    *)
(* with a message: its owners sign the message's hash, or the child        *)
(* executes SignMessageLib.signMessage, or it calls approveHash of the     *)
(* parent.  The parent asks the child's fallback handler,                  *)
(* CompatibilityFallbackHandler.isValidSignature.  Children may share      *)
(* owners, replace them and change their handlers meanwhile.  As in        *)
(* gnosisSafeNestedSafes.js, the owners of children are people.            *)
(***************************************************************************)
EXTENDS Integers, FiniteSets

CONSTANTS
  Safe, Parent,         \* the Safes, among them the one the others own
  OwnersOf, ThresholdOf, \* of each Safe, at first
  Payee,                \* what the parent's transactions differ in
  Newcomer,             \* who may replace an owner
  MaxNonce, MaxAgreed   \* bounds: transactions of a Safe, signatures

\* The parent does not own itself (OwnerManager.sol:38); people own the children.
NestingAssumption ==
  /\ Parent \in Safe /\ DOMAIN OwnersOf = Safe /\ Parent \notin OwnersOf[Parent]
  /\ \A s \in Safe : IsFiniteSet(OwnersOf[s])
  /\ \A s \in Safe \ {Parent} : OwnersOf[s] \cap Safe = {}
  /\ Newcomer \cap Safe = {} /\ ThresholdOf \in [Safe -> Nat \ {0}]

ASSUME NestingAssumption

VARIABLES
  owners, nonce, handler,  \* of each Safe; handler: whether it has a fallback handler
  signedMessages,          \* of each Safe: hashes
  approvedHashes,          \* of each Safe: owners with hashes
  signatures,              \* all signatures there are: signer and digest
  agreed, decided,         \* what people meant to sign, and what Safes decided to confirm
  executed                 \* the transactions that were executed

storage == <<owners, nonce, handler, signedMessages, approvedHashes>>
nestedVars == <<storage, signatures, agreed, decided, executed>>

--------------------------------------------------------------------------------
(***************************************************************************)
(* Transactions and hashes.  A transaction belongs to a Safe and a nonce.  *)
(***************************************************************************)
Transaction(s, n, call) == [safe |-> s, nonce |-> n, call |-> call]

ParentTransactions ==
  {Transaction(Parent, nonce[Parent], [op |-> "pay", to |-> p]) : p \in Payee}

Calls(s) ==
  IF s = Parent THEN {tx.call : tx \in ParentTransactions}
  ELSE {[op |-> o, message |-> tx] : o \in {"signMessage", "approveHash"}, tx \in ParentTransactions}
       \cup {[op |-> "swapOwner", old |-> o, new |-> p] : o \in owners[s], p \in Newcomer \ owners[s]}
       \cup {[op |-> "setFallbackHandler", set |-> ~handler[s]]}

SafeTxHash(tx) == [type |-> "SafeTx", tx |-> tx]

\* Leaves out the domain separator.
MessageHashSlip(s, hash) == [type |-> "SafeMessage", domain |-> Parent, message |-> hash]

\* Counts the messages with the Safe's nonce.
MessageHashOnce(s, hash) == [type |-> "SafeMessage", domain |-> <<s, nonce[s]>>, message |-> hash]

MessageHash(s, hash) == [type |-> "SafeMessage", domain |-> s, message |-> hash]

--------------------------------------------------------------------------------
(***************************************************************************)
(* Checking.  Whoever relays picks the signatures, so a hash is accepted   *)
(* if enough owners confirm it in any of the ways there are.               *)
(***************************************************************************)
Confirms(o, s, hash) ==
  \/ [signer |-> o, digest |-> hash] \in signatures
  \/ [owner |-> o, hash |-> hash] \in approvedHashes[s]

\* A child's, whose owners are no Safes.  A Safe without a handler returns nothing,
\* which is not the magic value.
isValidSignature(s, hash) ==
  /\ handler[s]
  /\ LET message == MessageHash(s, hash)
     IN \/ message \in signedMessages[s]
        \/ Cardinality({p \in owners[s] : Confirms(p, s, message)}) >= ThresholdOf[s]

checkSignatures(s, hash) ==
  Cardinality({o \in owners[s] : Confirms(o, s, hash) \/ (o \in Safe /\ isValidSignature(o, hash))})
    >= ThresholdOf[s]

--------------------------------------------------------------------------------
CanAgree(person, s) ==
  /\ person \in owners[s] \ Safe
  /\ Cardinality(agreed) < MaxAgreed

SignTransaction(person, s) ==
  /\ CanAgree(person, s)
  /\ \E call \in Calls(s) : LET tx == Transaction(s, nonce[s], call) IN
       /\ agreed' = agreed \cup {[who |-> person, tx |-> tx]}
       /\ signatures' = signatures \cup {[signer |-> person, digest |-> SafeTxHash(tx)]}
  /\ UNCHANGED <<storage, decided, executed>>

safeSignMessage(person, s) ==
  /\ CanAgree(person, s)
  /\ \E tx \in ParentTransactions :
       /\ agreed' = agreed \cup {[who |-> person, forSafe |-> s, confirms |-> tx]}
       /\ signatures' = signatures \cup
            {[signer |-> person, digest |-> MessageHash(s, SafeTxHash(tx))]}
  /\ UNCHANGED <<storage, decided, executed>>

\* A call that a Safe makes.
signMessage(s, call) ==
  /\ call.op = "signMessage"
  /\ signedMessages' =
       [signedMessages EXCEPT ![s] = @ \cup {MessageHash(s, SafeTxHash(call.message))}]
  /\ decided' = decided \cup {[safe |-> s, confirms |-> call.message]}
  /\ UNCHANGED <<owners, handler, approvedHashes>>

approveHash(s, call) ==
  /\ call.op = "approveHash"
  /\ s \in owners[Parent]                                 \* GS030
  /\ approvedHashes' = [approvedHashes EXCEPT
       ![Parent] = @ \cup {[owner |-> s, hash |-> SafeTxHash(call.message)]}]
  /\ decided' = decided \cup {[safe |-> s, confirms |-> call.message]}
  /\ UNCHANGED <<owners, handler, signedMessages>>

swapOwner(s, call) ==
  /\ call.op = "swapOwner"
  /\ call.old \in owners[s] /\ call.new \notin owners[s]  \* GS203 to GS205
  /\ owners' = [owners EXCEPT ![s] = (@ \ {call.old}) \cup {call.new}]
  /\ UNCHANGED <<handler, signedMessages, approvedHashes, decided>>

setFallbackHandler(s, call) ==
  /\ call.op = "setFallbackHandler"
  /\ handler' = [handler EXCEPT ![s] = call.set]
  /\ UNCHANGED <<owners, signedMessages, approvedHashes, decided>>

Pay(call) ==
  call.op = "pay" /\ UNCHANGED <<owners, handler, signedMessages, approvedHashes, decided>>

\* Without a refund and safeTxGas, what fails is as if it had not been sent (GS013).
execTransaction(s) ==
  /\ nonce[s] < MaxNonce
  /\ \E call \in Calls(s) : LET tx == Transaction(s, nonce[s], call) IN
       /\ checkSignatures(s, SafeTxHash(tx))
       /\ nonce' = [nonce EXCEPT ![s] = @ + 1]
       /\ executed' = executed \cup {tx}
       /\ \/ signMessage(s, call) \/ approveHash(s, call) \/ swapOwner(s, call)
          \/ setFallbackHandler(s, call) \/ Pay(call)
  /\ UNCHANGED <<signatures, agreed>>

NestedInit ==
  /\ owners = OwnersOf
  /\ nonce = [s \in Safe |-> 0]
  /\ handler = [s \in Safe |-> TRUE]
  /\ signedMessages = [s \in Safe |-> {}] /\ approvedHashes = [s \in Safe |-> {}]
  /\ signatures = {} /\ agreed = {} /\ decided = {} /\ executed = {}

NestedNext ==
  \E s \in Safe :
    \/ execTransaction(s)
    \/ \E p \in owners[s] : SignTransaction(p, s) \/ (s # Parent /\ safeSignMessage(p, s))

NestedSpec == NestedInit /\ [][NestedNext]_nestedVars

--------------------------------------------------------------------------------
\* An owner who is a person meant this transaction; an owner who is a Safe decided to
\* confirm it at some time, or enough of those who own it now meant to confirm it in
\* its name.
Backs(o, tx) ==
  IF o \in Safe
  THEN \/ [safe |-> o, confirms |-> tx] \in decided
       \/ Cardinality({p \in owners[o] : [who |-> p, forSafe |-> o, confirms |-> tx] \in agreed})
            >= ThresholdOf[o]
  ELSE [who |-> o, tx |-> tx] \in agreed

\* What executes is backed by enough owners of the moment: a person who owns two Safes
\* confirms only in the name of the one they signed for, a message is no transaction,
\* and what people signed for a Safe that they no longer own does not count, while what
\* the Safe itself has confirmed on the chain stays confirmed (SignMessageLib.sol:24).
ExecutesWhatOwnersBack ==
  [][\A tx \in executed' \ executed :
       Cardinality({o \in owners[tx.safe] : Backs(o, tx)}) >= ThresholdOf[tx.safe]]_nestedVars

\* As long as owners and handlers stay and the nonce is not used, what the parent accepts
\* it goes on accepting, whatever its owners execute meanwhile.
StaysAccepted ==
  [][\A tx \in ParentTransactions :
       /\ checkSignatures(Parent, SafeTxHash(tx))
       /\ nonce'[Parent] = nonce[Parent] /\ UNCHANGED <<owners, handler>>
       => checkSignatures(Parent, SafeTxHash(tx))']_nestedVars
================================================================================
