----------------------------- MODULE SafeSignatures -----------------------------
(***************************************************************************)
(* The confirmations of a transaction: how they are collected, laid out in *)
(* one byte array (src/utils/execution.ts) and checked (checkNSignatures). *)
(*                                                                         *)
(* Bytes keep their offsets and lose their contents.  A static slot is     *)
(* [v, r, s, over]: r is the address it holds, or for ECDSA the account    *)
(* whose key made it, and over the digests it is a signature of.  A blob   *)
(* is the dynamic part of a contract signature.  Bytes read from anywhere  *)
(* else are noise: no key has made them and no contract takes them.        *)
(***************************************************************************)
EXTENDS Integers, Sequences, FiniteSets, SequencesExt

CONSTANTS
  Account,        \* accounts that may be owners, ordered like addresses
  Contract,       \* those that are contracts (EIP-1271); the others have a key
  Tx,
  InitialMembers, InitialQuorum,
  MaxNonce, MaxConfirmations, MaxSlots   \* bounds

ASSUME AccountAssumption == Account \subseteq Nat \ {0} /\ IsFiniteSet(Account)
ASSUME ContractAssumption == Contract \subseteq Account
ASSUME InitialAssumption ==
  InitialMembers \subseteq Account /\ InitialQuorum \in 1..Cardinality(InitialMembers)

Zero == 0                 \* address(0), and any relayer that is no account
SlotSize == 65
Word == 32
BlobSize == 65            \* of a contract signature: the same for all

(***************************************************************************)
(* members and quorum are the owners and the threshold of OwnerManager.    *)
(* approvedHashes is the mapping; signed are the ECDSA signatures made off *)
(* chain, in nobody's power to take back; accepts is what the contracts    *)
(* would confirm if they were asked now.                                   *)
(***************************************************************************)
VARIABLES members, quorum, nonce, approvedHashes, signed, accepts

vars == <<members, quorum, nonce, approvedHashes, signed, accepts>>

confirmations == <<approvedHashes, signed, accepts>>

Registry == INSTANCE OwnerRegistry WITH Candidate <- Account

TransactionHash(tx) == [tx |-> tx, nonce |-> nonce]

Hash == [tx : Tx, nonce : 0..(MaxNonce - 1)]

\* eth_sign signs the hash with a prefix; v tells the contract so.
Digest(hash, v) == [hash |-> hash, prefixed |-> v > 30]

Init ==
  /\ members = InitialMembers /\ quorum = InitialQuorum /\ nonce = 0
  /\ approvedHashes = {} /\ signed = {} /\ accepts = {}

--------------------------------------------------------------------------------
(***************************************************************************)
(* The layout of buildSignatureBytes: the slots, sorted by signer, then    *)
(* the blobs, each at the offset that its slot holds in s.                 *)
(***************************************************************************)
\* Every blob at the end of the slots, whatever blobs precede it.
LayoutSlip(claims) ==
  LET n == Len(claims)
      Dynamic == {i \in 1..n : claims[i].v = 0}
      Offset(i) == n * SlotSize + Cardinality({j \in Dynamic : j < i}) * (Word + BlobSize)
  IN [slots  |-> [i \in 1..n |-> [v |-> claims[i].v, r |-> claims[i].signer,
                                  s |-> IF i \in Dynamic THEN n * SlotSize ELSE 0,
                                  over |-> claims[i].over]],
      blobs  |-> {[at |-> Offset(i), by |-> claims[i].signer] : i \in Dynamic},
      length |-> Offset(n + 1)]

Layout(claims) ==
  LET n == Len(claims)
      Dynamic == {i \in 1..n : claims[i].v = 0}
      Offset(i) == n * SlotSize + Cardinality({j \in Dynamic : j < i}) * (Word + BlobSize)
  IN [slots  |-> [i \in 1..n |-> [v |-> claims[i].v, r |-> claims[i].signer,
                                  s |-> IF i \in Dynamic THEN Offset(i) ELSE 0,
                                  over |-> claims[i].over]],
      blobs  |-> {[at |-> Offset(i), by |-> claims[i].signer] : i \in Dynamic},
      length |-> Offset(n + 1)]

\* The claims in the order of their signers.
SortedBySigner(claims) ==
  CHOOSE s \in [1..Cardinality(claims) -> claims] :
    IsInjective(s) /\ \A i, j \in DOMAIN s : i < j => s[i].signer <= s[j].signer

buildSignatureBytes(claims) == Layout(SortedBySigner(claims))

--------------------------------------------------------------------------------
(***************************************************************************)
(* The check.                                                              *)
(***************************************************************************)
Noise == [v |-> 27, r |-> Zero, s |-> 0, over |-> {}]

signatureSplit(signatures, pos) ==
  IF pos \in DOMAIN signatures.slots THEN signatures.slots[pos] ELSE Noise

ecrecover(digest, slot) == IF digest \in slot.over THEN slot.r ELSE Zero

isValidSignature(owner, dataHash, blob) ==
  blob.by = owner /\ [by |-> owner, hash |-> dataHash] \in accepts

checkContractSignature(owner, dataHash, signatures, offset) ==
  /\ offset + Word + BlobSize <= signatures.length            \* GS022, GS023
  /\ \E blob \in signatures.blobs :
        blob.at = offset /\ isValidSignature(owner, dataHash, blob)   \* GS024

\* Whom a slot stands for: the address that it names, or the one that signed.
CurrentOwner(slot, dataHash) ==
  IF slot.v \in {0, 1} THEN slot.r ELSE ecrecover(Digest(dataHash, slot.v), slot)

\* The check that a slot of each kind has to pass, apart from its order.
Vouched(executor, dataHash, signatures, slot, required) ==
  /\ slot.v = 0 => /\ slot.s >= required * SlotSize           \* GS021
                   /\ checkContractSignature(slot.r, dataHash, signatures, slot.s)
  /\ slot.v = 1 => \/ executor = slot.r                       \* GS025
                   \/ [by |-> slot.r, hash |-> dataHash] \in approvedHashes

\* Nothing may follow the slots that are looked at but blobs.
CoversSlip(signatures, required) == Len(signatures.slots) = required

Covers(signatures, required) == signatures.length >= required * SlotSize   \* GS020

\* Owners may repeat.
AscendsSlip(current, last) == current >= last

Ascends(current, last) == current > last                      \* GS026

\* Only the first `required` slots are looked at.
checkNSignatures(executor, dataHash, signatures, required) ==
  LET slot(i) == signatureSplit(signatures, i)
      owner(i) == IF i = 0 THEN Zero ELSE CurrentOwner(slot(i), dataHash)
  IN /\ Covers(signatures, required)
     /\ \A i \in 1..required :
          /\ Vouched(executor, dataHash, signatures, slot(i), required)
          /\ Ascends(owner(i), owner(i - 1)) /\ owner(i) \in members

checkSignatures(executor, dataHash, signatures) ==
  quorum # 0 /\ checkNSignatures(executor, dataHash, signatures, quorum)   \* GS001

--------------------------------------------------------------------------------
(***************************************************************************)
(* What a relayer can put together: any slots in any order, as long as the *)
(* ECDSA signatures exist, and any end of the array missing.               *)
(***************************************************************************)
Claims ==
  [signer : Account, v : {1}, over : {{}}]
    \cup [signer : Contract, v : {0}, over : {{}}]
    \cup UNION {[signer : {c.by}, v : {27, 31}, over : {{c.over}}] : c \in signed}

Submitted ==
  {[Layout(claims) EXCEPT !.length = @ - cut] :
     claims \in BoundedSeq(Claims, MaxSlots), cut \in {0, 1}}

\* The owners change by calls of the Safe to itself, which the transaction or the
\* code that it calls may make.
Executes == Registry!Next \/ UNCHANGED <<members, quorum>>

execTransaction(tx, executor, signatures) ==
  /\ nonce < MaxNonce
  /\ checkSignatures(executor, TransactionHash(tx), signatures)
  /\ nonce' = nonce + 1
  /\ Executes
  /\ UNCHANGED confirmations

execTransactionFromModule == Registry!Next /\ UNCHANGED <<nonce, confirmations>>

More == Cardinality(approvedHashes) + Cardinality(signed) + Cardinality(accepts)
          < MaxConfirmations

approveHash(owner, hash) ==
  /\ More /\ owner \in members                                \* GS030
  /\ approvedHashes' = approvedHashes \cup {[by |-> owner, hash |-> hash]}
  /\ UNCHANGED <<members, quorum, nonce, signed, accepts>>

\* safeSignTypedData (27, 28) and signHash (31, 32).
safeSign(signer, hash, v) ==
  /\ More /\ signer \notin Contract
  /\ signed' = signed \cup {[by |-> signer, over |-> Digest(hash, v)]}
  /\ UNCHANGED <<members, quorum, nonce, approvedHashes, accepts>>

\* A contract starts or stops to accept a hash.
ContractDecides(contract, hash) ==
  LET entry == [by |-> contract, hash |-> hash]
  IN /\ entry \in accepts \/ More
     /\ accepts' = IF entry \in accepts THEN accepts \ {entry} ELSE accepts \cup {entry}
     /\ UNCHANGED <<members, quorum, nonce, approvedHashes, signed>>

Next ==
  \/ \E tx \in Tx, executor \in Account \cup {Zero}, signatures \in Submitted :
        execTransaction(tx, executor, signatures)
  \/ execTransactionFromModule
  \/ \E a \in Account, h \in Hash :
        approveHash(a, h) \/ \E v \in {27, 31} : safeSign(a, h, v)
  \/ \E c \in Contract, h \in Hash : ContractDecides(c, h)

Spec == Init /\ [][Next]_vars

--------------------------------------------------------------------------------
\* Whatever array is submitted, a transaction is executed only if as many of its owners
\* as the threshold, at that moment, have confirmed it for the current nonce: no owner
\* counts twice by confirming in several ways, no former owner by an approval that the
\* Safe still holds, no signature for another nonce (Safe.sol:271).
confirmed ==
  approvedHashes \cup accepts \cup {[by |-> c.by, hash |-> c.over.hash] : c \in signed}

Abstract == INSTANCE Multisig WITH Outsider <- Zero

ImplementsMultisig == Abstract!Spec

\* The ways in which an account confirms a hash, as buildSignatureBytes gets them.
ConfirmationsBy(account, hash) ==
  {c \in Claims :
     /\ c.signer = account
     /\ c.v = 0 => [by |-> account, hash |-> hash] \in accepts
     /\ c.v = 1 => [by |-> account, hash |-> hash] \in approvedHashes
     /\ c.v > 1 => Digest(hash, c.v) \in c.over}

\* One confirmation of each of the signers that can give one.
Collections(hash, signers) ==
  {claims \in SUBSET (UNION {ConfirmationsBy(a, hash) : a \in signers}) :
     \A a \in signers : \E c \in claims : {d \in claims : d.signer = a} = {c}}

\* Confirmations that suffice are accepted: buildSignatureBytes makes an array that
\* passes from any of the confirmations of any owners, if they are as many as the
\* threshold or more, and whoever relays it (execution.ts:143, Safe.sol:271).
EnoughIsAccepted ==
  \A tx \in Tx, signers \in SUBSET members :
    LET hash == TransactionHash(tx)
    IN Cardinality(signers) >= quorum =>
         \A claims \in Collections(hash, signers) :
           checkSignatures(Zero, hash, buildSignatureBytes(claims))

\* An array that waits to be relayed stays good when owners are added, when more is
\* confirmed and when the threshold sinks, although it was laid out for another
\* threshold (Safe.sol:288-291, "it is possible that more signatures than the threshold
\* are send").
Relayable ==
  {array \in [tx : Tx, signatures : Submitted] :
     checkSignatures(Zero, TransactionHash(array.tx), array.signatures)}

StaysRelayable ==
  [][ /\ nonce' = nonce /\ members \subseteq members' /\ quorum' <= quorum
      /\ accepts \subseteq accepts'
      => Relayable \subseteq Relayable' ]_vars
================================================================================
