------------------------------- MODULE SafeClient --------------------------------
(***************************************************************************)
(* The client side of a Safe, execution.ts: scripts that build a contract  *)
(* call, have it signed by several signers and send it.  Every await lets  *)
(* another script, a relayer or the chain go on, so the nonce that a       *)
(* script read may be used up when its signatures are complete, and when   *)
(* its transaction is mined.  A signer signs for the chain that its own    *)
(* provider is connected to; the Safe has one address on every chain.      *)
(***************************************************************************)
EXTENDS Integers, FiniteSets, Sequences, SequencesExt

CONSTANTS
  Chain,            \* chain ids
  Owner, Threshold, \* the Safe's owners, numbered in the order of their addresses
  Client,           \* scripts, each with one call to make
  CallOf,           \* their calls: contract, method, params, delegateCall, overrides
  HomeOf,           \* the chain of each script's Safe
  SafeAddress, AddressZero,
  MaxCopies         \* bound: pending transactions that strangers overtake

ASSUME ClientAssumption ==
  /\ Owner \subseteq Nat /\ IsFiniteSet(Owner)
  /\ Threshold \in 1..Cardinality(Owner)
  /\ HomeOf \in [Client -> Chain]

VARIABLES
  safe,       \* on every chain: the nonce, and the transactions executed
  providerOf, \* the chain that each signer is connected to
  client,     \* the local variables of each script
  signed,     \* what every signer has signed, and for which chain
  copies      \* how often a stranger has relayed

vars == <<safe, providerOf, client, signed, copies>>

--------------------------------------------------------------------------------
(***************************************************************************)
(* Building a transaction.  What the template leaves out gets a default,   *)
(* and overrides may replace anything, the nonce included.                 *)
(***************************************************************************)
\* The type SafeTx of EIP-712.
SafeTx ==
  {"to", "value", "data", "operation", "safeTxGas", "baseGas", "gasPrice", "gasToken",
   "refundReceiver", "nonce"}

\* Object.assign: what the source has goes over what the target has.
assign(target, object) ==
  [f \in DOMAIN target \cup DOMAIN object |->
     IF f \in DOMAIN object THEN object[f] ELSE target[f]]

Default ==
  [value |-> 0, data |-> <<>>, operation |-> 0, safeTxGas |-> 0, baseGas |-> 0,
   gasPrice |-> 0, gasToken |-> AddressZero, refundReceiver |-> AddressZero]

buildSafeTransaction(template) == [f \in SafeTx |-> assign(Default, template)[f]]

\* Builds for the nonce after the one that is read.
buildContractCallSlip(call, nonce) ==
  buildSafeTransaction(
    assign(
      [to |-> call.contract, data |-> <<call.method, call.params>>,
       operation |-> IF call.delegateCall THEN 1 ELSE 0, nonce |-> nonce + 1],
      call.overrides))

buildContractCall(call, nonce) ==
  buildSafeTransaction(
    assign(
      [to |-> call.contract, data |-> <<call.method, call.params>>,
       operation |-> IF call.delegateCall THEN 1 ELSE 0, nonce |-> nonce],
      call.overrides))

\* What is hashed: the domain and the transaction.
Digest(chainId, tx) == [chainId |-> chainId, verifyingContract |-> SafeAddress, tx |-> tx]

\* Forgets the chain: the domain is only the address.
calculateSafeTransactionHashSlip(safeTx, chainId) ==
  Digest(0, [f \in SafeTx |-> safeTx[f]])

\* Forgets the nonce.
TransactionHashSlip(safeTx, chainId) ==
  Digest(chainId, [f \in SafeTx \ {"nonce"} |-> safeTx[f]])

calculateSafeTransactionHash(safeTx, chainId) ==
  Digest(chainId, [f \in SafeTx |-> safeTx[f]])

--------------------------------------------------------------------------------
(***************************************************************************)
(* The Safe.  execTransaction takes no nonce: the hash is that of the      *)
(* parameters with the Safe's current one.  The first Threshold signatures *)
(* in the order of the signers have to be for this hash.                   *)
(***************************************************************************)
FirstSigners(signatures) ==
  LET signers == {s.signer : s \in signatures}
  IN {o \in signers : Cardinality({p \in signers : p < o}) < Threshold}

checkNSignatures(digest, signatures) ==
  LET first == FirstSigners(signatures)
  IN /\ Cardinality(first) = Threshold
     /\ \A o \in first : o \in Owner /\ [signer |-> o, digest |-> digest] \in signatures

WithCurrentNonce(chain, safeTx) == [safeTx EXCEPT !.nonce = safe[chain].nonce]

Accepts(chain, safeTx, signatures) ==
  checkNSignatures(
    calculateSafeTransactionHash(WithCurrentNonce(chain, safeTx), chain), signatures)

Executed(chain, safeTx) ==
  [safe EXCEPT ![chain].nonce = @ + 1,
               ![chain].log = Append(@, WithCurrentNonce(chain, safeTx))]

--------------------------------------------------------------------------------
Idle == [pc |-> "idle", tx |-> <<>>, sigs |-> {}]

Init ==
  /\ safe = [c \in Chain |-> [nonce |-> 0, log |-> <<>>]]
  /\ providerOf \in [Owner -> Chain]
  /\ client = [c \in Client |-> Idle]
  /\ signed = {} /\ copies = 0

\* executeContractCallWithSigners up to its first signature: reads the nonce.
executeContractCallWithSigners(c) ==
  /\ client[c].pc = "idle"
  /\ client' = [client EXCEPT ![c] =
       [@ EXCEPT !.pc = "signing",
                 !.tx = buildContractCall(CallOf[c], safe[HomeOf[c]].nonce)]]
  /\ UNCHANGED <<safe, providerOf, signed, copies>>

\* safeSignTypedData, of any of the signers that Promise.all waits for.
safeSignTypedData(c, o) ==
  /\ client[c].pc = "signing" /\ \A s \in client[c].sigs : s.signer # o
  /\ client' = [client EXCEPT ![c].sigs = @ \cup
       {[signer |-> o, digest |-> calculateSafeTransactionHash(client[c].tx, providerOf[o])]}]
  /\ signed' = signed \cup {[signer |-> o, chain |-> providerOf[o], tx |-> client[c].tx]}
  /\ UNCHANGED <<safe, providerOf, copies>>

\* executeTxWithSigners: all the promises are fulfilled.
AllSigned(c) ==
  client[c].pc = "signing" /\ {s.signer : s \in client[c].sigs} = Owner

\* executeTx, when all have signed.  The transaction is simulated to estimate its
\* gas, which throws if it would revert now; otherwise it is sent.
executeTx(c) ==
  /\ AllSigned(c)
  /\ client' = [client EXCEPT ![c].pc =
       IF Accepts(HomeOf[c], client[c].tx, client[c].sigs) THEN "pending" ELSE "threw"]
  /\ UNCHANGED <<safe, providerOf, signed, copies>>

\* The transaction is mined, in any order with the others.
Mined(c) ==
  /\ client[c].pc = "pending"
  /\ IF Accepts(HomeOf[c], client[c].tx, client[c].sigs)
     THEN /\ safe' = Executed(HomeOf[c], client[c].tx)
          /\ client' = [client EXCEPT ![c].pc = "executed"]
     ELSE client' = [client EXCEPT ![c].pc = "reverted"] /\ UNCHANGED safe
  /\ UNCHANGED <<providerOf, signed, copies>>

\* Anybody who sees a pending transaction may send the same, on any chain.
Copied(c, chain) ==
  /\ client[c].pc = "pending" /\ copies < MaxCopies
  /\ Accepts(chain, client[c].tx, client[c].sigs)
  /\ safe' = Executed(chain, client[c].tx)
  /\ copies' = copies + 1
  /\ UNCHANGED <<client, providerOf, signed>>

\* Whoever runs the script runs it again after a failure.
RunAgain(c) ==
  /\ client[c].pc \in {"threw", "reverted"}
  /\ client' = [client EXCEPT ![c] = Idle]
  /\ UNCHANGED <<safe, providerOf, signed, copies>>

Step(c) ==
  \/ executeContractCallWithSigners(c)
  \/ \E o \in Owner : safeSignTypedData(c, o)
  \/ executeTx(c) \/ Mined(c) \/ RunAgain(c)

Next == \E c \in Client : Step(c) \/ \E chain \in Chain : Copied(c, chain)

\* Scripts and miners go on; nobody has to copy.
Spec == Init /\ [][Next]_vars /\ \A c \in Client : WF_vars(Step(c))

--------------------------------------------------------------------------------
\* Whatever a chain has executed, as many owners as the threshold asks for have signed
\* it for this chain and this nonce, with all its parameters: no signature counts on
\* the other chain with the same Safe, for another nonce, or for a call that was
\* changed after it (execution.ts:65, Safe.sol:393).
OnlyWhatWasSigned ==
  \A chain \in Chain : \A i \in DOMAIN safe[chain].log :
    LET tx == [safe[chain].log[i] EXCEPT !.nonce = i - 1]
    IN Cardinality({s \in signed : s.chain = chain /\ s.tx = tx}) >= Threshold

\* Of the scripts that read the same nonce before one of them was mined, one is told
\* that it executed, and what it built is what the Safe executed with that nonce; those
\* that are told of a revert have lost their nonce for good, so that what they built
\* cannot be executed later, after they were run again (execution.ts:250, where the nonce
\* is read before anybody signs).
OneWinnerPerNonce ==
  /\ \A c, d \in Client :
       c # d /\ HomeOf[c] = HomeOf[d] /\ client[c].pc = "executed" /\
       client[d].pc = "executed" => client[c].tx.nonce # client[d].tx.nonce
  /\ \A c \in Client : client[c].pc = "executed" =>
       client[c].tx \in Range(safe[HomeOf[c]].log)
  /\ \A c \in Client : client[c].pc = "reverted" =>
       client[c].tx.nonce < safe[HomeOf[c]].nonce

\* Scripts that race for nonces all get through, however often they have to be run
\* again, if their signers are on the right chain and no override fixes their nonce:
\* each failure is another's success.
EveryCallLands ==
  \A c \in {d \in Client : "nonce" \notin DOMAIN CallOf[d].overrides} :
    (\A o \in Owner : providerOf[o] = HomeOf[c]) => <>(client[c].pc = "executed")
================================================================================
