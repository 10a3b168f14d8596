---------------------------- MODULE RefundedExecution ----------------------------
(***************************************************************************)
(* Gas, refunds and those who relay transactions for them: the part of     *)
(* Safe.execTransaction that counts, and executeTransactionWithSigner of   *)
(* tests_deprecated/utils/execution.js, which estimates, signs, sends and  *)
(* checks what came of it.  Between any two of its steps the target may    *)
(* have become costlier or have begun to fail, another client may have     *)
(* used the nonce, and once it is signed anybody may relay the transaction *)
(* with as much gas and at the price they choose.                          *)
(***************************************************************************)
EXTENDS GasRules, Sequences, SequencesExt, TLC

CONSTANTS
  Client, Options,    \* executions, and the opts they may be called with
  Presigned,          \* transactions that owners have signed elsewhere
  Target,             \* what the target may do: the gas it needs, and whether it reverts
  Token, Ether,       \* the gas tokens: one contract, or address(0) for ether
  TokenMode,          \* what the token's contract may be
  InitialEther, InitialTokens,  \* what the Safe has at first
  Overhead,           \* cost of the code up to the call and of the call itself
  BaseCost,           \* cost of the Ethereum transaction around the execution
  Payload, Signatures, \* bytes of the call data, number of signatures
  GAS_PRICE, BlockGasLimit,
  Gas, Price,         \* what a stranger who relays may choose
  MaxLoops,           \* bound: rounds of the simulation, 100 in the source
  MaxChanges          \* bound: changes of the target

\* What is signed of a transaction.
Transaction ==
  [value : Nat, gasToken : {Token, Ether}, nonce : Nat, gasPrice : Nat, safeTxGas : Nat,
   baseGas : Nat]

ASSUME GasAssumption ==
  /\ Overhead \subseteq Nat /\ Gas \subseteq Nat /\ Price \subseteq Nat
  /\ BlockGasLimit \in Nat /\ BlockGasLimit >= 10000 /\ GAS_PRICE \in Nat
  /\ Signatures \in Nat /\ BaseCost \in Nat
  /\ \A t \in Target : t.cost \in Nat
  /\ Presigned \subseteq Transaction
  /\ \A o \in Options : /\ o.value \in Nat /\ o.gasToken \in {Token, Ether}
                        /\ o.gasPrice \in Nat /\ o.txGasPrice \in Nat /\ o.extraGas \in Nat

\* What the helper adds to an estimation, for nested calls.
NestedCallGas == 10000

\* The Safe's code costs no more than that more than when it was estimated.
ASSUME OverheadAssumption == \A o, p \in Overhead : p <= o + NestedCallGas

ASSUME TokenAssumption ==
  /\ Token # Ether /\ InitialTokens \in Int
  /\ TokenMode \subseteq {"bool", "silent", "long", "false", "reverts", "noCode"}

VARIABLES
  safe,      \* nonce, balances of ether and tokens, and the log of executions
  executor,  \* what those who relay have earned: ether, tokens
  target,    \* what the target would do now
  mode,      \* what the token is
  client,    \* the local variables of every executeTransactionWithSigner
  changes    \* how often the target has changed

vars == <<safe, executor, target, mode, client, changes>>

--------------------------------------------------------------------------------
(***************************************************************************)
(* Executing and paying.  A call that lacks gas uses all it got, one whose *)
(* value the Safe does not have costs nothing more than the attempt.       *)
(***************************************************************************)
execute(value, ether, gas) ==
  [success |-> value <= ether /\ ~target.reverts /\ target.cost <= gas,
   used |-> IF value <= ether THEN Smaller(target.cost, gas) ELSE 0]

\* A contract moves the tokens and says so in a word, says nothing or answers at length;
\* it may refuse, revert, or have no code.
Moves(amount) == mode \in {"bool", "silent", "long"} /\ amount <= safe.tokens

Answer(amount) ==
  CASE mode = "bool"    -> [success |-> TRUE, size |-> 32, word |-> Moves(amount)]
    [] mode = "silent"  -> [success |-> Moves(amount), size |-> 0, word |-> FALSE]
    [] mode = "long"    -> [success |-> Moves(amount), size |-> 64, word |-> TRUE]
    [] mode = "false"   -> [success |-> TRUE, size |-> 32, word |-> FALSE]
    [] mode = "reverts" -> [success |-> FALSE, size |-> 0, word |-> FALSE]
    [] mode = "noCode"  -> [success |-> TRUE, size |-> 0, word |-> FALSE]

\* Looks only at the success of the call.
transferTokenSlip(amount) == Answer(amount).success

transferToken(amount) ==
  LET answer == Answer(amount)
  IN \/ answer.size = 0 /\ answer.success
     \/ answer.size = 32 /\ answer.success /\ answer.word

\* Pays for the measured gas only.
PaymentSlip(tx, gasUsed, txGasPrice) ==
  gasUsed * RefundPrice(tx.gasToken = Ether, tx.gasPrice, txGasPrice)

\* What handlePayment computes, and that it does not revert (SafeMath, GS011, GS012).
Payment(tx, gasUsed, txGasPrice) ==
  (gasUsed + tx.baseGas) * RefundPrice(tx.gasToken = Ether, tx.gasPrice, txGasPrice)

CanPay(tx, payment, ether) ==
  /\ payment < Word
  /\ IF tx.gasToken = Ether THEN payment <= ether ELSE transferToken(payment)

\* A signed transaction is relayed, sent ether along, with gasLeft at the check of the
\* gas: what the Safe does, and whether it reverts.
Outcome(tx, sent, gasLeft, overhead, txGasPrice) ==
  LET gas == CallGas(gasLeft, overhead, GasLimit(gasLeft, tx.safeTxGas, tx.gasPrice))
      call == execute(tx.value, safe.ether + sent, gas)
      ether == safe.ether + sent - IF call.success THEN tx.value ELSE 0
      gasUsed == overhead + call.used
      payment == IF tx.gasPrice > 0 THEN Payment(tx, gasUsed, txGasPrice) ELSE 0
  IN [reverts |-> \/ tx.nonce # safe.nonce                               \* GS026
                  \/ gasLeft < GasRequired(tx.safeTxGas)                 \* GS010
                  \/ gasLeft < overhead                                  \* out of gas
                  \/ ~call.success /\ tx.safeTxGas = 0 /\ tx.gasPrice = 0 \* GS013
                  \/ tx.gasPrice > 0 /\ ~CanPay(tx, payment, ether),
      ether |-> ether, payment |-> payment, gasUsed |-> gasUsed,
      event |-> [tx |-> tx, success |-> call.success, payment |-> payment, gas |-> gas,
                 gasLeft |-> gasLeft, gasUsed |-> gasUsed, overhead |-> overhead,
                 txGasPrice |-> txGasPrice, target |-> target]]

execTransaction(tx, sent, gasLeft, overhead, txGasPrice) ==
  LET out == Outcome(tx, sent, gasLeft, overhead, txGasPrice)
      inEther == IF tx.gasToken = Ether THEN out.payment ELSE 0
      inTokens == IF tx.gasToken = Token /\ Moves(out.payment) THEN out.payment ELSE 0
  IN /\ ~out.reverts
     /\ safe' = [nonce |-> safe.nonce + 1, ether |-> out.ether - inEther,
                 tokens |-> safe.tokens - inTokens, log |-> Append(safe.log, out.event)]
     /\ executor' = [ether |-> executor.ether + inEther
                                 - (BaseCost + out.gasUsed) * txGasPrice,
                     tokens |-> executor.tokens + inTokens]

--------------------------------------------------------------------------------
(***************************************************************************)
(* executeTransactionWithSigner.                                           *)
(***************************************************************************)
byteGasCosts(hexValue) ==
  CASE hexValue = "0x" -> 0 [] hexValue = "00" -> 4 [] OTHER -> 68

calcDataGasCosts(data) == FoldLeft(LAMBDA sum, byte : sum + byteGasCosts(byte), 0, data)

ASSUME PayloadAssumption == calcDataGasCosts(Payload) \in Nat

estimateBaseGas(nonce) ==
  calcDataGasCosts(Payload) + Signatures * (68 + 2176 + 2176 + 6000)
    + (IF nonce > 0 THEN 5000 ELSE 20000) + 1500 + 1000 + 32000

Start(opts) ==
  [opts |-> opts, pc |-> "estimate", gas |-> 0, additionalGas |-> 10000, loops |-> 0,
   tx |-> <<>>, estimatedFor |-> <<>>]

\* Adds nothing for what requiredTxGas does not show.
EstimateSlip(c) ==
  /\ client[c].pc = "estimate"
  /\ \E overhead \in Overhead :
       LET call == execute(client[c].opts.value, safe.ether, BlockGasLimit)
       IN client' = [client EXCEPT
            ![c] = [@ EXCEPT !.pc = "sign", !.estimatedFor = target,
              !.tx = [value |-> client[c].opts.value, gasToken |-> client[c].opts.gasToken,
                      nonce |-> safe.nonce, gasPrice |-> 1, safeTxGas |-> call.used,
                      baseGas |-> estimateBaseGas(safe.nonce)]]]
  /\ UNCHANGED <<safe, executor, target, mode, changes>>

\* The first estimation: requiredTxGas returns what the call used, and fails if the
\* call does.  NestedCallGas is added.
Estimate(c) ==
  /\ client[c].pc = "estimate"
  /\ \E overhead \in Overhead :
       LET call == execute(client[c].opts.value, safe.ether, BlockGasLimit)
       IN client' = [client EXCEPT
            ![c] = [@ EXCEPT !.pc = "nonce", !.estimatedFor = target,
              !.gas = IF call.success THEN overhead + call.used + NestedCallGas ELSE 0]]
  /\ UNCHANGED <<safe, executor, target, mode, changes>>

SafeTxGasPrice(c) ==
  IF client[c].opts.gasPrice > 0 THEN client[c].opts.gasPrice
  ELSE IF client[c].opts.gasToken # Ether THEN 1 ELSE GAS_PRICE

\* The nonce is read, and the parameters that depend on it are chosen.
ReadNonce(c) ==
  /\ client[c].pc = "nonce"
  /\ LET o == client[c].opts
         tx == [value |-> o.value, gasToken |-> o.gasToken, nonce |-> safe.nonce,
                gasPrice |-> SafeTxGasPrice(c),
                safeTxGas |-> client[c].gas,
                baseGas |-> estimateBaseGas(safe.nonce) + o.extraGas]
     IN client' = [client EXCEPT ![c] =
          [@ EXCEPT !.tx = tx,
                    !.pc = IF client[c].gas > 0 THEN "simulate" ELSE "sign"]]
  /\ UNCHANGED <<safe, executor, target, mode, changes>>

\* Never gives up.
SimulateSlip(c) ==
  /\ client[c].pc = "simulate"
  /\ \E overhead \in Overhead :
       LET gas == AllBut64th(client[c].tx.safeTxGas - overhead)
       IN client' = [client EXCEPT ![c].pc =
            IF execute(client[c].opts.value, safe.ether, gas).success THEN "sign" ELSE @]
  /\ UNCHANGED <<safe, executor, target, mode, changes>>

\* A round of the loop: with no more gas than safeTxGas, does the call succeed?
Simulate(c) ==
  /\ client[c].pc = "simulate"
  /\ \E overhead \in Overhead :
       LET v == client[c]
           gas == AllBut64th(v.tx.safeTxGas - overhead)
           last == v.loops + 1 = MaxLoops
       IN client' = [client EXCEPT ![c] =
            IF execute(v.opts.value, safe.ether, gas).success
            THEN [v EXCEPT !.pc = "sign"]
            ELSE [v EXCEPT !.tx = [v.tx EXCEPT !.safeTxGas = v.tx.safeTxGas + v.additionalGas],
                           !.additionalGas = 2 * v.additionalGas, !.loops = v.loops + 1,
                           !.pc = IF last THEN "sign" ELSE "simulate"]]
  /\ UNCHANGED <<safe, executor, target, mode, changes>>

\* The owners sign; from now on anybody may relay.
Sign(c) ==
  /\ client[c].pc = "sign"
  /\ client' = [client EXCEPT ![c].pc = "estimateGas"]
  /\ UNCHANGED <<safe, executor, target, mode, changes>>

TxGasPrice(c) ==
  IF client[c].opts.txGasPrice > 0 THEN client[c].opts.txGasPrice ELSE client[c].tx.gasPrice

\* The estimate, or the block's limit if it does not even cover safeTxGas, and ten
\* thousand more.
GasToSend(tx, estimate) ==
  10000 + IF estimate < tx.safeTxGas THEN BlockGasLimit - 10000 ELSE estimate

\* estimateGas throws if the transaction would revert.
EstimateGas(c) ==
  /\ client[c].pc = "estimateGas"
  /\ \E overhead \in Overhead :
       LET tx == client[c].tx
           estimate == GasRequired(tx.safeTxGas) + overhead
           out == Outcome(tx, client[c].opts.sent, estimate, overhead, TxGasPrice(c))
       IN client' = [client EXCEPT ![c] =
            [client[c] EXCEPT !.pc = IF out.reverts THEN "threw" ELSE "sent",
                              !.gas = GasToSend(tx, estimate)]]
  /\ UNCHANGED <<safe, executor, target, mode, changes>>

SignedMaximum(tx) == (tx.baseGas + tx.safeTxGas) * tx.gasPrice

\* The event is the expected one.
checkTxEvent(c, event) == event.success = ~client[c].opts.fails

\* The assertions about what was executed.
Asserted(c, event) ==
  /\ checkTxEvent(c, event)
  /\ event.tx.safeTxGas > 0 => event.payment <= SignedMaximum(event.tx)

Mined(c) ==
  /\ client[c].pc = "sent"
  /\ \E overhead \in Overhead :
       LET out == Outcome(client[c].tx, client[c].opts.sent, client[c].gas, overhead,
                          TxGasPrice(c))
       IN IF out.reverts
          THEN client' = [client EXCEPT ![c].pc = "threw"] /\ UNCHANGED <<safe, executor>>
          ELSE /\ execTransaction(client[c].tx, client[c].opts.sent, client[c].gas,
                                  overhead, TxGasPrice(c))
               /\ client' = [client EXCEPT ![c].pc =
                     IF Asserted(c, out.event) THEN "done" ELSE "failedAssertion"]
  /\ UNCHANGED <<target, mode, changes>>

executeTransactionWithSigner(c) ==
  \/ Estimate(c) \/ ReadNonce(c) \/ Simulate(c) \/ Sign(c) \/ EstimateGas(c) \/ Mined(c)

--------------------------------------------------------------------------------
\* What anybody may relay.
Signed ==
  Presigned \cup
  {client[c].tx : c \in {d \in Client : client[d].pc \in {"estimateGas", "sent"}}}

Relay(tx, gasLeft, overhead, txGasPrice) ==
  /\ execTransaction(tx, 0, gasLeft, overhead, txGasPrice)
  /\ UNCHANGED <<target, mode, client, changes>>

TargetChanges ==
  /\ changes < MaxChanges
  /\ target' \in Target \ {target}
  /\ changes' = changes + 1
  /\ UNCHANGED <<safe, executor, mode, client>>

Init ==
  /\ safe = [nonce |-> 0, ether |-> InitialEther, tokens |-> InitialTokens, log |-> <<>>]
  /\ executor = [ether |-> 0, tokens |-> 0]
  /\ target \in Target /\ mode \in TokenMode
  /\ \E opts \in [Client -> Options] : client = [c \in Client |-> Start(opts[c])]
  /\ changes = 0

Next ==
  \/ \E c \in Client : executeTransactionWithSigner(c)
  \/ \E tx \in Signed, g \in Gas, o \in Overhead, p \in Price : Relay(tx, g, o, p)
  \/ TargetChanges

Fairness == \A c \in Client : WF_vars(executeTransactionWithSigner(c))

Spec == Init /\ [][Next]_vars /\ Fairness

--------------------------------------------------------------------------------
Events == Range(safe.log)

\* A relayer who gives as little gas as the check admits cannot starve the call: it gets
\* the gas that was signed, if no more than the 500 that are reserved for it go to the
\* code up to the call and to the call itself (Safe.sol:164).  Amounts of gas near 2^256,
\* where the check wraps around, are excluded.
CallGetsItsGas ==
  \A e \in Events :
    e.overhead <= 500 /\ 64 * e.gasLeft < Word /\ e.tx.safeTxGas + 3000 < Word
    => e.gas >= e.tx.safeTxGas

\* A relayer who gives a lot of gas, or pays a high price, cannot raise the refund: it is
\* bounded by what was signed and by what the call itself costs, in ether also by what
\* the relayer pays (docs/safe_tx_gas.md:21, Safe.sol:212).
PaymentBounded ==
  \A e \in Events : e.tx.gasPrice > 0 =>
    /\ e.payment <= SignedMaximum(e.tx) + e.overhead * e.tx.gasPrice
    /\ e.tx.gasToken = Ether => e.payment <= (e.gasUsed + e.tx.baseGas) * e.txGasPrice

\* What the events say was paid in tokens has arrived, whatever the token answers, unless
\* it has no code at all (SecuredTokenTransfer.sol:12).
InTokens(e) == IF e.tx.gasToken = Token THEN e.payment ELSE 0

Sums(log) ==
  LET sum[n \in 0..Len(log)] == IF n = 0 THEN 0 ELSE sum[n - 1] + InTokens(log[n])
  IN sum

TokensPaid(log) == Sums(log)[Len(log)]

PaymentsAreReal ==
  mode # "noCode" =>
    /\ executor.tokens = TokensPaid(safe.log)
    /\ safe.tokens = InitialTokens - executor.tokens

\* If the target is still what it was when the gas was estimated, nobody is charged more
\* than the maximum that was signed (tests_deprecated/utils/execution.js:145).
EstimateCovers ==
  \A c \in Client : \A e \in Events :
    /\ e.tx = client[c].tx /\ e.tx.safeTxGas > 0 /\ e.target = client[c].estimatedFor
    => e.payment <= SignedMaximum(e.tx)

\* Those who relay only what is worth it have not lost anything in the end, whatever the
\* calls did and cost, whichever of them failed and whoever signed and estimated them.  A
\* transaction is worth it that is refunded in ether, at a signed price no lower than what
\* they pay, with a base gas that covers what sending it costs (Safe.sol:212).
WorthRelaying(e) ==
  /\ e.tx.gasToken = Ether /\ e.tx.gasPrice > 0
  /\ e.txGasPrice <= e.tx.gasPrice /\ BaseCost <= e.tx.baseGas

RelayerNotOutOfPocket == (\A e \in Events : WorthRelaying(e)) => executor.ether >= 0

\* The helper ends, with a result or an exception, even if the simulation never succeeds.
HelperEnds ==
  \A c \in Client : <>(client[c].pc \in {"done", "threw", "failedAssertion"})
================================================================================
