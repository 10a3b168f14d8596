------------------------ MODULE RefundedExecutionProofs -------------------------
(***************************************************************************)
(* Whatever relayers, targets and tokens do, a call gets the gas that was  *)
(* signed for it, a refund stays within what was signed and what the call  *)
(* itself costs, and has arrived, and who relays only what is worth it     *)
(* does not lose: for every set of transactions and every amount.          *)
(***************************************************************************)
EXTENDS RefundedExecution, WellFoundedInduction, TLAPS

ClientFields ==
  {"opts", "pc", "gas", "additionalGas", "loops", "tx", "estimatedFor"}

\* Enough gas for a call of the target, whatever the Safe's code costs.
Covers(gas, t) == \A o \in Overhead : o + t.cost <= gas

\* What a client found out and signs is enough for what it was estimated for.
Estimated(v) ==
  /\ v.pc \in {"estimate", "nonce"} => v.tx = <<>>
  /\ v.pc # "estimate" => v.estimatedFor \in Target
  /\ v.pc = "nonce" /\ v.gas > 0 => Covers(v.gas, v.estimatedFor)
  /\ v.pc = "simulate" => v.tx.safeTxGas > 0
  /\ v.pc \notin {"estimate", "nonce"} =>
       (v.tx.safeTxGas > 0 => Covers(v.tx.safeTxGas, v.estimatedFor))

ClientOK(v) ==
  /\ DOMAIN v = ClientFields
  /\ v.opts \in Options /\ v.gas \in Nat /\ v.additionalGas \in Nat
  /\ v.pc \notin {"estimate", "nonce"} => v.tx \in Transaction
  /\ Estimated(v)

\* An execution within the rules: what it got and paid follows from its arguments.
EventOK(e) ==
  /\ e.tx \in Transaction /\ e.target \in Target
  /\ e.gasLeft \in Nat /\ e.overhead \in Overhead /\ e.txGasPrice \in Nat
  /\ e.gasLeft >= GasRequired(e.tx.safeTxGas)
  /\ e.gas = CallGas(e.gasLeft, e.overhead,
                     GasLimit(e.gasLeft, e.tx.safeTxGas, e.tx.gasPrice))
  /\ e.gasUsed \in Nat /\ e.gasUsed <= e.overhead + e.target.cost
  /\ e.tx.gasPrice > 0 =>
       /\ e.gasUsed <= e.overhead + e.tx.safeTxGas
       /\ e.payment = Payment(e.tx, e.gasUsed, e.txGasPrice)
  /\ e.tx.gasPrice = 0 => e.payment = 0

\* The tokens that the events report have moved.
TokensOK ==
  /\ mode \in TokenMode /\ executor.tokens \in Int /\ safe.tokens \in Int
  /\ mode # "noCode" =>
       executor.tokens = TokensPaid(safe.log) /\ safe.tokens = InitialTokens - executor.tokens

\* The relayers' account.
EtherOK == executor.ether \in Int /\ RelayerNotOutOfPocket

IndInv ==
  /\ DOMAIN client = Client
  /\ \A c \in Client : ClientOK(client[c])
  /\ target \in Target /\ safe.nonce \in Nat
  /\ safe.log \in Seq(Range(safe.log))
  /\ \A e \in Range(safe.log) : EventOK(e)
  /\ TokensOK /\ EtherOK

--------------------------------------------------------------------------------
\* Of 64/63 of s, rounded down, all but a 64th is still s.
LEMMA AllBut64thOf64ths ==
  ASSUME NEW s \in Nat, NEW g \in Nat, g >= (s * 64) \div 63
  PROVE  AllBut64th(g) >= s
<1>1. PICK h \in Nat : h = (s * 64) \div 63  OBVIOUS
<1>2. 63 * h + 63 > s * 64  BY <1>1
<1>3. PICK q \in Nat : q = g \div 64  OBVIOUS
<1>4. 64 * q <= g  BY <1>3
<1> QED  BY <1>1, <1>2, <1>3, <1>4 DEF AllBut64th

\* The check of the gas is enough for the call.
LEMMA CheckSuffices ==
  ASSUME NEW s \in Nat, NEW gasLeft \in Nat, NEW overhead \in Nat,
         NEW gasPrice \in Nat,
         overhead <= 500, 64 * gasLeft < Word, s + 3000 < Word, gasLeft >= GasRequired(s)
  PROVE  CallGas(gasLeft, overhead, GasLimit(gasLeft, s, gasPrice)) >= s
<1> DEFINE a == ((s * 64) % Word) \div 63
<1>1. Word \in Nat /\ Word > 0  BY WordAssumption DEF WordAssumption
<1>2. a \in Nat /\ a <= Word \div 63 /\ a + 500 < Word
  BY <1>1, WordAssumption DEF WordAssumption
<1>3. (s + 2500) % Word = s + 2500  BY <1>1
<1>4. Larger(a, s + 2500) + 500 < Word /\ Larger(a, s + 2500) \in Nat
  BY <1>2 DEF Larger
<1>5. GasRequired(s) = Larger(a, s + 2500) + 500
  BY <1>1, <1>3, <1>4 DEF GasRequired
<1>6. gasLeft >= s + 3000 /\ gasLeft >= a + 500  BY <1>2, <1>5 DEF Larger
<1>7. (s * 64) % Word = s * 64  BY <1>1, <1>6
<1>8. gasLeft - overhead \in Nat /\ gasLeft - overhead >= (s * 64) \div 63
  BY <1>6, <1>7
<1>9. AllBut64th(gasLeft - overhead) >= s  BY <1>8, AllBut64thOf64ths
<1>10. GasLimit(gasLeft, s, gasPrice) >= s
  <2>1. (gasLeft - 2500) % Word = gasLeft - 2500  BY <1>1, <1>6
  <2> QED  BY <1>6, <2>1 DEF GasLimit
<1> QED  BY <1>9, <1>10 DEF CallGas, Smaller

\* Products of natural numbers grow with their factors.
LEMMA Products ==
  ASSUME NEW a \in Nat, NEW b \in Nat, NEW c \in Nat, NEW d \in Nat, a <= b, c <= d
  PROVE  a * c <= b * d /\ a * c \in Nat
<1>1. PICK e \in Nat : b = a + e  BY b - a \in Nat
<1>2. PICK f \in Nat : d = c + f  BY d - c \in Nat
<1>3. b * d = a * c + a * f + e * c + e * f  BY <1>1, <1>2
<1>4. a * f \in Nat /\ e * c \in Nat /\ e * f \in Nat /\ a * c \in Nat  OBVIOUS
<1> QED  BY <1>3, <1>4

\* What a log holds after one more event.
LEMMA Appended ==
  ASSUME NEW log, log \in Seq(Range(log)), NEW e
  PROVE  /\ Append(log, e) \in Seq(Range(Append(log, e)))
         /\ Range(Append(log, e)) = Range(log) \cup {e}
<1> DEFINE new == Append(log, e)
<1>1. /\ Len(log) \in Nat /\ DOMAIN log = 1..Len(log)
      /\ DOMAIN new = 1..(Len(log) + 1) /\ Len(new) = Len(log) + 1
      /\ \A i \in 1..Len(log) : new[i] = log[i]
      /\ new[Len(log) + 1] = e
      /\ new \in Seq(Range(log) \cup {e})
  <2>1. log \in Seq(Range(log) \cup {e})  BY DEF Range
  <2> QED  BY <2>1
<1>2. Range(new) = Range(log) \cup {e}
  <2> HIDE DEF new
  <2> QED  BY <1>1 DEF Range
<1>3. new \in Seq(Range(new))  BY <1>1, <1>2
<1> QED  BY <1>2, <1>3

\* An execution that does not revert is one within the rules.
LEMMA OutcomeOK ==
  ASSUME target \in Target, NEW tx \in Transaction, NEW sent, NEW gasLeft \in Nat,
         NEW overhead \in Overhead, NEW txGasPrice \in Nat,
         ~Outcome(tx, sent, gasLeft, overhead, txGasPrice).reverts
  PROVE  EventOK(Outcome(tx, sent, gasLeft, overhead, txGasPrice).event)
<1> DEFINE out == Outcome(tx, sent, gasLeft, overhead, txGasPrice)
           gas == CallGas(gasLeft, overhead, GasLimit(gasLeft, tx.safeTxGas, tx.gasPrice))
           used == execute(tx.value, safe.ether + sent, gas).used
<1>1. /\ out.event.tx = tx /\ out.event.gasLeft = gasLeft
      /\ out.event.overhead = overhead /\ out.event.txGasPrice = txGasPrice
      /\ out.event.gas = gas /\ out.event.gasUsed = overhead + used
      /\ out.event.target = target
      /\ tx.gasPrice > 0 =>
           out.event.payment = Payment(tx, overhead + used, txGasPrice)
      /\ ~(tx.gasPrice > 0) => out.event.payment = 0
  BY DEF Outcome
<1>2. ~(gasLeft < GasRequired(tx.safeTxGas)) /\ ~(gasLeft < overhead)
  BY DEF Outcome
<1>3. tx.safeTxGas \in Nat /\ tx.gasPrice \in Nat /\ overhead \in Nat /\ target.cost \in Nat
  BY GasAssumption DEF Transaction, GasAssumption
<1>4. GasRequired(tx.safeTxGas) \in Nat
  BY <1>3, WordAssumption DEF GasRequired, Larger, WordAssumption
<1>5. AllBut64th(gasLeft - overhead) \in Nat  BY <1>2, <1>3 DEF AllBut64th
<1>6. GasLimit(gasLeft, tx.safeTxGas, tx.gasPrice) \in Nat
  <2>1. Word \in Nat /\ Word > 0  BY WordAssumption DEF WordAssumption
  <2>2. (gasLeft - 2500) % Word \in Nat  BY <2>1
  <2> QED  BY <1>3, <2>2 DEF GasLimit
<1>7. gas \in Nat /\ (tx.gasPrice > 0 => gas <= tx.safeTxGas)
  <2>1. gas \in Nat  BY <1>5, <1>6 DEF CallGas, Smaller
  <2>2. tx.gasPrice > 0 => gas <= tx.safeTxGas
    BY <1>3, <1>5 DEF CallGas, GasLimit, Smaller
  <2> QED  BY <2>1, <2>2
<1>8. used = 0 \/ used = Smaller(target.cost, gas)  BY DEF execute
<1>9. /\ used \in Nat /\ used <= target.cost
      /\ tx.gasPrice > 0 => used <= tx.safeTxGas
  <2> HIDE DEF gas, used
  <2> QED  BY <1>3, <1>7, <1>8 DEF Smaller
<1> HIDE DEF out, gas, used
<1>10. /\ overhead + used \in Nat /\ overhead + used <= overhead + target.cost
       /\ tx.gasPrice > 0 => overhead + used <= overhead + tx.safeTxGas
  BY <1>3, <1>9
<1>11. gas = CallGas(gasLeft, overhead, GasLimit(gasLeft, tx.safeTxGas, tx.gasPrice))
  BY DEF gas
<1>12. gasLeft >= GasRequired(tx.safeTxGas)  BY <1>2, <1>4
<1>13. tx.gasPrice = 0 => ~(tx.gasPrice > 0)  OBVIOUS
<1>14. EventOK(out.event)  BY <1>1, <1>10, <1>11, <1>12, <1>13 DEF EventOK
<1> QED  BY <1>14 DEF out

LEMMA EventNumbers ==
  ASSUME NEW e, EventOK(e)
  PROVE  /\ e.overhead \in Nat /\ e.gasLeft \in Nat /\ e.gasUsed \in Nat /\ e.txGasPrice \in Nat
         /\ e.target.cost \in Nat /\ e.tx.safeTxGas \in Nat /\ e.tx.baseGas \in Nat
         /\ e.tx.gasPrice \in Nat
<1>1. e.overhead \in Overhead /\ e.target \in Target  BY DEF EventOK
<1>2. Overhead \subseteq Nat /\ \A t \in Target : t.cost \in Nat
  BY GasAssumption DEF GasAssumption
<1>3. e.overhead \in Nat /\ e.target.cost \in Nat  BY <1>1, <1>2
<1> QED  BY <1>3 DEF EventOK, Transaction

\* A refund is a number.
LEMMA PaymentIsNat ==
  ASSUME NEW e, EventOK(e)
  PROVE  e.payment \in Nat
<1>1. /\ e.tx.baseGas \in Nat /\ e.tx.gasPrice \in Nat /\ e.gasUsed \in Nat
      /\ e.txGasPrice \in Nat
  BY EventNumbers
<1>2. CASE e.tx.gasPrice > 0
  <2> DEFINE price == RefundPrice(e.tx.gasToken = Ether, e.tx.gasPrice, e.txGasPrice)
  <2>1. price \in Nat  BY <1>1 DEF RefundPrice, Smaller
  <2>2. e.payment = (e.gasUsed + e.tx.baseGas) * price  BY <1>2 DEF EventOK, Payment
  <2> HIDE DEF price
  <2>3. e.gasUsed + e.tx.baseGas \in Nat  BY <1>1
  <2> QED  BY <2>1, <2>2, <2>3, Products
<1>3. CASE e.tx.gasPrice = 0  BY <1>3 DEF EventOK
<1> QED  BY <1>1, <1>2, <1>3

--------------------------------------------------------------------------------
(***************************************************************************)
(* The tokens that a log reports, one event after the other.               *)
(***************************************************************************)
LEMMA LeastElement ==
  ASSUME NEW T \in SUBSET Nat, T # {}
  PROVE  \E x \in T : \A y \in T : x <= y
<1>1. IsWellFoundedOn(OpToRel(<, Nat), Nat)  BY NatLessThanWellFounded
<1>2. PICK x \in T : \A y \in T : ~(<<y, x>> \in OpToRel(<, Nat))
  BY <1>1, WFMin
<1>3. ASSUME NEW y \in T, y < x  PROVE  FALSE
  BY <1>2, <1>3 DEF OpToRel
<1> QED  BY <1>3, SMT

\* f is the sum up to each of the first k events.
Summed(f, log, k) ==
  /\ f = [n \in 0..k |-> f[n]] /\ f[0] = 0
  /\ \A n \in 1..k : f[n] = f[n - 1] + InTokens(log[n])

LEMMA SummedAgree ==
  ASSUME NEW k \in Nat, NEW l \in Nat, k <= l, NEW t, NEW u, \A i \in 1..k : t[i] = u[i],
         NEW f, Summed(f, t, k), NEW g, Summed(g, u, l)
  PROVE  \A n \in 0..k : f[n] = g[n]
<1> DEFINE T == {n \in 0..k : f[n] # g[n]}
<1>1. SUFFICES ASSUME T # {}  PROVE FALSE  OBVIOUS
<1>2. T \in SUBSET Nat  OBVIOUS
<1>3. PICK x \in T : \A y \in T : x <= y
  <2> HIDE DEF T
  <2> QED  BY <1>1, <1>2, LeastElement
<1>4. x # 0  BY <1>3 DEF Summed
<1>5. x \in 1..k /\ x \in 1..l /\ x - 1 \in 0..k /\ ~(x <= x - 1)  BY <1>3, <1>4
<1>6. f[x - 1] = g[x - 1]  BY <1>3, <1>5
<1>7. f[x] = f[x - 1] + InTokens(t[x]) /\ g[x] = g[x - 1] + InTokens(u[x])
  BY <1>5 DEF Summed
<1>8. t[x] = u[x] /\ f[x] # g[x]  BY <1>3, <1>5
<1> QED  BY <1>6, <1>7, <1>8

LEMMA SummedExists ==
  ASSUME NEW log, NEW k \in Nat
  PROVE  \E f : Summed(f, log, k)
<1> DEFINE T == {n \in Nat : ~\E f : Summed(f, log, n)}
<1>1. SUFFICES ASSUME T # {}  PROVE FALSE  OBVIOUS
<1>2. PICK x \in T : \A y \in T : x <= y
  <2>1. T \in SUBSET Nat  OBVIOUS
  <2> HIDE DEF T
  <2> QED  BY <1>1, <2>1, LeastElement
<1>3. x # 0
  <2> DEFINE f == [n \in 0..0 |-> 0]
  <2>1. /\ f = [n \in 0..0 |-> f[n]] /\ f[0] = 0 /\ 1..0 = {}  OBVIOUS
  <2> HIDE DEF f
  <2>2. Summed(f, log, 0)  BY <2>1 DEF Summed
  <2> QED  BY <1>2, <2>2
<1>4. x \in Nat /\ x - 1 \in Nat /\ ~(x <= x - 1)  BY <1>2, <1>3
<1>5. PICK f : Summed(f, log, x - 1)  BY <1>2, <1>4
<1> DEFINE g == [n \in 0..x |-> IF n = x THEN f[x - 1] + InTokens(log[x]) ELSE f[n]]
<1>6. Summed(g, log, x)
  <2>1. g = [n \in 0..x |-> g[n]]  OBVIOUS
  <2>2. \A n \in 0..(x - 1) : n \in 0..x /\ n # x /\ g[n] = f[n]  BY <1>4
  <2>3. g[x] = f[x - 1] + InTokens(log[x])  BY <1>4
  <2>4. 0 \in 0..(x - 1) /\ x - 1 \in 0..(x - 1)  BY <1>4
  <2> HIDE DEF g
  <2>5. ASSUME NEW n \in 1..x  PROVE g[n] = g[n - 1] + InTokens(log[n])
    <3>1. CASE n = x  BY <2>2, <2>3, <2>4, <3>1
    <3>2. CASE n # x
      <4>1. n \in 1..(x - 1) /\ n \in 0..(x - 1) /\ n - 1 \in 0..(x - 1)  BY <1>4, <3>2
      <4> QED  BY <1>5, <2>2, <4>1 DEF Summed
    <3> QED  BY <3>1, <3>2
  <2>6. g[0] = 0  BY <1>5, <2>2, <2>4 DEF Summed
  <2> QED  BY <2>1, <2>5, <2>6 DEF Summed
<1> HIDE DEF g
<1> QED  BY <1>2, <1>6

LEMMA SumsSummed ==
  ASSUME NEW log, Len(log) \in Nat
  PROVE  Summed(Sums(log), log, Len(log))
<1> DEFINE k == Len(log)
           Step(f) == [n \in 0..k |-> IF n = 0 THEN 0 ELSE f[n - 1] + InTokens(log[n])]
           sum == CHOOSE f : f = Step(f)
<1>1. PICK f : Summed(f, log, k)  BY SummedExists
<1>2. f = Step(f)
  <2>1. ASSUME NEW n \in 0..k
        PROVE  f[n] = IF n = 0 THEN 0 ELSE f[n - 1] + InTokens(log[n])
    <3>1. n # 0 => n \in 1..k  OBVIOUS
    <3> QED  BY <1>1, <3>1 DEF Summed
  <2>2. f = [n \in 0..k |-> f[n]]  BY <1>1 DEF Summed
  <2> QED  BY <2>1, <2>2
<1>3. sum = Step(sum)  BY <1>2
<1>4. Sums(log) = sum  BY DEF Sums
<1> HIDE DEF sum
<1>5. /\ sum = [n \in 0..k |-> sum[n]] /\ sum[0] = 0
      /\ \A n \in 1..k : sum[n] = sum[n - 1] + InTokens(log[n])
  <2> HIDE DEF k
  <2>1. k \in Nat  BY DEF k
  <2>2. 0 \in 0..k /\ \A n \in 1..k : n \in 0..k /\ n # 0  BY <2>1
  <2> QED  BY <1>3, <2>1, <2>2
<1> QED  BY <1>4, <1>5 DEF Summed

LEMMA NothingPaid == TokensPaid(<<>>) = 0
<1>1. Len(<<>>) = 0 /\ 0 \in Nat  OBVIOUS
<1> QED  BY <1>1, SumsSummed DEF TokensPaid, Summed

LEMMA OneMoreSummed ==
  ASSUME NEW t, NEW u, NEW k \in Nat, Len(t) = k, Len(u) = k + 1, \A i \in 1..k : t[i] = u[i]
  PROVE  TokensPaid(u) = TokensPaid(t) + InTokens(u[k + 1])
<1> DEFINE l == k + 1
           f == Sums(t)
           g == Sums(u)
<1>1. Summed(f, t, k) /\ Summed(g, u, l)  BY SumsSummed
<1>2. l \in Nat /\ k <= l /\ l \in 1..l /\ l - 1 = k /\ k \in 0..k  OBVIOUS
<1> HIDE DEF f, g, l
<1>3. \A n \in 0..k : f[n] = g[n]  BY <1>1, <1>2, SummedAgree
<1>4. g[l] = g[k] + InTokens(u[l])  BY <1>1, <1>2 DEF Summed
<1>5. f[k] = g[k]  BY <1>2, <1>3
<1> QED  BY <1>4, <1>5 DEF TokensPaid, f, g, l

LEMMA OneMorePaid ==
  ASSUME NEW log, log \in Seq(Range(log)), NEW e
  PROVE  TokensPaid(Append(log, e)) = TokensPaid(log) + InTokens(e)
<1> DEFINE u == Append(log, e)
           k == Len(log)
<1>1. /\ k \in Nat /\ Len(u) = k + 1 /\ u[k + 1] = e /\ \A i \in 1..k : log[i] = u[i]
  OBVIOUS
<1> HIDE DEF u, k
<1>2. TokensPaid(u) = TokensPaid(log) + InTokens(u[k + 1])
  BY <1>1, OneMoreSummed DEF k
<1> QED  BY <1>1, <1>2 DEF u

--------------------------------------------------------------------------------
LEMMA InitOK == ASSUME Init PROVE IndInv
<1>1. PICK opts \in [Client -> Options] : client = [c \in Client |-> Start(opts[c])]
  BY DEF Init
<1>2. ASSUME NEW c \in Client  PROVE ClientOK(client[c])
  BY <1>1 DEF Start, ClientOK, ClientFields, Estimated
<1>3. /\ safe.log = <<>> /\ Range(safe.log) = {} /\ target \in Target /\ safe.nonce = 0
      /\ safe.tokens = InitialTokens /\ executor.tokens = 0 /\ mode \in TokenMode
      /\ executor.ether = 0
  BY DEF Init, Range
<1>4. TokensOK  BY <1>3, NothingPaid, TokenAssumption DEF TokensOK, TokenAssumption
<1>5. EtherOK  BY <1>3 DEF EtherOK, RelayerNotOutOfPocket
<1> QED  BY <1>1, <1>2, <1>3, <1>4, <1>5 DEF IndInv

\* What is paid in tokens moves: the answer of a contract says so.
LEMMA PaidMoves ==
  ASSUME mode \in TokenMode, mode # "noCode", NEW amount, transferToken(amount)
  PROVE  Moves(amount)
<1> DEFINE answer == Answer(amount)
<1>1. mode \in {"bool", "silent", "long", "false", "reverts"}
  BY TokenAssumption DEF TokenAssumption
<1>2. CASE mode = "bool"
  <2>1. answer = [success |-> TRUE, size |-> 32, word |-> Moves(amount)]
    BY <1>2 DEF Answer
  <2> QED  BY <2>1 DEF transferToken
<1>3. CASE mode = "silent"
  <2>1. answer = [success |-> Moves(amount), size |-> 0, word |-> FALSE]
    BY <1>3 DEF Answer
  <2> QED  BY <2>1 DEF transferToken
<1>4. CASE mode = "false"
  <2>1. answer = [success |-> TRUE, size |-> 32, word |-> FALSE]  BY <1>4 DEF Answer
  <2> QED  BY <2>1 DEF transferToken
<1>5. CASE mode = "reverts"
  <2>1. answer = [success |-> FALSE, size |-> 0, word |-> FALSE]  BY <1>5 DEF Answer
  <2> QED  BY <2>1 DEF transferToken
<1>6. CASE mode = "long"
  <2>1. answer = [success |-> Moves(amount), size |-> 64, word |-> TRUE]
    BY <1>6 DEF Answer
  <2> QED  BY <2>1 DEF transferToken
<1> QED  BY <1>1, <1>2, <1>3, <1>4, <1>5, <1>6

\* What is worth relaying pays for itself.
LEMMA WorthIsCovered ==
  ASSUME NEW e, EventOK(e), WorthRelaying(e)
  PROVE  /\ e.payment \in Nat /\ (BaseCost + e.gasUsed) * e.txGasPrice \in Nat
         /\ e.payment >= (BaseCost + e.gasUsed) * e.txGasPrice
<1>1. /\ e.gasUsed \in Nat /\ e.tx.baseGas \in Nat /\ e.tx.gasPrice \in Nat
      /\ e.txGasPrice \in Nat
  BY EventNumbers
<1>2. BaseCost \in Nat /\ BaseCost <= e.tx.baseGas
  BY GasAssumption DEF GasAssumption, WorthRelaying
<1> DEFINE cost == BaseCost + e.gasUsed
           used == e.gasUsed + e.tx.baseGas
<1>3. cost \in Nat /\ used \in Nat /\ cost <= used  BY <1>1, <1>2
<1>4. e.payment = used * e.txGasPrice
  <2>1. RefundPrice(e.tx.gasToken = Ether, e.tx.gasPrice, e.txGasPrice) = e.txGasPrice
    BY <1>1 DEF RefundPrice, Smaller, WorthRelaying
  <2> QED  BY <2>1 DEF EventOK, Payment, WorthRelaying
<1> HIDE DEF cost, used
<1>5. cost * e.txGasPrice <= used * e.txGasPrice /\ cost * e.txGasPrice \in Nat
  BY <1>1, <1>3, Products
<1>6. used * e.txGasPrice \in Nat  BY <1>1, <1>3, Products
<1> QED  BY <1>4, <1>5, <1>6 DEF cost

\* Whatever executes, the log and the tokens stay what they are; clients and targets are
\* another matter.
LEMMA LogKept ==
  ASSUME IndInv, NEW tx \in Transaction, NEW sent,
         NEW gasLeft \in Nat, NEW overhead \in Overhead, NEW txGasPrice \in Nat,
         execTransaction(tx, sent, gasLeft, overhead, txGasPrice), mode' = mode
  PROVE  /\ safe'.nonce \in Nat
         /\ safe'.log \in Seq(Range(safe'.log)) /\ \A e \in Range(safe'.log) : EventOK(e)
         /\ TokensOK' /\ EtherOK'
<1> DEFINE out == Outcome(tx, sent, gasLeft, overhead, txGasPrice)
           event == out.event
           inEther == IF tx.gasToken = Ether THEN out.payment ELSE 0
           inTokens == IF tx.gasToken = Token /\ Moves(out.payment) THEN out.payment ELSE 0
<1>1. /\ safe'.log = Append(safe.log, event) /\ safe'.nonce = safe.nonce + 1
      /\ safe'.tokens = safe.tokens - inTokens
      /\ executor'.tokens = executor.tokens + inTokens
      /\ executor'.ether = executor.ether + inEther - (BaseCost + out.gasUsed) * txGasPrice
      /\ ~out.reverts
  BY DEF execTransaction
<1>2. EventOK(event)  BY OutcomeOK DEF execTransaction, IndInv
<1>3. /\ event.tx = tx /\ event.payment = out.payment
      /\ event.gasUsed = out.gasUsed /\ event.txGasPrice = txGasPrice
  BY DEF Outcome
<1>4. tx.gasPrice > 0 /\ tx.gasToken = Token => transferToken(out.payment)
  <2>1. tx.gasPrice > 0 => CanPay(tx, out.payment, out.ether)  BY <1>1 DEF Outcome
  <2> HIDE DEF out
  <2> QED  BY <2>1, TokenAssumption DEF CanPay, TokenAssumption
<1> HIDE DEF out, event
<1>5. /\ safe'.log \in Seq(Range(safe'.log))
      /\ Range(safe'.log) = Range(safe.log) \cup {event}
  BY <1>1, Appended DEF IndInv
<1>6. \A e \in Range(safe'.log) : EventOK(e)  BY <1>2, <1>5 DEF IndInv
<1>7. safe'.nonce \in Nat  BY <1>1 DEF IndInv
<1>8. out.payment \in Nat  BY <1>2, <1>3, PaymentIsNat
<1>9. ASSUME mode # "noCode"  PROVE inTokens = InTokens(event)
  <2>1. CASE tx.gasToken = Token /\ tx.gasPrice > 0
    <3>1. Moves(out.payment)  BY <1>4, <1>9, <2>1, PaidMoves DEF IndInv, TokensOK
    <3> QED  BY <1>3, <2>1, <3>1 DEF InTokens
  <2>2. CASE tx.gasToken # Token  BY <1>3, <2>2 DEF InTokens
  <2>3. CASE tx.gasPrice = 0
    <3>1. out.payment = 0  BY <1>2, <1>3, <2>3 DEF EventOK
    <3> QED  BY <1>3, <3>1 DEF InTokens
  <2> QED  BY <2>1, <2>2, <2>3 DEF Transaction
<1>10. inTokens \in Int  BY <1>8
<1>11. TokensOK'
  <2> HIDE DEF inTokens
  <2>1. TokensOK /\ safe.log \in Seq(Range(safe.log))  BY DEF IndInv
  <2>2. executor'.tokens \in Int /\ safe'.tokens \in Int  BY <1>1, <1>10, <2>1 DEF TokensOK
  <2>3. ASSUME mode # "noCode"
        PROVE  /\ executor'.tokens = TokensPaid(safe'.log)
               /\ safe'.tokens = InitialTokens - executor'.tokens
    <3>1. TokensPaid(safe'.log) = TokensPaid(safe.log) + InTokens(event)
      BY <1>1, <2>1, OneMorePaid
    <3>2. executor.tokens = TokensPaid(safe.log) /\ safe.tokens = InitialTokens - executor.tokens
      BY <2>1, <2>3 DEF TokensOK
    <3>3. executor.tokens \in Int /\ InitialTokens \in Int
      BY <2>1, TokenAssumption DEF TokensOK, TokenAssumption
    <3> QED  BY <1>1, <1>9, <1>10, <2>3, <3>1, <3>2, <3>3
  <2> QED  BY <2>1, <2>2, <2>3 DEF TokensOK
<1>12. EtherOK'
  <2> DEFINE cost == (BaseCost + event.gasUsed) * txGasPrice
  <2>1. cost \in Nat
    <3>1. BaseCost + event.gasUsed \in Nat
      BY <1>2, EventNumbers, GasAssumption DEF GasAssumption
    <3> QED  BY <3>1, Products
  <2>2. inEther \in Nat  BY <1>8
  <2>3. executor.ether \in Int  BY DEF IndInv, EtherOK
  <2>4. executor'.ether = executor.ether + inEther - cost  BY <1>1, <1>3
  <2>5. ASSUME \A e \in Range(safe'.log) : WorthRelaying(e)  PROVE executor'.ether >= 0
    <3>1. WorthRelaying(event) /\ \A e \in Range(safe.log) : WorthRelaying(e)
      BY <1>5, <2>5
    <3>2. executor.ether >= 0
      BY <3>1 DEF IndInv, EtherOK, RelayerNotOutOfPocket, Events
    <3>3. inEther = event.payment  BY <1>3, <3>1 DEF WorthRelaying
    <3>4. inEther >= cost  BY <1>2, <1>3, <3>1, <3>3, WorthIsCovered
    <3> HIDE DEF cost, inEther
    <3> QED  BY <2>1, <2>2, <2>3, <2>4, <3>2, <3>4
  <2> HIDE DEF cost, inEther
  <2>6. executor'.ether \in Int  BY <2>1, <2>2, <2>3, <2>4
  <2> QED  BY <2>5, <2>6 DEF EtherOK, RelayerNotOutOfPocket, Events
<1> QED  BY <1>5, <1>6, <1>7, <1>11, <1>12

\* One client's variables change, and stay as they should be.
LEMMA ClientChanges ==
  ASSUME IndInv, NEW c \in Client, NEW v, ClientOK(v), client' = [client EXCEPT ![c] = v],
         UNCHANGED <<safe, executor, target, mode>>
  PROVE  IndInv'
<1>1. \A d \in Client : client'[d] = IF d = c THEN v ELSE client[d]  BY DEF IndInv
<1>2. DOMAIN client' = Client  BY DEF IndInv
<1>3. \A d \in Client : ClientOK(client'[d])  BY <1>1 DEF IndInv
<1>4. TokensOK' /\ EtherOK'
  BY DEF IndInv, TokensOK, EtherOK, RelayerNotOutOfPocket, Events
<1> QED  BY <1>2, <1>3, <1>4 DEF IndInv

LEMMA RequiredIsNat ==
  ASSUME NEW safeTxGas \in Nat
  PROVE  GasRequired(safeTxGas) \in Nat
<1> DEFINE least == Larger((safeTxGas * 64 % Word) \div 63, (safeTxGas + 2500) % Word)
<1>1. Word \in Nat /\ Word > 0  BY WordAssumption DEF WordAssumption
<1>2. (safeTxGas * 64) % Word \in Nat /\ (safeTxGas + 2500) % Word \in Nat  BY <1>1
<1>3. least \in Nat  BY <1>2 DEF Larger
<1> HIDE DEF least
<1>4. (least + 500) % Word \in Nat  BY <1>1, <1>3
<1> QED  BY <1>4 DEF GasRequired, least

LEMMA EstimateStep ==
  ASSUME IndInv, NEW c \in Client, Estimate(c)
  PROVE  IndInv'
<1> DEFINE call == execute(client[c].opts.value, safe.ether, BlockGasLimit)
           gas(o) == IF call.success THEN o + call.used + NestedCallGas ELSE 0
           v(o) == [client[c] EXCEPT !.pc = "nonce", !.estimatedFor = target,
                                     !.gas = gas(o)]
<1>1. \E o \in Overhead : client' = [client EXCEPT ![c] = v(o)]
  BY Zenon DEF Estimate
<1>2. UNCHANGED <<safe, executor, target, mode>>  BY DEF Estimate
<1>3. ASSUME NEW o \in Overhead
      PROVE  gas(o) \in Nat /\ (gas(o) > 0 => Covers(gas(o), target))
  <2>1. target.cost \in Nat /\ BlockGasLimit \in Nat /\ Overhead \subseteq Nat
    BY GasAssumption DEF GasAssumption, IndInv
  <2>2. call.used \in Nat  BY <2>1 DEF execute, Smaller
  <2>3. call.success => call.used = target.cost
    <3>1. call.success => client[c].opts.value <= safe.ether /\ target.cost <= BlockGasLimit
      BY DEF execute
    <3>2. client[c].opts.value <= safe.ether => call.used = Smaller(target.cost, BlockGasLimit)
      BY DEF execute
    <3>3. target.cost <= BlockGasLimit => Smaller(target.cost, BlockGasLimit) = target.cost
      BY <2>1 DEF Smaller
    <3> HIDE DEF call
    <3> QED  BY <3>1, <3>2, <3>3
  <2> HIDE DEF call
  <2>4. gas(o) \in Nat  BY <2>1, <2>2 DEF NestedCallGas
  <2>5. ASSUME gas(o) > 0, NEW p \in Overhead  PROVE p + target.cost <= gas(o)
    <3>1. gas(o) = o + target.cost + NestedCallGas  BY <2>3, <2>5
    <3>2. p <= o + NestedCallGas /\ p \in Nat /\ o \in Nat
      BY <2>1, OverheadAssumption DEF OverheadAssumption
    <3> QED  BY <2>1, <3>1, <3>2 DEF NestedCallGas
  <2> QED  BY <2>4, <2>5 DEF Covers
<1> HIDE DEF gas
<1>4. ASSUME NEW o \in Overhead  PROVE ClientOK(v(o))
  <2>1. ClientOK(client[c]) /\ client[c].pc = "estimate" /\ target \in Target
    BY DEF IndInv, Estimate
  <2>2. /\ DOMAIN v(o) = ClientFields /\ v(o).opts = client[c].opts /\ v(o).gas = gas(o)
        /\ v(o).additionalGas = client[c].additionalGas /\ v(o).pc = "nonce"
        /\ v(o).tx = client[c].tx /\ v(o).estimatedFor = target
    BY <2>1 DEF ClientOK, ClientFields
  <2> HIDE DEF v
  <2> QED  BY <1>3, <2>1, <2>2 DEF ClientOK, Estimated
<1> HIDE DEF v
<1>5. PICK o \in Overhead : client' = [client EXCEPT ![c] = v(o)]  BY <1>1
<1> QED  BY <1>2, <1>4, <1>5, ClientChanges

LEMMA BaseGasIsNat ==
  ASSUME NEW nonce
  PROVE  estimateBaseGas(nonce) \in Nat
BY GasAssumption, PayloadAssumption DEF estimateBaseGas, GasAssumption, PayloadAssumption

LEMMA ReadNonceStep ==
  ASSUME IndInv, NEW c \in Client, ReadNonce(c)
  PROVE  IndInv'
<1> DEFINE o == client[c].opts
           tx == [value |-> o.value, gasToken |-> o.gasToken, nonce |-> safe.nonce,
                  gasPrice |-> SafeTxGasPrice(c), safeTxGas |-> client[c].gas,
                  baseGas |-> estimateBaseGas(safe.nonce) + o.extraGas]
           v == [client[c] EXCEPT !.tx = tx,
                   !.pc = IF client[c].gas > 0 THEN "simulate" ELSE "sign"]
<1>1. client' = [client EXCEPT ![c] = v]  BY DEF ReadNonce
<1>2. /\ ClientOK(client[c]) /\ client[c].pc = "nonce" /\ o \in Options
      /\ client[c].gas \in Nat /\ safe.nonce \in Nat
  BY DEF IndInv, ClientOK, ReadNonce
<1>3. SafeTxGasPrice(c) \in Nat  BY <1>2, GasAssumption DEF SafeTxGasPrice, GasAssumption
<1>4. /\ o.value \in Nat /\ o.gasToken \in {Token, Ether} /\ o.extraGas \in Nat
  BY <1>2, GasAssumption DEF GasAssumption
<1>5. tx \in Transaction /\ tx.safeTxGas = client[c].gas
  <2>1. estimateBaseGas(safe.nonce) + o.extraGas \in Nat  BY <1>4, BaseGasIsNat
  <2> QED  BY <1>2, <1>3, <1>4, <2>1 DEF Transaction
<1> HIDE DEF tx
<1>7. ClientOK(v)
  <2>1. /\ DOMAIN v = ClientFields /\ v.opts = client[c].opts /\ v.gas = client[c].gas
        /\ v.additionalGas = client[c].additionalGas /\ v.tx = tx
        /\ v.pc = (IF client[c].gas > 0 THEN "simulate" ELSE "sign")
        /\ v.estimatedFor = client[c].estimatedFor
    BY <1>2 DEF ClientOK, ClientFields
  <2> HIDE DEF v
  <2> QED  BY <1>2, <1>5, <2>1 DEF ClientOK, Estimated
<1>6. UNCHANGED <<safe, executor, target, mode>>  BY DEF ReadNonce
<1> HIDE DEF v
<1> QED  BY <1>1, <1>6, <1>7, ClientChanges

LEMMA SimulateStep ==
  ASSUME IndInv, NEW c \in Client, Simulate(c)
  PROVE  IndInv'
<1> DEFINE tx == [client[c].tx EXCEPT !.safeTxGas = @ + client[c].additionalGas]
           next(pc) == [client[c] EXCEPT !.tx = tx, !.additionalGas = 2 * @,
                                         !.loops = @ + 1, !.pc = pc]
           signs == [client[c] EXCEPT !.pc = "sign"]
<1>1. \E o \in Overhead : client' = [client EXCEPT ![c] =
         IF execute(client[c].opts.value, safe.ether,
                    AllBut64th(client[c].tx.safeTxGas - o)).success
         THEN signs
         ELSE next(IF client[c].loops + 1 = MaxLoops THEN "sign" ELSE "simulate")]
  BY Zenon DEF Simulate
<1>2. ClientOK(client[c])  BY DEF IndInv
<1>3. /\ client[c].pc = "simulate" /\ client[c].tx \in Transaction
      /\ client[c].additionalGas \in Nat /\ Estimated(client[c])
  BY <1>2 DEF Simulate, ClientOK
<1>4. /\ tx \in Transaction /\ tx.baseGas = client[c].tx.baseGas
      /\ tx.safeTxGas = client[c].tx.safeTxGas + client[c].additionalGas
  BY <1>3 DEF Transaction
<1>5. ClientOK(signs)
  <2>1. /\ DOMAIN signs = ClientFields /\ signs.opts = client[c].opts
        /\ signs.gas = client[c].gas /\ signs.additionalGas = client[c].additionalGas
        /\ signs.pc = "sign" /\ signs.tx = client[c].tx
        /\ signs.estimatedFor = client[c].estimatedFor
    BY <1>2 DEF ClientOK, ClientFields
  <2> HIDE DEF signs
  <2> QED  BY <1>2, <1>3, <2>1 DEF ClientOK, Estimated
<1>6. ASSUME NEW pc \in {"sign", "simulate"}  PROVE ClientOK(next(pc))
  <2> HIDE DEF tx
  <2>1. /\ DOMAIN next(pc) = ClientFields /\ next(pc).opts = client[c].opts
        /\ next(pc).gas = client[c].gas
        /\ next(pc).additionalGas = 2 * client[c].additionalGas
        /\ next(pc).pc = pc /\ next(pc).tx = tx
        /\ next(pc).estimatedFor = client[c].estimatedFor
    BY <1>2 DEF ClientOK, ClientFields
  <2> HIDE DEF next
  <2>2. client[c].tx.safeTxGas > 0 /\ Covers(client[c].tx.safeTxGas, client[c].estimatedFor)
    BY <1>3 DEF Estimated
  <2>3. tx.safeTxGas > 0 /\ Covers(tx.safeTxGas, client[c].estimatedFor)
    <3>1. client[c].tx.safeTxGas \in Nat  BY <1>3 DEF Transaction
    <3>2. client[c].estimatedFor.cost \in Nat /\ Overhead \subseteq Nat
      BY <1>3, GasAssumption DEF Estimated, GasAssumption
    <3> QED  BY <1>3, <1>4, <2>2, <3>1, <3>2 DEF Covers
  <2> QED  BY <1>2, <1>3, <1>4, <2>1, <2>3 DEF ClientOK, Estimated
<1>7. UNCHANGED <<safe, executor, target, mode>>  BY DEF Simulate
<1> HIDE DEF signs, next
<1>8. \E v \in {signs, next("sign"), next("simulate")} :
        client' = [client EXCEPT ![c] = v]
  BY <1>1
<1>9. PICK v \in {signs, next("sign"), next("simulate")} :
        client' = [client EXCEPT ![c] = v]
  BY <1>8
<1> QED  BY <1>5, <1>6, <1>7, <1>9, ClientChanges

LEMMA SignStep ==
  ASSUME IndInv, NEW c \in Client, Sign(c)
  PROVE  IndInv'
<1> DEFINE v == [client[c] EXCEPT !.pc = "estimateGas"]
<1>1. client' = [client EXCEPT ![c] = v] /\ UNCHANGED <<safe, executor, target, mode>>  BY DEF Sign
<1>2. ClientOK(v)
  <2>1. ClientOK(client[c]) /\ client[c].pc = "sign"  BY DEF IndInv, Sign
  <2> QED  BY <2>1 DEF ClientOK, ClientFields, Estimated
<1> HIDE DEF v
<1> QED  BY <1>1, <1>2, ClientChanges

LEMMA EstimateGasStep ==
  ASSUME IndInv, NEW c \in Client, EstimateGas(c)
  PROVE  IndInv'
<1> DEFINE tx == client[c].tx
           estimate(o) == GasRequired(tx.safeTxGas) + o
           out(o) == Outcome(tx, client[c].opts.sent, estimate(o), o, TxGasPrice(c))
           v(o) == [client[c] EXCEPT !.pc = IF out(o).reverts THEN "threw" ELSE "sent",
                                     !.gas = GasToSend(tx, estimate(o))]
<1>1. \E o \in Overhead : client' = [client EXCEPT ![c] = v(o)]
  BY Zenon DEF EstimateGas
<1>2. ClientOK(client[c]) /\ client[c].pc = "estimateGas"  BY DEF IndInv, EstimateGas
<1>3. tx \in Transaction  BY <1>2 DEF ClientOK
<1>4. GasRequired(tx.safeTxGas) \in Nat  BY <1>3, RequiredIsNat DEF Transaction
<1>5. ASSUME NEW o \in Overhead  PROVE GasToSend(tx, estimate(o)) \in Nat
  BY <1>4, GasAssumption DEF GasAssumption, GasToSend
<1> HIDE DEF estimate, out
<1>6. ASSUME NEW o \in Overhead  PROVE ClientOK(v(o))
  <2> DEFINE gas == GasToSend(tx, estimate(o))
             pc == IF out(o).reverts THEN "threw" ELSE "sent"
  <2>1. gas \in Nat /\ pc \in {"threw", "sent"}  BY <1>5
  <2> HIDE DEF gas, pc
  <2>2. v(o) = [client[c] EXCEPT !.pc = pc, !.gas = gas]  BY DEF gas, pc
  <2> QED  BY <1>2, <1>3, <2>1, <2>2 DEF ClientOK, ClientFields, Estimated
<1>7. UNCHANGED <<safe, executor, target, mode>>  BY DEF EstimateGas
<1> HIDE DEF v
<1>8. PICK o \in Overhead : client' = [client EXCEPT ![c] = v(o)]  BY <1>1
<1> QED  BY <1>6, <1>7, <1>8, ClientChanges

LEMMA MinedStep ==
  ASSUME IndInv, NEW c \in Client, Mined(c)
  PROVE  IndInv'
<1> DEFINE v(pc) == [client[c] EXCEPT !.pc = pc]
           ends == {"threw", "done", "failedAssertion"}
           event(o) == Outcome(client[c].tx, client[c].opts.sent, client[c].gas, o,
                               TxGasPrice(c)).event
           last(o) == IF Asserted(c, event(o)) THEN "done" ELSE "failedAssertion"
<1>1. ClientOK(client[c]) /\ client[c].pc = "sent"  BY DEF Mined, IndInv
<1>2. client[c].tx \in Transaction  BY <1>1 DEF ClientOK
<1>3. \E o \in Overhead :
        \/ client' = [client EXCEPT ![c] = v("threw")] /\ UNCHANGED <<safe, executor>>
        \/ /\ execTransaction(client[c].tx, client[c].opts.sent, client[c].gas, o,
                              TxGasPrice(c))
           /\ client' = [client EXCEPT ![c] = v(last(o))]
  BY Zenon DEF Mined
<1> HIDE DEF v, event
<1>4. PICK o \in Overhead :
        \/ client' = [client EXCEPT ![c] = v("threw")] /\ UNCHANGED <<safe, executor>>
        \/ /\ execTransaction(client[c].tx, client[c].opts.sent, client[c].gas, o,
                              TxGasPrice(c))
           /\ client' = [client EXCEPT ![c] = v(last(o))]
  BY <1>3
<1>5. PICK pc \in ends : client' = [client EXCEPT ![c] = v(pc)]
  BY <1>4
<1>6. ClientOK(v(pc))  BY <1>1, <1>2 DEF ClientOK, ClientFields, Estimated, v
<1>7. DOMAIN client' = Client /\ \A d \in Client : ClientOK(client'[d])
  BY <1>5, <1>6 DEF IndInv
<1>8. TxGasPrice(c) \in Nat
  BY <1>1, <1>2, GasAssumption DEF TxGasPrice, ClientOK, Transaction, GasAssumption
<1>9. client[c].gas \in Nat  BY <1>1 DEF ClientOK
<1>10. target' = target /\ mode' = mode  BY DEF Mined
<1>11. /\ safe'.nonce \in Nat
       /\ safe'.log \in Seq(Range(safe'.log)) /\ \A e \in Range(safe'.log) : EventOK(e)
       /\ TokensOK' /\ EtherOK'
  <2>1. CASE UNCHANGED <<safe, executor>>
    BY <1>10, <2>1 DEF IndInv, TokensOK, EtherOK, RelayerNotOutOfPocket, Events
  <2>2. CASE execTransaction(client[c].tx, client[c].opts.sent, client[c].gas, o,
                             TxGasPrice(c))
    BY <1>2, <1>8, <1>9, <1>10, <2>2, LogKept
  <2> QED  BY <1>4, <2>1, <2>2
<1> QED  BY <1>7, <1>10, <1>11 DEF IndInv

LEMMA RelayStep ==
  ASSUME IndInv, NEW tx \in Signed, NEW g \in Gas, NEW o \in Overhead, NEW p \in Price,
         Relay(tx, g, o, p)
  PROVE  IndInv'
<1>1. tx \in Transaction
  <2>1. CASE tx \in Presigned  BY <2>1, GasAssumption DEF GasAssumption
  <2>2. CASE tx \notin Presigned
    <3>1. PICK c \in Client : tx = client[c].tx /\ client[c].pc \in {"estimateGas", "sent"}
      BY <2>2 DEF Signed
    <3> QED  BY <3>1 DEF IndInv, ClientOK
  <2> QED  BY <2>1, <2>2
<1>2. UNCHANGED <<client, target, mode>>  BY DEF Relay
<1>3. /\ safe'.nonce \in Nat
      /\ safe'.log \in Seq(Range(safe'.log)) /\ \A e \in Range(safe'.log) : EventOK(e)
      /\ TokensOK' /\ EtherOK'
  BY <1>1, <1>2, LogKept, GasAssumption DEF Relay, GasAssumption
<1> QED  BY <1>2, <1>3 DEF IndInv

\* No step leaves the rules.
LEMMA StepOK ==
  ASSUME IndInv, [Next]_vars
  PROVE  IndInv'
<1>1. ASSUME NEW c \in Client, executeTransactionWithSigner(c)  PROVE IndInv'
  BY <1>1, EstimateStep, ReadNonceStep, SimulateStep, SignStep, EstimateGasStep, MinedStep
     DEF executeTransactionWithSigner
<1>2. ASSUME NEW tx \in Signed, NEW g \in Gas, NEW o \in Overhead, NEW p \in Price,
             Relay(tx, g, o, p)
      PROVE  IndInv'
  BY <1>2, RelayStep
<1>3. CASE TargetChanges
  BY <1>3 DEF TargetChanges, IndInv, TokensOK, EtherOK, RelayerNotOutOfPocket, Events
<1>4. CASE UNCHANGED vars
  BY <1>4 DEF vars, IndInv, TokensOK, EtherOK, RelayerNotOutOfPocket, Events
<1> QED  BY <1>1, <1>2, <1>3, <1>4 DEF Next

\* A call that is executed gets the gas that was signed for it, whatever the relayer gives
\* (Safe.sol:164-173).
THEOREM CallGetsItsGasAlways == Spec => []CallGetsItsGas
<1>1. IndInv => CallGetsItsGas
  <2> SUFFICES ASSUME IndInv, NEW e \in Events,
                      e.overhead <= 500, 64 * e.gasLeft < Word, e.tx.safeTxGas + 3000 < Word
               PROVE  e.gas >= e.tx.safeTxGas
    BY DEF CallGetsItsGas
  <2>1. EventOK(e)  BY DEF IndInv, Events
  <2> QED  BY <2>1, EventNumbers, CheckSuffices DEF EventOK
<1> QED  BY <1>1, InitOK, StepOK, PTL DEF Spec

\* A refund stays within what was signed and what the call itself costs, and in ether
\* within what the relayer pays for the gas (Safe.sol:201-219).
THEOREM PaymentBoundedAlways == Spec => []PaymentBounded
<1>1. IndInv => PaymentBounded
  <2> SUFFICES ASSUME IndInv, NEW e \in Events, e.tx.gasPrice > 0
               PROVE  /\ e.payment <= SignedMaximum(e.tx) + e.overhead * e.tx.gasPrice
                      /\ e.tx.gasToken = Ether =>
                           e.payment <= (e.gasUsed + e.tx.baseGas) * e.txGasPrice
    BY DEF PaymentBounded
  <2>1. EventOK(e)  BY DEF IndInv, Events
  <2> DEFINE used == e.gasUsed + e.tx.baseGas
             price == RefundPrice(e.tx.gasToken = Ether, e.tx.gasPrice, e.txGasPrice)
             signed == e.overhead + e.tx.safeTxGas + e.tx.baseGas
  <2>2. e.payment = used * price  BY <2>1 DEF EventOK, Payment
  <2>3. /\ used \in Nat /\ signed \in Nat /\ used <= signed
        /\ e.tx.gasPrice \in Nat /\ e.txGasPrice \in Nat
        /\ e.overhead \in Nat /\ e.tx.safeTxGas \in Nat /\ e.tx.baseGas \in Nat
    <3>1. e.gasUsed <= e.overhead + e.tx.safeTxGas  BY <2>1 DEF EventOK
    <3> QED  BY <2>1, <3>1, EventNumbers
  <2>4. /\ price \in Nat /\ price <= e.tx.gasPrice
        /\ e.tx.gasToken = Ether => price <= e.txGasPrice
    BY <2>3 DEF RefundPrice, Smaller
  <2>5. signed * e.tx.gasPrice = SignedMaximum(e.tx) + e.overhead * e.tx.gasPrice
    BY <2>3 DEF SignedMaximum
  <2> HIDE DEF used, price, signed
  <2>6. used * price <= signed * e.tx.gasPrice  BY <2>3, <2>4, Products
  <2>7. e.tx.gasToken = Ether => used * price <= used * e.txGasPrice
    BY <2>3, <2>4, Products
  <2> QED  BY <2>2, <2>5, <2>6, <2>7 DEF used
<1> QED  BY <1>1, InitOK, StepOK, PTL DEF Spec

\* What the events say was paid in tokens has arrived (SecuredTokenTransfer.sol:12).
THEOREM PaymentsAreRealAlways == Spec => []PaymentsAreReal
<1>1. IndInv => PaymentsAreReal  BY DEF IndInv, TokensOK, PaymentsAreReal
<1> QED  BY <1>1, InitOK, StepOK, PTL DEF Spec

\* The execution that a client stands behind.
LEMMA ClientsEvent ==
  ASSUME IndInv, NEW c \in Client, NEW e \in Events, e.tx = client[c].tx
  PROVE  EventOK(e) /\ ClientOK(client[c]) /\ client[c].pc \notin {"estimate", "nonce"}
<1>1. EventOK(e) /\ ClientOK(client[c])  BY DEF IndInv, Events
<1>2. e.tx # <<>>
  <2>1. e.tx \in Transaction  BY <1>1 DEF EventOK
  <2>2. "value" \in DOMAIN e.tx  BY <2>1 DEF Transaction
  <2>3. DOMAIN <<>> = {}  OBVIOUS
  <2> QED  BY <2>2, <2>3
<1> QED  BY <1>1, <1>2 DEF ClientOK, Estimated

\* Nobody is charged more than the maximum that was signed, if the target is what it was
\* when the gas was estimated (tests_deprecated/utils/execution.js:145).
THEOREM EstimateCoversAlways == Spec => []EstimateCovers
<1>1. IndInv => EstimateCovers
  <2> SUFFICES ASSUME IndInv, NEW c \in Client, NEW e \in Events, e.tx = client[c].tx,
                      e.tx.safeTxGas > 0, e.target = client[c].estimatedFor
               PROVE  e.payment <= SignedMaximum(e.tx)
    BY DEF EstimateCovers
  <2>1. EventOK(e) /\ ClientOK(client[c]) /\ client[c].pc \notin {"estimate", "nonce"}
    BY ClientsEvent
  <2>2. /\ e.overhead \in Overhead /\ e.target \in Target /\ e.gasUsed \in Nat
        /\ e.gasUsed <= e.overhead + e.target.cost
        /\ e.tx.safeTxGas \in Nat /\ e.tx.baseGas \in Nat /\ e.tx.gasPrice \in Nat
        /\ e.txGasPrice \in Nat
    BY <2>1 DEF EventOK, Transaction
  <2>3. Covers(e.tx.safeTxGas, e.target)  BY <2>1 DEF ClientOK, Estimated
  <2>4. e.gasUsed <= e.tx.safeTxGas
    <3>1. e.overhead + e.target.cost <= e.tx.safeTxGas  BY <2>2, <2>3 DEF Covers
    <3>2. e.overhead \in Nat /\ e.target.cost \in Nat  BY <2>1, EventNumbers
    <3> QED  BY <2>2, <3>1, <3>2
  <2> DEFINE price == RefundPrice(e.tx.gasToken = Ether, e.tx.gasPrice, e.txGasPrice)
             used == e.gasUsed + e.tx.baseGas
             signed == e.tx.baseGas + e.tx.safeTxGas
  <2>5. price \in Nat /\ price <= e.tx.gasPrice  BY <2>2 DEF RefundPrice, Smaller
  <2>6. used \in Nat /\ signed \in Nat /\ used <= signed  BY <2>2, <2>4
  <2>7. e.tx.gasPrice > 0 => e.payment = used * price  BY <2>1 DEF EventOK, Payment
  <2>8. SignedMaximum(e.tx) = signed * e.tx.gasPrice  BY DEF SignedMaximum
  <2> HIDE DEF price, used, signed
  <2>9. used * price <= signed * e.tx.gasPrice  BY <2>2, <2>5, <2>6, Products
  <2>10. CASE e.tx.gasPrice = 0
    <3>1. e.payment = 0  BY <2>1, <2>10 DEF EventOK
    <3> QED  BY <2>6, <2>8, <2>10, <3>1
  <2> QED  BY <2>2, <2>7, <2>8, <2>9, <2>10
<1> QED  BY <1>1, InitOK, StepOK, PTL DEF Spec

\* Who relays only what is worth it does not lose, however many transactions there were,
\* whatever their calls did and whoever signed them (Safe.sol:212).
THEOREM RelayerNotOutOfPocketAlways == Spec => []RelayerNotOutOfPocket
<1>1. IndInv => RelayerNotOutOfPocket  BY DEF IndInv, EtherOK
<1> QED  BY <1>1, InitOK, StepOK, PTL DEF Spec
================================================================================
