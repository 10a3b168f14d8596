------------------------- MODULE ConfirmationProofs --------------------------
(***************************************************************************)
(* What is executed was confirmed.  First for scripts that race and        *)
(* strangers that copy, on however many chains: what a chain executes was  *)
(* signed for it and for its nonce, and the scripts that are told of their *)
(* success have different nonces.  Then for Safes that own a Safe: what it *)
(* executes is backed by them, and they by their owners.                   *)
(***************************************************************************)
EXTENDS SafeClient, NestedSafes, FiniteSetTheorems, TLAPS

\* A transaction is a function with a nonce among its fields.
IsTx(tx) == tx = [f \in DOMAIN tx |-> tx[f]] /\ "nonce" \in DOMAIN tx

\* Those who have signed tx for a chain.
SignedFor(chain, tx) == {s \in signed : s.chain = chain /\ s.tx = tx}

ScriptFields == {"pc", "tx", "sigs"}

\* What a script holds: a transaction, and signatures of nothing else, each made for
\* the chain of its signer's provider and remembered in signed.
ScriptOK(c) ==
  /\ DOMAIN client[c] = ScriptFields
  /\ client[c].pc # "idle" => IsTx(client[c].tx)
  /\ \A s \in client[c].sigs :
       /\ client[c].pc # "idle" /\ s.signer \in Owner
       /\ s.digest = calculateSafeTransactionHash(client[c].tx, providerOf[s.signer])
       /\ [signer |-> s.signer, chain |-> providerOf[s.signer], tx |-> client[c].tx]
            \in signed

IsSequence(s) == \E S : s \in Seq(S)

\* The log of a chain has an entry for every nonce, signed by enough owners.
ChainOK(chain) ==
  /\ DOMAIN safe[chain] = {"nonce", "log"}
  /\ safe[chain].nonce \in Nat
  /\ IsSequence(safe[chain].log) /\ Len(safe[chain].log) = safe[chain].nonce
  /\ \A i \in 1..safe[chain].nonce :
       LET tx == safe[chain].log[i]
       IN IsTx(tx) /\ tx.nonce = i - 1 /\ Cardinality(SignedFor(chain, tx)) >= Threshold

\* Where a script stands in its race: before it is decided, what is pending either would
\* be accepted now or has lost its nonce.
RaceOK(c) ==
  LET home == safe[HomeOf[c]]
      tx == client[c].tx
  IN /\ client[c].pc = "pending" =>
          Accepts(HomeOf[c], tx, client[c].sigs) \/ (tx.nonce \in Nat /\ tx.nonce < home.nonce)
     /\ client[c].pc = "executed" => tx.nonce \in 0..(home.nonce - 1) /\ home.log[tx.nonce + 1] = tx
     /\ client[c].pc = "reverted" => tx.nonce \in Nat /\ tx.nonce < home.nonce

\* Successful scripts of one Safe have different nonces.
Distinct ==
  \A c, d \in Client :
    c # d /\ HomeOf[c] = HomeOf[d] /\ client[c].pc = "executed" /\
    client[d].pc = "executed" => client[c].tx.nonce # client[d].tx.nonce

IndInv ==
  /\ DOMAIN safe = Chain /\ DOMAIN client = Client
  /\ providerOf \in [Owner -> Chain] /\ IsFiniteSet(signed)
  /\ \A c \in Client : ScriptOK(c) /\ RaceOK(c)
  /\ \A chain \in Chain : ChainOK(chain)
  /\ Distinct

--------------------------------------------------------------------------------
(* Hashes, and what follows when signatures are accepted. *)
LEMMA HashFields ==
  ASSUME NEW tx, NEW p, NEW tx2, NEW q,
         calculateSafeTransactionHash(tx, p) = calculateSafeTransactionHash(tx2, q)
  PROVE  p = q /\ tx.nonce = tx2.nonce
<1> DEFINE f == [x \in SafeTx |-> tx[x]]
           g == [x \in SafeTx |-> tx2[x]]
<1>1. Digest(p, f) = Digest(q, g)  BY DEF calculateSafeTransactionHash
<1>2. p = q /\ f = g
  <2> HIDE DEF f, g
  <2>1. Digest(p, f).chainId = p /\ Digest(p, f).tx = f  BY DEF Digest
  <2>2. Digest(q, g).chainId = q /\ Digest(q, g).tx = g  BY DEF Digest
  <2> QED  BY <1>1, <2>1, <2>2
<1>3. "nonce" \in SafeTx  BY DEF SafeTx
<1>4. f["nonce"] = tx["nonce"] /\ g["nonce"] = tx2["nonce"]  BY <1>3
<1> QED  BY <1>2, <1>4

\* A transaction that has been given the nonce it has anyway.
LEMMA SameNonce ==
  ASSUME NEW tx, IsTx(tx)  PROVE  [tx EXCEPT !.nonce = tx.nonce] = tx
BY DEF IsTx

\* What a chain accepts has been built and signed for this chain and its nonce.
LEMMA Accepted ==
  ASSUME IndInv, NEW c \in Client, NEW chain \in Chain,
         Accepts(chain, client[c].tx, client[c].sigs)
  PROVE  /\ client[c].pc # "idle" /\ IsTx(client[c].tx)
         /\ client[c].tx.nonce = safe[chain].nonce
         /\ WithCurrentNonce(chain, client[c].tx) = client[c].tx
         /\ Cardinality(SignedFor(chain, client[c].tx)) >= Threshold
<1> DEFINE tx == client[c].tx
           first == FirstSigners(client[c].sigs)
           hash == calculateSafeTransactionHash(WithCurrentNonce(chain, tx), chain)
<1>1. /\ Cardinality(first) = Threshold
      /\ \A o \in first : o \in Owner /\ [signer |-> o, digest |-> hash] \in client[c].sigs
  BY DEF Accepts, checkNSignatures
<1>2. ScriptOK(c)  BY DEF IndInv
<1>3. ASSUME NEW o \in first
      PROVE  /\ client[c].pc # "idle"
             /\ hash = calculateSafeTransactionHash(tx, providerOf[o])
             /\ [signer |-> o, chain |-> providerOf[o], tx |-> tx] \in signed
  <2> HIDE DEF first, hash
  <2>1. [signer |-> o, digest |-> hash] \in client[c].sigs  BY <1>1
  <2> QED  BY <1>2, <2>1 DEF ScriptOK
<1>4. \A o \in first : chain = providerOf[o] /\ WithCurrentNonce(chain, tx).nonce = tx.nonce
  <2> HIDE DEF tx, first
  <2>1. ASSUME NEW o \in first
        PROVE  chain = providerOf[o] /\ WithCurrentNonce(chain, tx).nonce = tx.nonce
    <3> DEFINE now == WithCurrentNonce(chain, tx)
               p == providerOf[o]
    <3>1. calculateSafeTransactionHash(now, chain) = calculateSafeTransactionHash(tx, p)
      BY <1>3
    <3> HIDE DEF now, p, hash
    <3>2. chain = p /\ now.nonce = tx.nonce  BY <3>1, HashFields
    <3> QED  BY <3>2 DEF now, p
  <2> QED  BY <2>1
<1>5. first # {} /\ IsFiniteSet(first)
  <2>1. first \in SUBSET Owner  BY <1>1
  <2>2. IsFiniteSet(first)  BY <2>1, FS_Subset, ClientAssumption DEF ClientAssumption
  <2>3. Threshold # 0
    <3>1. Cardinality(Owner) \in Nat  BY FS_CardinalityType, ClientAssumption DEF ClientAssumption
    <3> QED  BY <3>1, ClientAssumption DEF ClientAssumption
  <2> QED  BY <1>1, <2>2, <2>3, FS_EmptySet
<1>6. client[c].pc # "idle" /\ IsTx(tx)  BY <1>2, <1>3, <1>5 DEF ScriptOK
<1>7. tx.nonce = safe[chain].nonce
  <2>1. WithCurrentNonce(chain, tx).nonce = safe[chain].nonce
    BY <1>6 DEF WithCurrentNonce, IsTx
  <2> QED  BY <1>4, <1>5, <2>1
<1>8. WithCurrentNonce(chain, tx) = tx  BY <1>6, <1>7, SameNonce DEF WithCurrentNonce
<1>9. Cardinality(first) <= Cardinality(SignedFor(chain, tx))
  <2> DEFINE f == [o \in first |-> [signer |-> o, chain |-> chain, tx |-> tx]]
             S == SignedFor(chain, tx)
  <2>1. f \in [first -> S]
    <3> HIDE DEF first, hash
    <3> QED  BY <1>3, <1>4 DEF SignedFor
  <2>2. \A o, p \in first : f[o] = f[p] => o = p
    <3>1. \A o \in first : f[o].signer = o  OBVIOUS
    <3> QED  BY <3>1
  <2>3. f \in Injection(first, S)  BY <2>1, <2>2 DEF Injection, IsInjective
  <2>4. IsFiniteSet(S)
    <3>1. S \in SUBSET signed  BY DEF SignedFor
    <3> QED  BY <3>1, FS_Subset DEF IndInv
  <2> HIDE DEF f, S, first
  <2>5. Cardinality(first) <= Cardinality(S)  BY <2>3, <2>4, FS_Injection
  <2> QED  BY <2>5 DEF S
<1>10. Cardinality(SignedFor(chain, tx)) >= Threshold  BY <1>1, <1>9
<1> QED  BY <1>6, <1>7, <1>8, <1>10

--------------------------------------------------------------------------------
(* A chain executes. *)
LEMMA AppendIs ==
  ASSUME NEW s, NEW e, IsSequence(s)
  PROVE  /\ IsSequence(Append(s, e)) /\ Len(s) \in Nat
         /\ Len(Append(s, e)) = Len(s) + 1
         /\ \A i \in 1..Len(s) : Append(s, e)[i] = s[i]
         /\ Append(s, e)[Len(s) + 1] = e
<1>1. PICK S : s \in Seq(S)  BY DEF IsSequence
<1>2. s \in Seq(S \cup {e})  BY <1>1
<1> QED  BY <1>2 DEF IsSequence

\* The nonces of the chains only grow, and what is in the logs stays.
Grown ==
  \A d \in Chain :
    /\ safe'[d].nonce \in Nat /\ safe[d].nonce <= safe'[d].nonce
    /\ \A i \in 1..safe[d].nonce : safe'[d].log[i] = safe[d].log[i]

LEMMA ExecutedOK ==
  ASSUME IndInv, NEW c \in Client, NEW chain \in Chain,
         Accepts(chain, client[c].tx, client[c].sigs),
         safe' = Executed(chain, client[c].tx), UNCHANGED signed
  PROVE  /\ DOMAIN safe' = Chain
         /\ \A d \in Chain : ChainOK(d)'
         /\ Grown
         /\ safe'[chain].nonce = client[c].tx.nonce + 1
         /\ client[c].tx.nonce = safe[chain].nonce
         /\ safe'[chain].log[client[c].tx.nonce + 1] = client[c].tx
<1> DEFINE tx == client[c].tx
           n == safe[chain].nonce
<1>1. /\ IsTx(tx) /\ tx.nonce = n /\ WithCurrentNonce(chain, tx) = tx
      /\ Cardinality(SignedFor(chain, tx)) >= Threshold
  BY Accepted
<1>2. DOMAIN safe = Chain /\ \A d \in Chain : ChainOK(d)  BY DEF IndInv
<1>3. safe' = [safe EXCEPT ![chain].nonce = n + 1, ![chain].log = Append(safe[chain].log, tx)]
  <2>1. safe' = [safe EXCEPT ![chain].nonce = n + 1,
                             ![chain].log = Append(safe[chain].log, WithCurrentNonce(chain, tx))]
    BY DEF Executed
  <2> QED  BY <1>1, <2>1, Zenon
<1>4. /\ DOMAIN safe' = Chain
      /\ \A d \in Chain \ {chain} : safe'[d] = safe[d]
      /\ DOMAIN safe'[chain] = {"nonce", "log"}
      /\ safe'[chain].nonce = n + 1
      /\ safe'[chain].log = Append(safe[chain].log, tx)
  <2> HIDE DEF tx, n
  <2>1. DOMAIN safe[chain] = {"nonce", "log"}  BY <1>2 DEF ChainOK
  <2>2. /\ DOMAIN safe' = DOMAIN safe
        /\ \A e \in DOMAIN safe \ {chain} : safe'[e] = safe[e]
        /\ DOMAIN safe'[chain] = {"nonce", "log"}
        /\ safe'[chain].nonce = n + 1
        /\ safe'[chain].log = Append(safe[chain].log, tx)
    <3> DEFINE new == Append(safe[chain].log, tx)
               more == n + 1
    <3>1. safe' = [safe EXCEPT ![chain].nonce = more, ![chain].log = new]  BY <1>3
    <3>2. chain \in DOMAIN safe  BY <1>2
    <3> HIDE DEF new, more
    <3>3. /\ DOMAIN safe' = DOMAIN safe
          /\ \A e \in DOMAIN safe \ {chain} : safe'[e] = safe[e]
          /\ DOMAIN safe'[chain] = {"nonce", "log"}
          /\ safe'[chain].nonce = more
          /\ safe'[chain].log = new
      BY <2>1, <3>1, <3>2
    <3> QED  BY <3>3 DEF new, more
  <2> QED  BY <1>2, <2>2, Zenon
<1>5. n \in Nat /\ IsSequence(safe[chain].log) /\ Len(safe[chain].log) = n
  BY <1>2 DEF ChainOK
<1>6. /\ IsSequence(safe'[chain].log) /\ Len(safe'[chain].log) = n + 1
      /\ \A i \in 1..n : safe'[chain].log[i] = safe[chain].log[i]
      /\ safe'[chain].log[n + 1] = tx
  BY <1>4, <1>5, AppendIs
<1>7. \A d, t : SignedFor(d, t)' = SignedFor(d, t)  BY DEF SignedFor
<1>8. ChainOK(chain)'
  <2> HIDE DEF tx, n
  <2>1. ASSUME NEW i \in 1..(n + 1)
        PROVE  LET t == safe'[chain].log[i]
               IN IsTx(t) /\ t.nonce = i - 1 /\ Cardinality(SignedFor(chain, t)) >= Threshold
    <3>1. CASE i = n + 1  BY <1>1, <1>5, <1>6, <3>1
    <3>2. CASE i \in 1..n
      <4>1. safe'[chain].log[i] = safe[chain].log[i]  BY <1>6, <3>2
      <4> QED  BY <1>2, <3>2, <4>1 DEF ChainOK, n
    <3> QED  BY <1>5, <3>1, <3>2
  <2> QED  BY <1>4, <1>5, <1>6, <1>7, <2>1 DEF ChainOK
<1>9. \A d \in Chain \ {chain} : ChainOK(d)'  BY <1>2, <1>4, <1>7 DEF ChainOK
<1>10. Grown
  <2>1. ASSUME NEW d \in Chain \ {chain}
        PROVE  safe'[d] = safe[d] /\ safe[d].nonce \in Nat
    BY <1>2, <1>4 DEF ChainOK
  <2>2. /\ safe'[chain].nonce \in Nat /\ safe[chain].nonce <= safe'[chain].nonce
        /\ \A i \in 1..safe[chain].nonce : safe'[chain].log[i] = safe[chain].log[i]
    BY <1>4, <1>5, <1>6
  <2>3. \A d \in Chain \ {chain} : safe[d].nonce <= safe'[d].nonce  BY <2>1
  <2>4. \A d \in Chain : d = chain \/ d \in Chain \ {chain}  OBVIOUS
  <2> HIDE DEF tx, n
  <2> QED  BY <2>1, <2>2, <2>3, <2>4, Zenon DEF Grown
<1> QED  BY <1>1, <1>4, <1>6, <1>8, <1>9, <1>10
\* The scripts that do not move keep their place in the race while chains go on.
LEMMA RaceKept ==
  ASSUME IndInv, Grown, NEW c \in Client, client'[c] = client[c]
  PROVE  RaceOK(c)'
<1> DEFINE home == HomeOf[c]
           tx == client[c].tx
<1>1. home \in Chain  BY ClientAssumption DEF ClientAssumption
<1>2. RaceOK(c) /\ ChainOK(home)  BY <1>1 DEF IndInv
<1>3. /\ safe[home].nonce \in Nat /\ safe'[home].nonce \in Nat
      /\ safe[home].nonce <= safe'[home].nonce
      /\ \A i \in 1..safe[home].nonce : safe'[home].log[i] = safe[home].log[i]
  BY <1>1, <1>2 DEF Grown, ChainOK
<1>4. CASE client[c].pc = "pending"
  <2>1. CASE tx.nonce \in Nat /\ tx.nonce < safe[home].nonce
    BY <1>3, <1>4, <2>1 DEF RaceOK
  <2>2. CASE Accepts(home, tx, client[c].sigs) /\ safe'[home].nonce = safe[home].nonce
    <3>1. Accepts(home, tx, client[c].sigs)'
      BY <2>2 DEF Accepts, WithCurrentNonce
    <3> QED  BY <1>4, <3>1 DEF RaceOK
  <2>3. CASE Accepts(home, tx, client[c].sigs) /\ safe'[home].nonce # safe[home].nonce
    <3>1. tx.nonce = safe[home].nonce  BY <1>1, <2>3, Accepted
    <3>2. tx.nonce \in Nat /\ tx.nonce < safe'[home].nonce  BY <1>3, <2>3, <3>1
    <3> QED  BY <1>4, <3>2 DEF RaceOK
  <2> QED  BY <1>2, <1>4, <2>1, <2>2, <2>3 DEF RaceOK
<1>5. CASE client[c].pc = "executed"
  <2>1. tx.nonce \in 0..(safe[home].nonce - 1) /\ safe[home].log[tx.nonce + 1] = tx
    BY <1>2, <1>5 DEF RaceOK
  <2>2. tx.nonce \in 0..(safe'[home].nonce - 1) /\ safe'[home].log[tx.nonce + 1] = tx
    <3> HIDE DEF tx, home
    <3> QED  BY <1>3, <2>1
  <2> QED  BY <1>5, <2>2 DEF RaceOK
<1>6. CASE client[c].pc = "reverted"
  <2>1. tx.nonce \in Nat /\ tx.nonce < safe'[home].nonce
    <3>1. tx.nonce \in Nat /\ tx.nonce < safe[home].nonce  BY <1>2, <1>6 DEF RaceOK
    <3> HIDE DEF tx, home
    <3> QED  BY <1>3, <3>1
  <2> QED  BY <1>6, <2>1 DEF RaceOK
<1>7. CASE client[c].pc \notin {"pending", "executed", "reverted"}  BY <1>7 DEF RaceOK
<1> QED  BY <1>4, <1>5, <1>6, <1>7

\* What is built is a transaction, whatever the overrides.
LEMMA Built ==
  ASSUME NEW call, NEW n  PROVE  IsTx(buildContractCall(call, n))
<1>1. ASSUME NEW template  PROVE  IsTx(buildSafeTransaction(template))
  BY DEF buildSafeTransaction, IsTx, SafeTx
<1> QED  BY <1>1 DEF buildContractCall

--------------------------------------------------------------------------------
(* The steps. *)
\* The scripts that do not move hold what they held, while signatures are added.
LEMMA ScriptKept ==
  ASSUME NEW c, ScriptOK(c), client'[c] = client[c], UNCHANGED providerOf,
         signed \subseteq signed'
  PROVE  ScriptOK(c)'
BY DEF ScriptOK

LEMMA ChainKept ==
  ASSUME NEW chain, IsFiniteSet(signed'), signed \subseteq signed', ChainOK(chain), UNCHANGED safe
  PROVE  ChainOK(chain)'
<1>1. ASSUME NEW tx, Cardinality(SignedFor(chain, tx)) >= Threshold
      PROVE  Cardinality(SignedFor(chain, tx)') >= Threshold
  <2> DEFINE S == SignedFor(chain, tx)
             T == SignedFor(chain, tx)'
  <2>1. S \in SUBSET T /\ T \in SUBSET signed'  BY DEF SignedFor
  <2>2. IsFiniteSet(T)
    <3> HIDE DEF T
    <3> QED  BY <2>1, FS_Subset
  <2>3. Cardinality(S) <= Cardinality(T) /\ Cardinality(S) \in Nat /\ Cardinality(T) \in Nat
    <3> HIDE DEF S, T
    <3> QED  BY <2>1, <2>2, FS_Subset, FS_CardinalityType
  <2>4. Threshold \in Int
    <3>1. Cardinality(Owner) \in Nat
      BY FS_CardinalityType, ClientAssumption DEF ClientAssumption
    <3> QED  BY <3>1, ClientAssumption DEF ClientAssumption
  <2> QED  BY <1>1, <2>3, <2>4
<1> QED  BY <1>1 DEF ChainOK

\* A script takes a step that leaves the chains alone: it is enough to look at it.
LEMMA ClientStep ==
  ASSUME IndInv, NEW c \in Client, UNCHANGED <<safe, providerOf>>,
         IsFiniteSet(signed'), signed \subseteq signed',
         NEW v, client' = [client EXCEPT ![c] = v],
         v.pc # "executed", ScriptOK(c)', RaceOK(c)'
  PROVE  IndInv'
<1>1. /\ DOMAIN client' = Client /\ client'[c] = v
      /\ \A d \in Client \ {c} : client'[d] = client[d]
  BY DEF IndInv
<1>2. Grown  BY DEF Grown, IndInv, ChainOK
<1>3. \A d \in Client : ScriptOK(d)' /\ RaceOK(d)'
  <2>1. ASSUME NEW d \in Client \ {c}  PROVE  ScriptOK(d)' /\ RaceOK(d)'
    BY <1>1, <1>2, RaceKept, ScriptKept DEF IndInv
  <2> QED  BY <2>1
<1>4. \A chain \in Chain : ChainOK(chain)'  BY ChainKept DEF IndInv
<1>5. Distinct'  BY <1>1 DEF Distinct, IndInv
<1> QED  BY <1>1, <1>3, <1>4, <1>5 DEF IndInv

LEMMA BeginStep ==
  ASSUME IndInv, NEW c \in Client, executeContractCallWithSigners(c)
  PROVE  IndInv'
<1> DEFINE tx == buildContractCall(CallOf[c], safe[HomeOf[c]].nonce)
           v == [client[c] EXCEPT !.pc = "signing", !.tx = tx]
<1>1. /\ client' = [client EXCEPT ![c] = v] /\ client[c].pc = "idle"
      /\ UNCHANGED <<safe, providerOf, signed>>
  BY DEF executeContractCallWithSigners
<1>2. ScriptOK(c) /\ DOMAIN client = Client  BY DEF IndInv
<1>3. IsTx(tx)  BY Built
<1>4. /\ v.pc = "signing" /\ v.tx = tx /\ v.sigs = client[c].sigs
      /\ DOMAIN v = ScriptFields
  <2> HIDE DEF tx
  <2> QED  BY <1>2 DEF ScriptOK, ScriptFields
<1> HIDE DEF tx, v
<1>5. client'[c] = v  BY <1>1, <1>2
<1>6. client[c].sigs = {}  BY <1>1, <1>2 DEF ScriptOK
<1>7. ScriptOK(c)'  BY <1>3, <1>4, <1>5, <1>6 DEF ScriptOK
<1>8. RaceOK(c)'  BY <1>4, <1>5 DEF RaceOK
<1> QED  BY <1>1, <1>4, <1>7, <1>8, ClientStep DEF IndInv
LEMMA SignStep ==
  ASSUME IndInv, NEW c \in Client, NEW o \in Owner, safeSignTypedData(c, o)
  PROVE  IndInv'
<1> DEFINE s == [signer |-> o, digest |-> calculateSafeTransactionHash(client[c].tx, providerOf[o])]
           e == [signer |-> o, chain |-> providerOf[o], tx |-> client[c].tx]
           v == [client[c] EXCEPT !.sigs = @ \cup {s}]
<1>1. /\ client' = [client EXCEPT ![c] = v] /\ client[c].pc = "signing"
      /\ signed' = signed \cup {e} /\ UNCHANGED <<safe, providerOf>>
  BY DEF safeSignTypedData
<1>2. ScriptOK(c) /\ DOMAIN client = Client  BY DEF IndInv
<1>3. /\ v.pc = "signing" /\ v.tx = client[c].tx /\ v.sigs = client[c].sigs \cup {s}
      /\ DOMAIN v = ScriptFields
  <2> HIDE DEF s
  <2> QED  BY <1>1, <1>2 DEF ScriptOK, ScriptFields
<1>4. /\ s.signer = o
      /\ s.digest = calculateSafeTransactionHash(client[c].tx, providerOf[s.signer])
      /\ [signer |-> s.signer, chain |-> providerOf[s.signer], tx |-> client[c].tx] \in signed'
  BY <1>1
<1> HIDE DEF s, e, v
<1>5. client'[c] = v /\ signed \subseteq signed' /\ IsFiniteSet(signed')
  BY <1>1, <1>2, FS_AddElement DEF IndInv
<1>6. ScriptOK(c)'
  <2>1. ASSUME NEW x \in v.sigs
        PROVE  /\ x.signer \in Owner
               /\ x.digest = calculateSafeTransactionHash(client[c].tx, providerOf[x.signer])
               /\ [signer |-> x.signer, chain |-> providerOf[x.signer], tx |-> client[c].tx]
                    \in signed'
    BY <1>2, <1>3, <1>4, <1>5 DEF ScriptOK
  <2> QED  BY <1>1, <1>2, <1>3, <1>5, <2>1 DEF ScriptOK
<1>7. RaceOK(c)'  BY <1>3, <1>5 DEF RaceOK
<1> QED  BY <1>1, <1>3, <1>5, <1>6, <1>7, ClientStep

Moves(c, pc) == client' = [client EXCEPT ![c].pc = pc]

\* A script's call is simulated, or reverts when it is mined: all else stays.
LEMMA MoveStep ==
  ASSUME IndInv, NEW c \in Client, UNCHANGED <<safe, providerOf, signed>>,
         NEW pc, pc \notin {"idle", "executed"}, client[c].pc # "idle",
         Moves(c, pc),
         pc = "pending" => Accepts(HomeOf[c], client[c].tx, client[c].sigs),
         pc = "reverted" => /\ client[c].tx.nonce \in Nat
                            /\ client[c].tx.nonce < safe[HomeOf[c]].nonce
  PROVE  IndInv'
<1> DEFINE v == [client[c] EXCEPT !.pc = pc]
<1>1. client' = [client EXCEPT ![c] = v]  BY DEF Moves
<1>2. ScriptOK(c) /\ DOMAIN client = Client  BY DEF IndInv
<1>3. v.pc = pc /\ v.tx = client[c].tx /\ v.sigs = client[c].sigs /\ DOMAIN v = ScriptFields
  BY <1>2 DEF ScriptOK, ScriptFields
<1> HIDE DEF v
<1>4. client'[c] = v  BY <1>1, <1>2
<1>5. ScriptOK(c)'  BY <1>2, <1>3, <1>4 DEF ScriptOK
<1>6. pc = "pending" => Accepts(HomeOf[c], client[c].tx, client[c].sigs)'
  BY <1>3, <1>4 DEF Accepts, WithCurrentNonce
<1>7. pc = "reverted" => (client[c].tx.nonce \in Nat /\ client[c].tx.nonce < safe[HomeOf[c]].nonce)'
  BY <1>3, <1>4
<1>8. client'[c].pc = pc  BY <1>3, <1>4
<1>9. RaceOK(c)'  BY <1>6, <1>7, <1>8 DEF RaceOK
<1> QED  BY <1>1, <1>3, <1>5, <1>9, ClientStep DEF IndInv

LEMMA ExecuteTxStep ==
  ASSUME IndInv, NEW c \in Client, executeTx(c)  PROVE  IndInv'
<1>1. client[c].pc # "idle" /\ UNCHANGED <<safe, providerOf, signed>>
  BY DEF executeTx, AllSigned
<1>2. CASE Accepts(HomeOf[c], client[c].tx, client[c].sigs)
  <2>1. Moves(c, "pending")  BY <1>2 DEF executeTx, Moves
  <2> QED  BY <1>1, <1>2, <2>1, MoveStep
<1>3. CASE ~Accepts(HomeOf[c], client[c].tx, client[c].sigs)
  <2>1. Moves(c, "threw")  BY <1>3 DEF executeTx, Moves
  <2> QED  BY <1>1, <2>1, MoveStep
<1> QED  BY <1>2, <1>3

LEMMA RunAgainStep ==
  ASSUME IndInv, NEW c \in Client, RunAgain(c)  PROVE  IndInv'
<1>1. client' = [client EXCEPT ![c] = Idle] /\ UNCHANGED <<safe, providerOf, signed>>
  BY DEF RunAgain
<1>2. Idle.pc = "idle" /\ Idle.sigs = {} /\ DOMAIN Idle = ScriptFields  BY DEF Idle, ScriptFields
<1>3. client'[c] = Idle  BY <1>1 DEF IndInv
<1>4. ScriptOK(c)' /\ RaceOK(c)'  BY <1>2, <1>3 DEF ScriptOK, RaceOK
<1> QED  BY <1>1, <1>2, <1>4, ClientStep DEF IndInv

LEMMA CopiedStep ==
  ASSUME IndInv, NEW c \in Client, NEW chain \in Chain, Copied(c, chain)  PROVE  IndInv'
<1>1. /\ Accepts(chain, client[c].tx, client[c].sigs)
      /\ safe' = Executed(chain, client[c].tx) /\ UNCHANGED <<client, providerOf, signed>>
  BY DEF Copied
<1>2. DOMAIN safe' = Chain /\ Grown /\ \A d \in Chain : ChainOK(d)'  BY <1>1, ExecutedOK
<1>3. \A d \in Client : ScriptOK(d)' /\ RaceOK(d)'
  <2>1. \A d \in Client : client'[d] = client[d]  BY <1>1
  <2> QED  BY <1>1, <1>2, <2>1, ScriptKept, RaceKept DEF IndInv
<1>4. Distinct'  BY <1>1 DEF Distinct, IndInv
<1> QED  BY <1>1, <1>2, <1>3, <1>4 DEF IndInv
LEMMA MinedStep ==
  ASSUME IndInv, NEW c \in Client, Mined(c)  PROVE  IndInv'
<1> DEFINE home == HomeOf[c]
           tx == client[c].tx
<1>1. client[c].pc = "pending" /\ UNCHANGED <<providerOf, signed>> /\ home \in Chain
  BY ClientAssumption DEF Mined, ClientAssumption
<1>2. /\ ScriptOK(c) /\ RaceOK(c) /\ DOMAIN client = Client
      /\ IsFiniteSet(signed) /\ providerOf \in [Owner -> Chain]
  BY DEF IndInv
<1>3. CASE Accepts(home, tx, client[c].sigs)
  <2>1. safe' = Executed(home, tx) /\ Moves(c, "executed")  BY <1>3 DEF Mined, Moves
  <2>2. /\ DOMAIN safe' = Chain /\ Grown /\ \A d \in Chain : ChainOK(d)'
        /\ safe'[home].nonce = tx.nonce + 1 /\ tx.nonce = safe[home].nonce
        /\ safe'[home].log[tx.nonce + 1] = tx
    BY <1>1, <1>3, <2>1, ExecutedOK
  <2>3. /\ DOMAIN client' = Client
        /\ client'[c].pc = "executed" /\ client'[c].tx = tx
        /\ client'[c].sigs = client[c].sigs /\ DOMAIN client'[c] = ScriptFields
        /\ \A d \in Client \ {c} : client'[d] = client[d]
    BY <1>2, <2>1 DEF Moves, ScriptOK, ScriptFields
  <2>4. \A d \in Client \ {c} : ScriptOK(d)' /\ RaceOK(d)'
    BY <1>1, <2>2, <2>3, ScriptKept, RaceKept DEF IndInv
  <2>5. ScriptOK(c)'  BY <1>1, <1>2, <2>3 DEF ScriptOK
  <2>6. safe[home].nonce \in Nat  BY <1>1 DEF IndInv, ChainOK
  <2>7. RaceOK(c)'  BY <2>2, <2>3, <2>6 DEF RaceOK
  <2>8. Distinct'
    <3>1. ASSUME NEW d \in Client \ {c}, HomeOf[d] = home, client'[d].pc = "executed"
          PROVE  client'[d].tx.nonce # tx.nonce
      <4>1. client[d].pc = "executed" /\ client'[d].tx = client[d].tx  BY <2>3, <3>1
      <4>2. client[d].tx.nonce \in 0..(safe[home].nonce - 1)
        BY <3>1, <4>1 DEF IndInv, RaceOK
      <4> QED  BY <2>2, <2>6, <4>1, <4>2
    <3>2. ASSUME NEW d \in Client \ {c}, NEW e \in Client \ {c}, d # e,
                 HomeOf[d] = HomeOf[e], client'[d].pc = "executed", client'[e].pc = "executed"
          PROVE  client'[d].tx.nonce # client'[e].tx.nonce
      BY <2>3, <3>2 DEF IndInv, Distinct
    <3> QED  BY <2>3, <3>1, <3>2 DEF Distinct
  <2> QED  BY <1>1, <1>2, <2>2, <2>3, <2>4, <2>5, <2>7, <2>8 DEF IndInv
<1>4. CASE ~Accepts(home, tx, client[c].sigs)
  <2>1. UNCHANGED safe /\ Moves(c, "reverted")  BY <1>4 DEF Mined, Moves
  <2>2. tx.nonce \in Nat /\ tx.nonce < safe[home].nonce  BY <1>1, <1>2, <1>4 DEF RaceOK
  <2> QED  BY <1>1, <2>1, <2>2, MoveStep
<1> QED  BY <1>3, <1>4

LEMMA InitOK == ASSUME Init PROVE IndInv
<1>1. /\ DOMAIN safe = Chain /\ DOMAIN client = Client
      /\ providerOf \in [Owner -> Chain] /\ signed = {}
      /\ \A d \in Chain : safe[d].nonce = 0 /\ safe[d].log = <<>> /\ DOMAIN safe[d] = {"nonce", "log"}
      /\ \A c \in Client : client[c] = Idle
  BY DEF Init
<1>2. Idle.pc = "idle" /\ Idle.sigs = {} /\ DOMAIN Idle = ScriptFields  BY DEF Idle, ScriptFields
<1>3. \A c \in Client : ScriptOK(c) /\ RaceOK(c)  BY <1>1, <1>2 DEF ScriptOK, RaceOK
<1>4. \A d \in Chain : ChainOK(d)
  <2>1. IsSequence(<<>>) /\ Len(<<>>) = 0
    <3>1. <<>> \in Seq({})  OBVIOUS
    <3> QED  BY <3>1 DEF IsSequence
  <2>2. 1..0 = {}  OBVIOUS
  <2> QED  BY <1>1, <2>1, <2>2 DEF ChainOK
<1>5. Distinct  BY <1>1, <1>2 DEF Distinct
<1>6. IsFiniteSet(signed)  BY <1>1, FS_EmptySet
<1> QED  BY <1>1, <1>3, <1>4, <1>5, <1>6 DEF IndInv

LEMMA StepOK == ASSUME IndInv, [Next]_vars PROVE IndInv'
<1>1. CASE UNCHANGED vars
  <2>1. UNCHANGED <<safe, providerOf, client, signed>>  BY <1>1 DEF vars
  <2>2. Grown  BY <2>1 DEF Grown, IndInv, ChainOK
  <2>3. \A c \in Client : ScriptOK(c)' /\ RaceOK(c)'
    BY <2>1, <2>2, ScriptKept, RaceKept DEF IndInv
  <2>4. \A d \in Chain : ChainOK(d)'  BY <2>1, ChainKept DEF IndInv
  <2>5. Distinct'  BY <2>1 DEF Distinct, IndInv
  <2> QED  BY <2>1, <2>3, <2>4, <2>5 DEF IndInv
<1>2. ASSUME NEW c \in Client, Step(c)  PROVE  IndInv'
  BY <1>2, BeginStep, SignStep, ExecuteTxStep, MinedStep, RunAgainStep DEF Step
<1>3. ASSUME NEW c \in Client, NEW chain \in Chain, Copied(c, chain)  PROVE  IndInv'
  BY <1>3, CopiedStep
<1> QED  BY <1>1, <1>2, <1>3 DEF Next

LEMMA ClientInvariant == Spec => []IndInv
<1>1. Init => IndInv  BY InitOK
<1>2. IndInv /\ [Next]_vars => IndInv'  BY StepOK
<1> QED  BY <1>1, <1>2, PTL DEF Spec

--------------------------------------------------------------------------------
\* What a chain has executed, enough owners have signed for this chain and nonce, with
\* all its parameters: whoever sends it, however often and wherever (execution.ts:60).
THEOREM OnlyWhatWasSignedAlways == Spec => []OnlyWhatWasSigned
<1>1. IndInv => OnlyWhatWasSigned
  <2> SUFFICES ASSUME IndInv, NEW chain \in Chain, NEW i \in DOMAIN safe[chain].log
               PROVE  LET tx == [safe[chain].log[i] EXCEPT !.nonce = i - 1]
                      IN Cardinality({s \in signed : s.chain = chain /\ s.tx = tx}) >= Threshold
    BY DEF OnlyWhatWasSigned
  <2> DEFINE tx == safe[chain].log[i]
  <2>1. ChainOK(chain)  BY DEF IndInv
  <2>2. i \in 1..safe[chain].nonce
    <3>1. PICK S : safe[chain].log \in Seq(S)  BY <2>1 DEF ChainOK, IsSequence
    <3>2. DOMAIN safe[chain].log = 1..Len(safe[chain].log)  BY <3>1
    <3> QED  BY <2>1, <3>2 DEF ChainOK
  <2>3. IsTx(tx) /\ tx.nonce = i - 1 /\ Cardinality(SignedFor(chain, tx)) >= Threshold
    BY <2>1, <2>2 DEF ChainOK
  <2>4. [tx EXCEPT !.nonce = i - 1] = tx
    <3> HIDE DEF tx
    <3> QED  BY <2>3, SameNonce
  <2> QED  BY <2>3, <2>4 DEF SignedFor
<1> QED  BY <1>1, ClientInvariant, PTL

\* Of the scripts that read the same nonce one wins, and those that are told of a revert
\* have lost it for good (execution.ts:242).
THEOREM OneWinnerPerNonceAlways == Spec => []OneWinnerPerNonce
<1>1. IndInv => OneWinnerPerNonce
  <2> SUFFICES ASSUME IndInv  PROVE OneWinnerPerNonce  OBVIOUS
  <2>1. ASSUME NEW c \in Client, client[c].pc = "executed"
        PROVE  client[c].tx \in Range(safe[HomeOf[c]].log)
    <3> DEFINE home == HomeOf[c]
               n == client[c].tx.nonce
    <3>1. home \in Chain  BY ClientAssumption DEF ClientAssumption
    <3>2. ChainOK(home) /\ RaceOK(c)  BY <3>1 DEF IndInv
    <3>3. n \in 0..(safe[home].nonce - 1) /\ safe[home].log[n + 1] = client[c].tx
      BY <2>1, <3>2 DEF RaceOK
    <3>4. PICK S : safe[home].log \in Seq(S)  BY <3>2 DEF ChainOK, IsSequence
    <3>5. DOMAIN safe[home].log = 1..safe[home].nonce /\ safe[home].nonce \in Nat
      BY <3>2, <3>4 DEF ChainOK
    <3>6. n + 1 \in DOMAIN safe[home].log
      <4> HIDE DEF n, home
      <4> QED  BY <3>3, <3>5
    <3> QED  BY <3>3, <3>6 DEF Range
  <2>2. ASSUME NEW c \in Client, client[c].pc = "reverted"
        PROVE  client[c].tx.nonce < safe[HomeOf[c]].nonce
    BY <2>2 DEF IndInv, RaceOK
  <2> QED  BY <2>1, <2>2 DEF OneWinnerPerNonce, IndInv, Distinct
<1> QED  BY <1>1, ClientInvariant, PTL

--------------------------------------------------------------------------------
(***************************************************************************)
(* Safes that own a Safe.                                                  *)
(***************************************************************************)

\* What a signature is for: a transaction, or confirming one in the name of a Safe.
SignsTransaction(a, g) ==
  /\ DOMAIN a = {"who", "tx"} /\ a = [who |-> a.who, tx |-> a.tx]
  /\ g = [signer |-> a.who, digest |-> SafeTxHash(a.tx)]

SignsMessage(a, g) ==
  /\ DOMAIN a = {"who", "forSafe", "confirms"}
  /\ a = [who |-> a.who, forSafe |-> a.forSafe, confirms |-> a.confirms]
  /\ g = [signer |-> a.who, digest |-> MessageHash(a.forSafe, SafeTxHash(a.confirms))]

SignatureMeant(g) ==
  g.signer \notin Safe /\ \E a \in agreed : SignsTransaction(a, g) \/ SignsMessage(a, g)

\* The Safe decided to confirm the transaction.
ApprovalMeant(h) ==
  \E d \in decided :
    /\ d = [safe |-> d.safe, confirms |-> d.confirms] /\ d.safe \in Safe
    /\ h = [owner |-> d.safe, hash |-> SafeTxHash(d.confirms)]

MessageMeant(s, message) ==
  \E d \in decided :
    /\ d = [safe |-> s, confirms |-> d.confirms]
    /\ message = MessageHash(s, SafeTxHash(d.confirms))

\* People own the children at any time.
OwnersInv ==
  /\ DOMAIN owners = Safe /\ \A s \in Safe : IsFiniteSet(owners[s])
  /\ owners[Parent] = OwnersOf[Parent]
  /\ \A s \in Safe \ {Parent} : owners[s] \cap Safe = {}

NestedInv ==
  /\ OwnersInv
  /\ DOMAIN approvedHashes = Safe /\ DOMAIN signedMessages = Safe
  /\ \A g \in signatures : SignatureMeant(g)
  /\ \A s \in Safe : \A h \in approvedHashes[s] : ApprovalMeant(h)
  /\ \A s \in Safe : \A message \in signedMessages[s] : MessageMeant(s, message)

--------------------------------------------------------------------------------
\* What was meant stays meant.
LEMMA StillMeant ==
  ASSUME agreed \subseteq agreed', decided \subseteq decided'
  PROVE  /\ \A g : SignatureMeant(g) => SignatureMeant(g)'
         /\ \A h : ApprovalMeant(h) => ApprovalMeant(h)'
         /\ \A s, message : MessageMeant(s, message) => MessageMeant(s, message)'
  BY DEF SignatureMeant, SignsTransaction, SignsMessage, ApprovalMeant, MessageMeant, SafeTxHash, MessageHash

LEMMA SignTransactionOK ==
  ASSUME NestedInv, NEW s \in Safe, NEW person \in owners[s], SignTransaction(person, s)
  PROVE  NestedInv'
  <1>1. PICK tx : /\ agreed' = agreed \cup {[who |-> person, tx |-> tx]}
                  /\ signatures' = signatures \cup {[signer |-> person, digest |-> SafeTxHash(tx)]}
    BY DEF SignTransaction
  <1> DEFINE a == [who |-> person, tx |-> tx]
             g == [signer |-> person, digest |-> SafeTxHash(tx)]
  <1>2. person \notin Safe
    BY DEF SignTransaction, CanAgree
  <1>3. UNCHANGED <<storage, decided, executed>>
    BY DEF SignTransaction
  <1>4. SignatureMeant(g)'
    <2>1. SignsTransaction(a, g)
      BY DEF SignsTransaction
    <2>2. a \in agreed' /\ g.signer \notin Safe
      BY <1>1, <1>2
    <2> HIDE DEF a, g
    <2> QED
      BY <2>1, <2>2, Zenon DEF SignatureMeant, SignsTransaction
  <1>5. \A g1 \in signatures' : SignatureMeant(g1)'
    <2> SUFFICES ASSUME NEW g1 \in signatures'
                 PROVE  SignatureMeant(g1)'
      OBVIOUS
    <2>1. g1 \in signatures \/ g1 = g
      BY <1>1
    <2>2. agreed \subseteq agreed' /\ decided \subseteq decided'
      BY <1>1, <1>3
    <2> QED
      BY <2>1, <2>2, <1>4, StillMeant DEF NestedInv
  <1> QED
    BY <1>1, <1>3, <1>5, StillMeant DEF NestedInv, OwnersInv, storage

LEMMA SafeSignMessageOK ==
  ASSUME NestedInv, NEW s \in Safe, NEW person \in owners[s], safeSignMessage(person, s)
  PROVE  NestedInv'
  <1>1. PICK tx \in ParentTransactions :
          /\ agreed' = agreed \cup {[who |-> person, forSafe |-> s, confirms |-> tx]}
          /\ signatures' = signatures \cup
               {[signer |-> person, digest |-> MessageHash(s, SafeTxHash(tx))]}
    BY DEF safeSignMessage
  <1> DEFINE a == [who |-> person, forSafe |-> s, confirms |-> tx]
             g == [signer |-> person, digest |-> MessageHash(s, SafeTxHash(tx))]
  <1>2. person \notin Safe
    BY DEF safeSignMessage, CanAgree
  <1>3. UNCHANGED <<storage, decided, executed>>
    BY DEF safeSignMessage
  <1>4. SignatureMeant(g)'
    <2>1. SignsMessage(a, g)
      BY DEF SignsMessage
    <2>2. a \in agreed' /\ g.signer \notin Safe
      BY <1>1, <1>2
    <2> HIDE DEF a, g
    <2> QED
      BY <2>1, <2>2, Zenon DEF SignatureMeant, SignsMessage
  <1>5. \A g1 \in signatures' : SignatureMeant(g1)'
    <2> SUFFICES ASSUME NEW g1 \in signatures'
                 PROVE  SignatureMeant(g1)'
      OBVIOUS
    <2>1. g1 \in signatures \/ g1 = g
      BY <1>1
    <2>2. agreed \subseteq agreed' /\ decided \subseteq decided'
      BY <1>1, <1>3
    <2> QED
      BY <2>1, <2>2, <1>4, StillMeant DEF NestedInv
  <1> QED
    BY <1>1, <1>3, <1>5, StillMeant DEF NestedInv, OwnersInv, storage

--------------------------------------------------------------------------------
\* The parent only pays.
LEMMA OnlyChildrenConfigure ==
  ASSUME NEW s \in Safe, NEW call \in Calls(s), call.op # "pay"
  PROVE  s # Parent
  BY DEF Calls, ParentTransactions, Transaction

LEMMA SignMessageOK ==
  ASSUME NestedInv, NEW s \in Safe, NEW call, signMessage(s, call),
         UNCHANGED <<signatures, agreed>>
  PROVE  NestedInv'
  <1> DEFINE message == MessageHash(s, SafeTxHash(call.message))
             d == [safe |-> s, confirms |-> call.message]
  <1>1. /\ signedMessages' = [signedMessages EXCEPT ![s] = @ \cup {message}]
        /\ decided' = decided \cup {d} /\ UNCHANGED <<owners, handler, approvedHashes>>
    BY DEF signMessage
  <1>2. MessageMeant(s, message)'
    <2>1. d \in decided' /\ d = [safe |-> s, confirms |-> d.confirms]
          /\ message = MessageHash(s, SafeTxHash(d.confirms))
      BY <1>1
    <2> QED
      BY <2>1 DEF MessageMeant
  <1>3. agreed \subseteq agreed' /\ decided \subseteq decided'
    BY <1>1
  <1>4. \A s1 \in Safe : \A m \in signedMessages'[s1] : MessageMeant(s1, m)'
    <2> SUFFICES ASSUME NEW s1 \in Safe, NEW m \in signedMessages'[s1]
                 PROVE  MessageMeant(s1, m)'
      OBVIOUS
    <2>1. m \in signedMessages[s1] \/ (s1 = s /\ m = message)
      BY <1>1 DEF NestedInv
    <2> QED
      BY <2>1, <1>2, <1>3, StillMeant DEF NestedInv
  <1> QED
    BY <1>1, <1>3, <1>4, StillMeant DEF NestedInv, OwnersInv

LEMMA ApproveHashOK ==
  ASSUME NestedInv, NEW s \in Safe, NEW call, approveHash(s, call),
         UNCHANGED <<signatures, agreed>>
  PROVE  NestedInv'
  <1> DEFINE approval == [owner |-> s, hash |-> SafeTxHash(call.message)]
             d == [safe |-> s, confirms |-> call.message]
  <1>1. /\ approvedHashes' = [approvedHashes EXCEPT ![Parent] = @ \cup {approval}]
        /\ decided' = decided \cup {d} /\ UNCHANGED <<owners, handler, signedMessages>>
    BY DEF approveHash
  <1>2. ApprovalMeant(approval)'
    <2>1. d \in decided' /\ d = [safe |-> d.safe, confirms |-> d.confirms] /\ d.safe \in Safe
          /\ approval = [owner |-> d.safe, hash |-> SafeTxHash(d.confirms)]
      BY <1>1
    <2> QED
      BY <2>1 DEF ApprovalMeant
  <1>3. agreed \subseteq agreed' /\ decided \subseteq decided'
    BY <1>1
  <1>4. \A s1 \in Safe : \A h \in approvedHashes'[s1] : ApprovalMeant(h)'
    <2> SUFFICES ASSUME NEW s1 \in Safe, NEW h \in approvedHashes'[s1]
                 PROVE  ApprovalMeant(h)'
      OBVIOUS
    <2>1. h \in approvedHashes[s1] \/ h = approval
      BY <1>1 DEF NestedInv
    <2> QED
      BY <2>1, <1>2, <1>3, StillMeant DEF NestedInv
  <1> QED
    BY <1>1, <1>3, <1>4, StillMeant DEF NestedInv, OwnersInv

LEMMA SwapOwnerOK ==
  ASSUME NestedInv, NEW s \in Safe, NEW call \in Calls(s), swapOwner(s, call),
         UNCHANGED <<signatures, agreed>>
  PROVE  NestedInv'
  <1> DEFINE swapped == (owners[s] \ {call.old}) \cup {call.new}
  <1>1. /\ owners' = [owners EXCEPT ![s] = swapped]
        /\ UNCHANGED <<handler, signedMessages, approvedHashes, decided>>
    BY DEF swapOwner
  <1>2. s # Parent /\ call.new \in Newcomer
    <2>1. call.op = "swapOwner"
      BY DEF swapOwner
    <2>2. s # Parent
      BY <2>1, OnlyChildrenConfigure
    <2> QED
      BY <2>1, <2>2 DEF Calls, ParentTransactions, Transaction
  <1>3. IsFiniteSet(swapped)
    BY FS_RemoveElement, FS_AddElement DEF NestedInv, OwnersInv
  <1>4. swapped \cap Safe = {}
    BY <1>2, NestingAssumption DEF NestedInv, OwnersInv, NestingAssumption
  <1>5. OwnersInv'
    BY <1>1, <1>2, <1>3, <1>4 DEF NestedInv, OwnersInv
  <1> QED
    BY <1>1, <1>5, StillMeant DEF NestedInv

\* A Safe executes one of its calls.
LEMMA ExecTransactionOK ==
  ASSUME NestedInv, NEW s \in Safe, execTransaction(s)
  PROVE  NestedInv'
  <1>1. PICK call \in Calls(s) :
          \/ signMessage(s, call) \/ approveHash(s, call) \/ swapOwner(s, call)
          \/ setFallbackHandler(s, call) \/ Pay(call)
    BY DEF execTransaction
  <1>2. UNCHANGED <<signatures, agreed>>
    BY DEF execTransaction
  <1>3. CASE signMessage(s, call)
    BY <1>2, <1>3, SignMessageOK
  <1>4. CASE approveHash(s, call)
    BY <1>2, <1>4, ApproveHashOK
  <1>5. CASE swapOwner(s, call)
    BY <1>2, <1>5, SwapOwnerOK
  <1>6. CASE setFallbackHandler(s, call) \/ Pay(call)
    BY <1>2, <1>6, StillMeant DEF NestedInv, OwnersInv, setFallbackHandler, Pay
  <1> QED
    BY <1>1, <1>3, <1>4, <1>5, <1>6

\* Every signature, approval and signed message was meant by those it speaks for.
THEOREM NestedInvariant == NestedSpec => []NestedInv
  <1>1. NestedInit => NestedInv
    BY NestingAssumption DEF NestedInit, NestedInv, OwnersInv, NestingAssumption
  <1>2. NestedInv /\ [NestedNext]_nestedVars => NestedInv'
    <2> SUFFICES ASSUME NestedInv, [NestedNext]_nestedVars
                 PROVE  NestedInv'
      OBVIOUS
    <2>1. CASE UNCHANGED nestedVars
      BY <2>1, StillMeant DEF NestedInv, OwnersInv, nestedVars, storage
    <2>2. CASE NestedNext
      BY <2>2, ExecTransactionOK, SignTransactionOK, SafeSignMessageOK DEF NestedNext
    <2> QED
      BY <2>1, <2>2
  <1> QED
    BY <1>1, <1>2, PTL DEF NestedSpec

--------------------------------------------------------------------------------
\* Hashes of different things differ.
LEMMA HashesDiffer ==
  ASSUME NEW tx, NEW tx1, NEW s, NEW s1, NEW hash
  PROVE  /\ SafeTxHash(tx) = SafeTxHash(tx1) => tx = tx1
         /\ MessageHash(s, SafeTxHash(tx)) = MessageHash(s1, SafeTxHash(tx1)) => s = s1 /\ tx = tx1
         /\ SafeTxHash(tx) # MessageHash(s, hash)
  BY DEF SafeTxHash, MessageHash

\* A signature of a transaction is somebody's who meant that transaction.
LEMMA SignatureIsAgreed ==
  ASSUME NestedInv, NEW o, NEW tx, [signer |-> o, digest |-> SafeTxHash(tx)] \in signatures
  PROVE  o \notin Safe /\ [who |-> o, tx |-> tx] \in agreed
  <1> DEFINE g == [signer |-> o, digest |-> SafeTxHash(tx)]
  <1>1. SignatureMeant(g)
    BY DEF NestedInv
  <1>2. PICK a \in agreed : SignsTransaction(a, g) \/ SignsMessage(a, g)
    BY <1>1 DEF SignatureMeant
  <1>3. g.signer = o /\ g.digest = SafeTxHash(tx) /\ g.signer \notin Safe
    BY <1>1 DEF SignatureMeant
  <1>4. ~SignsMessage(a, g)
    BY <1>3, HashesDiffer DEF SignsMessage
  <1>5. SignsTransaction(a, g)
    BY <1>2, <1>4
  <1>6. a.who = o /\ a.tx = tx
    BY <1>3, <1>5, HashesDiffer DEF SignsTransaction
  <1> QED
    BY <1>3, <1>5, <1>6 DEF SignsTransaction

\* A signature of a message is somebody's who meant to confirm the transaction in the
\* name of that Safe and of no other.
LEMMA MessageIsAgreed ==
  ASSUME NestedInv, NEW o, NEW s, NEW tx,
         [signer |-> o, digest |-> MessageHash(s, SafeTxHash(tx))] \in signatures
  PROVE  [who |-> o, forSafe |-> s, confirms |-> tx] \in agreed
  <1> DEFINE g == [signer |-> o, digest |-> MessageHash(s, SafeTxHash(tx))]
  <1>1. SignatureMeant(g)
    BY DEF NestedInv
  <1>2. PICK a \in agreed : SignsTransaction(a, g) \/ SignsMessage(a, g)
    BY <1>1 DEF SignatureMeant
  <1>3. g.signer = o /\ g.digest = MessageHash(s, SafeTxHash(tx))
    OBVIOUS
  <1>4. ~SignsTransaction(a, g)
    BY <1>3, HashesDiffer DEF SignsTransaction
  <1>5. SignsMessage(a, g)
    BY <1>2, <1>4
  <1>6. a.who = o /\ a.forSafe = s /\ a.confirms = tx
    BY <1>3, <1>5, HashesDiffer DEF SignsMessage
  <1> QED
    BY <1>5, <1>6 DEF SignsMessage

\* An approval of a transaction is the decision of a Safe.
LEMMA ApprovalIsDecided ==
  ASSUME NestedInv, NEW s \in Safe, NEW o, NEW tx,
         [owner |-> o, hash |-> SafeTxHash(tx)] \in approvedHashes[s]
  PROVE  o \in Safe /\ [safe |-> o, confirms |-> tx] \in decided
  <1> DEFINE h == [owner |-> o, hash |-> SafeTxHash(tx)]
  <1>1. ApprovalMeant(h)
    BY DEF NestedInv
  <1>2. PICK d \in decided : /\ d = [safe |-> d.safe, confirms |-> d.confirms] /\ d.safe \in Safe
                             /\ h = [owner |-> d.safe, hash |-> SafeTxHash(d.confirms)]
    BY <1>1 DEF ApprovalMeant
  <1>3. d.safe = o /\ SafeTxHash(d.confirms) = SafeTxHash(tx)
    BY <1>2
  <1>4. d.confirms = tx
    BY <1>3, HashesDiffer
  <1> QED
    BY <1>2, <1>3, <1>4

\* Nobody approves a message.
LEMMA NoMessageApproved ==
  ASSUME NestedInv, NEW s \in Safe, NEW o, NEW s1, NEW hash
  PROVE  [owner |-> o, hash |-> MessageHash(s1, hash)] \notin approvedHashes[s]
  <1> SUFFICES ASSUME [owner |-> o, hash |-> MessageHash(s1, hash)] \in approvedHashes[s]
               PROVE  FALSE
    OBVIOUS
  <1> DEFINE h == [owner |-> o, hash |-> MessageHash(s1, hash)]
  <1>1. ApprovalMeant(h)
    BY DEF NestedInv
  <1>2. PICK d \in decided : h = [owner |-> d.safe, hash |-> SafeTxHash(d.confirms)]
    BY <1>1 DEF ApprovalMeant
  <1>3. MessageHash(s1, hash) = SafeTxHash(d.confirms)
    BY <1>2
  <1> QED
    BY <1>3, HashesDiffer

\* What the parent takes for the confirmation of a child, the child backs.
LEMMA ValidIsBacked ==
  ASSUME NestedInv, NEW o \in Safe \ {Parent}, NEW tx, isValidSignature(o, SafeTxHash(tx))
  PROVE  Backs(o, tx)
  <1> DEFINE message == MessageHash(o, SafeTxHash(tx))
             signing == {p \in owners[o] : Confirms(p, o, message)}
             agreeing == {p \in owners[o] : [who |-> p, forSafe |-> o, confirms |-> tx] \in agreed}
  <1>1. message \in signedMessages[o] \/ Cardinality(signing) >= ThresholdOf[o]
    BY DEF isValidSignature
  <1>2. CASE message \in signedMessages[o]
    <2>1. MessageMeant(o, message)
      BY <1>2 DEF NestedInv
    <2>2. PICK d \in decided : /\ d = [safe |-> o, confirms |-> d.confirms]
                               /\ message = MessageHash(o, SafeTxHash(d.confirms))
      BY <2>1 DEF MessageMeant
    <2>3. d.confirms = tx
      BY <2>2, HashesDiffer
    <2> QED
      BY <2>2, <2>3 DEF Backs
  <1>3. CASE Cardinality(signing) >= ThresholdOf[o]
    <2>1. signing \subseteq agreeing
      <3> SUFFICES ASSUME NEW p \in signing
                   PROVE  p \in agreeing
        OBVIOUS
      <3>1. [signer |-> p, digest |-> message] \in signatures
        BY NoMessageApproved DEF Confirms
      <3> QED
        BY <3>1, MessageIsAgreed
    <2>2. IsFiniteSet(owners[o])
      BY DEF NestedInv, OwnersInv
    <2>3. IsFiniteSet(agreeing) /\ Cardinality(agreeing) \in Nat
      BY <2>2, FS_Subset, FS_CardinalityType
    <2>4. Cardinality(signing) <= Cardinality(agreeing)
      BY <2>1, <2>3, FS_Subset
    <2>5. Cardinality(signing) \in Nat
      BY <2>1, <2>3, FS_Subset, FS_CardinalityType
    <2>6. ThresholdOf[o] \in Nat
      BY NestingAssumption DEF NestingAssumption
    <2>7. Cardinality(agreeing) >= ThresholdOf[o]
      BY <1>3, <2>3, <2>4, <2>5, <2>6
    <2> QED
      BY <2>7 DEF Backs
  <1> QED
    BY <1>1, <1>2, <1>3

\* Whoever checkSignatures counts backs the transaction.
LEMMA CountedIsBacked ==
  ASSUME NestedInv, NEW s \in Safe, NEW o \in owners[s], NEW tx,
         Confirms(o, s, SafeTxHash(tx)) \/ (o \in Safe /\ isValidSignature(o, SafeTxHash(tx)))
  PROVE  Backs(o, tx)
  <1>1. CASE [signer |-> o, digest |-> SafeTxHash(tx)] \in signatures
    BY <1>1, SignatureIsAgreed DEF Backs
  <1>2. CASE [owner |-> o, hash |-> SafeTxHash(tx)] \in approvedHashes[s]
    BY <1>2, ApprovalIsDecided DEF Backs
  <1>3. CASE o \in Safe /\ isValidSignature(o, SafeTxHash(tx))
    <2>1. o # Parent
      BY <1>3, NestingAssumption DEF NestedInv, OwnersInv, NestingAssumption
    <2> QED
      BY <1>3, <2>1, ValidIsBacked
  <1> QED
    BY <1>1, <1>2, <1>3 DEF Confirms

\* No Safe executes what not enough of its owners of the moment back: a person who owns two
\* Safes confirms only in the name of the one they signed for, a message is no
\* transaction, and former owners do not count (Safe.sol:228-322).
THEOREM ExecutesWhatOwnersBackAlways == NestedSpec => ExecutesWhatOwnersBack
  <1> DEFINE OnlyBacked ==
        \A tx \in executed' \ executed :
          Cardinality({o \in owners[tx.safe] : Backs(o, tx)}) >= ThresholdOf[tx.safe]
  <1>1. NestedInv /\ [NestedNext]_nestedVars => OnlyBacked
    <2> SUFFICES ASSUME NestedInv, [NestedNext]_nestedVars, NEW tx \in executed' \ executed
                 PROVE  Cardinality({o \in owners[tx.safe] : Backs(o, tx)}) >= ThresholdOf[tx.safe]
      OBVIOUS
    <2>1. PICK s \in Safe : execTransaction(s)
      BY DEF NestedNext, nestedVars, SignTransaction, safeSignMessage
    <2>2. tx.safe = s /\ checkSignatures(s, SafeTxHash(tx))
      BY <2>1 DEF execTransaction, Transaction
    <2> DEFINE counted == {o \in owners[s] : \/ Confirms(o, s, SafeTxHash(tx))
                                             \/ o \in Safe /\ isValidSignature(o, SafeTxHash(tx))}
               backing == {o \in owners[s] : Backs(o, tx)}
    <2>3. Cardinality(counted) >= ThresholdOf[s]
      BY <2>2 DEF checkSignatures
    <2>4. counted \subseteq backing
      BY CountedIsBacked
    <2>5. IsFiniteSet(owners[s])
      BY DEF NestedInv, OwnersInv
    <2>6. IsFiniteSet(backing) /\ Cardinality(backing) \in Nat
      BY <2>5, FS_Subset, FS_CardinalityType
    <2>7. Cardinality(counted) <= Cardinality(backing) /\ Cardinality(counted) \in Nat
      BY <2>4, <2>6, FS_Subset, FS_CardinalityType
    <2>8. ThresholdOf[s] \in Nat
      BY NestingAssumption DEF NestingAssumption
    <2>9. Cardinality(backing) >= ThresholdOf[s]
      BY <2>3, <2>6, <2>7, <2>8
    <2> QED
      BY <2>2, <2>9
  <1> QED
    BY <1>1, NestedInvariant, PTL DEF NestedSpec, ExecutesWhatOwnersBack

--------------------------------------------------------------------------------
\* Signatures, approvals and signed messages are never taken back.
LEMMA OnlyMoreConfirmations ==
  ASSUME NestedInv, [NestedNext]_nestedVars
  PROVE  /\ signatures \subseteq signatures'
         /\ \A s \in Safe : /\ approvedHashes[s] \subseteq approvedHashes'[s]
                            /\ signedMessages[s] \subseteq signedMessages'[s]
  <1>1. CASE UNCHANGED nestedVars
    BY <1>1 DEF nestedVars, storage
  <1>2. CASE \E s \in Safe : \E p \in owners[s] : SignTransaction(p, s) \/ safeSignMessage(p, s)
    BY <1>2 DEF SignTransaction, safeSignMessage, storage
  <1>3. CASE \E s \in Safe : execTransaction(s)
    <2>1. PICK s \in Safe : execTransaction(s)
      BY <1>3
    <2>2. PICK call :
            \/ signMessage(s, call) \/ approveHash(s, call) \/ swapOwner(s, call)
            \/ setFallbackHandler(s, call) \/ Pay(call)
      BY <2>1 DEF execTransaction
    <2>3. UNCHANGED signatures
      BY <2>1 DEF execTransaction
    <2>4. CASE signMessage(s, call)
      BY <2>3, <2>4 DEF signMessage, NestedInv
    <2>5. CASE approveHash(s, call)
      BY <2>3, <2>5 DEF approveHash, NestedInv
    <2>6. CASE swapOwner(s, call) \/ setFallbackHandler(s, call) \/ Pay(call)
      BY <2>3, <2>6 DEF swapOwner, setFallbackHandler, Pay
    <2> QED
      BY <2>2, <2>4, <2>5, <2>6
  <1> QED
    BY <1>1, <1>2, <1>3 DEF NestedNext

\* A set of owners that has not become smaller has not fewer members.
LEMMA NotFewer ==
  ASSUME NEW S, NEW T, NEW owning, S \subseteq T, T \subseteq owning, IsFiniteSet(owning),
         NEW threshold \in Nat, Cardinality(S) >= threshold
  PROVE  Cardinality(T) >= threshold
  <1>1. IsFiniteSet(T) /\ Cardinality(T) \in Nat
    BY FS_Subset, FS_CardinalityType
  <1>2. Cardinality(S) <= Cardinality(T) /\ Cardinality(S) \in Nat
    BY <1>1, FS_Subset, FS_CardinalityType
  <1> QED
    BY <1>1, <1>2

\* With the same owners and handlers, what a Safe has accepted it accepts.
LEMMA AcceptedStays ==
  ASSUME NestedInv, [NestedNext]_nestedVars, UNCHANGED <<owners, handler>>,
         NEW s \in Safe, NEW hash, checkSignatures(s, hash)
  PROVE  checkSignatures(s, hash)'
  <1>1. /\ signatures \subseteq signatures'
        /\ \A t \in Safe : /\ approvedHashes[t] \subseteq approvedHashes'[t]
                           /\ signedMessages[t] \subseteq signedMessages'[t]
    BY OnlyMoreConfirmations
  <1>2. \A t \in Safe : \A o, h : Confirms(o, t, h) => Confirms(o, t, h)'
    BY <1>1 DEF Confirms
  <1>3. /\ \A t \in Safe : IsFiniteSet(owners[t])
        /\ \A t \in Safe : ThresholdOf[t] \in Nat
    BY NestingAssumption DEF NestingAssumption, NestedInv, OwnersInv
  <1>4. ASSUME NEW o \in Safe, isValidSignature(o, hash)
        PROVE  isValidSignature(o, hash)'
    <2> DEFINE message == MessageHash(o, hash)
               before == {p \in owners[o] : Confirms(p, o, message)}
               after == {p \in owners'[o] : Confirms(p, o, message)'}
    <2>1. handler'[o] /\ (message \in signedMessages[o] \/ Cardinality(before) >= ThresholdOf[o])
      BY <1>4 DEF isValidSignature
    <2>2. before \subseteq after /\ after \subseteq owners[o]
      BY <1>2
    <2>3. Cardinality(before) >= ThresholdOf[o] => Cardinality(after) >= ThresholdOf[o]
      BY <1>3, <2>2, NotFewer
    <2>4. handler'[o] /\ (message \in signedMessages'[o] \/ Cardinality(after) >= ThresholdOf[o])
      BY <1>1, <2>1, <2>3
    <2>5. MessageHash(o, hash)' = message
      BY DEF MessageHash
    <2> QED
      BY <2>4, <2>5 DEF isValidSignature
  <1> DEFINE counted == {o \in owners[s] : Confirms(o, s, hash) \/ (o \in Safe /\ isValidSignature(o, hash))}
             countedThen == {o \in owners'[s] : Confirms(o, s, hash)' \/ (o \in Safe /\ isValidSignature(o, hash)')}
  <1>5. Cardinality(counted) >= ThresholdOf[s]
    BY DEF checkSignatures
  <1>6. counted \subseteq countedThen /\ countedThen \subseteq owners[s]
    BY <1>2, <1>4
  <1>7. Cardinality(countedThen) >= ThresholdOf[s]
    BY <1>3, <1>5, <1>6, NotFewer
  <1> QED
    BY <1>7 DEF checkSignatures

\* Nothing that the owners of nested Safes sign or execute, short of replacing owners and
\* handlers or using the nonce, makes the parent refuse what it accepts
\* (SignMessageLib.sol:24, Safe.sol:358).
THEOREM StaysAcceptedAlways == NestedSpec => StaysAccepted
  <1>1. ASSUME NestedInv, [NestedNext]_nestedVars
        PROVE  \A tx \in ParentTransactions :
                 /\ checkSignatures(Parent, SafeTxHash(tx))
                 /\ nonce'[Parent] = nonce[Parent] /\ UNCHANGED <<owners, handler>>
                 => checkSignatures(Parent, SafeTxHash(tx))'
    <2> SUFFICES ASSUME NEW tx, checkSignatures(Parent, SafeTxHash(tx)),
                        UNCHANGED <<owners, handler>>
                 PROVE  checkSignatures(Parent, SafeTxHash(tx))'
      OBVIOUS
    <2>1. Parent \in Safe
      BY NestingAssumption DEF NestingAssumption
    <2> DEFINE hash == SafeTxHash(tx)
    <2>2. hash' = hash
      BY DEF SafeTxHash
    <2> QED
      BY <1>1, <2>1, <2>2, AcceptedStays
  <1> QED
    BY <1>1, NestedInvariant, PTL DEF NestedSpec, StaysAccepted
==============================================================================
