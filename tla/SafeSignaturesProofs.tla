-------------------------- MODULE SafeSignaturesProofs --------------------------
(***************************************************************************)
(* No array of signatures gets a transaction executed that its owners have *)
(* not confirmed: SafeSignatures implements Multisig, for every set of     *)
(* accounts, owners, thresholds and arrays; and what they have confirmed   *)
(* in sufficient number is accepted, once it is laid out.                  *)
(***************************************************************************)
EXTENDS SafeSignatures, Functions, FiniteSetTheorems,
  WellFoundedInduction, TLAPS

IndInv == members \in SUBSET Account /\ quorum \in Nat \ {0}

\* Every nonempty set of natural numbers has a least element.
LEMMA LeastElement ==
  ASSUME NEW T \in SUBSET Nat, T # {}
  PROVE  \E x \in T : \A y \in T : x <= y
<1>1. IsWellFoundedOn(OpToRel(<, Nat), Nat)  BY NatLessThanWellFounded
<1>2. PICK x \in T : \A y \in T : ~(<<y, x>> \in OpToRel(<, Nat))
  BY <1>1, WFMin
<1>3. ASSUME NEW y \in T, y < x  PROVE  FALSE
  BY <1>2, <1>3 DEF OpToRel
<1> QED  BY <1>3, SMT

\* Numbers that ascend from each to the next are all different.
LEMMA AscendingIsInjective ==
  ASSUME NEW n \in Nat, NEW f \in [1..n -> Nat],
         \A i \in 2..n : f[i - 1] < f[i]
  PROVE  IsInjective(f)
<1> DEFINE T == {j \in 1..n : \E i \in 1..n : i < j /\ ~(f[i] < f[j])}
<1>1. T = {}
  <2>1. SUFFICES ASSUME T # {}  PROVE FALSE  OBVIOUS
  <2>2. T \in SUBSET Nat  OBVIOUS
  <2>3. PICK j \in T : \A k \in T : j <= k
    <3> HIDE DEF T
    <3> QED  BY <2>1, <2>2, LeastElement
  <2>4. PICK i \in 1..n : i < j /\ ~(f[i] < f[j])  OBVIOUS
  <2>5. f[j - 1] < f[j] /\ j - 1 \in 1..n  BY <2>4
  <2>6. i < j - 1  BY <2>4, <2>5
  <2>7. j - 1 \notin T  BY <2>3, <2>4
  <2>8. f[i] < f[j - 1]  BY <2>5, <2>6, <2>7
  <2> QED  BY <2>4, <2>5, <2>8
<1>2. \A i, j \in 1..n : i < j => f[i] < f[j]  BY <1>1
<1> QED  BY <1>2 DEF IsInjective

\* An ECDSA slot of a submitted array holds a signature that was made.
LEMMA SlotIsSigned ==
  ASSUME NEW signatures \in Submitted, NEW pos, NEW digest,
         LET slot == signatureSplit(signatures, pos)
         IN slot.v \notin {0, 1} /\ digest \in slot.over
  PROVE  \E c \in signed : c.by = signatureSplit(signatures, pos).r /\ c.over = digest
<1>1. PICK claims \in BoundedSeq(Claims, MaxSlots), cut \in {0, 1} :
        signatures = [Layout(claims) EXCEPT !.length = @ - cut]
  BY DEF Submitted
<1>2. pos \in DOMAIN signatures.slots  BY DEF signatureSplit, Noise
<1>3. signatures.slots = Layout(claims).slots  BY <1>1 DEF Layout
<1>4. PICK m \in 0..MaxSlots : claims \in [1..m -> Claims]  BY DEF BoundedSeq, SeqOf
<1>5. Len(claims) = m  BY <1>4
<1>6. /\ DOMAIN Layout(claims).slots = 1..m
      /\ \A i \in 1..m : /\ Layout(claims).slots[i].v = claims[i].v
                         /\ Layout(claims).slots[i].r = claims[i].signer
                         /\ Layout(claims).slots[i].over = claims[i].over
  BY <1>5 DEF Layout
<1>7. pos \in 1..m /\ signatureSplit(signatures, pos) = Layout(claims).slots[pos]
  BY <1>2, <1>3, <1>6 DEF signatureSplit
<1>8. claims[pos] \in Claims /\ claims[pos].v \notin {0, 1} /\ digest \in claims[pos].over
  BY <1>4, <1>6, <1>7
<1>9. PICK c \in signed :
        claims[pos] \in [signer : {c.by}, v : {27, 31}, over : {{c.over}}]
  <2>1. ASSUME NEW S, NEW T, NEW w, claims[pos] \in [signer : S, v : {w}, over : T]
        PROVE  claims[pos].v = w
    BY <2>1
  <2>2. /\ claims[pos] \notin [signer : Account, v : {1}, over : {{}}]
        /\ claims[pos] \notin [signer : Contract, v : {0}, over : {{}}]
    BY <1>8, <2>1
  <2> QED  BY <1>8, <2>2 DEF Claims
<1>10. claims[pos].signer = c.by /\ claims[pos].over = {c.over}  BY <1>9
<1> QED  BY <1>6, <1>7, <1>8, <1>10

\* A slot that passes stands for somebody who confirmed the hash.
LEMMA SlotIsConfirmed ==
  ASSUME IndInv, AccountAssumption,
         NEW signatures \in Submitted, NEW pos, NEW required, NEW executor, NEW hash,
         LET slot == signatureSplit(signatures, pos)
         IN /\ Vouched(executor, hash, signatures, slot, required)
            /\ CurrentOwner(slot, hash) \in members
  PROVE  CurrentOwner(signatureSplit(signatures, pos), hash)
           \in Abstract!Behind(executor, hash)
<1> DEFINE slot == signatureSplit(signatures, pos)
           owner == CurrentOwner(slot, hash)
<1>1. owner \in members /\ owner # Zero
  BY DEF IndInv, AccountAssumption, Zero
<1>2. CASE slot.v = 0
  BY <1>1, <1>2 DEF Vouched, CurrentOwner, checkContractSignature, isValidSignature,
       Abstract!Behind, confirmed
<1>3. CASE slot.v = 1
  BY <1>1, <1>3 DEF Vouched, CurrentOwner, Abstract!Behind, confirmed
<1>4. CASE slot.v \notin {0, 1}
  <2> DEFINE digest == Digest(hash, slot.v)
  <2>1. digest \in slot.over /\ owner = slot.r
    BY <1>1, <1>4 DEF CurrentOwner, ecrecover
  <2>2. PICK c \in signed : c.by = owner /\ c.over = digest
    BY <1>4, <2>1, SlotIsSigned
  <2>3. c.over.hash = hash  BY <2>2 DEF Digest
  <2>4. [by |-> owner, hash |-> hash] \in confirmed
    BY <2>2, <2>3 DEF confirmed
  <2> QED  BY <1>1, <2>4 DEF Abstract!Behind
<1> QED  BY <1>2, <1>3, <1>4

\* An array that passes has as many owners behind it as are required.
LEMMA EnoughBehind ==
  ASSUME IndInv, AccountAssumption,
         NEW signatures \in Submitted, NEW required \in Nat, NEW executor, NEW hash,
         checkNSignatures(executor, hash, signatures, required)
  PROVE  Cardinality(Abstract!Behind(executor, hash)) >= required
<1> DEFINE owner(i) == CurrentOwner(signatureSplit(signatures, i), hash)
           f == [i \in 1..required |-> owner(i)]
           Behind == Abstract!Behind(executor, hash)
<1>1. ASSUME NEW i \in 1..required  PROVE f[i] \in Behind /\ f[i] \in Nat
  <2>1. /\ Vouched(executor, hash, signatures, signatureSplit(signatures, i), required)
        /\ owner(i) \in members
    BY DEF checkNSignatures
  <2>2. owner(i) \in Behind  BY <2>1, SlotIsConfirmed
  <2> QED  BY <2>1, <2>2 DEF IndInv, AccountAssumption
<1>2. ASSUME NEW i \in 2..required  PROVE f[i - 1] < f[i]
  <2>1. i \in 1..required /\ i - 1 \in 1..required /\ i # 0 /\ i - 1 # 0  OBVIOUS
  <2>2. owner(i) > owner(i - 1)  BY <2>1 DEF checkNSignatures, Ascends
  <2> QED  BY <1>1, <2>1, <2>2
<1>3. f \in [1..required -> Nat]  BY <1>1
<1>4. IsInjective(f)
  <2> HIDE DEF f
  <2> QED  BY <1>2, <1>3, AscendingIsInjective
<1>5. f \in Injection(1..required, Behind)  BY <1>1, <1>4 DEF Injection
<1>6. IsFiniteSet(Behind)
  <2>1. Behind \in SUBSET Account  BY DEF Abstract!Behind, IndInv
  <2> QED  BY <2>1, FS_Subset DEF AccountAssumption
<1>7. Cardinality(1..required) <= Cardinality(Behind)
  <2> HIDE DEF f, Behind
  <2> QED  BY <1>5, <1>6, FS_Injection
<1>8. Cardinality(1..required) = required  BY FS_Interval, SMT
<1>9. Cardinality(Behind) \in Nat  BY <1>6, FS_CardinalityType
<1> QED
  <2> HIDE DEF Behind
  <2>1. Cardinality(Behind) >= required  BY <1>7, <1>8, <1>9, SMT
  <2> QED  BY <2>1 DEF Behind

--------------------------------------------------------------------------------
\* Both modules mean the same registry.
LEMMA SameCardinality ==
  ASSUME NEW S
  PROVE  /\ Registry!Cardinality(S) = Cardinality(S)
         /\ Abstract!Cardinality(S) = Cardinality(S)
         /\ Abstract!Registry!Cardinality(S) = Cardinality(S)
BY Zenon DEF Registry!Cardinality, Abstract!Registry!Cardinality, Abstract!Cardinality,
             Cardinality

LEMMA SameRetune ==
  ASSUME NEW ms, NEW q
  PROVE  /\ Registry!Retune(ms, q) = Abstract!Registry!Retune(ms, q)
         /\ Registry!Found(ms, q) = Abstract!Registry!Found(ms, q)
BY SameCardinality DEF Registry!Retune, Abstract!Registry!Retune,
                       Registry!Found, Abstract!Registry!Found

LEMMA SameRegistry == Registry!Next => Abstract!Registry!Next
BY SameRetune, SameCardinality
DEF Registry!Next, Registry!Admit, Registry!Expel, Registry!Exchange, Registry!SetQuorum,
    Abstract!Registry!Next, Abstract!Registry!Admit, Abstract!Registry!Expel,
    Abstract!Registry!Exchange, Abstract!Registry!SetQuorum

\* A transaction is executed by a step of the abstract specification.
LEMMA ExecutionStep ==
  ASSUME IndInv, AccountAssumption, NEW tx \in Tx, NEW executor \in Account \cup {Zero},
         NEW signatures \in Submitted, execTransaction(tx, executor, signatures)
  PROVE  Abstract!Execute(tx)
<1>1. TransactionHash(tx) = Abstract!Hash(tx)  BY DEF TransactionHash, Abstract!Hash
<1>2. quorum > 0
  BY DEF execTransaction, checkSignatures, IndInv
<1>3. Cardinality(Abstract!Behind(executor, Abstract!Hash(tx))) >= quorum
  BY <1>1, EnoughBehind DEF execTransaction, checkSignatures, IndInv
<1>4. Abstract!Registry!Next \/ UNCHANGED <<members, quorum>>
  BY SameRegistry DEF execTransaction, Executes
<1>5. UNCHANGED confirmed  BY DEF execTransaction, confirmations, confirmed
<1> QED
  BY <1>2, <1>3, <1>4, <1>5, SameCardinality DEF Abstract!Execute, execTransaction

\* The owners stay accounts, and the threshold a number.
LEMMA RegistryStep ==
  ASSUME IndInv, AccountAssumption, Registry!Next
  PROVE  IndInv'
<1>1. ASSUME NEW ms \in SUBSET Account, NEW q,
             Registry!Found(ms, q) \/ Registry!Retune(ms, q)
      PROVE  IndInv'
  <2>1. members' = ms /\ quorum' = q /\ q \in 1..Cardinality(ms)
    BY <1>1, SameCardinality DEF Registry!Found, Registry!Retune
  <2>2. Cardinality(ms) \in Nat  BY FS_Subset, FS_CardinalityType DEF AccountAssumption
  <2> QED  BY <2>1, <2>2 DEF IndInv
<1>2. PICK ms \in SUBSET Account : \E q : Registry!Found(ms, q) \/ Registry!Retune(ms, q)
  <2>1. ASSUME NEW m \in Account, NEW q, Registry!Admit(m, q) \/ Registry!Expel(m, q)
        PROVE  \E ms \in SUBSET Account : Registry!Retune(ms, q)
    BY <2>1 DEF Registry!Admit, Registry!Expel, IndInv
  <2>2. ASSUME NEW old \in Account, NEW new \in Account, Registry!Exchange(old, new)
        PROVE  \E ms \in SUBSET Account : Registry!Retune(ms, quorum)
    BY <2>2 DEF Registry!Exchange, IndInv
  <2>3. ASSUME NEW q, Registry!SetQuorum(q)
        PROVE  \E ms \in SUBSET Account : Registry!Retune(ms, q)
    BY <2>3 DEF Registry!SetQuorum, IndInv
  <2> QED  BY <2>1, <2>2, <2>3 DEF Registry!Next
<1>3. PICK q : Registry!Found(ms, q) \/ Registry!Retune(ms, q)  BY <1>2
<1> QED  BY <1>1, <1>3

LEMMA InitIndInv == Init => IndInv /\ Abstract!Init
<1> SUFFICES ASSUME Init  PROVE IndInv /\ Abstract!Init  OBVIOUS
<1>1. Cardinality(InitialMembers) \in Nat
  BY FS_Subset, FS_CardinalityType, AccountAssumption, InitialAssumption
  DEF AccountAssumption, InitialAssumption
<1>2. IndInv  BY <1>1, InitialAssumption DEF Init, IndInv, InitialAssumption
<1>3. confirmed = {}  BY DEF Init, confirmed
<1> QED  BY <1>2, <1>3 DEF Init, IndInv, Abstract!Init

\* Each step keeps the invariant and is a step or a stutter of the abstract spec.
LEMMA NextStep ==
  ASSUME IndInv, [Next]_vars
  PROVE  IndInv' /\ [Abstract!Next]_(Abstract!vars)
<1>1. ASSUME NEW tx \in Tx, NEW executor \in Account \cup {Zero},
             NEW signatures \in Submitted, execTransaction(tx, executor, signatures)
      PROVE  IndInv' /\ Abstract!Next
  <2>1. Abstract!Execute(tx)  BY <1>1, ExecutionStep, AccountAssumption
  <2>2. IndInv'
    BY <1>1, RegistryStep, AccountAssumption DEF execTransaction, Executes, IndInv
  <2> QED  BY <2>1, <2>2 DEF Abstract!Next
<1>2. CASE execTransactionFromModule
  <2>1. Abstract!Govern
    BY <1>2, SameRegistry
    DEF execTransactionFromModule, confirmations, confirmed, Abstract!Govern
  <2>2. IndInv'
    BY <1>2, RegistryStep, AccountAssumption DEF execTransactionFromModule
  <2> QED  BY <2>1, <2>2 DEF Abstract!Next
<1>3. ASSUME NEW a \in Account, NEW h \in Hash,
             approveHash(a, h) \/ \E v \in {27, 31} : safeSign(a, h, v)
      PROVE  IndInv' /\ Abstract!Confirm(a)
  <2>1. UNCHANGED <<members, quorum, nonce>>  BY <1>3 DEF approveHash, safeSign
  <2>2. {c \in confirmed' : c.by # a} = {c \in confirmed : c.by # a}
    BY <1>3 DEF approveHash, safeSign, confirmed
  <2> QED  BY <2>1, <2>2 DEF IndInv, Abstract!Confirm
<1>4. ASSUME NEW a \in Contract, NEW h \in Hash, ContractDecides(a, h)
      PROVE  IndInv' /\ Abstract!Confirm(a)
  <2>1. UNCHANGED <<members, quorum, nonce>>  BY <1>4 DEF ContractDecides
  <2>2. {c \in confirmed' : c.by # a} = {c \in confirmed : c.by # a}
    BY <1>4 DEF ContractDecides, confirmed
  <2> QED  BY <2>1, <2>2 DEF IndInv, Abstract!Confirm
<1>5. CASE UNCHANGED vars
  BY <1>5 DEF vars, IndInv, confirmed, Abstract!vars
<1> QED
  BY <1>1, <1>2, <1>3, <1>4, <1>5, ContractAssumption
  DEF Next, Abstract!Next, ContractAssumption

\* SafeSignatures implements Multisig.
THEOREM Implementation == Spec => ImplementsMultisig
<1>1. Init => IndInv /\ Abstract!Init  BY InitIndInv
<1>2. IndInv /\ [Next]_vars => IndInv' /\ [Abstract!Next]_(Abstract!vars)  BY NextStep
<1> QED  BY <1>1, <1>2, PTL DEF Spec, ImplementsMultisig, Abstract!Spec

--------------------------------------------------------------------------------
\* What the Safe and the keys have said cannot be taken back.
LEMMA ConfirmationsStay ==
  ASSUME [Next]_vars
  PROVE  approvedHashes \subseteq approvedHashes' /\ signed \subseteq signed'
<1>1. ASSUME NEW tx, NEW executor, NEW signatures, execTransaction(tx, executor, signatures)
      PROVE  UNCHANGED <<approvedHashes, signed>>
  BY <1>1 DEF execTransaction, confirmations
<1>2. CASE execTransactionFromModule
  BY <1>2 DEF execTransactionFromModule, confirmations
<1>3. CASE UNCHANGED vars  BY <1>3 DEF vars
<1> QED
  BY <1>1, <1>2, <1>3 DEF Next, approveHash, safeSign, ContractDecides

\* The conditions of StaysRelayable.
Grows ==
  /\ nonce' = nonce /\ members \subseteq members' /\ quorum' <= quorum
  /\ accepts \subseteq accepts'

\* The check only asks for what stays, and for less of it.
LEMMA CheckStays ==
  ASSUME IndInv, IndInv', [Next]_vars, Grows,
         NEW executor, NEW hash, NEW signatures, checkSignatures(executor, hash, signatures),
         signatures.length \in Int, \A i \in 1..quorum : signatureSplit(signatures, i).s \in Int
  PROVE  checkSignatures(executor, hash, signatures)'
<1>1. /\ quorum \in Nat /\ quorum' \in Nat /\ quorum' # 0 /\ quorum' <= quorum
      /\ quorum' * SlotSize <= quorum * SlotSize
      /\ quorum' * SlotSize \in Int /\ quorum * SlotSize \in Int
  <2>1. /\ quorum \in Nat /\ quorum' \in Nat /\ quorum' # 0 /\ quorum' <= quorum
    BY DEF IndInv, Grows
  <2>2. \A p, q \in Nat : p <= q => /\ p * SlotSize <= q * SlotSize
                                   /\ p * SlotSize \in Int /\ q * SlotSize \in Int
    BY SMT DEF SlotSize
  <2> QED  BY <2>1, <2>2
<1>2. checkNSignatures(executor, hash, signatures, quorum)
  BY DEF checkSignatures
<1> DEFINE slot(i) == signatureSplit(signatures, i)
<1>3. Covers(signatures, quorum')
  BY <1>1, <1>2 DEF checkNSignatures, Covers
<1>4. ASSUME NEW i \in 1..quorum'
      PROVE  Vouched(executor, hash, signatures, slot(i), quorum)'
             /\ CurrentOwner(slot(i), hash) \in members'
  <2>1. i \in 1..quorum  BY <1>1
  <2>2. /\ Vouched(executor, hash, signatures, slot(i), quorum)
        /\ CurrentOwner(slot(i), hash) \in members
    BY <1>2, <2>1 DEF checkNSignatures
  <2>3. slot(i).s >= quorum' * SlotSize \/ ~(slot(i).s >= quorum * SlotSize)
    BY <1>1, <2>1
  <2>4. CurrentOwner(slot(i), hash) \in members'  BY <2>2 DEF Grows
  <2>5. Vouched(executor, hash, signatures, slot(i), quorum)'
    BY <2>2, <2>3, ConfirmationsStay
    DEF Grows, Vouched, checkContractSignature, isValidSignature
  <2> QED  BY <2>4, <2>5
<1>5. ASSUME NEW i \in 1..quorum'
      PROVE  Ascends(IF i = 0 THEN Zero ELSE CurrentOwner(slot(i), hash),
                     IF i - 1 = 0 THEN Zero ELSE CurrentOwner(slot(i - 1), hash))
  <2>1. i \in 1..quorum  BY <1>1
  <2> QED  BY <1>2, <2>1 DEF checkNSignatures
<1>6. checkNSignatures(executor, hash, signatures, quorum)'
  BY <1>3, <1>4, <1>5 DEF checkNSignatures, Covers, Ascends, CurrentOwner, ecrecover
<1> QED  BY <1>1, <1>6 DEF checkSignatures

\* The numbers in an array are numbers, whatever the claims.
LEMMA LayoutNumbers ==
  ASSUME NEW claims, Len(claims) \in Nat
  PROVE  /\ Layout(claims).length \in Int
         /\ \A i : signatureSplit(Layout(claims), i).s \in Int
<1> DEFINE n == Len(claims)
           Dynamic == {i \in 1..n : claims[i].v = 0}
           Offset(i) == n * SlotSize + Cardinality({j \in Dynamic : j < i}) * (Word + BlobSize)
<1>1. ASSUME NEW i  PROVE Offset(i) \in Int
  <2>1. IsFiniteSet(1..n)  BY FS_Interval
  <2>2. {j \in Dynamic : j < i} \in SUBSET (1..n)  OBVIOUS
  <2>3. Cardinality({j \in Dynamic : j < i}) \in Nat
    BY <2>1, <2>2, FS_Subset, FS_CardinalityType
  <2>4. \A m, c \in Nat : m * SlotSize + c * (Word + BlobSize) \in Int
    BY SMT DEF SlotSize, Word, BlobSize
  <2> QED  BY <2>3, <2>4
<1>2. Layout(claims).length = Offset(n + 1)  BY DEF Layout
<1>3. /\ DOMAIN Layout(claims).slots = 1..n
      /\ \A i \in 1..n : Layout(claims).slots[i].s = IF i \in Dynamic THEN Offset(i) ELSE 0
  BY DEF Layout
<1> HIDE DEF Offset, Dynamic
<1> QED  BY <1>1, <1>2, <1>3 DEF signatureSplit, Noise

\* An array that is submitted stays in reach, and its numbers are numbers.
LEMMA SubmittedStays ==
  ASSUME [Next]_vars, NEW signatures \in Submitted
  PROVE  /\ signatures \in Submitted'
         /\ signatures.length \in Int
         /\ \A i : signatureSplit(signatures, i).s \in Int
<1>1. PICK claims \in BoundedSeq(Claims, MaxSlots), cut \in {0, 1} :
        signatures = [Layout(claims) EXCEPT !.length = @ - cut]
  BY DEF Submitted
<1>2. PICK m \in 0..MaxSlots : claims \in [1..m -> Claims]
  BY DEF BoundedSeq, SeqOf
<1>3. Claims \subseteq Claims'
  BY ConfirmationsStay DEF Claims
<1>4. claims \in BoundedSeq(Claims', MaxSlots)
  BY <1>2, <1>3 DEF BoundedSeq, SeqOf
<1>5. signatures \in Submitted'
  BY <1>1, <1>4 DEF Submitted
<1>6. Len(claims) \in Nat  BY <1>2
<1>7. /\ signatures.slots = Layout(claims).slots
      /\ signatures.length = Layout(claims).length - cut
  BY <1>1 DEF Layout
<1> QED  BY <1>5, <1>6, <1>7, LayoutNumbers DEF signatureSplit

LEMMA StepStaysRelayable ==
  ASSUME IndInv, IndInv', [Next]_vars, Grows
  PROVE  Relayable \subseteq Relayable'
<1>1. ASSUME NEW array \in Relayable  PROVE array \in Relayable'
  <2>1. /\ array \in [tx : Tx, signatures : Submitted]
        /\ checkSignatures(Zero, TransactionHash(array.tx), array.signatures)
    BY DEF Relayable
  <2>2. array \in [tx : Tx, signatures : Submitted']
    BY <2>1, SubmittedStays
  <2>3. checkSignatures(Zero, TransactionHash(array.tx), array.signatures)'
    <3>1. TransactionHash(array.tx)' = TransactionHash(array.tx)
      BY DEF TransactionHash, Grows
    <3> QED  BY <2>1, <3>1, CheckStays, SubmittedStays
  <2> QED  BY <2>2, <2>3 DEF Relayable
<1> QED  BY <1>1

\* An array that passes keeps passing when owners join, more is confirmed or the
\* threshold sinks: StaysRelayable, for every array that can be submitted.
THEOREM StaysRelayableAlways == Spec => StaysRelayable
<1>1. Init => IndInv  BY InitIndInv
<1>2. IndInv /\ [Next]_vars => IndInv'  BY NextStep
<1>3. IndInv /\ IndInv' /\ [Next]_vars
      => [Grows => Relayable \subseteq Relayable']_vars
  BY StepStaysRelayable
<1> QED  BY <1>1, <1>2, <1>3, PTL DEF Spec, StaysRelayable, Grows

--------------------------------------------------------------------------------
InSignerOrder(s, claims) ==
  /\ s \in [1..Cardinality(claims) -> claims] /\ IsInjective(s)
  /\ \A i, j \in DOMAIN s : i < j => s[i].signer <= s[j].signer

\* First the claim with the lowest signer, then the others in their order.
LEMMA SortedStep ==
  ASSUME NEW claims, IsFiniteSet(claims), claims # {}, \A c \in claims : c.signer \in Nat,
         \A c \in claims : \E s : InSignerOrder(s, claims \ {c})
  PROVE  \E s : InSignerOrder(s, claims)
<1> DEFINE n == Cardinality(claims)
<1>1. PICK c \in claims : \A d \in claims : c.signer <= d.signer
  <2> DEFINE T == {d.signer : d \in claims}
  <2>1. T \in SUBSET Nat /\ T # {}  OBVIOUS
  <2>2. PICK x \in T : \A y \in T : x <= y
    <3> HIDE DEF T
    <3> QED  BY <2>1, LeastElement
  <2> QED  BY <2>2
<1>2. PICK s : InSignerOrder(s, claims \ {c})  OBVIOUS
<1>3. n \in Nat /\ Cardinality(claims \ {c}) = n - 1
  BY FS_CardinalityType, FS_RemoveElement
<1>4. n - 1 \in Nat
  <2>1. IsFiniteSet(claims \ {c})  BY FS_RemoveElement
  <2> QED  BY <1>3, <2>1, FS_CardinalityType
<1> HIDE DEF n
<1>5. /\ s \in [1..(n - 1) -> claims \ {c}]
      /\ \A i, j \in 1..(n - 1) : s[i] = s[j] => i = j
      /\ \A i, j \in 1..(n - 1) : i < j => s[i].signer <= s[j].signer
  BY <1>2, <1>3 DEF InSignerOrder, IsInjective
<1> DEFINE t == [i \in 1..n |-> IF i = 1 THEN c ELSE s[i - 1]]
<1>6. \A i \in 1..n : i # 1 => i - 1 \in 1..(n - 1) /\ t[i] = s[i - 1]
  BY <1>3
<1>7. 1 \in 1..n /\ t[1] = c  BY <1>3, <1>4
<1>8. t \in [1..n -> claims]  BY <1>5, <1>6, <1>7
<1>9. DOMAIN t = 1..n  OBVIOUS
<1> HIDE DEF t
<1>10. ASSUME NEW i \in 1..n, NEW j \in 1..n, t[i] = t[j]  PROVE i = j
  <2>1. CASE i = 1 /\ j # 1  BY <1>5, <1>6, <1>7, <1>10, <2>1
  <2>2. CASE i # 1 /\ j = 1  BY <1>5, <1>6, <1>7, <1>10, <2>2
  <2>3. CASE i # 1 /\ j # 1
    <3>1. i - 1 = j - 1  BY <1>5, <1>6, <1>10, <2>3
    <3> QED  BY <1>3, <3>1
  <2> QED  BY <2>1, <2>2, <2>3
<1>11. ASSUME NEW i \in 1..n, NEW j \in 1..n, i < j  PROVE t[i].signer <= t[j].signer
  <2>1. j # 1  BY <1>3, <1>11
  <2>2. CASE i = 1  BY <1>1, <1>7, <1>8, <2>2
  <2>3. CASE i # 1
    <3>1. i - 1 < j - 1  BY <1>3, <1>11
    <3> QED  BY <1>5, <1>6, <2>1, <2>3, <3>1
  <2> QED  BY <2>2, <2>3
<1>12. InSignerOrder(t, claims)
  BY <1>8, <1>9, <1>10, <1>11 DEF InSignerOrder, IsInjective, n
<1> QED  BY <1>12

\* Every finite set of claims can be sorted.
LEMMA SortedExists ==
  ASSUME NEW claims, IsFiniteSet(claims), \A c \in claims : c.signer \in Nat
  PROVE  \E s : InSignerOrder(s, claims)
<1> DEFINE Unsorted(C) == /\ IsFiniteSet(C) /\ \A c \in C : c.signer \in Nat
                          /\ ~ \E s : InSignerOrder(s, C)
           T == {n \in Nat : \E C : Unsorted(C) /\ Cardinality(C) = n}
<1>1. T = {}
  <2>1. SUFFICES ASSUME T # {}  PROVE FALSE  OBVIOUS
  <2>2. T \in SUBSET Nat  OBVIOUS
  <2>3. PICK n \in T : \A k \in T : n <= k
    <3> HIDE DEF T
    <3> QED  BY <2>1, <2>2, LeastElement
  <2>4. PICK C : Unsorted(C) /\ Cardinality(C) = n  OBVIOUS
  <2>5. CASE C = {}
    <3>1. Cardinality(C) = 0  BY <2>5, FS_EmptySet
    <3>2. InSignerOrder([i \in 1..0 |-> 0], C)  BY <3>1 DEF InSignerOrder, IsInjective
    <3> QED  BY <2>4, <3>2
  <2>6. CASE C # {}
    <3>1. ASSUME NEW c \in C  PROVE \E s : InSignerOrder(s, C \ {c})
      <4>1. IsFiniteSet(C \ {c}) /\ Cardinality(C \ {c}) = n - 1
        BY <2>4, FS_RemoveElement
      <4>2. n - 1 \in Nat  BY <4>1, FS_CardinalityType
      <4>3. n - 1 \notin T  BY <2>3, <4>2
      <4> QED  BY <2>4, <4>1, <4>2, <4>3
    <3> HIDE DEF T
    <3> QED  BY <2>4, <2>6, <3>1, SortedStep
  <2> QED  BY <2>5, <2>6
<1>2. Cardinality(claims) \in Nat  BY FS_CardinalityType
<1>3. Cardinality(claims) \notin T  BY <1>1
<1> QED  BY <1>2, <1>3

LEMMA SortedSorts ==
  ASSUME NEW claims, IsFiniteSet(claims), \A c \in claims : c.signer \in Nat
  PROVE  InSignerOrder(SortedBySigner(claims), claims)
<1>1. \E s \in [1..Cardinality(claims) -> claims] :
        IsInjective(s) /\ \A i, j \in DOMAIN s : i < j => s[i].signer <= s[j].signer
  BY SortedExists DEF InSignerOrder
<1> QED  BY <1>1, Zenon DEF SortedBySigner, InSignerOrder

--------------------------------------------------------------------------------
\* A collection holds as many claims as signers, one of each.
LEMMA OneOfEach ==
  ASSUME IndInv, NEW signers \in SUBSET members, NEW hash,
         NEW claims \in Collections(hash, signers)
  PROVE  /\ IsFiniteSet(claims) /\ Cardinality(claims) = Cardinality(signers)
         /\ \A c \in claims : c.signer \in signers /\ c \in ConfirmationsBy(c.signer, hash)
         /\ \A c, d \in claims : c.signer = d.signer => c = d
<1>1. /\ claims \subseteq UNION {ConfirmationsBy(a, hash) : a \in signers}
      /\ \A a \in signers : \E c \in claims : {d \in claims : d.signer = a} = {c}
  BY DEF Collections
<1>2. ASSUME NEW c \in claims
      PROVE  c.signer \in signers /\ c \in ConfirmationsBy(c.signer, hash)
  <2>1. PICK a \in signers : c \in ConfirmationsBy(a, hash)  BY <1>1
  <2>2. c.signer = a  BY <2>1 DEF ConfirmationsBy
  <2> QED  BY <2>1, <2>2
<1>3. ASSUME NEW c \in claims, NEW d \in claims, c.signer = d.signer  PROVE c = d
  <2>1. PICK e \in claims : {x \in claims : x.signer = c.signer} = {e}  BY <1>1, <1>2
  <2> QED  BY <1>3, <2>1
<1> DEFINE signer == [c \in claims |-> c.signer]
<1>4. signer \in Injection(claims, signers)
  BY <1>2, <1>3 DEF Injection, IsInjective
<1>5. signer \in Surjection(claims, signers)
  <2>1. \A a \in signers : \E c \in claims : signer[c] = a  BY <1>1
  <2> QED  BY <1>2, <2>1 DEF Surjection
<1>6. IsFiniteSet(signers)
  <2>1. IsFiniteSet(Account) /\ signers \in SUBSET Account
    BY AccountAssumption DEF IndInv
  <2> QED  BY <2>1, FS_Subset
<1>7. IsFiniteSet(claims) /\ Cardinality(claims) = Cardinality(signers)
  BY <1>4, <1>5, <1>6, FS_Injection
<1> QED  BY <1>2, <1>3, <1>7

\* What an array starts at, and the place for each of its blobs.
Dynamic(s) == {i \in 1..Len(s) : s[i].v = 0}
OffsetOf(s, i) ==
  Len(s) * SlotSize + Cardinality({j \in Dynamic(s) : j < i}) * (Word + BlobSize)

LEMMA Offsets ==
  ASSUME NEW s, Len(s) \in Nat
  PROVE  /\ \A i : OffsetOf(s, i) \in Int /\ OffsetOf(s, i) >= Len(s) * SlotSize
         /\ \A i \in Dynamic(s) :
              OffsetOf(s, i) + Word + BlobSize <= OffsetOf(s, Len(s) + 1)
<1> DEFINE n == Len(s)
           Before(i) == {j \in Dynamic(s) : j < i}
<1>1. ASSUME NEW i
      PROVE  IsFiniteSet(Before(i)) /\ Cardinality(Before(i)) \in Nat
  <2>1. IsFiniteSet(1..n)  BY FS_Interval
  <2>2. Before(i) \in SUBSET (1..n)  BY DEF Dynamic
  <2> QED  BY <2>1, <2>2, FS_Subset, FS_CardinalityType
<1>2. ASSUME NEW i \in Dynamic(s)
      PROVE  Cardinality(Before(i)) + 1 <= Cardinality(Before(n + 1))
  <2>1. i \in 1..n  BY DEF Dynamic
  <2>2. i \notin Before(i)  BY <2>1
  <2>3. Before(i) \cup {i} \in SUBSET Before(n + 1)  BY <2>1 DEF Dynamic
  <2>4. Cardinality(Before(i) \cup {i}) = Cardinality(Before(i)) + 1
    <3> HIDE DEF Before
    <3> QED  BY <1>1, <2>2, FS_AddElement
  <2>5. Cardinality(Before(i) \cup {i}) <= Cardinality(Before(n + 1))
    <3> HIDE DEF Before
    <3> QED  BY <1>1, <2>3, FS_Subset
  <2> QED  BY <2>4, <2>5
<1>3. \A m, b, c \in Nat :
        /\ m * SlotSize + b * (Word + BlobSize) \in Int
        /\ m * SlotSize + b * (Word + BlobSize) >= m * SlotSize
        /\ b + 1 <= c => m * SlotSize + b * (Word + BlobSize) + Word + BlobSize
                           <= m * SlotSize + c * (Word + BlobSize)
  BY SMT DEF SlotSize, Word, BlobSize
<1>4. \A i : OffsetOf(s, i) = n * SlotSize + Cardinality(Before(i)) * (Word + BlobSize)
  BY DEF OffsetOf
<1> HIDE DEF Before
<1>5. \A i : OffsetOf(s, i) \in Int /\ OffsetOf(s, i) >= n * SlotSize
  BY <1>1, <1>3, <1>4
<1>6. ASSUME NEW i \in Dynamic(s)
      PROVE  OffsetOf(s, i) + Word + BlobSize <= OffsetOf(s, n + 1)
  BY <1>1, <1>2, <1>3, <1>4
<1> QED  BY <1>5, <1>6

LEMMA LayoutParts ==
  ASSUME NEW s, Len(s) \in Nat
  PROVE  /\ Layout(s).length = OffsetOf(s, Len(s) + 1)
         /\ \A i \in 1..Len(s) :
              LET slot == signatureSplit(Layout(s), i)
              IN /\ slot.v = s[i].v /\ slot.r = s[i].signer /\ slot.over = s[i].over
                 /\ i \in Dynamic(s) => slot.s = OffsetOf(s, i)
         /\ \A i \in Dynamic(s) : [at |-> OffsetOf(s, i), by |-> s[i].signer] \in Layout(s).blobs
<1>1. Layout(s).length = OffsetOf(s, Len(s) + 1)  BY DEF Layout, OffsetOf, Dynamic
<1>2. ASSUME NEW i \in 1..Len(s)
      PROVE  LET slot == signatureSplit(Layout(s), i)
             IN /\ slot.v = s[i].v /\ slot.r = s[i].signer /\ slot.over = s[i].over
                /\ i \in Dynamic(s) => slot.s = OffsetOf(s, i)
  <2>1. i \in DOMAIN Layout(s).slots  BY DEF Layout
  <2>2. signatureSplit(Layout(s), i) = Layout(s).slots[i]  BY <2>1 DEF signatureSplit
  <2>3. Layout(s).slots[i] = [v |-> s[i].v, r |-> s[i].signer,
                              s |-> IF i \in Dynamic(s) THEN OffsetOf(s, i) ELSE 0,
                              over |-> s[i].over]
    BY DEF Layout, OffsetOf, Dynamic
  <2> QED  BY <2>2, <2>3
<1>3. Layout(s).blobs = {[at |-> OffsetOf(s, i), by |-> s[i].signer] : i \in Dynamic(s)}
  BY DEF Layout, OffsetOf, Dynamic
<1> QED  BY <1>1, <1>2, <1>3

\* Every slot of an array that is built passes the check of its kind.
LEMMA BuiltVouched ==
  ASSUME NEW s, Len(s) \in Nat, NEW required \in 0..Len(s), NEW i \in 1..required, NEW hash,
         s[i] \in ConfirmationsBy(s[i].signer, hash)
  PROVE  LET slot == signatureSplit(Layout(s), i)
         IN /\ Vouched(Zero, hash, Layout(s), slot, required)
            /\ CurrentOwner(slot, hash) = s[i].signer
<1> DEFINE slot == signatureSplit(Layout(s), i)
<1>1. i \in 1..Len(s)  OBVIOUS
<1>2. /\ slot.v = s[i].v /\ slot.r = s[i].signer /\ slot.over = s[i].over
      /\ i \in Dynamic(s) => slot.s = OffsetOf(s, i)
  BY <1>1, LayoutParts
<1>3. /\ s[i].v = 0 => [by |-> s[i].signer, hash |-> hash] \in accepts
      /\ s[i].v = 1 => [by |-> s[i].signer, hash |-> hash] \in approvedHashes
      /\ s[i].v > 1 => Digest(hash, s[i].v) \in s[i].over
      /\ s[i].v \in {0, 1, 27, 31}
  BY DEF ConfirmationsBy, Claims
<1> HIDE DEF slot
<1>4. ASSUME slot.v = 0
      PROVE  /\ slot.s >= required * SlotSize
             /\ checkContractSignature(slot.r, hash, Layout(s), slot.s)
  <2>1. i \in Dynamic(s) /\ slot.s = OffsetOf(s, i)  BY <1>1, <1>2, <1>4 DEF Dynamic
  <2>2. Len(s) * SlotSize >= required * SlotSize /\ required * SlotSize \in Int
        /\ Len(s) * SlotSize \in Int
    BY SMT DEF SlotSize
  <2>3. OffsetOf(s, i) \in Int /\ OffsetOf(s, i) >= Len(s) * SlotSize  BY Offsets
  <2>4. slot.s >= required * SlotSize  BY <2>1, <2>2, <2>3
  <2>5. slot.s + Word + BlobSize <= Layout(s).length
    BY <2>1, Offsets, LayoutParts
  <2>6. [at |-> slot.s, by |-> slot.r] \in Layout(s).blobs
    BY <1>2, <2>1, LayoutParts
  <2>7. [by |-> slot.r, hash |-> hash] \in accepts  BY <1>2, <1>3, <1>4
  <2> QED  BY <2>4, <2>5, <2>6, <2>7 DEF checkContractSignature, isValidSignature
<1>5. slot.v = 1 => [by |-> slot.r, hash |-> hash] \in approvedHashes  BY <1>2, <1>3
<1>6. Vouched(Zero, hash, Layout(s), slot, required)  BY <1>4, <1>5 DEF Vouched
<1>7. CurrentOwner(slot, hash) = s[i].signer
  <2>1. slot.v \notin {0, 1} => Digest(hash, slot.v) \in slot.over  BY <1>2, <1>3
  <2> QED  BY <1>2, <2>1 DEF CurrentOwner, ecrecover
<1> QED  BY <1>6, <1>7 DEF slot

LEMMA BuiltIsAccepted ==
  ASSUME IndInv, NEW signers \in SUBSET members, NEW hash, Cardinality(signers) >= quorum,
         NEW claims \in Collections(hash, signers)
  PROVE  checkSignatures(Zero, hash, buildSignatureBytes(claims))
<1> DEFINE s == SortedBySigner(claims)
           array == Layout(s)
<1>1. /\ IsFiniteSet(claims) /\ Cardinality(claims) = Cardinality(signers)
      /\ \A c \in claims : c.signer \in signers /\ c \in ConfirmationsBy(c.signer, hash)
      /\ \A c, d \in claims : c.signer = d.signer => c = d
  BY OneOfEach
<1>2. members \subseteq Nat \ {0} /\ quorum \in Nat \ {0}
  BY AccountAssumption DEF IndInv, AccountAssumption
<1>3. InSignerOrder(s, claims)  BY <1>1, <1>2, SortedSorts
<1> HIDE DEF s
<1>4. PICK n \in Nat : n = Cardinality(claims)  BY <1>1, FS_CardinalityType
<1>5. /\ s \in [1..n -> claims] /\ Len(s) = n /\ quorum <= n
      /\ \A i, j \in 1..n : s[i] = s[j] => i = j
      /\ \A i, j \in 1..n : i < j => s[i].signer <= s[j].signer
  <2>1. s \in [1..n -> claims]  BY <1>3, <1>4 DEF InSignerOrder
  <2> QED  BY <1>1, <1>3, <1>4, <2>1 DEF InSignerOrder, IsInjective
<1>6. ASSUME NEW i \in 1..quorum
      PROVE  /\ Vouched(Zero, hash, array, signatureSplit(array, i), quorum)
             /\ CurrentOwner(signatureSplit(array, i), hash) = s[i].signer
             /\ s[i].signer \in members
  <2>1. i \in 1..n /\ quorum \in 0..Len(s)  BY <1>2, <1>5
  <2>2. s[i] \in claims  BY <1>5, <2>1
  <2> QED  BY <1>1, <1>5, <2>1, <2>2, BuiltVouched
<1>7. ASSUME NEW i \in 2..quorum  PROVE s[i - 1].signer < s[i].signer
  <2>1. i \in 1..n /\ i - 1 \in 1..n /\ i - 1 < i /\ i - 1 # i  BY <1>2, <1>5
  <2>2. s[i - 1] # s[i] /\ s[i - 1].signer <= s[i].signer  BY <1>5, <2>1
  <2>3. s[i - 1] \in claims /\ s[i] \in claims  BY <1>5, <2>1
  <2>4. s[i - 1].signer # s[i].signer  BY <1>1, <2>2, <2>3
  <2>5. s[i - 1].signer \in Nat /\ s[i].signer \in Nat  BY <1>1, <1>2, <2>3
  <2> QED  BY <2>2, <2>4, <2>5
<1>8. Covers(array, quorum)
  <2>1. array.length >= n * SlotSize /\ array.length \in Int
    BY <1>5, Offsets, LayoutParts
  <2>2. n * SlotSize >= quorum * SlotSize /\ n * SlotSize \in Int /\ quorum * SlotSize \in Int
    <3>1. \A p, q \in Nat : p <= q => /\ q * SlotSize >= p * SlotSize
                                     /\ p * SlotSize \in Int /\ q * SlotSize \in Int
      BY SMT DEF SlotSize
    <3> QED  BY <1>2, <1>5, <3>1
  <2> QED  BY <2>1, <2>2 DEF Covers
<1> HIDE DEF array
<1> DEFINE owner(i) == IF i = 0 THEN Zero ELSE CurrentOwner(signatureSplit(array, i), hash)
<1>9. ASSUME NEW i \in 1..quorum  PROVE Ascends(owner(i), owner(i - 1)) /\ owner(i) \in members
  <2>1. owner(i) = s[i].signer /\ owner(i) \in members  BY <1>2, <1>6
  <2>2. CASE i = 1
    <3>1. owner(i - 1) = 0  BY <2>2 DEF Zero
    <3>2. owner(i) \in Nat \ {0}  BY <1>2, <2>1
    <3> HIDE DEF owner
    <3> QED  BY <2>1, <3>1, <3>2 DEF Ascends
  <2>3. CASE i # 1
    <3>1. i \in 2..quorum /\ i - 1 \in 1..quorum /\ i - 1 # 0  BY <1>2, <2>3
    <3>2. owner(i - 1) = s[i - 1].signer /\ owner(i - 1) \in members  BY <1>6, <3>1
    <3>3. owner(i - 1) < owner(i)  BY <1>7, <2>1, <3>1, <3>2
    <3>4. owner(i) \in Nat /\ owner(i - 1) \in Nat  BY <1>2, <2>1, <3>2
    <3> HIDE DEF owner
    <3> QED  BY <2>1, <3>3, <3>4 DEF Ascends
  <2> QED  BY <2>2, <2>3
<1>10. checkNSignatures(Zero, hash, array, quorum)
  BY <1>6, <1>8, <1>9 DEF checkNSignatures
<1> QED  BY <1>2, <1>10 DEF checkSignatures, buildSignatureBytes, array, s

LEMMA IndInvImpliesAccepted == IndInv => EnoughIsAccepted
BY BuiltIsAccepted DEF EnoughIsAccepted

\* Enough confirmations of the owners, of any kinds and by whomever relayed, laid out by
\* buildSignatureBytes, pass the check: EnoughIsAccepted, for every number of owners,
\* of dynamic parts and every threshold.
THEOREM EnoughIsAcceptedAlways == Spec => []EnoughIsAccepted
<1>1. Init => IndInv  BY InitIndInv
<1>2. IndInv /\ [Next]_vars => IndInv'  BY NextStep
<1> QED  BY <1>1, <1>2, IndInvImpliesAccepted, PTL DEF Spec
================================================================================
