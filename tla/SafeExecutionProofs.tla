-------------------------- MODULE SafeExecutionProofs ---------------------------
(***************************************************************************)
(* However calls nest, fail and revert, the Safe keeps the ledger of       *)
(* ExecutionLedger: SafeExecution implements it for every set of           *)
(* transactions, calls, modules and guards, and every depth of the stack.  *)
(* And only others that call the hooks of ReentrancyTransactionGuard make  *)
(* it admit a reentrant call or stay locked, every nonce is used once,     *)
(* what has a gas price is refunded once, the events report what happened, *)
(* and guards hear of what they checked, in order.                         *)
(***************************************************************************)
EXTENDS SafeExecution, SequenceTheorems, FiniteSetTheorems, WellFoundedInduction, TLAPS

FrameFields == {"kind", "id", "ops", "guard", "pc", "at", "ok", "entry", "before"}

IsSequence(s) == \E S : s \in Seq(S)

\* The transactions whose execution is in the events.
Done(w) == {e.id : e \in {e \in Entries(w) : IsExecution(e)}}

\* Those that have used their nonce and will be in the events unless they revert.
OpenOf(f) == IF f.kind = "exec" /\ f.pc # "after" THEN {f.id} ELSE {}
OpenUpTo(s, k) == UNION {OpenOf(s[i]) : i \in 1..k}

(* Storage that is an extension of the ledger in base, once the open       *)
(* transactions are in it.                                                 *)
Good(w, open, base) ==
  /\ DOMAIN w = StorageFields /\ w.nonce \in Nat /\ IsSequence(w.trace)
  /\ Done(w) \cup open \subseteq Signed
  /\ Ledger!OnePerNonce(Done(w) \cup open, 0, w.nonce)
  /\ base.nonce <= w.nonce /\ Done(base) \subseteq Done(w)

(* What a call restores when it reverts was right at its entry, for the    *)
(* calls below it, and before its execution also for itself.               *)
FrameGood(s, i, base) ==
  /\ DOMAIN s[i] = FrameFields /\ s[i].kind \in {"exec", "module"}
  /\ Good(s[i].entry, OpenUpTo(s, i - 1), base)
  /\ s[i].pc = "execute" => Good(s[i].before, OpenUpTo(s, i), base)

IndInv ==
  /\ IsSequence(stack)
  /\ Good(world, OpenUpTo(stack, Len(stack)), Committed)
  /\ \A i \in 1..Len(stack) : FrameGood(stack, i, Committed)

--------------------------------------------------------------------------------
(* Storage.                                                                *)
LEMMA AppendRange ==
  ASSUME NEW t, NEW e, IsSequence(t)
  PROVE  IsSequence(Append(t, e)) /\ Range(Append(t, e)) = Range(t) \cup {e}
<1>1. PICK S : t \in Seq(S)  BY DEF IsSequence
<1>2. t \in Seq(S \cup {e})  BY <1>1
<1>3. Append(t, e) \in Seq(S \cup {e})  BY <1>2
<1>4. /\ DOMAIN t = 1..Len(t) /\ Len(t) \in Nat
      /\ DOMAIN Append(t, e) = 1..(Len(t) + 1)
      /\ \A i \in 1..Len(t) : Append(t, e)[i] = t[i]
      /\ Append(t, e)[Len(t) + 1] = e
  BY <1>2
<1>5. ASSUME NEW x  PROVE  x \in Range(Append(t, e)) <=> x \in Range(t) \cup {e}
  <2> DEFINE u == Append(t, e)
  <2>1. /\ DOMAIN u = 1..(Len(t) + 1) /\ u[Len(t) + 1] = e
        /\ \A i \in 1..Len(t) : u[i] = t[i]
    BY <1>4
  <2> HIDE DEF u
  <2>2. x \in Range(u) <=> x \in Range(t) \cup {e}  BY <1>4, <2>1 DEF Range
  <2> QED  BY <2>2 DEF u
<1> QED  BY <1>3, <1>5 DEF IsSequence

LEMMA NoteDone ==
  ASSUME NEW w, NEW type, NEW id, NEW by,
         DOMAIN w = StorageFields, IsSequence(w.trace)
  PROVE  LET n == Note(w, type, id, by)
         IN /\ DOMAIN n = StorageFields /\ n.nonce = w.nonce /\ IsSequence(n.trace)
            /\ Done(n) = IF type \in {"ExecutionSuccess", "ExecutionFailure"}
                         THEN Done(w) \cup {id} ELSE Done(w)
<1> DEFINE n == Note(w, type, id, by)
           e == Entry(type, id, by)
<1>1. /\ DOMAIN n = StorageFields /\ n.nonce = w.nonce /\ n.trace = Append(w.trace, e)
  BY DEF Note, StorageFields
<1>2. IsSequence(n.trace) /\ Range(n.trace) = Range(w.trace) \cup {e}
  <2> HIDE DEF n, e
  <2> QED  BY <1>1, AppendRange
<1>3. e.id = id /\ e.type = type  BY DEF Entry
<1>4. Done(n) = IF type \in {"ExecutionSuccess", "ExecutionFailure"}
                THEN Done(w) \cup {id} ELSE Done(w)
  <2> HIDE DEF n, e
  <2> QED  BY <1>2, <1>3 DEF Done, Entries, IsExecution
<1> QED  BY <1>1, <1>2, <1>4

\* Other notes than an execution's event leave the ledger alone.
LEMMA NoteGood ==
  ASSUME NEW w, NEW open, NEW base, Good(w, open, base), NEW type, NEW id, NEW by,
         type \notin {"ExecutionSuccess", "ExecutionFailure"}
  PROVE  Good(Note(w, type, id, by), open, base)
<1> DEFINE n == Note(w, type, id, by)
<1>1. /\ DOMAIN n = StorageFields /\ n.nonce = w.nonce /\ IsSequence(n.trace)
      /\ Done(n) = Done(w)
  BY NoteDone DEF Good
<1> HIDE DEF n
<1>2. Good(n, open, base)  BY <1>1 DEF Good
<1> QED  BY <1>2 DEF n

\* The event of an execution closes it.
LEMMA EventGood ==
  ASSUME NEW w, NEW open, NEW base, NEW id, NEW by, NEW type,
         Good(w, open \cup {id}, base),
         type \in {"ExecutionSuccess", "ExecutionFailure"}
  PROVE  Good(Note(w, type, id, by), open, base)
<1> DEFINE n == Note(w, type, id, by)
<1>1. /\ DOMAIN n = StorageFields /\ n.nonce = w.nonce /\ IsSequence(n.trace)
      /\ Done(n) = Done(w) \cup {id}
  BY NoteDone DEF Good
<1> HIDE DEF n
<1>2. Done(n) \cup open = Done(w) \cup (open \cup {id})  BY <1>1
<1>3. Good(n, open, base)  BY <1>1, <1>2 DEF Good
<1> QED  BY <1>3 DEF n

\* Guards, modules and the guard's flag are no part of the ledger.
LEMMA SettingsGood ==
  ASSUME NEW w, NEW open, NEW base, Good(w, open, base), NEW v,
         DOMAIN v = StorageFields, v.nonce = w.nonce, v.trace = w.trace
  PROVE  Good(v, open, base)
<1>1. Done(v) = Done(w)  BY DEF Done, Entries
<1> QED  BY <1>1 DEF Good

\* nonce++ makes room for one more transaction.
LEMMA NonceGood ==
  ASSUME NEW w, NEW open, NEW base, Good(w, open, base), base.nonce \in Nat,
         NEW h \in Signed, h.nonce = w.nonce
  PROVE  Good([w EXCEPT !.nonce = @ + 1], open \cup {h}, base)
<1> DEFINE v == [w EXCEPT !.nonce = @ + 1]
<1>1. DOMAIN v = StorageFields /\ v.nonce = w.nonce + 1 /\ v.trace = w.trace
  BY DEF Good, StorageFields
<1> HIDE DEF v
<1>2. Done(v) = Done(w)  BY <1>1 DEF Done, Entries
<1> DEFINE H == Done(w) \cup open
<1>3. H \subseteq Signed /\ Ledger!OnePerNonce(H, 0, w.nonce) /\ w.nonce \in Nat
  BY DEF Good
<1>4. Done(v) \cup (open \cup {h}) = H \cup {h}  BY <1>2
<1> HIDE DEF H
<1>5. Ledger!OnePerNonce(H \cup {h}, 0, w.nonce + 1)
  BY <1>3 DEF Ledger!OnePerNonce
<1>6. base.nonce <= v.nonce /\ Done(base) \subseteq Done(v)
  BY <1>1, <1>2, <1>3 DEF Good
<1>7. Good(v, open \cup {h}, base)
  BY <1>1, <1>3, <1>4, <1>5, <1>6 DEF Good
<1> QED  BY <1>7 DEF v

\* A ledger extends itself, and the storage that extends it adds what is new.
LEMMA CommitNew ==
  ASSUME NEW w, NEW base, Good(w, {}, base), Good(base, {}, base)
  PROVE  /\ Done(w) = Done(base) \cup (Done(w) \ Done(base))
         /\ Done(w) \subseteq Signed /\ w.nonce \in Nat /\ w.nonce >= base.nonce
         /\ Ledger!OnePerNonce(Done(w) \ Done(base), base.nonce, w.nonce)
<1> DEFINE D == Done(w)
           B == Done(base)
<1>1. /\ w.nonce \in Nat /\ base.nonce \in Nat /\ base.nonce <= w.nonce
      /\ B \subseteq D /\ D \subseteq Signed
      /\ Ledger!OnePerNonce(D, 0, w.nonce) /\ Ledger!OnePerNonce(B, 0, base.nonce)
  BY DEF Good
<1> HIDE DEF D, B
<1>2. Ledger!OnePerNonce(D \ B, base.nonce, w.nonce)
  <2>1. ASSUME NEW h \in D \ B  PROVE h.nonce \in base.nonce..(w.nonce - 1)
    <3>1. h.nonce \in 0..(w.nonce - 1)  BY <1>1 DEF Ledger!OnePerNonce
    <3>2. ASSUME h.nonce < base.nonce  PROVE FALSE
      <4>1. h.nonce \in 0..(base.nonce - 1)  BY <1>1, <3>1, <3>2
      <4>2. PICK g \in B : g.nonce = h.nonce  BY <1>1, <4>1 DEF Ledger!OnePerNonce
      <4> QED  BY <1>1, <4>2 DEF Ledger!OnePerNonce
    <3> QED  BY <1>1, <3>1, <3>2
  <2>2. ASSUME NEW n \in base.nonce..(w.nonce - 1)  PROVE \E h \in D \ B : h.nonce = n
    <3>1. n \in 0..(w.nonce - 1)  BY <1>1
    <3>2. PICK h \in D : h.nonce = n  BY <1>1, <3>1 DEF Ledger!OnePerNonce
    <3>3. h \notin B
      <4>1. \A g \in B : g.nonce \in 0..(base.nonce - 1)  BY <1>1 DEF Ledger!OnePerNonce
      <4> QED  BY <1>1, <3>2, <4>1
    <3> QED  BY <3>2, <3>3
  <2> QED  BY <1>1, <2>1, <2>2 DEF Ledger!OnePerNonce
<1>3. D = B \cup (D \ B)  BY <1>1
<1> QED  BY <1>1, <1>2, <1>3 DEF D, B

--------------------------------------------------------------------------------
(* The stack.                                                              *)
LEMMA BelowIs ==
  ASSUME IsSequence(stack), stack # <<>>
  PROVE  /\ IsSequence(Below) /\ Len(stack) \in Nat \ {0} /\ Len(Below) = Len(stack) - 1
         /\ \A i \in 1..(Len(stack) - 1) : Below[i] = stack[i]
<1>1. PICK S : stack \in Seq(S)  BY DEF IsSequence
<1>2. Len(stack) \in Nat \ {0}  BY <1>1
<1> DEFINE k == Len(stack) - 1
<1>3. /\ k \in Int /\ k - 1 + 1 = k /\ (IF 1 <= k THEN k - 1 + 1 ELSE 0) = k
      /\ \A i \in 1..k : stack[i] \in S
      /\ \A i \in 1..k : 1 + i - 1 = i
  BY <1>1, <1>2
<1> HIDE DEF k
<1>4. /\ SubSeq(stack, 1, k) \in Seq(S) /\ Len(SubSeq(stack, 1, k)) = k
      /\ \A i \in 1..k : SubSeq(stack, 1, k)[i] = stack[i]
  <2>1. 1 \in Int  OBVIOUS
  <2>2. /\ SubSeq(stack, 1, k) \in Seq(S)
        /\ Len(SubSeq(stack, 1, k)) = IF 1 <= k THEN k - 1 + 1 ELSE 0
        /\ \A i \in 1..(k - 1 + 1) : SubSeq(stack, 1, k)[i] = stack[1 + i - 1]
    <3>1. \A i \in 1..k : stack[i] \in S  BY <1>3
    <3> QED  BY <1>3, <2>1, <3>1, SubSeqProperties
  <2> QED  BY <1>3, <2>2, Zenon
<1> QED  BY <1>2, <1>4 DEF IsSequence, Below, k

LEMMA AppendIs ==
  ASSUME NEW s, NEW f, IsSequence(s)
  PROVE  /\ IsSequence(Append(s, f)) /\ Len(s) \in Nat
         /\ Len(Append(s, f)) = Len(s) + 1
         /\ \A i \in 1..Len(s) : Append(s, f)[i] = s[i]
         /\ Append(s, f)[Len(s) + 1] = f
<1>1. PICK S : s \in Seq(S)  BY DEF IsSequence
<1>2. s \in Seq(S \cup {f})  BY <1>1
<1> QED  BY <1>2 DEF IsSequence

LEMMA SameOpen ==
  ASSUME NEW s, NEW t, NEW k, \A i \in 1..k : s[i] = t[i]
  PROVE  OpenUpTo(s, k) = OpenUpTo(t, k)
BY DEF OpenUpTo

LEMMA OneMoreOpen ==
  ASSUME NEW s, NEW k \in Nat
  PROVE  OpenUpTo(s, k + 1) = OpenUpTo(s, k) \cup OpenOf(s[k + 1])
<1>1. 1..(k + 1) = 1..k \cup {k + 1}  OBVIOUS
<1> QED  BY <1>1 DEF OpenUpTo

\* The frames of a stack stay good on any stack that begins with them.
LEMMA FramesStay ==
  ASSUME NEW s, NEW t, NEW k \in Nat, NEW base, \A i \in 1..k : s[i] = t[i],
         \A i \in 1..k : FrameGood(s, i, base)
  PROVE  \A i \in 1..k : FrameGood(t, i, base)
<1> SUFFICES ASSUME NEW i \in 1..k  PROVE FrameGood(t, i, base)  OBVIOUS
<1>1. OpenUpTo(s, i - 1) = OpenUpTo(t, i - 1) /\ OpenUpTo(s, i) = OpenUpTo(t, i)
  BY SameOpen
<1> QED  BY <1>1 DEF FrameGood

\* A new frame on top, with good storage under it.
LEMMA PushGood ==
  ASSUME NEW s, NEW k \in Nat, NEW f, NEW w, NEW base,
         IsSequence(s), Len(s) = k, \A i \in 1..k : FrameGood(s, i, base),
         DOMAIN f = FrameFields, f.kind \in {"exec", "module"},
         Good(w, OpenUpTo(s, k) \cup OpenOf(f), base),
         Good(f.entry, OpenUpTo(s, k), base),
         f.pc = "execute" => Good(f.before, OpenUpTo(s, k) \cup OpenOf(f), base)
  PROVE  LET t == Append(s, f)
         IN /\ IsSequence(t) /\ Len(t) = k + 1 /\ t[k + 1] = f
            /\ Good(w, OpenUpTo(t, k + 1), base)
            /\ \A i \in 1..(k + 1) : FrameGood(t, i, base)
<1> DEFINE t == Append(s, f)
<1>1. /\ IsSequence(t) /\ Len(t) = k + 1 /\ t[k + 1] = f /\ \A i \in 1..k : t[i] = s[i]
  BY AppendIs
<1> HIDE DEF t
<1>2. \A i \in 1..k : FrameGood(t, i, base)  BY <1>1, FramesStay
<1>3. OpenUpTo(t, k) = OpenUpTo(s, k)  BY <1>1, SameOpen
<1>4. OpenUpTo(t, k + 1) = OpenUpTo(s, k) \cup OpenOf(f)
  BY <1>1, <1>3, OneMoreOpen
<1>5. FrameGood(t, k + 1, base)
  <2>1. (k + 1) - 1 = k  OBVIOUS
  <2> QED  BY <1>1, <1>3, <1>4, <2>1 DEF FrameGood
<1>6. \A i \in 1..(k + 1) : FrameGood(t, i, base)
  <2>1. 1..(k + 1) = 1..k \cup {k + 1}  OBVIOUS
  <2> QED  BY <1>2, <1>5, <2>1
<1> QED  BY <1>1, <1>4, <1>6 DEF t

--------------------------------------------------------------------------------
(* A frame that may stand at the top, over storage w.                      *)
FitsTop(f, w, k) ==
  /\ DOMAIN f = FrameFields /\ f.kind \in {"exec", "module"}
  /\ Good(f.entry, OpenUpTo(stack, k), Committed)
  /\ Good(w, OpenUpTo(stack, k) \cup OpenOf(f), Committed)
  /\ f.pc = "execute" =>
       Good(f.before, OpenUpTo(stack, k) \cup OpenOf(f), Committed)

LedgerStep == [Ledger!Next]_(Ledger!vars)

LEMMA TopFits ==
  ASSUME IndInv, stack # <<>>
  PROVE  Len(stack) - 1 \in Nat /\ FitsTop(Top, world, Len(stack) - 1)
<1> DEFINE k == Len(stack) - 1
<1>1. k \in Nat /\ k + 1 = Len(stack) /\ k + 1 \in 1..Len(stack)
  BY BelowIs DEF IndInv
<1>2. FrameGood(stack, k + 1, Committed) /\ Top = stack[k + 1]  BY <1>1 DEF IndInv, Top
<1> HIDE DEF k
<1>3. OpenUpTo(stack, k + 1) = OpenUpTo(stack, k) \cup OpenOf(stack[k + 1])
  BY <1>1, OneMoreOpen
<1>4. (k + 1) - 1 = k  BY <1>1
<1>5. FitsTop(Top, world, k)
  BY <1>1, <1>2, <1>3, <1>4 DEF FitsTop, FrameGood, IndInv
<1> QED  BY <1>1, <1>5 DEF k

LEMMA UnchangedCommitted ==
  ASSUME Committed' = Committed
  PROVE  LedgerStep
BY DEF LedgerStep, Ledger!vars, Entries

LEMMA PushStep ==
  ASSUME IndInv, NEW f, NEW w, world' = w, stack' = Append(stack, f),
         f.entry = world, FitsTop(f, w, Len(stack))
  PROVE  IndInv' /\ LedgerStep
<1> DEFINE k == Len(stack)
<1>1. k \in Nat /\ IsSequence(stack)  BY AppendIs DEF IndInv
<1>2. Committed' = Committed
  <2>1. CASE stack = <<>>
    <3>1. stack' # <<>> /\ stack'[1] = f  BY <1>1, <2>1, AppendIs
    <3> QED  BY <2>1, <3>1 DEF Committed
  <2>2. CASE stack # <<>>
    <3>1. 1 \in 1..k  BY <1>1, <2>2, BelowIs
    <3>2. stack' # <<>> /\ stack'[1] = stack[1]  BY <1>1, <3>1, AppendIs
    <3> QED  BY <2>2, <3>2 DEF Committed
  <2> QED  BY <2>1, <2>2
<1>3. \A i \in 1..k : FrameGood(stack, i, Committed)  BY DEF IndInv
<1> HIDE DEF k
<1>4. /\ IsSequence(stack') /\ Len(stack') = k + 1
      /\ Good(w, OpenUpTo(stack', k + 1), Committed)
      /\ \A i \in 1..(k + 1) : FrameGood(stack', i, Committed)
  <2>1. Len(stack) = k /\ FitsTop(f, w, k)  BY DEF k
  <2> QED  BY <1>1, <1>3, <2>1, PushGood DEF FitsTop
<1>5. IndInv'  BY <1>2, <1>4 DEF IndInv
<1> QED  BY <1>2, <1>5, UnchangedCommitted

LEMMA ContinueStep ==
  ASSUME IndInv, stack # <<>>, NEW f, NEW w, Continue(f, w),
         f.entry = Top.entry, FitsTop(f, w, Len(stack) - 1)
  PROVE  IndInv' /\ LedgerStep
<1> DEFINE k == Len(stack) - 1
<1>1. /\ k \in Nat /\ Len(stack) = k + 1 /\ IsSequence(Below) /\ Len(Below) = k
      /\ \A i \in 1..k : Below[i] = stack[i]
  BY BelowIs DEF IndInv
<1>2. \A i \in 1..k : FrameGood(stack, i, Committed)  BY <1>1 DEF IndInv
<1>3. stack' = Append(Below, f) /\ world' = w  BY DEF Continue
<1>4. FitsTop(f, w, k) /\ Top = stack[k + 1]  BY <1>1 DEF Top
<1> HIDE DEF k
<1>5. \A i \in 1..k : FrameGood(Below, i, Committed)  BY <1>1, <1>2, FramesStay
<1>6. OpenUpTo(Below, k) = OpenUpTo(stack, k)  BY <1>1, SameOpen
<1>7. /\ IsSequence(stack') /\ Len(stack') = k + 1 /\ stack'[k + 1] = f
      /\ Good(w, OpenUpTo(stack', k + 1), Committed)
      /\ \A i \in 1..(k + 1) : FrameGood(stack', i, Committed)
  BY <1>1, <1>3, <1>4, <1>5, <1>6, PushGood DEF FitsTop
<1>8. Committed' = Committed
  <2>1. stack' # <<>>  BY <1>1, <1>7
  <2>2. stack'[1].entry = stack[1].entry
    <3>1. CASE k = 0  BY <1>4, <1>7, <3>1
    <3>2. CASE k # 0
      <4>1. 1 \in 1..k  BY <1>1, <3>2
      <4> QED  BY <1>1, <1>3, <4>1, AppendIs
    <3> QED  BY <3>1, <3>2
  <2> QED  BY <2>1, <2>2 DEF Committed
<1>9. IndInv'  BY <1>3, <1>7, <1>8 DEF IndInv
<1> QED  BY <1>8, <1>9, UnchangedCommitted

\* When the outermost call is over, its storage is committed at once.
LEMMA ReturnStep ==
  ASSUME IndInv, stack # <<>>, NEW w, Return(w),
         Good(w, OpenUpTo(stack, Len(stack) - 1), Committed)
  PROVE  IndInv' /\ LedgerStep
<1> DEFINE k == Len(stack) - 1
<1>1. /\ k \in Nat /\ Len(stack) = k + 1 /\ IsSequence(Below) /\ Len(Below) = k
      /\ \A i \in 1..k : Below[i] = stack[i]
  BY BelowIs DEF IndInv
<1>2. \A i \in 1..(k + 1) : FrameGood(stack, i, Committed)  BY <1>1 DEF IndInv
<1>3. stack' = Below /\ world' = w  BY DEF Return
<1>4. Good(w, OpenUpTo(stack, k), Committed)  OBVIOUS
<1> HIDE DEF k
<1>5. \A i \in 1..k : FrameGood(Below, i, Committed)  BY <1>1, <1>2, FramesStay
<1>6. OpenUpTo(Below, k) = OpenUpTo(stack, k)  BY <1>1, SameOpen
<1>7. CASE k = 0
  <2>1. Committed = stack[1].entry /\ OpenUpTo(stack, k) = {}
    BY <1>7 DEF Committed, OpenUpTo
  <2>2. Good(Committed, {}, Committed)
    <3>1. FrameGood(stack, 1, Committed) /\ 1 - 1 = k  BY <1>2, <1>7
    <3> QED  BY <2>1, <3>1 DEF FrameGood
  <2>3. stack' = <<>>
    <3>1. PICK S : Below \in Seq(S)  BY <1>1 DEF IsSequence
    <3> QED  BY <1>1, <1>3, <1>7, <3>1
  <2>4. Committed' = w  BY <1>3, <2>3 DEF Committed
  <2>5. Good(w, {}, w)  BY <1>4, <2>1 DEF Good
  <2>6. IndInv'
    <3>1. Len(stack') = 0 /\ 1..0 = {} /\ IsSequence(stack')  BY <1>1, <1>3, <1>7
    <3>2. OpenUpTo(stack', Len(stack')) = {}  BY <1>3, <1>6, <1>7, <2>1, <3>1
    <3>3. Good(world', OpenUpTo(stack', Len(stack')), Committed')
      BY <1>3, <2>4, <2>5, <3>2
    <3> QED  BY <3>1, <3>3 DEF IndInv
  <2>7. LedgerStep
    <3> DEFINE ledger == {e.id : e \in {e \in Entries(Committed) : IsExecution(e)}}
               new == Done(w) \ Done(Committed)
    <3>1. /\ Done(w) = Done(Committed) \cup new
          /\ new \subseteq Signed /\ w.nonce \in Nat /\ w.nonce >= Committed.nonce
          /\ Ledger!OnePerNonce(new, Committed.nonce, w.nonce)
      BY <1>4, <2>1, <2>2, CommitNew
    <3>2. ledger = Done(Committed)  BY DEF Done
    <3>3. ledger' = Done(w)
      <4>1. ledger' = Done(Committed')  BY DEF Done, Entries, IsExecution
      <4> QED  BY <2>4, <4>1
    <3>4. new = ledger' \ ledger /\ ledger' = ledger \cup new  BY <3>1, <3>2, <3>3
    <3>5. Committed'.nonce = w.nonce  BY <2>4
    <3> HIDE DEF new
    <3>6. Ledger!Next
      <4>1. /\ ledger' \ ledger \subseteq Signed
            /\ Ledger!OnePerNonce(ledger' \ ledger, Committed.nonce, Committed'.nonce)
        BY <3>1, <3>4, <3>5
      <4>2. ledger' = ledger \cup (ledger' \ ledger)  BY <3>4
      <4> QED  BY <3>1, <3>5, <4>1, <4>2 DEF Ledger!Next, Ledger!Commit
    <3> QED  BY <3>6 DEF LedgerStep
  <2> QED  BY <2>6, <2>7
<1>8. CASE k # 0
  <2>1. 1 \in 1..k  BY <1>1, <1>8
  <2>2. stack' # <<>> /\ stack'[1] = stack[1]  BY <1>1, <1>3, <2>1
  <2>3. Committed' = Committed  BY <2>2 DEF Committed
  <2>4. IndInv'  BY <1>1, <1>3, <1>4, <1>5, <1>6, <2>3 DEF IndInv
  <2> QED  BY <2>3, <2>4, UnchangedCommitted
<1> QED  BY <1>7, <1>8

--------------------------------------------------------------------------------
(* The actions.                                                            *)
LEMMA GuardFieldsOnly ==
  ASSUME NEW w, NEW f, DOMAIN w = StorageFields, IsSequence(w.trace)
  PROVE  LET c == Note(w, "check", f.id, f.guard)
             a == Note(w, "after", f.id, f.guard)
         IN /\ DOMAIN Checked(f, w) = StorageFields
            /\ Checked(f, w).nonce = c.nonce /\ Checked(f, w).trace = c.trace
            /\ DOMAIN AfterChecked(f, w) = StorageFields
            /\ AfterChecked(f, w).nonce = a.nonce /\ AfterChecked(f, w).trace = a.trace
BY NoteDone DEF Checked, AfterChecked, StorageFields

LEMMA GuardCallsGood ==
  ASSUME NEW w, NEW open, NEW base, Good(w, open, base), NEW f
  PROVE  Good(Checked(f, w), open, base) /\ Good(AfterChecked(f, w), open, base)
<1>1. DOMAIN w = StorageFields /\ IsSequence(w.trace)  BY DEF Good
<1>2. Good(Note(w, "check", f.id, f.guard), open, base)  BY NoteGood
<1>3. Good(Note(w, "after", f.id, f.guard), open, base)  BY NoteGood
<1> QED  BY <1>1, <1>2, <1>3, GuardFieldsOnly, SettingsGood

LEMMA EnterStep ==
  ASSUME IndInv, NEW f, NEW w, Enter(f, w), f.pc = "check", f.entry = world,
         DOMAIN f = FrameFields, f.kind \in {"exec", "module"},
         Good(w, OpenUpTo(stack, Len(stack)) \cup OpenOf(f), Committed)
  PROVE  IndInv' /\ LedgerStep
<1> DEFINE g == [f EXCEPT !.pc = "execute", !.before = w]
<1>1. /\ g.pc = "execute" /\ g.before = w /\ g.entry = world /\ DOMAIN g = FrameFields
      /\ g.kind = f.kind /\ g.id = f.id
  BY DEF FrameFields
<1>2. Good(world, OpenUpTo(stack, Len(stack)), Committed)  BY DEF IndInv
<1>3. CASE f.guard = NoGuard
  <2>1. world' = w /\ stack' = Append(stack, g)  BY <1>3 DEF Enter
  <2> HIDE DEF g
  <2>2. OpenOf(g) = OpenOf(f)  BY <1>1 DEF OpenOf
  <2>3. FitsTop(g, w, Len(stack))  BY <1>1, <1>2, <2>2 DEF FitsTop
  <2> QED  BY <1>1, <2>1, <2>3, PushStep
<1>4. CASE f.guard # NoGuard
  <2>1. world' = Checked(f, w) /\ stack' = Append(stack, f)  BY <1>4 DEF Enter
  <2>2. FitsTop(f, Checked(f, w), Len(stack))
    BY <1>2, GuardCallsGood DEF FitsTop
  <2> QED  BY <2>1, <2>2, PushStep
<1> QED  BY <1>3, <1>4

LEMMA ExecTransactionStep ==
  ASSUME IndInv, NEW tx \in Tx, execTransaction(tx)
  PROVE  IndInv' /\ LedgerStep
<1> DEFINE h == TransactionHash(tx)
           f == Frame("exec", h, Ops[tx], world.guard)
           w == [world EXCEPT !.nonce = @ + 1]
<1>1. h \in Signed /\ h.nonce = world.nonce /\ Enter(f, w)
  BY DEF execTransaction, TransactionHash
<1>2. /\ f.pc = "check" /\ f.entry = world /\ DOMAIN f = FrameFields
      /\ f.kind = "exec" /\ f.id = h
  BY DEF Frame, FrameFields
<1> HIDE DEF h, f
<1>3. Good(world, OpenUpTo(stack, Len(stack)), Committed)  BY DEF IndInv
<1>4. Committed.nonce \in Nat
  <2>1. CASE stack = <<>>  BY <1>3, <2>1 DEF Committed, Good
  <2>2. CASE stack # <<>>
    <3>1. 1 \in 1..Len(stack)  BY <2>2, BelowIs DEF IndInv
    <3>2. FrameGood(stack, 1, Committed)  BY <3>1 DEF IndInv
    <3> QED  BY <2>2, <3>2 DEF FrameGood, Good, Committed
  <2> QED  BY <2>1, <2>2
<1>5. Good(w, OpenUpTo(stack, Len(stack)) \cup {h}, Committed)
  BY <1>1, <1>3, <1>4, NonceGood
<1> HIDE DEF w
<1>6. OpenOf(f) = {h}  BY <1>2 DEF OpenOf
<1> QED  BY <1>1, <1>2, <1>5, <1>6, EnterStep

LEMMA ModuleTransactionStep ==
  ASSUME IndInv, NEW m, NEW ops, execTransactionFromModule(m, ops)
  PROVE  IndInv' /\ LedgerStep
<1> DEFINE f == Frame("module", ModuleTxHash(m, ops), ops, world.moduleGuard)
<1>1. Enter(f, world)  BY DEF execTransactionFromModule
<1>2. f.pc = "check" /\ f.entry = world /\ DOMAIN f = FrameFields /\ f.kind = "module"
  BY DEF Frame, FrameFields
<1> HIDE DEF f
<1>3. OpenOf(f) = {}  BY <1>2 DEF OpenOf
<1>4. Good(world, OpenUpTo(stack, Len(stack)), Committed)  BY DEF IndInv
<1> QED  BY <1>1, <1>2, <1>3, <1>4, EnterStep

LEMMA GuardApprovesStep ==
  ASSUME IndInv, GuardApproves
  PROVE  IndInv' /\ LedgerStep
<1> DEFINE f == [Top EXCEPT !.pc = "execute", !.before = world]
<1>1. stack # <<>> /\ Top.pc = "check" /\ Continue(f, world)  BY DEF GuardApproves
<1>2. FitsTop(Top, world, Len(stack) - 1)  BY <1>1, TopFits
<1>3. /\ DOMAIN f = FrameFields /\ f.kind = Top.kind /\ f.id = Top.id
      /\ f.entry = Top.entry /\ f.before = world /\ f.pc = "execute"
  BY <1>2 DEF FitsTop, FrameFields
<1> HIDE DEF f
<1>4. OpenOf(f) = OpenOf(Top)  BY <1>1, <1>3 DEF OpenOf
<1>5. FitsTop(f, world, Len(stack) - 1)  BY <1>2, <1>3, <1>4 DEF FitsTop
<1> QED  BY <1>1, <1>3, <1>5, ContinueStep

LEMMA CallReturnsStep ==
  ASSUME IndInv, CallReturns
  PROVE  IndInv' /\ LedgerStep
<1> DEFINE f == [Top EXCEPT !.at = @ + 1]
           v == Apply(Top.ops[Top.at], world)
           w == Note(v, "effect", Top.id, NoGuard)
<1>1. stack # <<>> /\ Top.pc = "execute" /\ Continue(f, w)  BY DEF CallReturns
<1>2. FitsTop(Top, world, Len(stack) - 1)  BY <1>1, TopFits
<1>3. /\ DOMAIN f = FrameFields /\ f.kind = Top.kind /\ f.id = Top.id
      /\ f.entry = Top.entry /\ f.before = Top.before /\ f.pc = Top.pc
  BY <1>2 DEF FitsTop, FrameFields
<1> DEFINE open == OpenUpTo(stack, Len(stack) - 1) \cup OpenOf(Top)
<1>4. Good(world, open, Committed)  BY <1>2 DEF FitsTop
<1>5. DOMAIN v = StorageFields /\ v.nonce = world.nonce /\ v.trace = world.trace
  BY <1>4 DEF Apply, Good, StorageFields
<1> HIDE DEF f, v
<1>6. Good(w, open, Committed)  BY <1>4, <1>5, SettingsGood, NoteGood
<1> HIDE DEF w
<1>7. OpenOf(f) = OpenOf(Top)  BY <1>3 DEF OpenOf
<1>8. FitsTop(f, w, Len(stack) - 1)  BY <1>2, <1>3, <1>6, <1>7 DEF FitsTop
<1> QED  BY <1>1, <1>3, <1>8, ContinueStep

\* The event moves the transaction from the open ones to those that are done.
LEMMA EmitStep ==
  ASSUME IndInv, stack # <<>>, NEW f, NEW w, Emit(f, w), f.entry = Top.entry,
         f.pc # "after", FitsTop(f, w, Len(stack) - 1)
  PROVE  IndInv' /\ LedgerStep
<1> DEFINE below == OpenUpTo(stack, Len(stack) - 1)
           logged == Note(w, EventOf(f), f.id, NoGuard)
           g == [f EXCEPT !.pc = "after"]
<1>1. Good(logged, below, Committed)
  <2>1. CASE f.kind = "exec"
    <3>1. EventOf(f) \in {"ExecutionSuccess", "ExecutionFailure"}
      <4>1. CASE f.ok  BY <2>1, <4>1 DEF EventOf
      <4>2. CASE ~f.ok  BY <2>1, <4>2 DEF EventOf
      <4> QED  BY <4>1, <4>2
    <3>2. Good(w, below \cup {f.id}, Committed)  BY <2>1 DEF FitsTop, OpenOf
    <3> HIDE DEF below
    <3> QED  BY <3>1, <3>2, EventGood
  <2>2. CASE f.kind = "module"
    <3>1. EventOf(f) \notin {"ExecutionSuccess", "ExecutionFailure"}
      <4>1. CASE f.ok  BY <2>2, <4>1 DEF EventOf
      <4>2. CASE ~f.ok  BY <2>2, <4>2 DEF EventOf
      <4> QED  BY <4>1, <4>2
    <3>2. Good(w, below, Committed)  BY <2>2 DEF FitsTop, OpenOf
    <3> HIDE DEF below
    <3> QED  BY <3>1, <3>2, NoteGood
  <2> QED  BY <2>1, <2>2 DEF FitsTop
<1>2. /\ DOMAIN g = FrameFields /\ g.kind = f.kind /\ g.entry = f.entry /\ g.pc = "after"
  BY DEF FitsTop, FrameFields
<1>3. \/ Return(logged)
      \/ Continue(g, logged)
  BY DEF Emit
<1> HIDE DEF logged, g
<1>4. CASE Return(logged)  BY <1>1, <1>4, ReturnStep
<1>5. CASE Continue(g, logged)
  <2>1. OpenOf(g) = {}  BY <1>2 DEF OpenOf
  <2>2. FitsTop(g, logged, Len(stack) - 1)  BY <1>1, <1>2, <2>1 DEF FitsTop
  <2> QED  BY <1>2, <1>5, <2>2, ContinueStep
<1> QED  BY <1>3, <1>4, <1>5

LEMMA AfterExecutionStep ==
  ASSUME IndInv, stack # <<>>, Top.pc = "execute", NEW ok \in BOOLEAN, NEW w,
         AfterExecution([Top EXCEPT !.ok = ok], w),
         Good(w, OpenUpTo(stack, Len(stack) - 1) \cup OpenOf(Top), Committed)
  PROVE  IndInv' /\ LedgerStep
<1> DEFINE f == [Top EXCEPT !.ok = ok]
           r == [f EXCEPT !.pc = "refund"]
           a == [f EXCEPT !.pc = "after"]
<1>1. FitsTop(Top, world, Len(stack) - 1)  BY TopFits
<1>2. /\ DOMAIN f = FrameFields /\ f.kind = Top.kind /\ f.id = Top.id
      /\ f.entry = Top.entry /\ f.before = Top.before /\ f.pc = "execute"
  BY <1>1 DEF FitsTop, FrameFields
<1>3. /\ DOMAIN r = FrameFields /\ r.kind = Top.kind /\ r.id = Top.id
      /\ r.entry = Top.entry /\ r.pc = "refund"
      /\ DOMAIN a = FrameFields /\ a.kind = Top.kind /\ a.id = Top.id
      /\ a.entry = Top.entry /\ a.pc = "after"
  BY <1>2 DEF FrameFields
<1>4. \/ Emit(f, w)
      \/ f.kind = "exec" /\ Continue(r, w)
      \/ f.kind = "module" /\ Continue(a, w)
  <2>1. f.kind \in {"exec", "module"}  BY <1>1, <1>2 DEF FitsTop
  <2>2. AfterExecution(f, w)  OBVIOUS
  <2> HIDE DEF f
  <2>3. CASE f.kind = "exec"
    <3>1. CASE gasPrice[f.id.tx] > 0  BY <2>2, <2>3, <3>1 DEF AfterExecution
    <3>2. CASE ~(gasPrice[f.id.tx] > 0)
      BY <2>2, <2>3, <3>2 DEF AfterExecution
    <3> QED  BY <3>1, <3>2
  <2>4. CASE f.kind = "module"
    <3>1. CASE f.guard = NoGuard  BY <2>2, <2>4, <3>1 DEF AfterExecution
    <3>2. CASE f.guard # NoGuard  BY <2>2, <2>4, <3>2 DEF AfterExecution
    <3> QED  BY <3>1, <3>2
  <2> QED  BY <2>1, <2>3, <2>4
<1> HIDE DEF f, r, a
<1>5. CASE Emit(f, w)
  <2>1. OpenOf(f) = OpenOf(Top)  BY <1>2 DEF OpenOf
  <2>2. FitsTop(f, w, Len(stack) - 1)  BY <1>1, <1>2, <2>1 DEF FitsTop
  <2> QED  BY <1>2, <1>5, <2>2, EmitStep
<1>6. CASE f.kind = "exec" /\ Continue(r, w)
  <2>1. OpenOf(r) = OpenOf(Top)  BY <1>3 DEF OpenOf
  <2>2. FitsTop(r, w, Len(stack) - 1)  BY <1>1, <1>3, <2>1 DEF FitsTop
  <2> QED  BY <1>3, <1>6, <2>2, ContinueStep
<1>7. CASE f.kind = "module" /\ Continue(a, w)
  <2>1. OpenOf(a) = {} /\ OpenOf(Top) = {}  BY <1>2, <1>3, <1>7 DEF OpenOf
  <2>2. FitsTop(a, w, Len(stack) - 1)  BY <1>1, <1>3, <2>1 DEF FitsTop
  <2> QED  BY <1>3, <1>7, <2>2, ContinueStep
<1> QED  BY <1>4, <1>5, <1>6, <1>7

LEMMA ExecutionStep ==
  ASSUME IndInv, ExecutionSucceeds \/ ExecutionFails
  PROVE  IndInv' /\ LedgerStep
<1>1. stack # <<>> /\ Top.pc = "execute"  BY DEF ExecutionSucceeds, ExecutionFails
<1>2. FitsTop(Top, world, Len(stack) - 1)  BY <1>1, TopFits
<1>3. CASE ExecutionSucceeds
  <2>1. AfterExecution([Top EXCEPT !.ok = TRUE], world)  BY <1>3 DEF ExecutionSucceeds
  <2>2. Good(world, OpenUpTo(stack, Len(stack) - 1) \cup OpenOf(Top), Committed)
    BY <1>2 DEF FitsTop
  <2> QED  BY <1>1, <2>1, <2>2, AfterExecutionStep
<1>4. CASE ExecutionFails
  <2>1. AfterExecution([Top EXCEPT !.ok = FALSE], Top.before)  BY <1>4 DEF ExecutionFails
  <2>2. Good(Top.before, OpenUpTo(stack, Len(stack) - 1) \cup OpenOf(Top), Committed)
    BY <1>1, <1>2 DEF FitsTop
  <2> QED  BY <1>1, <2>1, <2>2, AfterExecutionStep
<1> QED  BY <1>3, <1>4

LEMMA RefundStep ==
  ASSUME IndInv, RefundPaid
  PROVE  IndInv' /\ LedgerStep
<1> DEFINE w == Note(world, "refund", Top.id, NoGuard)
<1>1. stack # <<>> /\ Top.pc = "refund" /\ Emit(Top, w)  BY DEF RefundPaid
<1>2. FitsTop(Top, world, Len(stack) - 1)  BY <1>1, TopFits
<1>3. Good(w, OpenUpTo(stack, Len(stack) - 1) \cup OpenOf(Top), Committed)
  BY <1>2, NoteGood DEF FitsTop
<1> HIDE DEF w
<1>4. FitsTop(Top, w, Len(stack) - 1)  BY <1>1, <1>2, <1>3 DEF FitsTop
<1> QED  BY <1>1, <1>4, EmitStep

LEMMA GuardAcceptsStep ==
  ASSUME IndInv, GuardAccepts
  PROVE  IndInv' /\ LedgerStep
<1> DEFINE w == AfterChecked(Top, world)
           below == OpenUpTo(stack, Len(stack) - 1)
<1>1. stack # <<>> /\ Top.pc = "after"  BY DEF GuardAccepts
<1>2. FitsTop(Top, world, Len(stack) - 1)  BY <1>1, TopFits
<1>3. OpenOf(Top) = {}  BY <1>1 DEF OpenOf
<1>4. Good(world, below, Committed)  BY <1>2, <1>3 DEF FitsTop
<1>5. Good(w, below, Committed)  BY <1>4, GuardCallsGood
<1>6. CASE Top.kind = "exec"
  <2>1. Return(w)  BY <1>6 DEF GuardAccepts
  <2> QED  BY <1>1, <1>5, <2>1, ReturnStep
<1>7. CASE Top.kind = "module"
  <2> DEFINE n == Note(w, EventOf(Top), Top.id, NoGuard)
  <2>1. Return(n)  BY <1>7 DEF GuardAccepts
  <2>2. EventOf(Top) \notin {"ExecutionSuccess", "ExecutionFailure"}
    <3>1. CASE Top.ok  BY <1>7, <3>1 DEF EventOf
    <3>2. CASE ~Top.ok  BY <1>7, <3>2 DEF EventOf
    <3> QED  BY <3>1, <3>2
  <2>3. Good(n, below, Committed)
    <3> HIDE DEF w, below
    <3> QED  BY <1>5, <2>2, NoteGood
  <2> HIDE DEF n
  <2> QED  BY <1>1, <2>1, <2>3, ReturnStep
<1> QED  BY <1>2, <1>6, <1>7 DEF FitsTop

\* What others do to the reentrancy guard changes nothing else.
LEMMA StrangerKeeps ==
  ASSUME DOMAIN world = StorageFields, strangerChecks \/ strangerAfterChecks
  PROVE  /\ stack' = stack /\ DOMAIN world' = StorageFields
         /\ world'.nonce = world.nonce /\ world'.trace = world.trace
<1>1. StrangerCalls("check", TRUE) \/ StrangerCalls("after", FALSE)
  BY DEF strangerChecks, strangerAfterChecks
<1> QED  BY <1>1 DEF StrangerCalls, StorageFields

LEMMA StrangerStep ==
  ASSUME IndInv, strangerChecks \/ strangerAfterChecks
  PROVE  IndInv' /\ LedgerStep
<1>1. Good(world, OpenUpTo(stack, Len(stack)), Committed)  BY DEF IndInv
<1>2. /\ stack' = stack /\ DOMAIN world' = StorageFields
      /\ world'.nonce = world.nonce /\ world'.trace = world.trace
  BY <1>1, StrangerKeeps DEF Good
<1>3. Good(world', OpenUpTo(stack, Len(stack)), Committed)
  BY <1>1, <1>2, SettingsGood
<1>4. CASE stack = <<>>
  <2>1. Committed = world /\ Committed' = world'  BY <1>2, <1>4 DEF Committed
  <2>2. Done(Committed') = Done(Committed) /\ Committed'.nonce = Committed.nonce
    BY <1>2, <2>1 DEF Done, Entries
  <2>3. Good(world', OpenUpTo(stack, Len(stack)), Committed')
    BY <1>3, <2>2 DEF Good
  <2>4. IndInv'
    <3>1. Len(stack) = 0 /\ 1..0 = {}  BY <1>4
    <3> QED  BY <1>2, <2>3, <3>1 DEF IndInv
  <2>5. LedgerStep
    BY <2>2 DEF LedgerStep, Ledger!vars, Done, Entries, IsExecution
  <2> QED  BY <2>4, <2>5
<1>5. CASE stack # <<>>
  <2>1. Committed' = Committed  BY <1>2, <1>5 DEF Committed
  <2>2. IndInv'  BY <1>2, <1>3, <2>1 DEF IndInv
  <2> QED  BY <2>1, <2>2, UnchangedCommitted
<1> QED  BY <1>4, <1>5

LEMMA RevertsStep ==
  ASSUME IndInv, Reverts
  PROVE  IndInv' /\ LedgerStep
<1>1. stack # <<>> /\ Return(Top.entry)  BY DEF Reverts
<1>2. Good(Top.entry, OpenUpTo(stack, Len(stack) - 1), Committed)
  BY <1>1, TopFits DEF FitsTop
<1> QED  BY <1>1, <1>2, ReturnStep

--------------------------------------------------------------------------------
LEMMA NextStep ==
  IndInv /\ [Next]_vars => IndInv' /\ [Ledger!Next]_(Ledger!vars)
<1> SUFFICES ASSUME IndInv, [Next]_vars  PROVE IndInv' /\ LedgerStep
  BY DEF LedgerStep
<1>1. CASE Next
  BY <1>1, ExecTransactionStep, ModuleTransactionStep, GuardApprovesStep,
     CallReturnsStep, ExecutionStep, RefundStep, GuardAcceptsStep, RevertsStep,
     StrangerStep
  DEF Next
<1>2. CASE UNCHANGED vars
  <2>1. world' = world /\ stack' = stack  BY <1>2 DEF vars
  <2>2. Committed' = Committed  BY <2>1 DEF Committed
  <2> QED  BY <2>1, <2>2, UnchangedCommitted DEF IndInv
<1> QED  BY <1>1, <1>2

LEMMA InitIndInv == Init => IndInv /\ Ledger!Init
<1> SUFFICES ASSUME Init  PROVE IndInv /\ Ledger!Init  OBVIOUS
<1>1. /\ DOMAIN world = StorageFields /\ world.nonce = 0 /\ world.trace = <<>>
      /\ stack = <<>> /\ Committed = world
  BY InitialAssumption DEF Init, Committed
<1>2. Done(world) = {}  BY <1>1 DEF Done, Entries, Range
<1>3. OpenUpTo(stack, Len(stack)) = {} /\ Len(stack) = 0  BY <1>1 DEF OpenUpTo
<1>4. IsSequence(<<>>)
  <2>1. <<>> \in Seq({})  OBVIOUS
  <2> QED  BY <2>1 DEF IsSequence
<1>5. Good(world, {}, world)  BY <1>1, <1>2, <1>4 DEF Good, Ledger!OnePerNonce
<1>6. IndInv
  <2>1. 1..Len(stack) = {} /\ IsSequence(stack)  BY <1>1, <1>3, <1>4
  <2> QED  BY <1>1, <1>3, <1>5, <2>1 DEF IndInv
<1> QED  BY <1>1, <1>2, <1>6 DEF Ledger!Init, Done, IsExecution

\* The Safe keeps its ledger: one confirmed transaction per nonce, without gaps and
\* never rewritten, whatever the calls of a transaction, the guards, the modules and
\* the refund's receiver call, however deep, and wherever they revert
\* (Safe.sol:111-191, ModuleManager.sol:69-188).
THEOREM Implementation == Spec => KeepsLedger
<1>1. Init => IndInv /\ Ledger!Init  BY InitIndInv
<1>2. IndInv /\ [Next]_vars => IndInv' /\ [Ledger!Next]_(Ledger!vars)  BY NextStep
<1> QED  BY <1>1, <1>2, PTL DEF Spec, KeepsLedger, Ledger!Spec

--------------------------------------------------------------------------------
(* ReentrancyTransactionGuard's flag, in the storage now and in each that  *)
(* may be restored, over the lowest k calls of a stack: while it is clear, *)
(* a stranger has cleared it since each of the guarded calls began, and    *)
(* while it is set, one of them holds it or a stranger has set it last.    *)
(* What strangers did is only ever added to, as long as nothing reverts.   *)
Guarded(f) == f.guard = ReentrancyGuard
Held(s, k) == \E i \in 1..k : Guarded(s[i])
SetByStranger(w) == w.strangers # <<>> /\ Last(w.strangers) = "check"

Follows(v, w) ==
  /\ IsSequence(v.strangers) /\ Len(v.strangers) <= Len(w.strangers)
  /\ \A p \in 1..Len(v.strangers) : w.strangers[p] = v.strangers[p]

ClearedSinceEach(w, s, k) ==
  \A i \in 1..k : Guarded(s[i]) => Cleared(s[i].entry, w)

FlagFits(w, s, k) ==
  /\ DOMAIN w = StorageFields /\ w.busy \in BOOLEAN /\ IsSequence(w.strangers)
  /\ \A i \in 1..k : Follows(s[i].entry, w)
  /\ ~w.busy => ClearedSinceEach(w, s, k)
  /\ w.busy => Held(s, k) \/ SetByStranger(w)

FlagFrame(s, i) ==
  /\ DOMAIN s[i] = FrameFields
  /\ FlagFits(s[i].entry, s, i - 1)
  /\ s[i].pc = "execute" => FlagFits(s[i].before, s, i)
  /\ Guarded(s[i]) => ClearedSinceEach(s[i].entry, s, i - 1)

FlagInv ==
  /\ IsSequence(stack)
  /\ FlagFits(world, stack, Len(stack))
  /\ \A i \in 1..Len(stack) : FlagFrame(stack, i)

LEMMA SequenceLength == ASSUME NEW s, IsSequence(s) PROVE Len(s) \in Nat
BY DEF IsSequence

\* What was cleared in between stays cleared.
LEMMA ClearedStays ==
  ASSUME NEW u, NEW v, NEW w, Follows(u, v), Follows(v, w), IsSequence(w.strangers)
  PROVE  Follows(u, w) /\ (Cleared(u, v) => Cleared(u, w))
<1> DEFINE a == Len(u.strangers)
           b == Len(v.strangers)
           c == Len(w.strangers)
<1>1. a \in Nat /\ b \in Nat /\ c \in Nat /\ a <= b /\ b <= c
  BY SequenceLength DEF Follows
<1>2. \A p \in 1..b : w.strangers[p] = v.strangers[p]  BY DEF Follows
<1>3. \A p \in 1..a : v.strangers[p] = u.strangers[p]  BY DEF Follows
<1> HIDE DEF a, b, c
<1>4. 1..a \subseteq 1..b /\ (a + 1)..b \subseteq 1..b /\ (a + 1)..b \subseteq (a + 1)..c
  BY <1>1
<1>5. Follows(u, w)
  <2>1. \A p \in 1..a : w.strangers[p] = u.strangers[p]  BY <1>2, <1>3, <1>4
  <2>2. a <= c  BY <1>1
  <2> QED  BY <2>1, <2>2 DEF Follows, a, c
<1>6. ASSUME Cleared(u, v)  PROVE Cleared(u, w)
  <2>1. PICK p \in (a + 1)..b : v.strangers[p] = "after"  BY <1>6 DEF Cleared, a, b
  <2>2. p \in (a + 1)..c /\ w.strangers[p] = "after"  BY <1>2, <1>4, <2>1
  <2> QED  BY <2>2 DEF Cleared, a, c
<1> QED  BY <1>5, <1>6

LEMMA FollowsItself ==
  ASSUME NEW v, NEW w, IsSequence(v.strangers), w.strangers = v.strangers
  PROVE  Follows(v, w)
<1>1. Len(v.strangers) \in Nat  BY SequenceLength
<1> QED  BY <1>1 DEF Follows

\* A stranger's call is one more.
LEMMA StrangerFollows ==
  ASSUME NEW v, NEW w, NEW hook, IsSequence(v.strangers),
         w.strangers = Append(v.strangers, hook)
  PROVE  /\ IsSequence(w.strangers) /\ Follows(v, w) /\ w.strangers # <<>>
         /\ Last(w.strangers) = hook
         /\ \A u : Follows(u, v) => Follows(u, w) /\ (hook = "after" => Cleared(u, w))
<1> DEFINE k == Len(v.strangers)
<1>1. /\ IsSequence(w.strangers) /\ k \in Nat /\ Len(w.strangers) = k + 1
      /\ \A p \in 1..k : w.strangers[p] = v.strangers[p]
      /\ w.strangers[k + 1] = hook
  BY AppendIs
<1> HIDE DEF k
<1>2. Follows(v, w)  BY <1>1 DEF Follows, k
<1>3. w.strangers # <<>> /\ Last(w.strangers) = hook
  <2>1. Len(<<>>) = 0  OBVIOUS
  <2> QED  BY <1>1, <2>1 DEF Last
<1>4. ASSUME NEW u, Follows(u, v)  PROVE Follows(u, w) /\ (hook = "after" => Cleared(u, w))
  <2>1. Follows(u, w)  BY <1>1, <1>2, <1>4, ClearedStays
  <2>2. Len(u.strangers) \in Nat /\ Len(u.strangers) <= k
    BY <1>4, SequenceLength DEF Follows, k
  <2>3. k + 1 \in (Len(u.strangers) + 1)..(k + 1)  BY <1>1, <2>2
  <2>4. ASSUME hook = "after"  PROVE Cleared(u, w)
    BY <1>1, <2>3, <2>4 DEF Cleared
  <2> QED  BY <2>1, <2>4
<1> QED  BY <1>1, <1>2, <1>3, <1>4

\* The flag of storage fits, as far as two stacks have the same guards and entries.
LEMMA SameFlag ==
  ASSUME NEW s, NEW t, NEW k,
         \A i \in 1..k : t[i].guard = s[i].guard /\ t[i].entry = s[i].entry,
         NEW w
  PROVE  /\ Held(t, k) = Held(s, k)
         /\ ClearedSinceEach(w, t, k) = ClearedSinceEach(w, s, k)
         /\ FlagFits(w, s, k) => FlagFits(w, t, k)
<1>1. Held(t, k) = Held(s, k)  BY DEF Held, Guarded
<1>2. ClearedSinceEach(w, t, k) = ClearedSinceEach(w, s, k)
  BY DEF ClearedSinceEach, Guarded
<1> QED  BY <1>1, <1>2 DEF FlagFits

LEMMA SameStorageFlag ==
  ASSUME NEW s, NEW k, NEW w, FlagFits(w, s, k), NEW v, DOMAIN v = StorageFields,
         v.busy = w.busy, v.strangers = w.strangers
  PROVE  FlagFits(v, s, k)
BY DEF FlagFits, Follows, ClearedSinceEach, Cleared, SetByStranger

LEMMA FlagFramesStay ==
  ASSUME NEW s, NEW t, NEW k \in Nat, \A i \in 1..k : t[i] = s[i],
         \A i \in 1..k : FlagFrame(s, i)
  PROVE  \A i \in 1..k : FlagFrame(t, i)
<1> SUFFICES ASSUME NEW i \in 1..k  PROVE FlagFrame(t, i)  OBVIOUS
<1>1. FlagFrame(s, i) /\ t[i] = s[i]  OBVIOUS
<1>2. \A j \in 1..i : t[j] = s[j]  OBVIOUS
<1>3. \A j \in 1..(i - 1) : t[j] = s[j]  OBVIOUS
<1>4. FlagFits(t[i].entry, t, i - 1)  BY <1>1, <1>3, SameFlag DEF FlagFrame
<1>5. t[i].pc = "execute" => FlagFits(t[i].before, t, i)
  BY <1>1, <1>2, SameFlag DEF FlagFrame
<1>6. Guarded(t[i]) => ClearedSinceEach(t[i].entry, t, i - 1)
  BY <1>1, <1>3, SameFlag DEF FlagFrame
<1> QED  BY <1>1, <1>4, <1>5, <1>6 DEF FlagFrame

\* A call with good storage around it comes to the top of a stack.
LEMMA FlagPushed ==
  ASSUME NEW s, NEW k \in Nat, NEW f, NEW w, IsSequence(s), Len(s) = k,
         \A i \in 1..k : FlagFrame(s, i),
         stack' = Append(s, f), world' = w,
         DOMAIN f = FrameFields, FlagFits(f.entry, s, k),
         Guarded(f) => ClearedSinceEach(f.entry, s, k),
         FlagFits(w, Append(s, f), k + 1),
         f.pc = "execute" => FlagFits(f.before, Append(s, f), k + 1)
  PROVE  FlagInv'
<1>1. /\ IsSequence(stack') /\ Len(stack') = k + 1 /\ stack'[k + 1] = f
      /\ \A i \in 1..k : stack'[i] = s[i]
  BY AppendIs
<1>2. \A i \in 1..k : FlagFrame(stack', i)  BY <1>1, FlagFramesStay
<1>3. FlagFrame(stack', k + 1)
  <2>1. (k + 1) - 1 = k  OBVIOUS
  <2>2. FlagFits(f.entry, stack', k)  BY <1>1, SameFlag
  <2>3. Guarded(f) => ClearedSinceEach(f.entry, stack', k)  BY <1>1, SameFlag
  <2> QED  BY <1>1, <2>1, <2>2, <2>3 DEF FlagFrame
<1>4. \A i \in 1..(k + 1) : i \in 1..k \/ i = k + 1  OBVIOUS
<1> QED  BY <1>1, <1>2, <1>3, <1>4 DEF FlagInv

\* What is known of the call at the top.
LEMMA FlagTop ==
  ASSUME FlagInv, stack # <<>>
  PROVE  LET k == Len(stack) - 1
         IN /\ k \in Nat /\ IsSequence(Below) /\ Len(Below) = k
            /\ \A i \in 1..k : FlagFrame(Below, i) /\ Below[i] = stack[i]
            /\ Top = stack[k + 1] /\ DOMAIN Top = FrameFields
            /\ FlagFits(Top.entry, stack, k)
            /\ Guarded(Top) => ClearedSinceEach(Top.entry, stack, k)
            /\ FlagFits(world, stack, k + 1)
            /\ Top.pc = "execute" => FlagFits(Top.before, stack, k + 1)
<1> DEFINE k == Len(stack) - 1
<1>1. /\ k \in Nat /\ Len(stack) = k + 1 /\ IsSequence(Below) /\ Len(Below) = k
      /\ \A i \in 1..k : Below[i] = stack[i]
  BY BelowIs DEF FlagInv
<1>2. \A i \in 1..k : FlagFrame(stack, i)  BY <1>1 DEF FlagInv
<1>3. FlagFrame(stack, k + 1) /\ Top = stack[k + 1] /\ (k + 1) - 1 = k
  BY <1>1 DEF FlagInv, Top
<1>4. FlagFits(world, stack, k + 1)  BY <1>1 DEF FlagInv
<1> HIDE DEF k
<1>5. \A i \in 1..k : FlagFrame(Below, i)  BY <1>1, <1>2, FlagFramesStay
<1>6. /\ DOMAIN Top = FrameFields /\ FlagFits(Top.entry, stack, k)
      /\ Guarded(Top) => ClearedSinceEach(Top.entry, stack, k)
      /\ Top.pc = "execute" => FlagFits(Top.before, stack, k + 1)
  BY <1>3 DEF FlagFrame
<1> QED  BY <1>1, <1>3, <1>4, <1>5, <1>6 DEF k

\* The call at the top goes on, with the flag as it is.
LEMMA FlagContinue ==
  ASSUME FlagInv, stack # <<>>, NEW f, NEW w, Continue(f, w),
         DOMAIN f = FrameFields, f.entry = Top.entry, f.guard = Top.guard,
         FlagFits(w, stack, Len(stack)),
         f.pc = "execute" => FlagFits(f.before, stack, Len(stack))
  PROVE  FlagInv'
<1> DEFINE k == Len(stack) - 1
           t == Append(Below, f)
<1>1. k + 1 = Len(stack)  BY FlagTop
<1>2. stack' = t /\ world' = w  BY DEF Continue
<1>3. /\ k \in Nat /\ IsSequence(Below) /\ Len(Below) = k
      /\ \A i \in 1..k : FlagFrame(Below, i) /\ Below[i] = stack[i]
      /\ Top = stack[k + 1] /\ FlagFits(Top.entry, stack, k)
      /\ Guarded(Top) => ClearedSinceEach(Top.entry, stack, k)
  BY FlagTop
<1>4. FlagFits(w, stack, k + 1) /\ (f.pc = "execute" => FlagFits(f.before, stack, k + 1))
  BY <1>1
<1> HIDE DEF k
<1>5. FlagFits(f.entry, Below, k)  BY <1>3, SameFlag
<1>6. Guarded(f) => ClearedSinceEach(f.entry, Below, k)  BY <1>3, SameFlag DEF Guarded
<1>7. \A i \in 1..(k + 1) : t[i].guard = stack[i].guard /\ t[i].entry = stack[i].entry
  <2>1. t[k + 1] = f /\ \A i \in 1..k : t[i] = Below[i]  BY <1>3, AppendIs
  <2>2. \A i \in 1..(k + 1) : i \in 1..k \/ i = k + 1  BY <1>3
  <2> HIDE DEF t
  <2> QED  BY <1>3, <2>1, <2>2
<1> HIDE DEF t
<1>8. FlagFits(w, t, k + 1) /\ (f.pc = "execute" => FlagFits(f.before, t, k + 1))
  BY <1>4, <1>7, SameFlag
<1> QED  BY <1>2, <1>3, <1>5, <1>6, <1>8, FlagPushed DEF t

\* The call at the top is over.
LEMMA FlagReturn ==
  ASSUME FlagInv, stack # <<>>, NEW w, Return(w), FlagFits(w, stack, Len(stack) - 1)
  PROVE  FlagInv'
<1> DEFINE k == Len(stack) - 1
<1>1. /\ IsSequence(Below) /\ Len(Below) = k
      /\ \A i \in 1..k : FlagFrame(Below, i) /\ Below[i] = stack[i]
  BY FlagTop
<1>2. world' = w /\ stack' = Below  BY DEF Return
<1>3. FlagFits(w, Below, k)  BY <1>1, SameFlag
<1> QED  BY <1>1, <1>2, <1>3 DEF FlagInv

\* A call without the guard adds nothing to those under it.
LEMMA FlagUnder ==
  ASSUME NEW s, NEW k \in Nat, NEW w, FlagFits(w, s, k + 1), ~Guarded(s[k + 1])
  PROVE  FlagFits(w, s, k)
<1>1. 1..(k + 1) = 1..k \cup {k + 1}  OBVIOUS
<1> QED  BY <1>1 DEF FlagFits, Held, ClearedSinceEach

\* A call enters: without the guard it finds the flag as it was, with it the flag is set.
LEMMA FlagOver ==
  ASSUME NEW s, NEW k \in Nat, NEW f, IsSequence(s), Len(s) = k, FlagFits(f.entry, s, k),
         NEW w, DOMAIN w = StorageFields, w.strangers = f.entry.strangers,
         w.busy = (f.entry.busy \/ Guarded(f))
  PROVE  FlagFits(w, Append(s, f), k + 1)
<1> DEFINE t == Append(s, f)
<1>1. t[k + 1] = f /\ \A i \in 1..k : t[i] = s[i]  BY AppendIs
<1> HIDE DEF t
<1>2. \A i \in 1..(k + 1) : i \in 1..k \/ i = k + 1  OBVIOUS
<1>3. 1..k \subseteq 1..(k + 1) /\ k + 1 \in 1..(k + 1)  OBVIOUS
<1>4. IsSequence(w.strangers) /\ w.busy \in BOOLEAN /\ Follows(f.entry, w)
  BY FollowsItself DEF FlagFits
<1>5. \A i \in 1..(k + 1) : Follows(t[i].entry, w)
  <2>1. \A i \in 1..k : Follows(s[i].entry, w)  BY DEF FlagFits, Follows
  <2> QED  BY <1>1, <1>2, <1>4, <2>1
<1>6. ASSUME ~w.busy  PROVE ClearedSinceEach(w, t, k + 1)
  <2>1. ClearedSinceEach(f.entry, s, k) /\ ~Guarded(f)  BY <1>6 DEF FlagFits
  <2>2. \A i \in 1..k : Guarded(s[i]) => Cleared(s[i].entry, w)
    BY <2>1 DEF ClearedSinceEach, Cleared
  <2> QED  BY <1>1, <1>2, <2>1, <2>2 DEF ClearedSinceEach
<1>7. ASSUME w.busy  PROVE Held(t, k + 1) \/ SetByStranger(w)
  <2>1. CASE Guarded(f)  BY <1>1, <1>3, <2>1 DEF Held
  <2>2. CASE ~Guarded(f)
    <3>1. f.entry.busy  BY <1>7, <2>2
    <3>2. Held(s, k) \/ SetByStranger(w)  BY <3>1 DEF FlagFits, SetByStranger
    <3> QED  BY <1>1, <1>3, <3>2 DEF Held
  <2> QED  BY <2>1, <2>2
<1>8. FlagFits(w, t, k + 1)  BY <1>4, <1>5, <1>6, <1>7 DEF FlagFits
<1> QED  BY <1>8 DEF t

LEMMA NoteFlag ==
  ASSUME NEW w, DOMAIN w = StorageFields, NEW type, NEW id, NEW by
  PROVE  /\ DOMAIN Note(w, type, id, by) = StorageFields
         /\ Note(w, type, id, by).busy = w.busy
         /\ Note(w, type, id, by).strangers = w.strangers
BY DEF Note, StorageFields

--------------------------------------------------------------------------------
LEMMA EnterFlag ==
  ASSUME FlagInv, NEW f, NEW w, Enter(f, w), f.pc = "check", f.entry = world,
         DOMAIN f = FrameFields, DOMAIN w = StorageFields, w.busy = world.busy,
         w.strangers = world.strangers
  PROVE  FlagInv'
<1> DEFINE k == Len(stack)
           g == [f EXCEPT !.pc = "execute", !.before = w]
<1>1. /\ g.before = w /\ g.entry = world /\ DOMAIN g = FrameFields /\ g.guard = f.guard
  BY DEF FrameFields
<1>2. /\ k \in Nat /\ IsSequence(stack) /\ \A i \in 1..k : FlagFrame(stack, i)
      /\ FlagFits(world, stack, k)
  BY AppendIs DEF FlagInv
<1>3. CASE f.guard = NoGuard
  <2>1. world' = w /\ stack' = Append(stack, g)  BY <1>3 DEF Enter
  <2>2. ~Guarded(g)  BY <1>1, <1>3, GuardAssumption DEF GuardAssumption, Guarded
  <2>3. w.busy = (g.entry.busy \/ Guarded(g))
    BY <1>1, <1>2, <2>2 DEF FlagFits
  <2> HIDE DEF g, k
  <2>4. Len(stack) = k  BY DEF k
  <2>5. FlagFits(w, Append(stack, g), k + 1)
    BY <1>1, <1>2, <2>3, <2>4, FlagOver
  <2> QED  BY <1>1, <1>2, <2>1, <2>2, <2>4, <2>5, FlagPushed
<1>4. CASE f.guard # NoGuard
  <2> DEFINE c == Checked(f, w)
  <2>1. world' = c /\ stack' = Append(stack, f) /\ Admits(f.guard, w)  BY <1>4 DEF Enter
  <2>2. /\ DOMAIN c = StorageFields /\ c.strangers = f.entry.strangers
        /\ c.busy = (f.entry.busy \/ Guarded(f))
    BY NoteFlag DEF Checked, StorageFields, Guarded
  <2> HIDE DEF c, k
  <2>3. Len(stack) = k  BY DEF k
  <2>4. Guarded(f) => ClearedSinceEach(f.entry, stack, k)
    BY <1>2, <2>1 DEF Admits, FlagFits, Guarded
  <2>5. FlagFits(c, Append(stack, f), k + 1)  BY <1>2, <2>2, <2>3, FlagOver
  <2> QED  BY <1>2, <2>1, <2>3, <2>4, <2>5, FlagPushed
<1> QED  BY <1>3, <1>4

LEMMA FrameIs ==
  ASSUME NEW kind, NEW id, NEW ops, NEW guard
  PROVE  LET f == Frame(kind, id, ops, guard)
         IN f.pc = "check" /\ f.entry = world /\ DOMAIN f = FrameFields
BY DEF Frame, FrameFields

LEMMA ExecTransactionFlag ==
  ASSUME FlagInv, NEW tx \in Tx, execTransaction(tx)
  PROVE  FlagInv'
<1> DEFINE f == Frame("exec", TransactionHash(tx), Ops[tx], world.guard)
           w == [world EXCEPT !.nonce = @ + 1]
<1>1. Enter(f, w)  BY DEF execTransaction
<1>2. /\ DOMAIN w = StorageFields /\ w.busy = world.busy
      /\ w.strangers = world.strangers
  BY DEF FlagInv, FlagFits, StorageFields
<1> HIDE DEF w
<1>3. f.pc = "check" /\ f.entry = world /\ DOMAIN f = FrameFields  BY FrameIs
<1> HIDE DEF f
<1> QED  BY <1>1, <1>2, <1>3, EnterFlag

LEMMA ModuleTransactionFlag ==
  ASSUME FlagInv, NEW m \in Module, NEW ops \in ModuleOps, execTransactionFromModule(m, ops)
  PROVE  FlagInv'
<1> DEFINE f == Frame("module", ModuleTxHash(m, ops), ops, world.moduleGuard)
<1>1. Enter(f, world)  BY DEF execTransactionFromModule
<1>2. DOMAIN world = StorageFields  BY DEF FlagInv, FlagFits
<1>3. f.pc = "check" /\ f.entry = world /\ DOMAIN f = FrameFields  BY FrameIs
<1> HIDE DEF f
<1> QED  BY <1>1, <1>2, <1>3, EnterFlag

LEMMA GuardApprovesFlag == ASSUME FlagInv, GuardApproves PROVE FlagInv'
<1> DEFINE f == [Top EXCEPT !.pc = "execute", !.before = world]
<1>1. stack # <<>> /\ Continue(f, world)  BY DEF GuardApproves
<1>2. DOMAIN Top = FrameFields  BY <1>1, FlagTop
<1>3. /\ DOMAIN f = FrameFields /\ f.entry = Top.entry /\ f.guard = Top.guard
      /\ f.before = world
  BY <1>2 DEF FrameFields
<1> HIDE DEF f
<1>4. FlagFits(world, stack, Len(stack))  BY DEF FlagInv
<1> QED  BY <1>1, <1>3, <1>4, FlagContinue

LEMMA CallReturnsFlag == ASSUME FlagInv, CallReturns PROVE FlagInv'
<1> DEFINE op == Top.ops[Top.at]
           f == [Top EXCEPT !.at = @ + 1]
           w == Note(Apply(op, world), "effect", Top.id, NoGuard)
<1>1. stack # <<>> /\ Top.pc = "execute" /\ Continue(f, w)  BY DEF CallReturns
<1>2. DOMAIN Top = FrameFields /\ FlagFits(Top.before, stack, Len(stack))
  <2>1. Len(stack) - 1 + 1 = Len(stack)  BY <1>1, FlagTop
  <2> QED  BY <1>1, <2>1, FlagTop
<1>3. /\ DOMAIN f = FrameFields /\ f.entry = Top.entry /\ f.guard = Top.guard
      /\ f.before = Top.before
  BY <1>2 DEF FrameFields
<1>4. FlagFits(world, stack, Len(stack)) /\ DOMAIN world = StorageFields
  BY DEF FlagInv, FlagFits
<1>5. /\ DOMAIN Apply(op, world) = StorageFields /\ Apply(op, world).busy = world.busy
      /\ Apply(op, world).strangers = world.strangers
  BY <1>4 DEF Apply, StorageFields
<1>6. FlagFits(w, stack, Len(stack))  BY <1>4, <1>5, NoteFlag, SameStorageFlag
<1> HIDE DEF f, w
<1> QED  BY <1>1, <1>2, <1>3, <1>6, FlagContinue

\* The event is emitted by a call that goes on or is over.
LEMMA EmitFlag ==
  ASSUME FlagInv, stack # <<>>, NEW f, NEW w, Emit(f, w), DOMAIN f = FrameFields,
         f.entry = Top.entry, f.guard = Top.guard, FlagFits(w, stack, Len(stack))
  PROVE  FlagInv'
<1> DEFINE logged == Note(w, EventOf(f), f.id, NoGuard)
           g == [f EXCEPT !.pc = "after"]
<1>1. FlagFits(logged, stack, Len(stack))
  <2>1. DOMAIN w = StorageFields  BY DEF FlagFits
  <2> QED  BY <2>1, NoteFlag, SameStorageFlag
<1>2. CASE f.guard = NoGuard
  <2>1. Return(logged)  BY <1>2 DEF Emit
  <2> HIDE DEF logged
  <2> DEFINE k == Len(stack) - 1
  <2>2. k \in Nat /\ k + 1 = Len(stack) /\ Top = stack[k + 1]  BY FlagTop
  <2>3. ~Guarded(Top)  BY <1>2, GuardAssumption DEF GuardAssumption, Guarded
  <2>4. FlagFits(logged, stack, k + 1)  BY <1>1, <2>2
  <2> HIDE DEF k
  <2>5. FlagFits(logged, stack, k)  BY <2>2, <2>3, <2>4, FlagUnder
  <2> QED  BY <2>1, <2>5, FlagReturn DEF k
<1>3. CASE f.guard # NoGuard
  <2>1. Continue(g, logged)  BY <1>3 DEF Emit
  <2>2. /\ DOMAIN g = FrameFields /\ g.entry = Top.entry /\ g.guard = Top.guard
        /\ g.pc # "execute"
    BY DEF FrameFields
  <2> HIDE DEF g, logged
  <2> QED  BY <1>1, <2>1, <2>2, FlagContinue
<1> QED  BY <1>2, <1>3

LEMMA AfterExecutionFlag ==
  ASSUME FlagInv, stack # <<>>, NEW f, NEW w, AfterExecution(f, w), DOMAIN f = FrameFields,
         f.kind \in {"exec", "module"},
         f.entry = Top.entry, f.guard = Top.guard, FlagFits(w, stack, Len(stack))
  PROVE  FlagInv'
<1> DEFINE g(pc) == [f EXCEPT !.pc = pc]
<1>1. Emit(f, w) \/ Continue(g("refund"), w) \/ Continue(g("after"), w)
  BY DEF AfterExecution
<1>2. ASSUME NEW pc \in {"refund", "after"}
      PROVE  /\ DOMAIN g(pc) = FrameFields /\ g(pc).entry = Top.entry
             /\ g(pc).guard = Top.guard /\ g(pc).pc # "execute"
  BY DEF FrameFields
<1> HIDE DEF g
<1>3. CASE Emit(f, w)  BY <1>3, EmitFlag
<1>4. CASE Continue(g("refund"), w)  BY <1>2, <1>4, FlagContinue
<1>5. CASE Continue(g("after"), w)  BY <1>2, <1>5, FlagContinue
<1> QED  BY <1>1, <1>3, <1>4, <1>5

LEMMA ExecutionFlag ==
  ASSUME FlagInv, IndInv, ExecutionSucceeds \/ ExecutionFails
  PROVE  FlagInv'
<1> DEFINE f(ok) == [Top EXCEPT !.ok = ok]
<1>1. /\ stack # <<>> /\ Top.pc = "execute"
      /\ AfterExecution(f(TRUE), world) \/ AfterExecution(f(FALSE), Top.before)
  BY DEF ExecutionSucceeds, ExecutionFails
<1>2. DOMAIN Top = FrameFields /\ FlagFits(Top.before, stack, Len(stack))
  <2>1. Len(stack) - 1 + 1 = Len(stack)  BY <1>1, FlagTop
  <2> QED  BY <1>1, <2>1, FlagTop
<1>3. Top.kind \in {"exec", "module"}  BY <1>1, TopFits DEF FitsTop
<1>4. ASSUME NEW ok \in BOOLEAN
      PROVE  /\ DOMAIN f(ok) = FrameFields /\ f(ok).entry = Top.entry
             /\ f(ok).guard = Top.guard /\ f(ok).kind \in {"exec", "module"}
  BY <1>2, <1>3 DEF FrameFields
<1>5. FlagFits(world, stack, Len(stack))  BY DEF FlagInv
<1> HIDE DEF f
<1> QED  BY <1>1, <1>2, <1>4, <1>5, AfterExecutionFlag

LEMMA RefundFlag == ASSUME FlagInv, RefundPaid PROVE FlagInv'
<1> DEFINE w == Note(world, "refund", Top.id, NoGuard)
<1>1. stack # <<>> /\ Emit(Top, w)  BY DEF RefundPaid
<1>2. DOMAIN Top = FrameFields  BY <1>1, FlagTop
<1>3. FlagFits(w, stack, Len(stack))
  <2>1. FlagFits(world, stack, Len(stack)) /\ DOMAIN world = StorageFields
    BY DEF FlagInv, FlagFits
  <2> QED  BY <2>1, NoteFlag, SameStorageFlag
<1> HIDE DEF w
<1> QED  BY <1>1, <1>2, <1>3, EmitFlag

\* The guard clears its flag, and what that admits a stranger has admitted before: the
\* call entered although others were open.
LEMMA GuardAcceptsFlag == ASSUME FlagInv, GuardAccepts PROVE FlagInv'
<1> DEFINE k == Len(stack) - 1
           w == AfterChecked(Top, world)
           n == Note(w, EventOf(Top), Top.id, NoGuard)
<1>1. stack # <<>> /\ (Return(w) \/ Return(n))  BY DEF GuardAccepts
<1>2. /\ k \in Nat /\ Top = stack[k + 1] /\ FlagFits(world, stack, k + 1)
      /\ FlagFits(Top.entry, stack, k)
      /\ Guarded(Top) => ClearedSinceEach(Top.entry, stack, k)
  BY <1>1, FlagTop
<1>3. /\ DOMAIN w = StorageFields /\ w.busy = (world.busy /\ ~Guarded(Top))
      /\ w.strangers = world.strangers
  BY <1>2, NoteFlag DEF AfterChecked, FlagFits, StorageFields, Guarded
<1> HIDE DEF k, w
<1>4. FlagFits(w, stack, k)
  <2>1. CASE ~Guarded(Top)
    <3>1. FlagFits(world, stack, k)  BY <1>2, <2>1, FlagUnder
    <3>2. w.busy = world.busy  BY <1>3, <2>1, <3>1 DEF FlagFits
    <3> QED  BY <1>3, <3>1, <3>2, SameStorageFlag
  <2>2. CASE Guarded(Top)
    <3>1. /\ IsSequence(world.strangers) /\ Follows(Top.entry, world)
          /\ \A i \in 1..k : Follows(stack[i].entry, world)
      BY <1>2 DEF FlagFits
    <3>2. Follows(Top.entry, w) /\ \A i \in 1..k : Follows(stack[i].entry, w)
      BY <1>3, <3>1 DEF Follows
    <3>3. \A i \in 1..k : Follows(stack[i].entry, Top.entry)  BY <1>2 DEF FlagFits
    <3>4. ClearedSinceEach(w, stack, k)
      BY <1>2, <1>3, <2>2, <3>1, <3>2, <3>3, ClearedStays DEF ClearedSinceEach
    <3>5. w.busy = FALSE  BY <1>3, <2>2
    <3> QED  BY <1>3, <3>1, <3>2, <3>4, <3>5 DEF FlagFits
  <2> QED  BY <2>1, <2>2
<1>5. FlagFits(n, stack, k)  BY <1>3, <1>4, NoteFlag, SameStorageFlag
<1> HIDE DEF n
<1> QED  BY <1>1, <1>4, <1>5, FlagReturn DEF k

\* A stranger sets the flag, or clears it.
LEMMA StrangerFlag ==
  ASSUME FlagInv, strangerChecks \/ strangerAfterChecks
  PROVE  FlagInv'
<1> DEFINE k == Len(stack)
<1>1. FlagFits(world, stack, k) /\ DOMAIN world = StorageFields
  BY DEF FlagInv, FlagFits
<1>2. ASSUME NEW hook, NEW active \in BOOLEAN, StrangerCalls(hook, active),
             hook = IF active THEN "check" ELSE "after"
      PROVE  FlagInv'
  <2>1. /\ stack' = stack /\ DOMAIN world' = StorageFields /\ world'.busy = active
        /\ world'.strangers = Append(world.strangers, hook)
    BY <1>1, <1>2 DEF StrangerCalls, StorageFields
  <2> HIDE DEF k
  <2>2. IsSequence(world.strangers) /\ \A i \in 1..k : Follows(stack[i].entry, world)
    BY <1>1 DEF FlagFits
  <2>3. /\ IsSequence(world'.strangers) /\ world'.strangers # <<>>
        /\ Last(world'.strangers) = hook
        /\ \A i \in 1..k : /\ Follows(stack[i].entry, world')
                           /\ hook = "after" => Cleared(stack[i].entry, world')
    BY <2>1, <2>2, StrangerFollows
  <2>4. FlagFits(world', stack, k)
    BY <1>2, <2>1, <2>3 DEF FlagFits, ClearedSinceEach, SetByStranger
  <2> QED  BY <2>1, <2>4 DEF FlagInv, k
<1>3. CASE strangerChecks  BY <1>2, <1>3 DEF strangerChecks
<1>4. CASE strangerAfterChecks  BY <1>2, <1>4 DEF strangerAfterChecks
<1> QED  BY <1>3, <1>4

LEMMA RevertsFlag == ASSUME FlagInv, Reverts PROVE FlagInv'
<1>1. stack # <<>> /\ Return(Top.entry)  BY DEF Reverts
<1>2. FlagFits(Top.entry, stack, Len(stack) - 1)  BY <1>1, FlagTop
<1> QED  BY <1>1, <1>2, FlagReturn

LEMMA FlagStep == ASSUME FlagInv, IndInv, [Next]_vars PROVE FlagInv'
<1>1. CASE UNCHANGED vars  BY <1>1 DEF vars, FlagInv
<1> QED  BY <1>1, ExecTransactionFlag, ModuleTransactionFlag, GuardApprovesFlag,
            CallReturnsFlag, ExecutionFlag, RefundFlag, GuardAcceptsFlag, RevertsFlag,
            StrangerFlag
         DEF Next

LEMMA InitFlag == ASSUME Init PROVE FlagInv
<1>1. /\ DOMAIN world = StorageFields /\ world.busy = FALSE /\ world.strangers = <<>>
      /\ stack = <<>> /\ Len(stack) = 0 /\ 1..0 = {}
  BY InitialAssumption DEF Init, InitialAssumption
<1>2. IsSequence(<<>>)
  <2>1. <<>> \in Seq({})  OBVIOUS
  <2> QED  BY <2>1 DEF IsSequence
<1>3. FlagFits(world, stack, Len(stack))  BY <1>1, <1>2 DEF FlagFits, ClearedSinceEach
<1> QED  BY <1>1, <1>2, <1>3 DEF FlagInv

\* ReentrancyTransactionGuard admits a second of its calls while one is open, and stays
\* locked while none is, only after strangers called its hooks: never by the order in
\* which the Safe itself checks, reverts and after-checks, however calls nest and whatever
\* guards are set in between (ReentrancyTransactionGuard.sol:43-98).
THEOREM OnlyStrangersInterfereAlways == Spec => []OnlyStrangersInterfere
<1>1. FlagInv => OnlyStrangersInterfere
  <2> SUFFICES ASSUME FlagInv  PROVE OnlyStrangersInterfere  OBVIOUS
  <2> DEFINE guarded == {i \in DOMAIN stack : stack[i].guard = ReentrancyGuard}
  <2>1. DOMAIN stack = 1..Len(stack) /\ Len(stack) \in Nat
    BY DEF FlagInv, IsSequence
  <2>2. \A i \in guarded : i \in 1..Len(stack) /\ Guarded(stack[i])
    BY <2>1 DEF Guarded
  <2>3. ASSUME NEW i \in guarded, NEW j \in guarded, i < j
        PROVE  Cleared(stack[i].entry, stack[j].entry)
    <3>1. ClearedSinceEach(stack[j].entry, stack, j - 1)
      BY <2>2 DEF FlagInv, FlagFrame
    <3>2. i \in 1..(j - 1)  BY <2>1, <2>2, <2>3
    <3> QED  BY <2>2, <3>1, <3>2 DEF ClearedSinceEach
  <2>4. ASSUME ~world.busy, NEW i \in guarded  PROVE Cleared(stack[i].entry, world)
    BY <2>2, <2>4 DEF FlagInv, FlagFits, ClearedSinceEach
  <2>5. ASSUME world.busy, guarded = {}
        PROVE  world.strangers # <<>> /\ Last(world.strangers) = "check"
    <3>1. ~Held(stack, Len(stack))  BY <2>1, <2>5 DEF Held, Guarded
    <3> QED  BY <2>5, <3>1 DEF FlagInv, FlagFits, SetByStranger
  <2> QED  BY <2>3, <2>4, <2>5 DEF OnlyStrangersInterfere
<1> QED  BY <1>1, InitFlag, FlagStep, InitIndInv, NextStep, PTL DEF Spec

--------------------------------------------------------------------------------
(* Nonces and refunds, counted.  In the storage now, and in each that may  *)
(* be restored, a nonce below the current one belongs to one execution in  *)
(* the events or to one of the lowest k calls of the stack, and a refund   *)
(* is noted where the event of a transaction with a gas price is.          *)
DoneAt(w, n) ==
  {i \in DOMAIN w.trace : IsExecution(w.trace[i]) /\ w.trace[i].id.nonce = n}
RefundsAt(w, id) ==
  {i \in DOMAIN w.trace : w.trace[i].type = "refund" /\ w.trace[i].id = id}

NonceOf(f) == IF f.kind = "exec" /\ f.pc # "after" THEN {f.id.nonce} ELSE {}
OpenAt(s, k, n) == {i \in 1..k : n \in NonceOf(s[i])}

HasPrice(id) == gasPrice[id.tx] > 0

\* top holds the nonce of a call above the k lowest, if it has one in use.
Accounts(w, s, k, top) ==
  /\ DOMAIN w = StorageFields /\ w.nonce \in Nat /\ IsSequence(w.trace)
  /\ \A n \in Nat :
       Cardinality(DoneAt(w, n)) + Cardinality(OpenAt(s, k, n))
         + (IF n \in top THEN 1 ELSE 0) = IF n < w.nonce THEN 1 ELSE 0
  /\ \A id : Cardinality(RefundsAt(w, id))
               = IF id \in Done(w) /\ HasPrice(id) THEN 1 ELSE 0

WellFormed(f) ==
  /\ DOMAIN f = FrameFields /\ f.kind \in {"exec", "module"} /\ NonceOf(f) \subseteq Nat
  /\ f.pc = "refund" => f.kind = "exec" /\ HasPrice(f.id)

AccountFrame(s, i) ==
  /\ WellFormed(s[i])
  /\ Accounts(s[i].entry, s, i - 1, {})
  /\ s[i].pc = "execute" => Accounts(s[i].before, s, i - 1, NonceOf(s[i]))

AccountInv ==
  /\ IsSequence(stack)
  /\ Accounts(world, stack, Len(stack), {})
  /\ \A i \in 1..Len(stack) : AccountFrame(stack, i)

LEMMA CountOneMore ==
  ASSUME NEW k \in Nat, NEW A \in SUBSET (1..k)
  PROVE  /\ Cardinality(A) \in Nat
         /\ Cardinality(A \cup {k + 1}) = Cardinality(A) + 1
<1>1. IsFiniteSet(A)
  <2>1. IsFiniteSet(1..k)  BY FS_Interval
  <2> QED  BY <2>1, FS_Subset
<1>2. k + 1 \notin A  OBVIOUS
<1> QED  BY <1>1, <1>2, FS_CardinalityType, FS_AddElement

\* Positions in a trace can be counted.
LEMMA TracePositions ==
  ASSUME NEW w, IsSequence(w.trace)
  PROVE  /\ Len(w.trace) \in Nat /\ DOMAIN w.trace = 1..Len(w.trace)
         /\ \A n : /\ DoneAt(w, n) \in SUBSET (1..Len(w.trace))
                   /\ Cardinality(DoneAt(w, n)) \in Nat
         /\ \A id : RefundsAt(w, id) \in SUBSET (1..Len(w.trace))
<1>1. Len(w.trace) \in Nat /\ DOMAIN w.trace = 1..Len(w.trace)  BY DEF IsSequence
<1>2. ASSUME NEW n
      PROVE  /\ DoneAt(w, n) \in SUBSET (1..Len(w.trace))
             /\ Cardinality(DoneAt(w, n)) \in Nat
  <2>1. DoneAt(w, n) \in SUBSET (1..Len(w.trace))  BY <1>1 DEF DoneAt
  <2> QED  BY <1>1, <2>1, CountOneMore
<1>3. ASSUME NEW id  PROVE RefundsAt(w, id) \in SUBSET (1..Len(w.trace))
  BY <1>1 DEF RefundsAt
<1> QED  BY <1>1, <1>2, <1>3

LEMMA SameAccounts ==
  ASSUME NEW s, NEW t, NEW k, \A i \in 1..k : t[i] = s[i], NEW w, NEW top
  PROVE  Accounts(w, t, k, top) = Accounts(w, s, k, top)
<1>1. \A n : OpenAt(t, k, n) = OpenAt(s, k, n)  BY DEF OpenAt
<1> QED  BY <1>1 DEF Accounts

\* Counting a call among the k + 1 lowest, or apart as the one on top.
LEMMA OneMoreAccount ==
  ASSUME NEW s, NEW k \in Nat, NEW w
  PROVE  Accounts(w, s, k + 1, {}) = Accounts(w, s, k, NonceOf(s[k + 1]))
<1> DEFINE one(n) == IF n \in NonceOf(s[k + 1]) THEN 1 ELSE 0
<1>1. ASSUME NEW n \in Nat
      PROVE  Cardinality(OpenAt(s, k + 1, n)) + 0
               = Cardinality(OpenAt(s, k, n)) + one(n)
  <2>1. 1..(k + 1) = 1..k \cup {k + 1}  OBVIOUS
  <2>2. OpenAt(s, k, n) \in SUBSET (1..k)  BY DEF OpenAt
  <2>3. CASE n \in NonceOf(s[k + 1])
    <3>1. OpenAt(s, k + 1, n) = OpenAt(s, k, n) \cup {k + 1}  BY <2>1, <2>3 DEF OpenAt
    <3> QED  BY <2>2, <2>3, <3>1, CountOneMore
  <2>4. CASE n \notin NonceOf(s[k + 1])
    <3>1. OpenAt(s, k + 1, n) = OpenAt(s, k, n)  BY <2>1, <2>4 DEF OpenAt
    <3> QED  BY <2>2, <2>4, <3>1, CountOneMore
  <2> QED  BY <2>3, <2>4
<1>2. ASSUME NEW n \in Nat, IsSequence(w.trace)
      PROVE  Cardinality(DoneAt(w, n)) + Cardinality(OpenAt(s, k + 1, n))
               + (IF n \in {} THEN 1 ELSE 0)
             = Cardinality(DoneAt(w, n)) + Cardinality(OpenAt(s, k, n)) + one(n)
  <2> DEFINE d == Cardinality(DoneAt(w, n))
             a == Cardinality(OpenAt(s, k, n))
             b == Cardinality(OpenAt(s, k + 1, n))
  <2>1. OpenAt(s, k, n) \in SUBSET (1..k) /\ OpenAt(s, k + 1, n) \in SUBSET (1..(k + 1))
    BY DEF OpenAt
  <2>2. a \in Nat /\ b \in Nat /\ d \in Nat
    <3>1. k + 1 \in Nat  OBVIOUS
    <3> QED  BY <1>2, <2>1, <3>1, CountOneMore, TracePositions
  <2>3. b + 0 = a + one(n) /\ one(n) \in Nat  BY <1>1
  <2> HIDE DEF a, b, d, one
  <2>4. d + b + 0 = d + a + one(n)  BY <2>2, <2>3
  <2> QED  BY <2>4 DEF a, b, d
<1>3. CASE IsSequence(w.trace)  BY <1>2, <1>3 DEF Accounts
<1>4. CASE ~IsSequence(w.trace)  BY <1>4 DEF Accounts
<1> QED  BY <1>3, <1>4

\* What a note adds to the counts.
LEMMA NoteCounts ==
  ASSUME NEW w, DOMAIN w = StorageFields, IsSequence(w.trace),
         NEW type, NEW id, NEW by
  PROVE  LET v == Note(w, type, id, by)
             event == type \in {"ExecutionSuccess", "ExecutionFailure"}
         IN /\ DOMAIN v = StorageFields /\ v.nonce = w.nonce /\ IsSequence(v.trace)
            /\ Done(v) = IF event THEN Done(w) \cup {id} ELSE Done(w)
            /\ \A n : Cardinality(DoneAt(v, n))
                        = Cardinality(DoneAt(w, n)) + IF event /\ id.nonce = n THEN 1 ELSE 0
            /\ \A i : Cardinality(RefundsAt(v, i))
                        = Cardinality(RefundsAt(w, i)) + IF type = "refund" /\ id = i THEN 1 ELSE 0
<1> DEFINE v == Note(w, type, id, by)
           event == type \in {"ExecutionSuccess", "ExecutionFailure"}
           e == Entry(type, id, by)
           k == Len(w.trace)
<1>1. /\ DOMAIN v = StorageFields /\ v.nonce = w.nonce /\ IsSequence(v.trace)
      /\ Done(v) = IF event THEN Done(w) \cup {id} ELSE Done(w)
  BY NoteDone
<1>2. e.type = type /\ e.id = id  BY DEF Entry
<1>3. v.trace = Append(w.trace, e)  BY DEF Note, StorageFields
<1>4. k \in Nat /\ DOMAIN w.trace = 1..k  BY TracePositions
<1>5. /\ DOMAIN v.trace = 1..k \cup {k + 1} /\ v.trace[k + 1] = e
      /\ \A i \in 1..k : v.trace[i] = w.trace[i]
  <2>1. /\ Len(v.trace) = k + 1 /\ v.trace[k + 1] = e
        /\ \A i \in 1..k : v.trace[i] = w.trace[i]
    BY <1>3, AppendIs
  <2>2. DOMAIN v.trace = 1..(k + 1)  BY <1>1, <2>1, TracePositions
  <2>3. 1..(k + 1) = 1..k \cup {k + 1}  BY <1>4
  <2> QED  BY <2>1, <2>2, <2>3
<1> HIDE DEF v, e, k
<1>6. ASSUME NEW n
      PROVE  Cardinality(DoneAt(v, n))
               = Cardinality(DoneAt(w, n)) + IF event /\ id.nonce = n THEN 1 ELSE 0
  <2>1. DoneAt(w, n) \in SUBSET (1..k) /\ Cardinality(DoneAt(w, n)) \in Nat
    BY TracePositions DEF k
  <2>2. DoneAt(v, n) = IF event /\ id.nonce = n THEN DoneAt(w, n) \cup {k + 1}
                       ELSE DoneAt(w, n)
    BY <1>2, <1>4, <1>5 DEF DoneAt, IsExecution
  <2> QED  BY <1>4, <2>1, <2>2, CountOneMore
<1>7. ASSUME NEW i
      PROVE  Cardinality(RefundsAt(v, i))
               = Cardinality(RefundsAt(w, i)) + IF type = "refund" /\ id = i THEN 1 ELSE 0
  <2>1. RefundsAt(w, i) \in SUBSET (1..k) /\ Cardinality(RefundsAt(w, i)) \in Nat
    <3>1. RefundsAt(w, i) \in SUBSET (1..k)  BY TracePositions DEF k
    <3> QED  BY <1>4, <3>1, CountOneMore
  <2>2. RefundsAt(v, i) = IF type = "refund" /\ id = i THEN RefundsAt(w, i) \cup {k + 1}
                          ELSE RefundsAt(w, i)
    BY <1>2, <1>4, <1>5 DEF RefundsAt
  <2> QED  BY <1>4, <2>1, <2>2, CountOneMore
<1> QED  BY <1>1, <1>6, <1>7 DEF v

\* The calls of the guards, effects and the events of modules count for nothing.
LEMMA NoteAccounts ==
  ASSUME NEW w, NEW s, NEW k, NEW top, Accounts(w, s, k, top), NEW type, NEW id, NEW by,
         type \notin {"ExecutionSuccess", "ExecutionFailure", "refund"}
  PROVE  Accounts(Note(w, type, id, by), s, k, top)
<1> DEFINE v == Note(w, type, id, by)
<1>1. DOMAIN w = StorageFields /\ IsSequence(w.trace)  BY DEF Accounts
<1>2. /\ DOMAIN v = StorageFields /\ v.nonce = w.nonce /\ IsSequence(v.trace)
      /\ Done(v) = Done(w)
      /\ \A n : Cardinality(DoneAt(v, n)) = Cardinality(DoneAt(w, n)) + 0
      /\ \A i : Cardinality(RefundsAt(v, i)) = Cardinality(RefundsAt(w, i)) + 0
  BY <1>1, NoteCounts
<1> HIDE DEF v
<1>3. \A n : Cardinality(DoneAt(v, n)) = Cardinality(DoneAt(w, n))
  BY <1>1, <1>2, TracePositions
<1>4. \A i : Cardinality(RefundsAt(v, i)) = Cardinality(RefundsAt(w, i))
  BY <1>2 DEF Accounts
<1>5. Accounts(v, s, k, top)  BY <1>2, <1>3, <1>4 DEF Accounts
<1> QED  BY <1>5 DEF v

LEMMA SettingsAccounts ==
  ASSUME NEW w, NEW s, NEW k, NEW top, Accounts(w, s, k, top), NEW v,
         DOMAIN v = StorageFields, v.nonce = w.nonce, v.trace = w.trace
  PROVE  Accounts(v, s, k, top)
<1>1. Done(v) = Done(w) /\ \A n : DoneAt(v, n) = DoneAt(w, n)
  BY DEF Done, Entries, DoneAt
<1>2. \A i : RefundsAt(v, i) = RefundsAt(w, i)  BY DEF RefundsAt
<1> QED  BY <1>1, <1>2 DEF Accounts

\* nonce++ gives a nonce that nothing uses to the call that enters.
LEMMA NonceAccounts ==
  ASSUME NEW w, NEW s, NEW k \in Nat, Accounts(w, s, k, {})
  PROVE  Accounts([w EXCEPT !.nonce = @ + 1], s, k, {w.nonce})
<1> DEFINE v == [w EXCEPT !.nonce = @ + 1]
<1>1. DOMAIN v = StorageFields /\ v.nonce = w.nonce + 1 /\ v.trace = w.trace
  BY DEF Accounts, StorageFields
<1> HIDE DEF v
<1>2. Done(v) = Done(w) /\ \A n : DoneAt(v, n) = DoneAt(w, n)
  BY <1>1 DEF Done, Entries, DoneAt
<1>3. \A i : RefundsAt(v, i) = RefundsAt(w, i)  BY <1>1 DEF RefundsAt
<1>4. ASSUME NEW n \in Nat
      PROVE  Cardinality(DoneAt(w, n)) + Cardinality(OpenAt(s, k, n))
               + (IF n \in {w.nonce} THEN 1 ELSE 0) = IF n < w.nonce + 1 THEN 1 ELSE 0
  <2> DEFINE d == Cardinality(DoneAt(w, n))
             a == Cardinality(OpenAt(s, k, n))
  <2>1. d + a + 0 = IF n < w.nonce THEN 1 ELSE 0  BY DEF Accounts
  <2>2. d \in Nat /\ a \in Nat
    <3>1. OpenAt(s, k, n) \in SUBSET (1..k)  BY DEF OpenAt
    <3> QED  BY <3>1, CountOneMore, TracePositions DEF Accounts
  <2>3. w.nonce \in Nat  BY DEF Accounts
  <2> HIDE DEF d, a
  <2>4. d + a + (IF n \in {w.nonce} THEN 1 ELSE 0) = IF n < w.nonce + 1 THEN 1 ELSE 0
    BY <2>1, <2>2, <2>3
  <2> QED  BY <2>4 DEF d, a
<1>5. v.nonce \in Nat /\ IsSequence(v.trace)  BY <1>1 DEF Accounts
<1>6. Accounts(v, s, k, {w.nonce})
  <2>1. \A i : Cardinality(RefundsAt(v, i))
                 = IF i \in Done(v) /\ HasPrice(i) THEN 1 ELSE 0
    BY <1>2, <1>3 DEF Accounts
  <2>2. \A n \in Nat : Cardinality(DoneAt(v, n)) + Cardinality(OpenAt(s, k, n))
               + (IF n \in {w.nonce} THEN 1 ELSE 0) = IF n < v.nonce THEN 1 ELSE 0
    BY <1>1, <1>2, <1>4
  <2> QED  BY <1>1, <1>5, <2>1, <2>2 DEF Accounts
<1> QED  BY <1>6 DEF v

\* An open transaction is not in the events yet.
LEMMA OpenNotDone ==
  ASSUME NEW w, NEW s, NEW k \in Nat, NEW id, id.nonce \in Nat,
         Accounts(w, s, k, {id.nonce})
  PROVE  /\ id \notin Done(w) /\ id.nonce < w.nonce
         /\ Cardinality(DoneAt(w, id.nonce)) = 0
<1> DEFINE d == Cardinality(DoneAt(w, id.nonce))
           a == Cardinality(OpenAt(s, k, id.nonce))
<1>1. d + a + 1 = IF id.nonce < w.nonce THEN 1 ELSE 0  BY DEF Accounts
<1>2. d \in Nat /\ a \in Nat
  <2>1. OpenAt(s, k, id.nonce) \in SUBSET (1..k)  BY DEF OpenAt
  <2> QED  BY <2>1, CountOneMore, TracePositions DEF Accounts
<1> HIDE DEF d, a
<1>3. d = 0 /\ id.nonce < w.nonce  BY <1>1, <1>2
<1>4. DoneAt(w, id.nonce) = {}
  <2>1. /\ Len(w.trace) \in Nat /\ DoneAt(w, id.nonce) \in SUBSET (1..Len(w.trace))
    BY TracePositions DEF Accounts
  <2>2. IsFiniteSet(DoneAt(w, id.nonce))
    <3>1. IsFiniteSet(1..Len(w.trace))  BY <2>1, FS_Interval
    <3> QED  BY <2>1, <3>1, FS_Subset
  <2> QED  BY <1>3, <2>2, FS_EmptySet DEF d
<1>5. id \notin Done(w)
  <2>1. SUFFICES ASSUME id \in Done(w)  PROVE FALSE  OBVIOUS
  <2>2. PICK i \in DOMAIN w.trace : IsExecution(w.trace[i]) /\ w.trace[i].id = id
    BY <2>1 DEF Done, Entries, Range
  <2> QED  BY <1>4, <2>2 DEF DoneAt
<1> QED  BY <1>3, <1>5 DEF d

\* The event closes a transaction, together with its refund if it has a price.
LEMMA EventAccounts ==
  ASSUME NEW w, NEW s, NEW k \in Nat, NEW id, id.nonce \in Nat,
         Accounts(w, s, k, {id.nonce}),
         NEW v, DOMAIN v = StorageFields, v.nonce = w.nonce, IsSequence(v.trace),
         Done(v) = Done(w), \A n : Cardinality(DoneAt(v, n)) = Cardinality(DoneAt(w, n)),
         \A i : Cardinality(RefundsAt(v, i))
                  = Cardinality(RefundsAt(w, i)) + IF HasPrice(id) /\ id = i THEN 1 ELSE 0,
         NEW type \in {"ExecutionSuccess", "ExecutionFailure"}, NEW by
  PROVE  Accounts(Note(v, type, id, by), s, k, {})
<1> DEFINE u == Note(v, type, id, by)
<1>1. /\ DOMAIN u = StorageFields /\ u.nonce = w.nonce /\ IsSequence(u.trace)
      /\ Done(u) = Done(w) \cup {id}
      /\ \A n : Cardinality(DoneAt(u, n))
                  = Cardinality(DoneAt(w, n)) + IF id.nonce = n THEN 1 ELSE 0
      /\ \A i : Cardinality(RefundsAt(u, i)) = Cardinality(RefundsAt(v, i)) + 0
  BY NoteCounts
<1> HIDE DEF u
<1>2. id \notin Done(w)  BY OpenNotDone
<1>3. ASSUME NEW n \in Nat
      PROVE  Cardinality(DoneAt(u, n)) + Cardinality(OpenAt(s, k, n))
               + (IF n \in {} THEN 1 ELSE 0) = IF n < u.nonce THEN 1 ELSE 0
  <2> DEFINE d == Cardinality(DoneAt(w, n))
             a == Cardinality(OpenAt(s, k, n))
  <2>1. d + a + (IF n \in {id.nonce} THEN 1 ELSE 0) = IF n < w.nonce THEN 1 ELSE 0
    BY DEF Accounts
  <2>2. d \in Nat /\ a \in Nat
    <3>1. OpenAt(s, k, n) \in SUBSET (1..k)  BY DEF OpenAt
    <3> QED  BY <3>1, CountOneMore, TracePositions DEF Accounts
  <2>3. Cardinality(DoneAt(u, n)) = d + IF id.nonce = n THEN 1 ELSE 0  BY <1>1
  <2> HIDE DEF d
  <2>4. Cardinality(DoneAt(u, n)) + a + 0 = IF n < w.nonce THEN 1 ELSE 0
    <3> HIDE DEF a
    <3>1. CASE id.nonce = n  BY <2>1, <2>2, <2>3, <3>1
    <3>2. CASE id.nonce # n  BY <2>1, <2>2, <2>3, <3>2
    <3> QED  BY <3>1, <3>2
  <2> QED  BY <1>1, <2>4
<1>4. ASSUME NEW i
      PROVE  Cardinality(RefundsAt(u, i)) = IF i \in Done(u) /\ HasPrice(i) THEN 1 ELSE 0
  <2>1. Cardinality(RefundsAt(w, i)) = IF i \in Done(w) /\ HasPrice(i) THEN 1 ELSE 0
    BY DEF Accounts
  <2>2. Cardinality(RefundsAt(u, i)) = Cardinality(RefundsAt(v, i)) + 0  BY <1>1
  <2>3. Cardinality(RefundsAt(v, i))
          = Cardinality(RefundsAt(w, i)) + IF HasPrice(id) /\ id = i THEN 1 ELSE 0
    OBVIOUS
  <2>4. CASE i = id  BY <1>1, <1>2, <2>1, <2>2, <2>3, <2>4
  <2>5. CASE i # id  BY <1>1, <2>1, <2>2, <2>3, <2>5
  <2> QED  BY <2>4, <2>5
<1>5. Accounts(u, s, k, {})
  <2>1. u.nonce \in Nat  BY <1>1 DEF Accounts
  <2> QED  BY <1>1, <1>3, <1>4, <2>1 DEF Accounts
<1> QED  BY <1>5 DEF u

--------------------------------------------------------------------------------
LEMMA AccountFramesStay ==
  ASSUME NEW s, NEW t, NEW k \in Nat, \A i \in 1..k : t[i] = s[i],
         \A i \in 1..k : AccountFrame(s, i)
  PROVE  \A i \in 1..k : AccountFrame(t, i)
<1> SUFFICES ASSUME NEW i \in 1..k  PROVE AccountFrame(t, i)  OBVIOUS
<1>1. \A j \in 1..(i - 1) : t[j] = s[j]  OBVIOUS
<1>2. /\ Accounts(s[i].entry, t, i - 1, {}) = Accounts(s[i].entry, s, i - 1, {})
      /\ Accounts(s[i].before, t, i - 1, NonceOf(s[i]))
           = Accounts(s[i].before, s, i - 1, NonceOf(s[i]))
  BY <1>1, SameAccounts
<1>3. t[i] = s[i] /\ AccountFrame(s, i)  OBVIOUS
<1> QED  BY <1>2, <1>3 DEF AccountFrame

\* A call with the right storage around it comes to the top of a stack.
LEMMA AccountPushed ==
  ASSUME NEW s, NEW k \in Nat, NEW f, NEW w, IsSequence(s), Len(s) = k,
         \A i \in 1..k : AccountFrame(s, i), WellFormed(f),
         stack' = Append(s, f), world' = w,
         Accounts(f.entry, s, k, {}), Accounts(w, s, k, NonceOf(f)),
         f.pc = "execute" => Accounts(f.before, s, k, NonceOf(f))
  PROVE  AccountInv'
<1>1. /\ IsSequence(stack') /\ Len(stack') = k + 1 /\ stack'[k + 1] = f
      /\ \A i \in 1..k : stack'[i] = s[i]
  BY AppendIs
<1>2. \A i \in 1..k : AccountFrame(stack', i)  BY <1>1, AccountFramesStay
<1>3. /\ Accounts(f.entry, stack', k, {}) /\ Accounts(w, stack', k, NonceOf(f))
      /\ f.pc = "execute" => Accounts(f.before, stack', k, NonceOf(f))
  <2>1. ASSUME NEW v, NEW top
        PROVE  Accounts(v, stack', k, top) = Accounts(v, s, k, top)
    <3>1. \A i \in 1..k : stack'[i] = s[i]  BY <1>1
    <3> QED  BY <3>1, SameAccounts
  <2> QED  BY <2>1
<1>4. Accounts(w, stack', k + 1, {})
  <2>1. Accounts(w, stack', k + 1, {}) = Accounts(w, stack', k, NonceOf(stack'[k + 1]))
    BY OneMoreAccount
  <2> QED  BY <1>1, <1>3, <2>1
<1>5. AccountFrame(stack', k + 1)
  <2>1. (k + 1) - 1 = k  OBVIOUS
  <2> QED  BY <1>1, <1>3, <2>1 DEF AccountFrame
<1>6. \A i \in 1..(k + 1) : i \in 1..k \/ i = k + 1  OBVIOUS
<1> QED  BY <1>1, <1>2, <1>4, <1>5, <1>6 DEF AccountInv

\* What is known of the call at the top.
LEMMA AccountTop ==
  ASSUME AccountInv, stack # <<>>
  PROVE  LET k == Len(stack) - 1
         IN /\ k \in Nat /\ k + 1 = Len(stack) /\ IsSequence(Below) /\ Len(Below) = k
            /\ \A i \in 1..k : Below[i] = stack[i]
            /\ \A i \in 1..k : AccountFrame(Below, i)
            /\ WellFormed(Top) /\ Accounts(Top.entry, stack, k, {})
            /\ Accounts(world, stack, k, NonceOf(Top))
            /\ Top.pc = "execute" => Accounts(Top.before, stack, k, NonceOf(Top))
<1> DEFINE k == Len(stack) - 1
<1>1. /\ k \in Nat /\ Len(stack) = k + 1 /\ IsSequence(Below) /\ Len(Below) = k
      /\ \A i \in 1..k : Below[i] = stack[i]
  BY BelowIs DEF AccountInv
<1>2. \A i \in 1..k : AccountFrame(stack, i)  BY <1>1 DEF AccountInv
<1>3. AccountFrame(stack, k + 1) /\ Top = stack[k + 1] /\ (k + 1) - 1 = k
  BY <1>1 DEF AccountInv, Top
<1>4. Accounts(world, stack, k + 1, {})  BY <1>1 DEF AccountInv
<1> HIDE DEF k
<1>5. \A i \in 1..k : AccountFrame(Below, i)  BY <1>1, <1>2, AccountFramesStay
<1>6. Accounts(world, stack, k, NonceOf(Top))  BY <1>1, <1>3, <1>4, OneMoreAccount
<1>7. /\ WellFormed(Top) /\ Accounts(Top.entry, stack, k, {})
      /\ Top.pc = "execute" => Accounts(Top.before, stack, k, NonceOf(Top))
  BY <1>3 DEF AccountFrame
<1> QED  BY <1>1, <1>5, <1>6, <1>7 DEF k

\* The call at the top goes on.
LEMMA AccountContinue ==
  ASSUME AccountInv, stack # <<>>, NEW f, NEW w, Continue(f, w), WellFormed(f),
         f.entry = Top.entry, Accounts(w, stack, Len(stack) - 1, NonceOf(f)),
         f.pc = "execute" => Accounts(f.before, stack, Len(stack) - 1, NonceOf(f))
  PROVE  AccountInv'
<1> DEFINE k == Len(stack) - 1
<1>1. stack' = Append(Below, f) /\ world' = w  BY DEF Continue
<1>2. /\ k \in Nat /\ IsSequence(Below) /\ Len(Below) = k
      /\ \A i \in 1..k : Below[i] = stack[i]
      /\ \A i \in 1..k : AccountFrame(Below, i)
      /\ Accounts(Top.entry, stack, k, {})
  BY AccountTop
<1>3. /\ Accounts(w, stack, k, NonceOf(f))
      /\ f.pc = "execute" => Accounts(f.before, stack, k, NonceOf(f))
  OBVIOUS
<1> HIDE DEF k
<1>4. /\ Accounts(f.entry, Below, k, {}) /\ Accounts(w, Below, k, NonceOf(f))
      /\ f.pc = "execute" => Accounts(f.before, Below, k, NonceOf(f))
  BY <1>2, <1>3, SameAccounts
<1> QED  BY <1>1, <1>2, <1>4, AccountPushed

\* The call at the top is over.
LEMMA AccountReturn ==
  ASSUME AccountInv, stack # <<>>, NEW w, Return(w), Accounts(w, stack, Len(stack) - 1, {})
  PROVE  AccountInv'
<1> DEFINE k == Len(stack) - 1
<1>1. /\ IsSequence(Below) /\ Len(Below) = k /\ \A i \in 1..k : AccountFrame(Below, i)
      /\ \A i \in 1..k : Below[i] = stack[i]
  BY AccountTop
<1>2. world' = w /\ stack' = Below  BY DEF Return
<1>3. Accounts(w, stack, k, {})  OBVIOUS
<1> HIDE DEF k
<1>4. Accounts(w, Below, k, {})  BY <1>1, <1>3, SameAccounts
<1> QED  BY <1>1, <1>2, <1>4 DEF AccountInv

--------------------------------------------------------------------------------
LEMMA GuardCallsAccounts ==
  ASSUME NEW w, NEW s, NEW k, NEW top, Accounts(w, s, k, top), NEW f
  PROVE  Accounts(Checked(f, w), s, k, top) /\ Accounts(AfterChecked(f, w), s, k, top)
<1>1. DOMAIN w = StorageFields /\ IsSequence(w.trace)  BY DEF Accounts
<1>2. Accounts(Note(w, "check", f.id, f.guard), s, k, top)  BY NoteAccounts
<1>3. Accounts(Note(w, "after", f.id, f.guard), s, k, top)  BY NoteAccounts
<1> QED  BY <1>1, <1>2, <1>3, GuardFieldsOnly, SettingsAccounts

LEMMA EnterAccounts ==
  ASSUME AccountInv, NEW f, NEW w, Enter(f, w), f.pc = "check", f.entry = world,
         WellFormed(f), Accounts(w, stack, Len(stack), NonceOf(f))
  PROVE  AccountInv'
<1> DEFINE k == Len(stack)
           g == [f EXCEPT !.pc = "execute", !.before = w]
<1>1. /\ g.pc = "execute" /\ g.before = w /\ g.entry = world /\ DOMAIN g = FrameFields
      /\ g.kind = f.kind /\ g.id = f.id
  BY DEF WellFormed, FrameFields
<1>2. /\ k \in Nat /\ IsSequence(stack) /\ \A i \in 1..k : AccountFrame(stack, i)
      /\ Accounts(world, stack, k, {})
  BY AppendIs DEF AccountInv
<1>3. CASE f.guard = NoGuard
  <2>1. world' = w /\ stack' = Append(stack, g)  BY <1>3 DEF Enter
  <2> HIDE DEF g
  <2>2. NonceOf(g) = NonceOf(f)  BY <1>1 DEF NonceOf
  <2>3. WellFormed(g)  BY <1>1, <2>2 DEF WellFormed
  <2>4. Accounts(w, stack, k, NonceOf(g))  BY <2>2
  <2>5. Len(stack) = k  OBVIOUS
  <2> HIDE DEF k
  <2> QED  BY <1>1, <1>2, <2>1, <2>3, <2>4, <2>5, AccountPushed
<1>4. CASE f.guard # NoGuard
  <2>1. world' = Checked(f, w) /\ stack' = Append(stack, f)  BY <1>4 DEF Enter
  <2>2. Accounts(Checked(f, w), stack, k, NonceOf(f)) /\ Len(stack) = k
    BY GuardCallsAccounts
  <2> HIDE DEF k
  <2> QED  BY <1>2, <2>1, <2>2, AccountPushed
<1> QED  BY <1>3, <1>4

LEMMA ExecTransactionAccounts ==
  ASSUME AccountInv, NEW tx \in Tx, execTransaction(tx)
  PROVE  AccountInv'
<1> DEFINE h == TransactionHash(tx)
           f == Frame("exec", h, Ops[tx], world.guard)
           w == [world EXCEPT !.nonce = @ + 1]
<1>1. h.nonce = world.nonce /\ Enter(f, w)  BY DEF execTransaction, TransactionHash
<1>2. /\ f.pc = "check" /\ f.entry = world /\ DOMAIN f = FrameFields
      /\ f.kind = "exec" /\ f.id = h
  BY DEF Frame, FrameFields
<1> HIDE DEF h, f
<1>3. Accounts(world, stack, Len(stack), {}) /\ Len(stack) \in Nat
  BY AppendIs DEF AccountInv
<1>4. Accounts(w, stack, Len(stack), {world.nonce})  BY <1>3, NonceAccounts
<1> HIDE DEF w
<1>5. NonceOf(f) = {world.nonce}  BY <1>1, <1>2 DEF NonceOf
<1>6. WellFormed(f)  BY <1>2, <1>3, <1>5 DEF WellFormed, Accounts
<1> QED  BY <1>1, <1>2, <1>4, <1>5, <1>6, EnterAccounts

LEMMA ModuleTransactionAccounts ==
  ASSUME AccountInv, NEW m, NEW ops, execTransactionFromModule(m, ops)
  PROVE  AccountInv'
<1> DEFINE f == Frame("module", ModuleTxHash(m, ops), ops, world.moduleGuard)
<1>1. Enter(f, world)  BY DEF execTransactionFromModule
<1>2. f.pc = "check" /\ f.entry = world /\ DOMAIN f = FrameFields /\ f.kind = "module"
  BY DEF Frame, FrameFields
<1> HIDE DEF f
<1>3. NonceOf(f) = {}  BY <1>2 DEF NonceOf
<1>4. WellFormed(f)  BY <1>2, <1>3 DEF WellFormed
<1>5. Accounts(world, stack, Len(stack), {})  BY DEF AccountInv
<1> QED  BY <1>1, <1>2, <1>3, <1>4, <1>5, EnterAccounts

LEMMA GuardApprovesAccounts == ASSUME AccountInv, GuardApproves PROVE AccountInv'
<1> DEFINE f == [Top EXCEPT !.pc = "execute", !.before = world]
<1>1. stack # <<>> /\ Top.pc = "check" /\ Continue(f, world)  BY DEF GuardApproves
<1>2. WellFormed(Top) /\ Accounts(world, stack, Len(stack) - 1, NonceOf(Top))
  BY <1>1, AccountTop
<1>3. /\ DOMAIN f = FrameFields /\ f.kind = Top.kind /\ f.id = Top.id
      /\ f.entry = Top.entry /\ f.before = world /\ f.pc = "execute"
  BY <1>2 DEF WellFormed, FrameFields
<1> HIDE DEF f
<1>4. NonceOf(f) = NonceOf(Top)  BY <1>1, <1>3 DEF NonceOf
<1>5. WellFormed(f)  BY <1>2, <1>3, <1>4 DEF WellFormed
<1> QED  BY <1>1, <1>2, <1>3, <1>4, <1>5, AccountContinue

LEMMA CallReturnsAccounts == ASSUME AccountInv, CallReturns PROVE AccountInv'
<1> DEFINE f == [Top EXCEPT !.at = @ + 1]
           v == Apply(Top.ops[Top.at], world)
           w == Note(v, "effect", Top.id, NoGuard)
<1>1. stack # <<>> /\ Top.pc = "execute" /\ Continue(f, w)  BY DEF CallReturns
<1>2. /\ WellFormed(Top) /\ Accounts(world, stack, Len(stack) - 1, NonceOf(Top))
      /\ Accounts(Top.before, stack, Len(stack) - 1, NonceOf(Top))
  BY <1>1, AccountTop
<1>3. /\ DOMAIN f = FrameFields /\ f.kind = Top.kind /\ f.id = Top.id
      /\ f.entry = Top.entry /\ f.before = Top.before /\ f.pc = Top.pc
  BY <1>2 DEF WellFormed, FrameFields
<1>4. DOMAIN v = StorageFields /\ v.nonce = world.nonce /\ v.trace = world.trace
  BY <1>2 DEF Apply, Accounts, StorageFields
<1> HIDE DEF f, v
<1>5. Accounts(w, stack, Len(stack) - 1, NonceOf(Top))
  <2>1. Accounts(v, stack, Len(stack) - 1, NonceOf(Top))
    BY <1>2, <1>4, SettingsAccounts
  <2> QED  BY <2>1, NoteAccounts
<1> HIDE DEF w
<1>6. NonceOf(f) = NonceOf(Top)  BY <1>3 DEF NonceOf
<1>7. WellFormed(f)  BY <1>2, <1>3, <1>6 DEF WellFormed
<1> QED  BY <1>1, <1>2, <1>3, <1>5, <1>6, <1>7, AccountContinue

\* The event is emitted by a call that goes on to its guard or is over.
LEMMA EmitAccounts ==
  ASSUME AccountInv, stack # <<>>, NEW f, NEW w, Emit(f, w), WellFormed(f),
         f.entry = Top.entry,
         Accounts(Note(w, EventOf(f), f.id, NoGuard), stack, Len(stack) - 1, {})
  PROVE  AccountInv'
<1> DEFINE logged == Note(w, EventOf(f), f.id, NoGuard)
           g == [f EXCEPT !.pc = "after"]
<1>1. Return(logged) \/ Continue(g, logged)  BY DEF Emit
<1>2. /\ DOMAIN g = FrameFields /\ g.kind = f.kind /\ g.entry = f.entry /\ g.pc = "after"
  BY DEF WellFormed, FrameFields
<1> HIDE DEF logged, g
<1>3. NonceOf(g) = {}  BY <1>2 DEF NonceOf
<1>4. WellFormed(g)  BY <1>2, <1>3 DEF WellFormed
<1>5. Accounts(logged, stack, Len(stack) - 1, {})  BY DEF logged
<1> QED  BY <1>1, <1>2, <1>3, <1>4, <1>5, AccountReturn, AccountContinue

LEMMA EventTypes ==
  ASSUME NEW f
  PROVE  /\ f.kind = "exec" => EventOf(f) \in {"ExecutionSuccess", "ExecutionFailure"}
         /\ f.kind = "module" =>
              EventOf(f) \notin {"ExecutionSuccess", "ExecutionFailure", "refund"}
<1>1. CASE f.ok  BY <1>1 DEF EventOf
<1>2. CASE ~f.ok  BY <1>2 DEF EventOf
<1> QED  BY <1>1, <1>2

LEMMA AfterExecutionAccounts ==
  ASSUME AccountInv, stack # <<>>, Top.pc = "execute", NEW ok \in BOOLEAN, NEW w,
         AfterExecution([Top EXCEPT !.ok = ok], w),
         Accounts(w, stack, Len(stack) - 1, NonceOf(Top))
  PROVE  AccountInv'
<1> DEFINE f == [Top EXCEPT !.ok = ok]
           r == [f EXCEPT !.pc = "refund"]
           a == [f EXCEPT !.pc = "after"]
           k == Len(stack) - 1
<1>1. k \in Nat /\ WellFormed(Top) /\ Accounts(w, stack, k, NonceOf(Top))  BY AccountTop
<1>2. /\ DOMAIN f = FrameFields /\ f.kind = Top.kind /\ f.id = Top.id
      /\ f.entry = Top.entry /\ f.pc = "execute"
  BY <1>1 DEF WellFormed, FrameFields
<1>3. /\ DOMAIN r = FrameFields /\ r.kind = Top.kind /\ r.id = Top.id
      /\ r.entry = Top.entry /\ r.pc = "refund"
      /\ DOMAIN a = FrameFields /\ a.kind = Top.kind /\ a.id = Top.id
      /\ a.entry = Top.entry /\ a.pc = "after"
  BY <1>2 DEF FrameFields
<1>4. AfterExecution(f, w)  OBVIOUS
<1> HIDE DEF f, r, a, k
<1>5. NonceOf(f) = NonceOf(Top) /\ WellFormed(f)
  <2>1. NonceOf(f) = NonceOf(Top)  BY <1>2 DEF NonceOf
  <2> QED  BY <1>1, <1>2, <2>1 DEF WellFormed
<1>6. CASE f.kind = "exec" /\ HasPrice(f.id)
  <2>1. Continue(r, w)  BY <1>4, <1>6 DEF AfterExecution, HasPrice, r
  <2>2. NonceOf(r) = NonceOf(Top)  BY <1>2, <1>3 DEF NonceOf
  <2>3. WellFormed(r)  BY <1>1, <1>2, <1>3, <1>6, <2>2 DEF WellFormed
  <2> QED  BY <1>1, <1>3, <2>1, <2>2, <2>3, AccountContinue DEF k
<1>7. CASE f.kind = "exec" /\ ~HasPrice(f.id)
  <2>1. Emit(f, w)  BY <1>4, <1>7 DEF AfterExecution, HasPrice
  <2>2. NonceOf(f) = {f.id.nonce}  BY <1>2, <1>7 DEF NonceOf
  <2>3. f.id.nonce \in Nat  BY <1>5, <2>2 DEF WellFormed
  <2>4. Accounts(w, stack, k, {f.id.nonce})  BY <1>1, <1>5, <2>2
  <2>5. /\ DOMAIN w = StorageFields /\ w.nonce = w.nonce /\ IsSequence(w.trace)
        /\ \A i : Cardinality(RefundsAt(w, i)) =
                   Cardinality(RefundsAt(w, i)) + IF HasPrice(f.id) /\ f.id = i THEN 1 ELSE 0
    BY <1>7, <2>4 DEF Accounts
  <2>6. EventOf(f) \in {"ExecutionSuccess", "ExecutionFailure"}  BY <1>7, EventTypes
  <2>7. Accounts(Note(w, EventOf(f), f.id, NoGuard), stack, k, {})
    BY <1>1, <2>3, <2>4, <2>5, <2>6, EventAccounts
  <2> QED  BY <1>2, <1>5, <2>1, <2>7, EmitAccounts DEF k
<1>8. CASE f.kind = "module"
  <2>1. NonceOf(Top) = {} /\ NonceOf(a) = {}  BY <1>2, <1>3, <1>8 DEF NonceOf
  <2>2. Emit(f, w) \/ Continue(a, w)
    <3>1. CASE f.guard = NoGuard  BY <1>4, <1>8, <3>1 DEF AfterExecution
    <3>2. CASE f.guard # NoGuard  BY <1>4, <1>8, <3>2 DEF AfterExecution, a
    <3> QED  BY <3>1, <3>2
  <2>3. CASE Emit(f, w)
    <3>1. EventOf(f) \notin {"ExecutionSuccess", "ExecutionFailure", "refund"}
      BY <1>8, EventTypes
    <3>2. Accounts(Note(w, EventOf(f), f.id, NoGuard), stack, k, {})
      BY <1>1, <2>1, <3>1, NoteAccounts
    <3> QED  BY <1>2, <1>5, <2>3, <3>2, EmitAccounts DEF k
  <2>4. CASE Continue(a, w)
    <3>1. WellFormed(a)  BY <1>1, <1>3, <2>1 DEF WellFormed
    <3> QED  BY <1>1, <1>3, <2>1, <2>4, <3>1, AccountContinue DEF k
  <2> QED  BY <2>2, <2>3, <2>4
<1> QED  BY <1>1, <1>2, <1>6, <1>7, <1>8 DEF WellFormed

LEMMA ExecutionAccounts ==
  ASSUME AccountInv, ExecutionSucceeds \/ ExecutionFails
  PROVE  AccountInv'
<1>1. stack # <<>> /\ Top.pc = "execute"  BY DEF ExecutionSucceeds, ExecutionFails
<1>2. /\ Accounts(world, stack, Len(stack) - 1, NonceOf(Top))
      /\ Accounts(Top.before, stack, Len(stack) - 1, NonceOf(Top))
  BY <1>1, AccountTop
<1>3. CASE ExecutionSucceeds
  <2>1. AfterExecution([Top EXCEPT !.ok = TRUE], world)  BY <1>3 DEF ExecutionSucceeds
  <2> QED  BY <1>1, <1>2, <2>1, AfterExecutionAccounts
<1>4. CASE ExecutionFails
  <2>1. AfterExecution([Top EXCEPT !.ok = FALSE], Top.before)  BY <1>4 DEF ExecutionFails
  <2> QED  BY <1>1, <1>2, <2>1, AfterExecutionAccounts
<1> QED  BY <1>3, <1>4

LEMMA RefundAccounts == ASSUME AccountInv, RefundPaid PROVE AccountInv'
<1> DEFINE k == Len(stack) - 1
           v == Note(world, "refund", Top.id, NoGuard)
<1>1. stack # <<>> /\ Top.pc = "refund" /\ Emit(Top, v)  BY DEF RefundPaid
<1>2. k \in Nat /\ WellFormed(Top) /\ Accounts(world, stack, k, NonceOf(Top))
  BY <1>1, AccountTop
<1> HIDE DEF k
<1>3. Top.kind = "exec" /\ HasPrice(Top.id)  BY <1>1, <1>2 DEF WellFormed
<1>4. NonceOf(Top) = {Top.id.nonce}  BY <1>1, <1>3 DEF NonceOf
<1>5. Top.id.nonce \in Nat /\ Accounts(world, stack, k, {Top.id.nonce})
  BY <1>2, <1>4 DEF WellFormed
<1>6. /\ DOMAIN v = StorageFields /\ v.nonce = world.nonce /\ IsSequence(v.trace)
      /\ Done(v) = Done(world)
      /\ \A n : Cardinality(DoneAt(v, n)) = Cardinality(DoneAt(world, n)) + 0
      /\ \A i : Cardinality(RefundsAt(v, i))
                  = Cardinality(RefundsAt(world, i)) + IF Top.id = i THEN 1 ELSE 0
  BY <1>5, NoteCounts DEF Accounts
<1> HIDE DEF v
<1>7. \A n : Cardinality(DoneAt(v, n)) = Cardinality(DoneAt(world, n))
  BY <1>5, <1>6, TracePositions DEF Accounts
<1>8. \A i : Cardinality(RefundsAt(v, i)) =
             Cardinality(RefundsAt(world, i)) + IF HasPrice(Top.id) /\ Top.id = i THEN 1 ELSE 0
  BY <1>3, <1>6
<1>9. EventOf(Top) \in {"ExecutionSuccess", "ExecutionFailure"}  BY <1>3, EventTypes
<1>10. Accounts(Note(v, EventOf(Top), Top.id, NoGuard), stack, k, {})
  BY <1>2, <1>5, <1>6, <1>7, <1>8, <1>9, EventAccounts
<1> QED  BY <1>1, <1>2, <1>10, EmitAccounts DEF k

LEMMA GuardAcceptsAccounts == ASSUME AccountInv, GuardAccepts PROVE AccountInv'
<1> DEFINE k == Len(stack) - 1
           w == AfterChecked(Top, world)
           n == Note(w, EventOf(Top), Top.id, NoGuard)
<1>1. stack # <<>> /\ Top.pc = "after"  BY DEF GuardAccepts
<1>2. WellFormed(Top) /\ Accounts(world, stack, k, {})
  <2>1. NonceOf(Top) = {}  BY <1>1 DEF NonceOf
  <2> QED  BY <1>1, <2>1, AccountTop
<1>3. Accounts(w, stack, k, {})
  <2> HIDE DEF k
  <2> QED  BY <1>2, GuardCallsAccounts
<1>4. CASE Top.kind = "exec"
  <2>1. Return(w)  BY <1>4 DEF GuardAccepts
  <2> QED  BY <1>1, <1>3, <2>1, AccountReturn
<1>5. CASE Top.kind = "module"
  <2>1. Return(n)  BY <1>5 DEF GuardAccepts
  <2>2. EventOf(Top) \notin {"ExecutionSuccess", "ExecutionFailure", "refund"}
    BY <1>5, EventTypes
  <2>3. Accounts(n, stack, k, {})
    <3> HIDE DEF k, w
    <3> QED  BY <1>3, <2>2, NoteAccounts
  <2> HIDE DEF n
  <2> QED  BY <1>1, <2>1, <2>3, AccountReturn
<1> QED  BY <1>2, <1>4, <1>5 DEF WellFormed

LEMMA RevertsAccounts == ASSUME AccountInv, Reverts PROVE AccountInv'
<1>1. stack # <<>> /\ Return(Top.entry)  BY DEF Reverts
<1>2. Accounts(Top.entry, stack, Len(stack) - 1, {})  BY <1>1, AccountTop
<1> QED  BY <1>1, <1>2, AccountReturn

LEMMA StrangerAccounts ==
  ASSUME AccountInv, strangerChecks \/ strangerAfterChecks
  PROVE  AccountInv'
<1>1. Accounts(world, stack, Len(stack), {})  BY DEF AccountInv
<1>2. /\ stack' = stack /\ DOMAIN world' = StorageFields
      /\ world'.nonce = world.nonce /\ world'.trace = world.trace
  BY <1>1, StrangerKeeps DEF Accounts
<1>3. Accounts(world', stack, Len(stack), {})  BY <1>1, <1>2, SettingsAccounts
<1> QED  BY <1>2, <1>3 DEF AccountInv

LEMMA AccountStep == ASSUME AccountInv, [Next]_vars PROVE AccountInv'
<1>1. CASE UNCHANGED vars  BY <1>1 DEF vars, AccountInv
<1> QED  BY <1>1, ExecTransactionAccounts, ModuleTransactionAccounts,
            GuardApprovesAccounts, CallReturnsAccounts, ExecutionAccounts,
            RefundAccounts, GuardAcceptsAccounts, RevertsAccounts, StrangerAccounts
         DEF Next

LEMMA InitAccounts == ASSUME Init PROVE AccountInv
<1>1. /\ DOMAIN world = StorageFields /\ world.nonce = 0 /\ world.trace = <<>>
      /\ stack = <<>> /\ Len(stack) = 0
  BY InitialAssumption DEF Init, InitialAssumption
<1>2. IsSequence(<<>>)
  <2>1. <<>> \in Seq({})  OBVIOUS
  <2> QED  BY <2>1 DEF IsSequence
<1>3. /\ \A n : DoneAt(world, n) = {} /\ OpenAt(stack, 0, n) = {}
      /\ \A id : RefundsAt(world, id) = {}
      /\ Done(world) = {} /\ Cardinality({}) = 0
  BY <1>1, FS_EmptySet DEF DoneAt, OpenAt, RefundsAt, Done, Entries, Range
<1>4. Accounts(world, stack, 0, {})
  <2>1. \A n \in Nat : Cardinality(DoneAt(world, n)) = 0 /\ Cardinality(OpenAt(stack, 0, n)) = 0
    BY <1>3
  <2>2. \A id : Cardinality(RefundsAt(world, id)) = 0  BY <1>3
  <2> QED  BY <1>1, <1>2, <1>3, <2>1, <2>2 DEF Accounts
<1> QED  BY <1>1, <1>2, <1>4 DEF AccountInv

LEMMA AccountsAlways == Spec => []AccountInv
BY InitAccounts, AccountStep, PTL DEF Spec

\* Each nonce below the Safe's is used exactly once, by an execution in the events or by
\* a call that is still open, and none above it is used: whatever calls nest, fail and
\* revert, however deep (Safe.sol:139, the post-increment before everything else).
THEOREM NonceUsedOnceAlways == Spec => []NonceUsedOnce
<1>1. AccountInv => NonceUsedOnce
  <2> SUFFICES ASSUME AccountInv, NEW n \in 0..MaxNonce
               PROVE  Cardinality(DoneAt(world, n))
                        + Cardinality({i \in DOMAIN stack :
                            /\ stack[i].kind = "exec" /\ stack[i].pc # "after"
                            /\ stack[i].id.nonce = n})
                        = IF n < world.nonce THEN 1 ELSE 0
    BY DEF NonceUsedOnce, DoneAt
  <2> DEFINE open == {i \in DOMAIN stack :
                       /\ stack[i].kind = "exec" /\ stack[i].pc # "after"
                       /\ stack[i].id.nonce = n}
             d == Cardinality(DoneAt(world, n))
             a == Cardinality(OpenAt(stack, Len(stack), n))
  <2>1. DOMAIN stack = 1..Len(stack) /\ Len(stack) \in Nat /\ n \in Nat
    BY DEF AccountInv, IsSequence
  <2>2. open = OpenAt(stack, Len(stack), n)  BY <2>1 DEF OpenAt, NonceOf
  <2>3. d + a + 0 = IF n < world.nonce THEN 1 ELSE 0
    BY <2>1 DEF AccountInv, Accounts
  <2>4. d \in Nat /\ a \in Nat
    <3>1. OpenAt(stack, Len(stack), n) \in SUBSET (1..Len(stack))  BY DEF OpenAt
    <3> QED  BY <2>1, <3>1, CountOneMore, TracePositions DEF AccountInv, Accounts
  <2>5. Cardinality(open) = a  BY <2>2
  <2> HIDE DEF open, d, a
  <2>6. d + Cardinality(open) = IF n < world.nonce THEN 1 ELSE 0  BY <2>3, <2>4, <2>5
  <2> QED  BY <2>6 DEF open, d
<1> QED  BY <1>1, AccountsAlways, PTL

\* A transaction with a gas price is refunded exactly once, whether its call succeeded or
\* not, and one without never, although what it executes may be taken back while its
\* event and its nonce stay (Safe.sol:170-184, ISafe.sol:47).
THEOREM RefundedOnceAlways == Spec => []RefundedOnce
<1>1. AccountInv => RefundedOnce
  <2> SUFFICES ASSUME AccountInv, NEW e \in Entries(world), IsExecution(e)
               PROVE  CountOf(world, "refund", e.id)
                        = IF gasPrice[e.id.tx] > 0 THEN 1 ELSE 0
    BY DEF RefundedOnce
  <2>1. e.id \in Done(world)  BY DEF Done
  <2>2. CountOf(world, "refund", e.id) = Cardinality(RefundsAt(world, e.id))
    BY DEF CountOf, RefundsAt
  <2> QED  BY <2>1, <2>2 DEF AccountInv, Accounts, HasPrice
<1> QED  BY <1>1, AccountsAlways, PTL

--------------------------------------------------------------------------------
(* Outcomes, told truly.  In the storage now, and in each that may be      *)
(* restored, what is reported has left all its effects or none, what still *)
(* runs has left those of its calls that are done, and nothing else has    *)
(* left any.  An id belongs to one transaction: the nonce tells those of   *)
(* owners apart, those of modules the depth of the stack while they run    *)
(* and the length of the trace once they are reported.                     *)
Effects(w, id) == CountOf(w, "effect", id)
Outcomes(w) == {e \in Entries(w) : IsOutcome(e)}
Reported(w) == {e.id : e \in Outcomes(w)}

Successes == {"ExecutionSuccess", "ExecutionFromModuleSuccess"}
OutcomeTypes == Successes \cup {"ExecutionFailure", "ExecutionFromModuleFailure"}
Promised(type, id) == IF type \in Successes THEN Len(CallsOf(id)) ELSE 0

Stamped(id, w, last) ==
  IF "tx" \in DOMAIN id THEN id.nonce \in 0..(w.nonce - 1) ELSE id.at \in 0..last

\* The effects that a call of the Safe has left, as long as it is not reported.
Share(id, done) == [id |-> id, done |-> done]
ShareOf(f) ==
  Share(f.id, IF f.pc \in {"check", "execute"} THEN f.at - 1
              ELSE IF f.ok THEN Len(f.ops) ELSE 0)
SharesOf(f) == IF f.kind = "module" \/ f.pc # "after" THEN {ShareOf(f)} ELSE {}
Shares(s, k) == UNION {SharesOf(s[i]) : i \in 1..k}

Told(w, shares) ==
  /\ DOMAIN w = StorageFields /\ w.nonce \in Nat /\ IsSequence(w.trace)
  /\ \A e \in Outcomes(w) :
       Effects(w, e.id) = Promised(e.type, e.id) /\ Stamped(e.id, w, Len(w.trace) - 1)
  /\ \A p \in shares :
       /\ p.id \notin Reported(w) /\ Effects(w, p.id) = p.done
       /\ Stamped(p.id, w, Len(w.trace))
  /\ \A id : id \notin Reported(w) /\ (\A p \in shares : p.id # id) => Effects(w, id) = 0

\* A call of the Safe with k others below it.
WellTold(f, k) ==
  /\ DOMAIN f = FrameFields /\ f.kind \in {"exec", "module"} /\ f.ok \in BOOLEAN
  /\ IsSequence(f.ops) /\ f.ops = CallsOf(f.id)
  /\ f.at \in 1..(Len(f.ops) + 1) /\ (f.pc = "check" => f.at = 1)
  /\ f.kind = "exec" <=> "tx" \in DOMAIN f.id
  /\ f.kind = "module" => f.id.depth = k

OutcomeFrame(s, i) ==
  /\ WellTold(s[i], i - 1)
  /\ \A p \in Shares(s, i - 1) : p.id # s[i].id
  /\ Told(s[i].entry, Shares(s, i - 1))
  /\ s[i].pc = "execute" => Told(s[i].before, Shares(s, i - 1) \cup {Share(s[i].id, 0)})

OutcomeInv ==
  /\ IsSequence(stack)
  /\ Told(world, Shares(stack, Len(stack)))
  /\ \A i \in 1..Len(stack) : OutcomeFrame(stack, i)

\* What a note adds to the effects and to what is reported.
LEMMA NoteTells ==
  ASSUME NEW w, DOMAIN w = StorageFields, IsSequence(w.trace),
         NEW type, NEW id, NEW by
  PROVE  LET v == Note(w, type, id, by)
         IN /\ DOMAIN v = StorageFields /\ v.nonce = w.nonce /\ IsSequence(v.trace)
            /\ Len(w.trace) \in Nat /\ Len(v.trace) = Len(w.trace) + 1
            /\ Outcomes(v) = IF type \in OutcomeTypes
                             THEN Outcomes(w) \cup {Entry(type, id, by)} ELSE Outcomes(w)
            /\ \A i : /\ Effects(w, i) \in Nat
                      /\ Effects(v, i) = Effects(w, i) + IF type = "effect" /\ i = id THEN 1 ELSE 0
<1> DEFINE v == Note(w, type, id, by)
           e == Entry(type, id, by)
           k == Len(w.trace)
           at(u, i) == {j \in DOMAIN u.trace : u.trace[j].type = "effect" /\ u.trace[j].id = i}
<1>1. DOMAIN v = StorageFields /\ v.nonce = w.nonce /\ IsSequence(v.trace)
  BY NoteDone
<1>2. e.type = type /\ e.id = id  BY DEF Entry
<1>3. v.trace = Append(w.trace, e)  BY DEF Note, StorageFields
<1>4. k \in Nat /\ DOMAIN w.trace = 1..k  BY TracePositions
<1>5. /\ Len(v.trace) = k + 1 /\ DOMAIN v.trace = 1..k \cup {k + 1} /\ v.trace[k + 1] = e
      /\ \A i \in 1..k : v.trace[i] = w.trace[i]
      /\ Range(v.trace) = Range(w.trace) \cup {e}
  <2>1. /\ Len(v.trace) = k + 1 /\ v.trace[k + 1] = e
        /\ \A i \in 1..k : v.trace[i] = w.trace[i]
    BY <1>3, AppendIs
  <2>2. DOMAIN v.trace = 1..(k + 1)  BY <1>1, <2>1, TracePositions
  <2>3. 1..(k + 1) = 1..k \cup {k + 1}  BY <1>4
  <2>4. Range(v.trace) = Range(w.trace) \cup {e}  BY <1>3, AppendRange
  <2> QED  BY <2>1, <2>2, <2>3, <2>4
<1> HIDE DEF v, e, k
<1>6. Outcomes(v) = IF type \in OutcomeTypes THEN Outcomes(w) \cup {e} ELSE Outcomes(w)
  <2>1. IsOutcome(e) <=> type \in OutcomeTypes
    BY <1>2 DEF IsOutcome, IsExecution, OutcomeTypes, Successes
  <2> QED  BY <1>5, <2>1 DEF Outcomes, Entries
<1>7. ASSUME NEW i
      PROVE  /\ Effects(w, i) \in Nat
             /\ Effects(v, i) = Effects(w, i) + IF type = "effect" /\ i = id THEN 1 ELSE 0
  <2>1. Effects(w, i) = Cardinality(at(w, i)) /\ Effects(v, i) = Cardinality(at(v, i))
    BY DEF Effects, CountOf
  <2>2. at(w, i) \in SUBSET (1..k)  BY <1>4
  <2>3. at(v, i) = IF type = "effect" /\ i = id THEN at(w, i) \cup {k + 1} ELSE at(w, i)
    BY <1>2, <1>4, <1>5
  <2> DEFINE A == at(w, i)
             B == at(v, i)
  <2>4. A \in SUBSET (1..k) /\ Effects(w, i) = Cardinality(A) /\ Effects(v, i) = Cardinality(B)
    BY <2>1, <2>2
  <2>5. B = IF type = "effect" /\ i = id THEN A \cup {k + 1} ELSE A  BY <2>3
  <2> HIDE DEF A, B
  <2>6. Cardinality(A) \in Nat /\ Cardinality(A \cup {k + 1}) = Cardinality(A) + 1
    BY <1>4, <2>4, CountOneMore
  <2> QED  BY <2>4, <2>5, <2>6
<1> QED  BY <1>1, <1>4, <1>5, <1>6, <1>7 DEF v, e, k

\* Guards' calls, refunds: they tell nothing.
LEMMA NoteTold ==
  ASSUME NEW w, NEW shares, Told(w, shares), NEW type, NEW id, NEW by,
         type \notin OutcomeTypes \cup {"effect"}
  PROVE  Told(Note(w, type, id, by), shares)
<1> DEFINE v == Note(w, type, id, by)
<1>1. DOMAIN w = StorageFields /\ w.nonce \in Nat /\ IsSequence(w.trace)  BY DEF Told
<1>2. /\ DOMAIN v = StorageFields /\ v.nonce = w.nonce /\ IsSequence(v.trace)
      /\ Len(w.trace) \in Nat /\ Len(v.trace) = Len(w.trace) + 1
      /\ Outcomes(v) = Outcomes(w)
      /\ \A i : Effects(v, i) = Effects(w, i)
  <2>1. type # "effect" /\ type \notin OutcomeTypes  OBVIOUS
  <2> QED  BY <1>1, <2>1, NoteTells
<1> HIDE DEF v
<1>3. Reported(v) = Reported(w)  BY <1>2 DEF Reported
<1>4. \A i : /\ Stamped(i, w, Len(w.trace) - 1) => Stamped(i, v, Len(v.trace) - 1)
             /\ Stamped(i, w, Len(w.trace)) => Stamped(i, v, Len(v.trace))
  BY <1>2 DEF Stamped
<1>5. Told(v, shares)  BY <1>1, <1>2, <1>3, <1>4 DEF Told
<1> QED  BY <1>5 DEF v

LEMMA SettingsTold ==
  ASSUME NEW w, NEW shares, Told(w, shares), NEW v,
         DOMAIN v = StorageFields, v.nonce = w.nonce, v.trace = w.trace
  PROVE  Told(v, shares)
<1>1. Outcomes(v) = Outcomes(w) /\ \A i : Effects(v, i) = Effects(w, i)
  BY DEF Outcomes, Entries, Effects, CountOf
<1>2. Reported(v) = Reported(w)  BY <1>1 DEF Reported
<1>3. \A i, n : Stamped(i, v, n) = Stamped(i, w, n)  BY DEF Stamped
<1> QED  BY <1>1, <1>2, <1>3 DEF Told

\* A call of the transaction has left its effect.
LEMMA EffectTold ==
  ASSUME NEW w, NEW shares, NEW id, NEW n \in Nat, Told(w, shares \cup {Share(id, n)}),
         \A p \in shares : p.id # id, NEW by
  PROVE  Told(Note(w, "effect", id, by), shares \cup {Share(id, n + 1)})
<1> DEFINE v == Note(w, "effect", id, by)
           p0 == Share(id, n)
           p1 == Share(id, n + 1)
<1>1. DOMAIN w = StorageFields /\ w.nonce \in Nat /\ IsSequence(w.trace)  BY DEF Told
<1>2. /\ DOMAIN v = StorageFields /\ v.nonce = w.nonce /\ IsSequence(v.trace)
      /\ Len(w.trace) \in Nat /\ Len(v.trace) = Len(w.trace) + 1
      /\ Outcomes(v) = Outcomes(w)
      /\ \A i : i # id => Effects(v, i) = Effects(w, i)
      /\ Effects(v, id) = Effects(w, id) + 1
  <2>1. "effect" \notin OutcomeTypes  BY DEF OutcomeTypes, Successes
  <2> QED  BY <1>1, <2>1, NoteTells
<1> HIDE DEF v
<1>3. Reported(v) = Reported(w)  BY <1>2 DEF Reported
<1>4. \A i : /\ Stamped(i, w, Len(w.trace) - 1) => Stamped(i, v, Len(v.trace) - 1)
             /\ Stamped(i, w, Len(w.trace)) => Stamped(i, v, Len(v.trace))
  BY <1>2 DEF Stamped
<1>5. p0.id = id /\ p0.done = n /\ p1.id = id /\ p1.done = n + 1  BY DEF Share
<1> HIDE DEF p0, p1
<1>6. Told(w, shares \cup {p0})  BY DEF p0
<1>7. /\ id \notin Reported(w) /\ Effects(w, id) = n /\ Stamped(id, w, Len(w.trace))
      /\ \A p \in shares : /\ p.id \notin Reported(w) /\ Effects(w, p.id) = p.done
                           /\ Stamped(p.id, w, Len(w.trace))
  BY <1>5, <1>6 DEF Told
<1>8. \A e \in Outcomes(v) :
        Effects(v, e.id) = Promised(e.type, e.id) /\ Stamped(e.id, v, Len(v.trace) - 1)
  <2> SUFFICES ASSUME NEW e \in Outcomes(w)
               PROVE  /\ Effects(v, e.id) = Promised(e.type, e.id)
                      /\ Stamped(e.id, v, Len(v.trace) - 1)
    BY <1>2
  <2>1. e.id # id  BY <1>7 DEF Reported
  <2> QED  BY <1>2, <1>4, <1>6, <2>1 DEF Told
<1>9. \A p \in shares \cup {p1} :
        /\ p.id \notin Reported(v) /\ Effects(v, p.id) = p.done
        /\ Stamped(p.id, v, Len(v.trace))
  BY <1>2, <1>3, <1>4, <1>5, <1>7
<1>10. ASSUME NEW i, i \notin Reported(v), \A p \in shares \cup {p1} : p.id # i
       PROVE  Effects(v, i) = 0
  <2>1. i # id  BY <1>5, <1>10
  <2>2. \A p \in shares \cup {p0} : p.id # i  BY <1>5, <1>10
  <2> QED  BY <1>2, <1>3, <1>6, <1>10, <2>1, <2>2 DEF Told
<1>11. Told(v, shares \cup {p1})  BY <1>1, <1>2, <1>8, <1>9, <1>10 DEF Told
<1> QED  BY <1>11 DEF v, p1

\* The event reports what the transaction has left.
LEMMA OutcomeTold ==
  ASSUME NEW w, NEW shares, NEW id, NEW n, Told(w, shares \cup {Share(id, n)}),
         \A p \in shares : p.id # id, NEW by, NEW type \in OutcomeTypes,
         n = Promised(type, id)
  PROVE  Told(Note(w, type, id, by), shares)
<1> DEFINE v == Note(w, type, id, by)
           p0 == Share(id, n)
           o == Entry(type, id, by)
<1>1. DOMAIN w = StorageFields /\ w.nonce \in Nat /\ IsSequence(w.trace)  BY DEF Told
<1>2. /\ DOMAIN v = StorageFields /\ v.nonce = w.nonce /\ IsSequence(v.trace)
      /\ Len(w.trace) \in Nat /\ Len(v.trace) = Len(w.trace) + 1
      /\ Outcomes(v) = Outcomes(w) \cup {o}
      /\ \A i : Effects(v, i) = Effects(w, i)
  <2>1. type # "effect"  BY DEF OutcomeTypes, Successes
  <2> QED  BY <1>1, <2>1, NoteTells
<1>3. o.id = id /\ o.type = type /\ p0.id = id /\ p0.done = n  BY DEF Share, Entry
<1> HIDE DEF v, o, p0
<1>4. Reported(v) = Reported(w) \cup {id}  BY <1>2, <1>3 DEF Reported
<1>5. \A i : /\ Stamped(i, w, Len(w.trace) - 1) => Stamped(i, v, Len(v.trace) - 1)
             /\ Stamped(i, w, Len(w.trace))
                  => Stamped(i, v, Len(v.trace)) /\ Stamped(i, v, Len(v.trace) - 1)
  BY <1>2 DEF Stamped
<1>6. Told(w, shares \cup {p0})  BY DEF p0
<1>7. /\ id \notin Reported(w) /\ Effects(w, id) = n /\ Stamped(id, w, Len(w.trace))
      /\ \A p \in shares : /\ p.id \notin Reported(w) /\ Effects(w, p.id) = p.done
                           /\ Stamped(p.id, w, Len(w.trace))
  BY <1>3, <1>6 DEF Told
<1>8. \A e \in Outcomes(v) :
        Effects(v, e.id) = Promised(e.type, e.id) /\ Stamped(e.id, v, Len(v.trace) - 1)
  <2>1. /\ Effects(v, o.id) = Promised(o.type, o.id)
        /\ Stamped(o.id, v, Len(v.trace) - 1)
    BY <1>2, <1>3, <1>5, <1>7
  <2> QED  BY <1>2, <1>5, <1>6, <2>1 DEF Told
<1>9. \A p \in shares :
        /\ p.id \notin Reported(v) /\ Effects(v, p.id) = p.done
        /\ Stamped(p.id, v, Len(v.trace))
  BY <1>2, <1>4, <1>5, <1>7
<1>10. ASSUME NEW i, i \notin Reported(v), \A p \in shares : p.id # i
       PROVE  Effects(v, i) = 0
  <2>1. \A p \in shares \cup {p0} : p.id # i  BY <1>3, <1>4, <1>10
  <2> QED  BY <1>2, <1>4, <1>6, <1>10, <2>1 DEF Told
<1>11. Told(v, shares)  BY <1>1, <1>2, <1>8, <1>9, <1>10 DEF Told
<1> QED  BY <1>11 DEF v

\* A new transaction has left nothing yet.
LEMMA EnterTold ==
  ASSUME NEW w, NEW shares, Told(w, shares), NEW id, id \notin Reported(w),
         \A p \in shares : p.id # id,
         NEW v, DOMAIN v = StorageFields, v.nonce \in Nat, v.nonce >= w.nonce,
         v.trace = w.trace, Stamped(id, v, Len(v.trace))
  PROVE  Told(v, shares \cup {Share(id, 0)})
<1> DEFINE p0 == Share(id, 0)
<1>1. p0.id = id /\ p0.done = 0  BY DEF Share
<1> HIDE DEF p0
<1>2. Outcomes(v) = Outcomes(w) /\ \A i : Effects(v, i) = Effects(w, i)
  BY DEF Outcomes, Entries, Effects, CountOf
<1>3. Reported(v) = Reported(w)  BY <1>2 DEF Reported
<1>4. \A i, n : Stamped(i, w, n) => Stamped(i, v, n)  BY DEF Stamped, Told
<1>5. Effects(w, id) = 0  BY DEF Told
<1>6. \A p \in shares \cup {p0} :
        /\ p.id \notin Reported(v) /\ Effects(v, p.id) = p.done
        /\ Stamped(p.id, v, Len(v.trace))
  BY <1>1, <1>2, <1>3, <1>4, <1>5 DEF Told
<1>7. \A e \in Outcomes(v) :
        Effects(v, e.id) = Promised(e.type, e.id) /\ Stamped(e.id, v, Len(v.trace) - 1)
  BY <1>2, <1>4 DEF Told
<1>8. \A i : i \notin Reported(v) /\ (\A p \in shares \cup {p0} : p.id # i) => Effects(v, i) = 0
  BY <1>2, <1>3 DEF Told
<1>9. Told(v, shares \cup {p0})
  <2>1. IsSequence(v.trace)  BY DEF Told
  <2> QED  BY <1>6, <1>7, <1>8, <2>1 DEF Told
<1> QED  BY <1>9 DEF p0

--------------------------------------------------------------------------------
LEMMA SameShares ==
  ASSUME NEW s, NEW t, NEW k, \A i \in 1..k : t[i] = s[i]
  PROVE  Shares(t, k) = Shares(s, k)
BY DEF Shares

LEMMA OneMoreShare ==
  ASSUME NEW s, NEW k \in Nat
  PROVE  Shares(s, k + 1) = Shares(s, k) \cup SharesOf(s[k + 1])
<1>1. 1..(k + 1) = 1..k \cup {k + 1}  OBVIOUS
<1> QED  BY <1>1 DEF Shares

LEMMA OutcomeFramesStay ==
  ASSUME NEW s, NEW t, NEW k \in Nat, \A i \in 1..k : t[i] = s[i],
         \A i \in 1..k : OutcomeFrame(s, i)
  PROVE  \A i \in 1..k : OutcomeFrame(t, i)
<1> SUFFICES ASSUME NEW i \in 1..k  PROVE OutcomeFrame(t, i)  OBVIOUS
<1>1. \A j \in 1..(i - 1) : t[j] = s[j]  OBVIOUS
<1>2. Shares(t, i - 1) = Shares(s, i - 1)  BY <1>1, SameShares
<1>3. t[i] = s[i] /\ OutcomeFrame(s, i)  OBVIOUS
<1> QED  BY <1>2, <1>3 DEF OutcomeFrame

\* A call that may stand on k others, over the storage w.
ToldTop(f, w, shares, k) ==
  /\ WellTold(f, k) /\ \A p \in shares : p.id # f.id
  /\ Told(f.entry, shares) /\ Told(w, shares \cup SharesOf(f))
  /\ f.pc = "execute" => Told(f.before, shares \cup {Share(f.id, 0)})

LEMMA OutcomePushed ==
  ASSUME NEW s, NEW k \in Nat, NEW f, NEW w, IsSequence(s), Len(s) = k,
         \A i \in 1..k : OutcomeFrame(s, i), stack' = Append(s, f), world' = w,
         ToldTop(f, w, Shares(s, k), k)
  PROVE  OutcomeInv'
<1>1. /\ IsSequence(stack') /\ Len(stack') = k + 1 /\ stack'[k + 1] = f
      /\ \A i \in 1..k : stack'[i] = s[i]
  BY AppendIs
<1>2. \A i \in 1..k : OutcomeFrame(stack', i)  BY <1>1, OutcomeFramesStay
<1>3. Shares(stack', k) = Shares(s, k)  BY <1>1, SameShares
<1>4. Shares(stack', k + 1) = Shares(s, k) \cup SharesOf(f)  BY <1>1, <1>3, OneMoreShare
<1>5. OutcomeFrame(stack', k + 1)
  <2>1. (k + 1) - 1 = k  OBVIOUS
  <2> QED  BY <1>1, <1>3, <2>1 DEF OutcomeFrame, ToldTop
<1>6. \A i \in 1..(k + 1) : i \in 1..k \/ i = k + 1  OBVIOUS
<1>7. Told(w, Shares(stack', k + 1))  BY <1>4 DEF ToldTop
<1> QED  BY <1>1, <1>2, <1>5, <1>6, <1>7 DEF OutcomeInv

LEMMA OutcomeTop ==
  ASSUME OutcomeInv, stack # <<>>
  PROVE  LET k == Len(stack) - 1
         IN /\ k \in Nat /\ k + 1 = Len(stack) /\ IsSequence(Below) /\ Len(Below) = k
            /\ \A i \in 1..k : OutcomeFrame(Below, i)
            /\ Shares(Below, k) = Shares(stack, k)
            /\ ToldTop(Top, world, Shares(stack, k), k)
<1> DEFINE k == Len(stack) - 1
<1>1. /\ k \in Nat /\ Len(stack) = k + 1 /\ IsSequence(Below) /\ Len(Below) = k
      /\ \A i \in 1..k : Below[i] = stack[i]
  BY BelowIs DEF OutcomeInv
<1>2. \A i \in 1..k : OutcomeFrame(stack, i)  BY <1>1 DEF OutcomeInv
<1>3. OutcomeFrame(stack, k + 1) /\ Top = stack[k + 1] /\ (k + 1) - 1 = k
  BY <1>1 DEF OutcomeInv, Top
<1>4. Told(world, Shares(stack, k + 1))  BY <1>1 DEF OutcomeInv
<1> HIDE DEF k
<1>5. \A i \in 1..k : OutcomeFrame(Below, i)  BY <1>1, <1>2, OutcomeFramesStay
<1>6. Shares(Below, k) = Shares(stack, k)  BY <1>1, SameShares
<1>7. Told(world, Shares(stack, k) \cup SharesOf(Top))
  BY <1>1, <1>3, <1>4, OneMoreShare
<1>8. ToldTop(Top, world, Shares(stack, k), k)
  BY <1>3, <1>7 DEF OutcomeFrame, ToldTop
<1> QED  BY <1>1, <1>5, <1>6, <1>8 DEF k

LEMMA OutcomeContinue ==
  ASSUME OutcomeInv, stack # <<>>, NEW f, NEW w, Continue(f, w),
         ToldTop(f, w, Shares(stack, Len(stack) - 1), Len(stack) - 1)
  PROVE  OutcomeInv'
<1> DEFINE k == Len(stack) - 1
<1>1. stack' = Append(Below, f) /\ world' = w  BY DEF Continue
<1>2. /\ k \in Nat /\ IsSequence(Below) /\ Len(Below) = k
      /\ \A i \in 1..k : OutcomeFrame(Below, i)
      /\ Shares(Below, k) = Shares(stack, k)
  BY OutcomeTop
<1>3. ToldTop(f, w, Shares(stack, k), k)  OBVIOUS
<1> HIDE DEF k
<1> QED  BY <1>1, <1>2, <1>3, OutcomePushed

LEMMA OutcomeReturn ==
  ASSUME OutcomeInv, stack # <<>>, NEW w, Return(w),
         Told(w, Shares(stack, Len(stack) - 1))
  PROVE  OutcomeInv'
<1> DEFINE k == Len(stack) - 1
<1>1. /\ IsSequence(Below) /\ Len(Below) = k /\ \A i \in 1..k : OutcomeFrame(Below, i)
      /\ Shares(Below, k) = Shares(stack, k)
  BY OutcomeTop
<1>2. world' = w /\ stack' = Below /\ Told(w, Shares(stack, k))  BY DEF Return
<1> HIDE DEF k
<1> QED  BY <1>1, <1>2 DEF OutcomeInv

--------------------------------------------------------------------------------
LEMMA GuardCallsTold ==
  ASSUME NEW w, NEW shares, Told(w, shares), NEW f
  PROVE  Told(Checked(f, w), shares) /\ Told(AfterChecked(f, w), shares)
<1>1. DOMAIN w = StorageFields /\ IsSequence(w.trace)  BY DEF Told
<1>2. /\ "check" \notin OutcomeTypes \cup {"effect"}
      /\ "after" \notin OutcomeTypes \cup {"effect"}
  BY DEF OutcomeTypes, Successes
<1>3. Told(Note(w, "check", f.id, f.guard), shares)  BY <1>2, NoteTold
<1>4. Told(Note(w, "after", f.id, f.guard), shares)  BY <1>2, NoteTold
<1> QED  BY <1>1, <1>3, <1>4, GuardFieldsOnly, SettingsTold

\* A call that enters, with an id that nothing has.
LEMMA EnterTells ==
  ASSUME OutcomeInv, NEW f, NEW w, Enter(f, w), f.pc = "check", f.entry = world,
         WellTold(f, Len(stack)), f.id \notin Reported(world),
         \A p \in Shares(stack, Len(stack)) : p.id # f.id,
         DOMAIN w = StorageFields, w.nonce \in Nat, w.nonce >= world.nonce,
         w.trace = world.trace, Stamped(f.id, w, Len(w.trace))
  PROVE  OutcomeInv'
<1> DEFINE k == Len(stack)
           S == Shares(stack, k)
           g == [f EXCEPT !.pc = "execute", !.before = w]
<1>1. /\ g.pc = "execute" /\ g.before = w /\ g.entry = world /\ DOMAIN g = FrameFields
      /\ g.kind = f.kind /\ g.id = f.id /\ g.at = f.at /\ g.ok = f.ok /\ g.ops = f.ops
  BY DEF WellTold, FrameFields
<1>2. k \in Nat /\ IsSequence(stack) /\ \A i \in 1..k : OutcomeFrame(stack, i)
  BY AppendIs DEF OutcomeInv
<1>3. Told(world, S)  BY DEF OutcomeInv
<1>4. Told(w, S \cup {Share(f.id, 0)})
  <2> HIDE DEF S
  <2>1. \A p \in S : p.id # f.id  BY DEF S
  <2> QED  BY <1>3, <2>1, EnterTold
<1> HIDE DEF g
<1>5. f.at = 1 /\ SharesOf(f) = {Share(f.id, 0)} /\ SharesOf(g) = {Share(f.id, 0)}
  <2>1. f.at = 1  BY DEF WellTold
  <2>2. f.at - 1 = 0  BY <2>1
  <2> QED  BY <1>1, <2>1, <2>2 DEF SharesOf, ShareOf
<1>6. CASE f.guard = NoGuard
  <2>1. world' = w /\ stack' = Append(stack, g)  BY <1>6 DEF Enter, g
  <2>2. WellTold(g, k)  BY <1>1 DEF WellTold
  <2>3. ToldTop(g, w, S, k)  BY <1>1, <1>3, <1>4, <1>5, <2>2 DEF ToldTop
  <2>4. Len(stack) = k /\ S = Shares(stack, k)  OBVIOUS
  <2> HIDE DEF k, S
  <2> QED  BY <1>2, <2>1, <2>3, <2>4, OutcomePushed
<1>7. CASE f.guard # NoGuard
  <2>1. world' = Checked(f, w) /\ stack' = Append(stack, f)  BY <1>7 DEF Enter
  <2>2. Told(Checked(f, w), S \cup SharesOf(f))
    <3> HIDE DEF S
    <3> QED  BY <1>4, <1>5, GuardCallsTold
  <2>3. ToldTop(f, Checked(f, w), S, k)  BY <1>3, <2>2 DEF ToldTop
  <2>4. Len(stack) = k /\ S = Shares(stack, k)  OBVIOUS
  <2> HIDE DEF k, S
  <2> QED  BY <1>2, <2>1, <2>3, <2>4, OutcomePushed
<1> QED  BY <1>6, <1>7

\* The running calls of the Safe, as their shares tell.
LEMMA SharesAre ==
  ASSUME OutcomeInv, NEW p \in Shares(stack, Len(stack))
  PROVE  /\ Stamped(p.id, world, Len(world.trace)) /\ p.id \notin Reported(world)
         /\ "tx" \notin DOMAIN p.id => p.id.depth \in 0..(Len(stack) - 1)
<1>1. PICK i \in 1..Len(stack) : p \in SharesOf(stack[i])  BY DEF Shares
<1>2. p.id = stack[i].id  BY <1>1 DEF SharesOf, ShareOf, Share
<1>3. WellTold(stack[i], i - 1)  BY DEF OutcomeInv, OutcomeFrame
<1>4. Len(stack) \in Nat  BY AppendIs DEF OutcomeInv
<1>5. "tx" \notin DOMAIN p.id => p.id.depth \in 0..(Len(stack) - 1)
  BY <1>2, <1>3, <1>4 DEF WellTold
<1>6. Stamped(p.id, world, Len(world.trace)) /\ p.id \notin Reported(world)
  BY DEF OutcomeInv, Told
<1> QED  BY <1>5, <1>6

\* Owners' transactions: no other has the nonce.
LEMMA ExecTransactionTells ==
  ASSUME OutcomeInv, NEW tx \in Tx, execTransaction(tx)
  PROVE  OutcomeInv'
<1> DEFINE h == TransactionHash(tx)
           f == Frame("exec", h, Ops[tx], world.guard)
           w == [world EXCEPT !.nonce = @ + 1]
<1>1. Enter(f, w)  BY DEF execTransaction
<1>2. DOMAIN h = {"tx", "nonce"} /\ h.tx = tx /\ h.nonce = world.nonce
  BY DEF TransactionHash
<1>3. /\ f.pc = "check" /\ f.entry = world /\ DOMAIN f = FrameFields /\ f.ok = FALSE
      /\ f.kind = "exec" /\ f.id = h /\ f.ops = Ops[tx] /\ f.at = 1
  BY DEF Frame, FrameFields
<1>4. DOMAIN world = StorageFields /\ world.nonce \in Nat /\ IsSequence(world.trace)
  BY DEF OutcomeInv, Told
<1>5. DOMAIN w = StorageFields /\ w.nonce = world.nonce + 1 /\ w.trace = world.trace
  BY <1>4 DEF StorageFields
<1> HIDE DEF h, f, w
<1>6. WellTold(f, Len(stack))
  <2>1. IsSequence(Ops[tx])  BY CallsAssumption DEF CallsAssumption, IsSequence
  <2>2. CallsOf(h) = Ops[tx]  BY <1>2 DEF CallsOf
  <2>3. Len(Ops[tx]) \in Nat  BY <2>1 DEF IsSequence
  <2>4. f.at \in 1..(Len(f.ops) + 1)  BY <1>3, <2>3
  <2>5. IsSequence(f.ops) /\ f.ops = CallsOf(f.id)  BY <1>3, <2>1, <2>2
  <2> QED  BY <1>2, <1>3, <2>4, <2>5 DEF WellTold
<1>7. h \notin Reported(world)
  <2>1. SUFFICES ASSUME NEW e \in Outcomes(world), e.id = h  PROVE FALSE
    BY DEF Reported
  <2>2. Stamped(h, world, Len(world.trace) - 1)  BY <2>1 DEF OutcomeInv, Told
  <2> QED  BY <1>2, <1>4, <2>2 DEF Stamped
<1>8. ASSUME NEW p \in Shares(stack, Len(stack)), p.id = h  PROVE FALSE
  <2>1. Stamped(h, world, Len(world.trace))  BY <1>8, SharesAre
  <2> QED  BY <1>2, <1>4, <2>1 DEF Stamped
<1>9. Stamped(h, w, Len(w.trace))  BY <1>2, <1>4, <1>5 DEF Stamped
<1>10. w.nonce \in Nat /\ w.nonce >= world.nonce  BY <1>4, <1>5
<1> QED  BY <1>1, <1>3, <1>5, <1>6, <1>7, <1>8, <1>9, <1>10, EnterTells

\* Modules' transactions: no other runs at this depth, and those reported are from an
\* earlier time.
LEMMA ModuleTransactionTells ==
  ASSUME OutcomeInv, NEW m, NEW ops \in ModuleOps, execTransactionFromModule(m, ops)
  PROVE  OutcomeInv'
<1> DEFINE h == ModuleTxHash(m, ops)
           f == Frame("module", h, ops, world.moduleGuard)
<1>1. Enter(f, world)  BY DEF execTransactionFromModule
<1>2. /\ "tx" \notin DOMAIN h /\ h.ops = ops /\ h.at = Len(world.trace)
      /\ h.depth = Len(stack)
  BY DEF ModuleTxHash
<1>3. /\ f.pc = "check" /\ f.entry = world /\ DOMAIN f = FrameFields /\ f.ok = FALSE
      /\ f.kind = "module" /\ f.id = h /\ f.ops = ops /\ f.at = 1
  BY DEF Frame, FrameFields
<1>4. DOMAIN world = StorageFields /\ world.nonce \in Nat /\ IsSequence(world.trace)
  BY DEF OutcomeInv, Told
<1>5. Len(world.trace) \in Nat /\ Len(stack) \in Nat
  BY <1>4, AppendIs DEF OutcomeInv
<1> HIDE DEF h, f
<1>6. WellTold(f, Len(stack))
  <2>1. IsSequence(ops)  BY CallsAssumption DEF CallsAssumption, IsSequence
  <2>2. CallsOf(h) = ops  BY <1>2 DEF CallsOf
  <2>3. Len(ops) \in Nat  BY <2>1 DEF IsSequence
  <2>4. f.at \in 1..(Len(f.ops) + 1)  BY <1>3, <2>3
  <2>5. IsSequence(f.ops) /\ f.ops = CallsOf(f.id)  BY <1>3, <2>1, <2>2
  <2> QED  BY <1>2, <1>3, <2>4, <2>5 DEF WellTold
<1>7. h \notin Reported(world)
  <2>1. SUFFICES ASSUME NEW e \in Outcomes(world), e.id = h  PROVE FALSE
    BY DEF Reported
  <2>2. Stamped(h, world, Len(world.trace) - 1)  BY <2>1 DEF OutcomeInv, Told
  <2> QED  BY <1>2, <1>5, <2>2 DEF Stamped
<1>8. ASSUME NEW p \in Shares(stack, Len(stack)), p.id = h  PROVE FALSE
  <2>1. h.depth \in 0..(Len(stack) - 1)  BY <1>2, <1>8, SharesAre
  <2> QED  BY <1>2, <1>5, <2>1
<1>9. Stamped(h, world, Len(world.trace))  BY <1>2, <1>5 DEF Stamped
<1>10. world.nonce >= world.nonce  BY <1>4
<1> QED  BY <1>1, <1>3, <1>4, <1>6, <1>7, <1>8, <1>9, <1>10, EnterTells

LEMMA GuardApprovesTells == ASSUME OutcomeInv, GuardApproves PROVE OutcomeInv'
<1> DEFINE k == Len(stack) - 1
           S == Shares(stack, k)
           f == [Top EXCEPT !.pc = "execute", !.before = world]
<1>1. stack # <<>> /\ Top.pc = "check" /\ Continue(f, world)  BY DEF GuardApproves
<1>2. ToldTop(Top, world, S, k)  BY <1>1, OutcomeTop
<1>3. /\ DOMAIN f = FrameFields /\ f.kind = Top.kind /\ f.id = Top.id /\ f.ops = Top.ops
      /\ f.entry = Top.entry /\ f.before = world /\ f.pc = "execute"
      /\ f.at = Top.at /\ f.ok = Top.ok
  BY <1>2 DEF ToldTop, WellTold, FrameFields
<1> HIDE DEF f, S
<1>4. Top.at = 1 /\ 1 - 1 = 0  BY <1>1, <1>2 DEF ToldTop, WellTold
<1>5. SharesOf(Top) = {Share(Top.id, 0)} /\ SharesOf(f) = {Share(Top.id, 0)}
  BY <1>1, <1>3, <1>4 DEF SharesOf, ShareOf
<1>6. WellTold(f, k)  BY <1>2, <1>3 DEF ToldTop, WellTold
<1>7. ToldTop(f, world, S, k)  BY <1>2, <1>3, <1>5, <1>6 DEF ToldTop
<1> QED  BY <1>1, <1>7, OutcomeContinue DEF S

LEMMA CallReturnsTells == ASSUME OutcomeInv, CallReturns PROVE OutcomeInv'
<1> DEFINE k == Len(stack) - 1
           S == Shares(stack, k)
           f == [Top EXCEPT !.at = @ + 1]
           v == Apply(Top.ops[Top.at], world)
           w == Note(v, "effect", Top.id, NoGuard)
<1>1. stack # <<>> /\ Top.pc = "execute" /\ Top.at \in DOMAIN Top.ops /\ Continue(f, w)
  BY DEF CallReturns
<1>2. ToldTop(Top, world, S, k)  BY <1>1, OutcomeTop
<1>3. /\ DOMAIN f = FrameFields /\ f.kind = Top.kind /\ f.id = Top.id /\ f.ops = Top.ops
      /\ f.entry = Top.entry /\ f.before = Top.before /\ f.pc = Top.pc
      /\ f.at = Top.at + 1 /\ f.ok = Top.ok
  BY <1>2 DEF ToldTop, WellTold, FrameFields
<1>4. DOMAIN world = StorageFields  BY <1>2 DEF ToldTop, Told
<1>5. DOMAIN v = StorageFields /\ v.nonce = world.nonce /\ v.trace = world.trace
  BY <1>4 DEF Apply, StorageFields
<1> HIDE DEF f, S, v
<1>6. Top.at \in 1..Len(Top.ops) /\ Len(Top.ops) \in Nat
  BY <1>1, <1>2 DEF ToldTop, WellTold, IsSequence
<1>7. Top.at - 1 \in Nat /\ (Top.at - 1) + 1 = Top.at /\ (Top.at + 1) - 1 = Top.at
  BY <1>6
<1>8. SharesOf(Top) = {Share(Top.id, Top.at - 1)} /\ SharesOf(f) = {Share(Top.id, Top.at)}
  BY <1>1, <1>3, <1>7 DEF SharesOf, ShareOf
<1>9. Told(v, S \cup {Share(Top.id, Top.at - 1)})
  <2>1. Told(world, S \cup {Share(Top.id, Top.at - 1)})  BY <1>2, <1>8 DEF ToldTop
  <2> QED  BY <1>5, <2>1, SettingsTold
<1>10. Told(w, S \cup {Share(Top.id, Top.at)})
  <2>1. \A p \in S : p.id # Top.id  BY <1>2 DEF ToldTop
  <2>2. Told(w, S \cup {Share(Top.id, (Top.at - 1) + 1)})
    BY <1>7, <1>9, <2>1, EffectTold
  <2> QED  BY <1>7, <2>2
<1> HIDE DEF w
<1>11. WellTold(f, k)
  <2>1. f.at \in 1..(Len(f.ops) + 1)  BY <1>3, <1>6
  <2> QED  BY <1>1, <1>2, <1>3, <2>1 DEF ToldTop, WellTold
<1>12. ToldTop(f, w, S, k)  BY <1>1, <1>2, <1>3, <1>8, <1>10, <1>11 DEF ToldTop
<1> QED  BY <1>1, <1>12, OutcomeContinue DEF S

\* The event of a call that has left all its effects, or none.
LEMMA EventTells ==
  ASSUME NEW f, NEW k, WellTold(f, k)
  PROVE  /\ EventOf(f) \in OutcomeTypes
         /\ Promised(EventOf(f), f.id) = IF f.ok THEN Len(f.ops) ELSE 0
<1>1. f.kind \in {"exec", "module"} /\ f.ok \in BOOLEAN /\ f.ops = CallsOf(f.id)
  BY DEF WellTold
<1>2. EventOf(f) \in OutcomeTypes /\ (EventOf(f) \in Successes <=> f.ok)
  <2>1. CASE f.ok  BY <1>1, <2>1 DEF EventOf, OutcomeTypes, Successes
  <2>2. CASE ~f.ok  BY <1>1, <2>2 DEF EventOf, OutcomeTypes, Successes
  <2> QED  BY <2>1, <2>2
<1> QED  BY <1>1, <1>2 DEF Promised

LEMMA LoggedTold ==
  ASSUME NEW f, NEW k, WellTold(f, k), NEW w, NEW shares, \A p \in shares : p.id # f.id,
         Told(w, shares \cup {Share(f.id, IF f.ok THEN Len(f.ops) ELSE 0)}), NEW by
  PROVE  Told(Note(w, EventOf(f), f.id, by), shares)
<1> DEFINE n == IF f.ok THEN Len(f.ops) ELSE 0
<1>1. EventOf(f) \in OutcomeTypes /\ n = Promised(EventOf(f), f.id)  BY EventTells
<1>2. Told(w, shares \cup {Share(f.id, n)})  OBVIOUS
<1> HIDE DEF n
<1> QED  BY <1>1, <1>2, OutcomeTold

\* The event is emitted by an owners' transaction that goes on to its guard, or by a
\* call that is over.
LEMMA EmitTells ==
  ASSUME OutcomeInv, stack # <<>>, NEW f, NEW w, Emit(f, w),
         WellTold(f, Len(stack) - 1), f.id = Top.id, f.entry = Top.entry,
         f.kind = "exec" \/ f.guard = NoGuard,
         Told(w, Shares(stack, Len(stack) - 1)
                   \cup {Share(f.id, IF f.ok THEN Len(f.ops) ELSE 0)})
  PROVE  OutcomeInv'
<1> DEFINE k == Len(stack) - 1
           S == Shares(stack, k)
           logged == Note(w, EventOf(f), f.id, NoGuard)
           g == [f EXCEPT !.pc = "after"]
<1>1. ToldTop(Top, world, S, k)  BY OutcomeTop
<1>2. Told(logged, S)
  <2> HIDE DEF S, k
  <2>1. \A p \in S : p.id # f.id  BY <1>1 DEF ToldTop
  <2>2. WellTold(f, k)  BY DEF k
  <2>3. Told(w, S \cup {Share(f.id, IF f.ok THEN Len(f.ops) ELSE 0)})  BY DEF S, k
  <2> QED  BY <2>1, <2>2, <2>3, LoggedTold
<1>3. CASE f.guard = NoGuard
  <2>1. Return(logged)  BY <1>3 DEF Emit
  <2> HIDE DEF logged
  <2> QED  BY <1>2, <2>1, OutcomeReturn
<1>4. CASE f.guard # NoGuard
  <2>1. Continue(g, logged) /\ f.kind = "exec"  BY <1>4 DEF Emit
  <2>2. /\ DOMAIN g = FrameFields /\ g.kind = f.kind /\ g.id = f.id /\ g.ops = f.ops
        /\ g.entry = f.entry /\ g.pc = "after" /\ g.at = f.at /\ g.ok = f.ok
    BY DEF WellTold, FrameFields
  <2> HIDE DEF logged, g, S
  <2>3. SharesOf(g) = {}  BY <2>1, <2>2 DEF SharesOf
  <2>4. S \cup SharesOf(g) = S  BY <2>3
  <2>5. WellTold(g, k)  BY <2>2 DEF WellTold
  <2>6. ToldTop(g, logged, S, k)  BY <1>1, <1>2, <2>2, <2>4, <2>5 DEF ToldTop
  <2> QED  BY <2>1, <2>6, OutcomeContinue DEF S
<1> QED  BY <1>3, <1>4

LEMMA AfterExecutionIs ==
  ASSUME NEW f, NEW w, AfterExecution(f, w), f.kind \in {"exec", "module"}
  PROVE  \/ Emit(f, w) /\ (f.kind = "exec" \/ f.guard = NoGuard)
         \/ Continue([f EXCEPT !.pc = "refund"], w)
         \/ Continue([f EXCEPT !.pc = "after"], w) /\ f.kind = "module"
<1>1. CASE f.kind = "exec" /\ HasPrice(f.id)  BY <1>1 DEF AfterExecution, HasPrice
<1>2. CASE f.kind = "exec" /\ ~HasPrice(f.id)  BY <1>2 DEF AfterExecution, HasPrice
<1>3. CASE f.kind = "module" /\ f.guard = NoGuard  BY <1>3 DEF AfterExecution
<1>4. CASE f.kind = "module" /\ f.guard # NoGuard  BY <1>4 DEF AfterExecution
<1> QED  BY <1>1, <1>2, <1>3, <1>4

\* The execution is over: w holds all its effects, or none.
LEMMA AfterExecutionTells ==
  ASSUME OutcomeInv, stack # <<>>, Top.pc = "execute", NEW ok \in BOOLEAN, NEW w,
         AfterExecution([Top EXCEPT !.ok = ok], w),
         Told(w, Shares(stack, Len(stack) - 1)
                   \cup {Share(Top.id, IF ok THEN Len(Top.ops) ELSE 0)})
  PROVE  OutcomeInv'
<1> DEFINE k == Len(stack) - 1
           S == Shares(stack, k)
           f == [Top EXCEPT !.ok = ok]
           g(pc) == [f EXCEPT !.pc = pc]
           p == Share(Top.id, IF ok THEN Len(Top.ops) ELSE 0)
<1>1. ToldTop(Top, world, S, k)  BY OutcomeTop
<1>2. /\ DOMAIN f = FrameFields /\ f.kind = Top.kind /\ f.id = Top.id /\ f.ops = Top.ops
      /\ f.entry = Top.entry /\ f.at = Top.at /\ f.ok = ok /\ f.pc = "execute"
  BY <1>1 DEF ToldTop, WellTold, FrameFields
<1>3. WellTold(f, k)  BY <1>1, <1>2 DEF ToldTop, WellTold
<1>4. Told(w, S \cup {p})  OBVIOUS
<1>5. ASSUME NEW pc \in {"refund", "after"}, Continue(g(pc), w),
             pc = "after" => f.kind = "module"
      PROVE  OutcomeInv'
  <2> DEFINE h == g(pc)
  <2>1. /\ DOMAIN h = FrameFields /\ h.kind = f.kind /\ h.id = f.id /\ h.ops = f.ops
        /\ h.entry = f.entry /\ h.at = f.at /\ h.ok = f.ok /\ h.pc = pc
    BY <1>2 DEF FrameFields
  <2>2. Continue(h, w)  BY <1>5
  <2> HIDE DEF h, f
  <2>3. SharesOf(h) = {p}  BY <1>2, <1>5, <2>1 DEF SharesOf, ShareOf
  <2>4. WellTold(h, k)  BY <1>3, <2>1 DEF WellTold
  <2> HIDE DEF S, p
  <2>5. ToldTop(h, w, S, k)  BY <1>1, <1>2, <1>4, <2>1, <2>3, <2>4 DEF ToldTop
  <2> QED  BY <2>2, <2>5, OutcomeContinue DEF S
<1>6. \/ Emit(f, w) /\ (f.kind = "exec" \/ f.guard = NoGuard)
      \/ Continue(g("refund"), w)
      \/ Continue(g("after"), w) /\ f.kind = "module"
  <2> HIDE DEF f
  <2>1. AfterExecution(f, w)  BY DEF f
  <2>2. f.kind \in {"exec", "module"}  BY <1>3 DEF WellTold
  <2> QED  BY <2>1, <2>2, AfterExecutionIs
<1>7. CASE Emit(f, w) /\ (f.kind = "exec" \/ f.guard = NoGuard)
  <2> HIDE DEF f
  <2>1. Told(w, S \cup {Share(f.id, IF f.ok THEN Len(f.ops) ELSE 0)})  BY <1>2, <1>4
  <2> QED  BY <1>2, <1>3, <1>7, <2>1, EmitTells
<1> HIDE DEF g, f
<1> QED  BY <1>5, <1>6, <1>7

LEMMA ExecutionTells ==
  ASSUME OutcomeInv, ExecutionSucceeds \/ ExecutionFails
  PROVE  OutcomeInv'
<1> DEFINE k == Len(stack) - 1
           S == Shares(stack, k)
<1>1. stack # <<>> /\ Top.pc = "execute"  BY DEF ExecutionSucceeds, ExecutionFails
<1>2. ToldTop(Top, world, S, k)  BY <1>1, OutcomeTop
<1>3. CASE ExecutionSucceeds
  <2>1. Top.at > Len(Top.ops) /\ AfterExecution([Top EXCEPT !.ok = TRUE], world)
    BY <1>3 DEF ExecutionSucceeds
  <2>2. Len(Top.ops) \in Nat /\ Top.at \in 1..(Len(Top.ops) + 1)
    BY <1>2 DEF ToldTop, WellTold, IsSequence
  <2>3. Top.at - 1 = Len(Top.ops)  BY <2>1, <2>2
  <2>4. SharesOf(Top) = {Share(Top.id, IF TRUE THEN Len(Top.ops) ELSE 0)}
    BY <1>1, <2>3 DEF SharesOf, ShareOf
  <2>5. Told(world, S \cup {Share(Top.id, IF TRUE THEN Len(Top.ops) ELSE 0)})
    BY <1>2, <2>4 DEF ToldTop
  <2> QED  BY <1>1, <2>1, <2>5, AfterExecutionTells
<1>4. CASE ExecutionFails
  <2>1. AfterExecution([Top EXCEPT !.ok = FALSE], Top.before)  BY <1>4 DEF ExecutionFails
  <2>2. Told(Top.before, S \cup {Share(Top.id, IF FALSE THEN Len(Top.ops) ELSE 0)})
    BY <1>1, <1>2 DEF ToldTop
  <2> QED  BY <1>1, <2>1, <2>2, AfterExecutionTells
<1> QED  BY <1>3, <1>4

LEMMA RefundTells == ASSUME OutcomeInv, AccountInv, RefundPaid PROVE OutcomeInv'
<1> DEFINE k == Len(stack) - 1
           S == Shares(stack, k)
           v == Note(world, "refund", Top.id, NoGuard)
           p == Share(Top.id, IF Top.ok THEN Len(Top.ops) ELSE 0)
<1>1. stack # <<>> /\ Top.pc = "refund" /\ Emit(Top, v)  BY DEF RefundPaid
<1>2. ToldTop(Top, world, S, k)  BY <1>1, OutcomeTop
<1>3. Top.kind = "exec"  BY <1>1, AccountTop DEF WellFormed
<1>4. SharesOf(Top) = {p}  BY <1>1 DEF SharesOf, ShareOf
<1>5. Told(v, S \cup {p})
  <2>1. "refund" \notin OutcomeTypes \cup {"effect"}  BY DEF OutcomeTypes, Successes
  <2>2. Told(world, S \cup {p})  BY <1>2, <1>4 DEF ToldTop
  <2> HIDE DEF S, p
  <2> QED  BY <2>1, <2>2, NoteTold
<1>6. WellTold(Top, k)  BY <1>2 DEF ToldTop
<1> HIDE DEF v
<1> QED  BY <1>1, <1>3, <1>5, <1>6, EmitTells

LEMMA GuardAcceptsTells == ASSUME OutcomeInv, GuardAccepts PROVE OutcomeInv'
<1> DEFINE k == Len(stack) - 1
           S == Shares(stack, k)
           w == AfterChecked(Top, world)
           n == Note(w, EventOf(Top), Top.id, NoGuard)
           p == Share(Top.id, IF Top.ok THEN Len(Top.ops) ELSE 0)
<1>1. stack # <<>> /\ Top.pc = "after"  BY DEF GuardAccepts
<1>2. ToldTop(Top, world, S, k)  BY <1>1, OutcomeTop
<1>3. Told(w, S \cup SharesOf(Top))
  <2> HIDE DEF S
  <2> QED  BY <1>2, GuardCallsTold DEF ToldTop
<1>4. CASE Top.kind = "exec"
  <2>1. Return(w)  BY <1>4 DEF GuardAccepts
  <2>2. SharesOf(Top) = {}  BY <1>1, <1>4 DEF SharesOf
  <2>3. S \cup SharesOf(Top) = S  BY <2>2
  <2>4. Told(w, S)
    <3> HIDE DEF S, w
    <3> QED  BY <1>3, <2>3
  <2> HIDE DEF w
  <2> QED  BY <1>1, <2>1, <2>4, OutcomeReturn
<1>5. CASE Top.kind = "module"
  <2>1. Return(n)  BY <1>5 DEF GuardAccepts
  <2>2. SharesOf(Top) = {p}  BY <1>1, <1>5 DEF SharesOf, ShareOf
  <2>3. Told(n, S)
    <3> HIDE DEF S, w, k
    <3>1. Told(w, S \cup {p})  BY <1>3, <2>2
    <3>2. WellTold(Top, k) /\ \A q \in S : q.id # Top.id  BY <1>2 DEF ToldTop
    <3> QED  BY <3>1, <3>2, LoggedTold
  <2> HIDE DEF n
  <2> QED  BY <1>1, <2>1, <2>3, OutcomeReturn
<1> QED  BY <1>2, <1>4, <1>5 DEF ToldTop, WellTold

LEMMA RevertsTells == ASSUME OutcomeInv, Reverts PROVE OutcomeInv'
<1>1. stack # <<>> /\ Return(Top.entry)  BY DEF Reverts
<1>2. Told(Top.entry, Shares(stack, Len(stack) - 1))  BY <1>1, OutcomeTop DEF ToldTop
<1> QED  BY <1>1, <1>2, OutcomeReturn

LEMMA StrangerTells ==
  ASSUME OutcomeInv, strangerChecks \/ strangerAfterChecks
  PROVE  OutcomeInv'
<1>1. Told(world, Shares(stack, Len(stack)))  BY DEF OutcomeInv
<1>2. /\ stack' = stack /\ DOMAIN world' = StorageFields
      /\ world'.nonce = world.nonce /\ world'.trace = world.trace
  BY <1>1, StrangerKeeps DEF Told
<1>3. Told(world', Shares(stack, Len(stack)))  BY <1>1, <1>2, SettingsTold
<1> QED  BY <1>2, <1>3 DEF OutcomeInv

LEMMA OutcomeStep == ASSUME OutcomeInv, AccountInv, [Next]_vars PROVE OutcomeInv'
<1>1. CASE UNCHANGED vars  BY <1>1 DEF vars, OutcomeInv
<1> QED  BY <1>1, ExecTransactionTells, ModuleTransactionTells, GuardApprovesTells,
            CallReturnsTells, ExecutionTells, RefundTells, GuardAcceptsTells, RevertsTells,
            StrangerTells
         DEF Next

LEMMA InitOutcomes == ASSUME Init PROVE OutcomeInv
<1>1. /\ DOMAIN world = StorageFields /\ world.nonce = 0 /\ world.trace = <<>>
      /\ stack = <<>> /\ Len(stack) = 0
  BY InitialAssumption DEF Init, InitialAssumption
<1>2. IsSequence(<<>>)
  <2>1. <<>> \in Seq({})  OBVIOUS
  <2> QED  BY <2>1 DEF IsSequence
<1>3. /\ Outcomes(world) = {} /\ Shares(stack, Len(stack)) = {}
      /\ \A id : Effects(world, id) = 0
  <2>1. DOMAIN <<>> = {} /\ Cardinality({}) = 0  BY FS_EmptySet
  <2>2. \A id : {i \in DOMAIN world.trace : world.trace[i].type = "effect"
                                             /\ world.trace[i].id = id} = {}
    BY <1>1, <2>1
  <2>3. \A id : Effects(world, id) = 0  BY <2>1, <2>2 DEF Effects, CountOf
  <2> QED  BY <1>1, <2>1, <2>3 DEF Outcomes, Entries, Range, Shares
<1>4. Told(world, Shares(stack, Len(stack)))  BY <1>1, <1>2, <1>3 DEF Told
<1> QED  BY <1>1, <1>2, <1>4 DEF OutcomeInv

\* What the events say is true: a success has left an effect for each of its calls, a
\* failure none, and there are effects only of what is reported or still runs, whatever
\* the calls in between did to the Safe, however deep they nest and wherever they revert
\* (Safe.sol:170-189, ModuleManager.sol:106-120).
THEOREM OutcomesAreTrueAlways == Spec => []OutcomesAreTrue
<1>1. OutcomeInv => OutcomesAreTrue
  <2> SUFFICES ASSUME OutcomeInv  PROVE OutcomesAreTrue  OBVIOUS
  <2>1. Told(world, Shares(stack, Len(stack)))  BY DEF OutcomeInv
  <2>2. ASSUME NEW e \in Entries(world), IsOutcome(e)
        PROVE  CountOf(world, "effect", e.id) =
                 IF e.type \in {"ExecutionSuccess", "ExecutionFromModuleSuccess"}
                 THEN Len(CallsOf(e.id)) ELSE 0
    <3>1. e \in Outcomes(world)  BY <2>2 DEF Outcomes
    <3> QED  BY <2>1, <3>1 DEF Told, Effects, Promised, Successes
  <2>3. ASSUME NEW e \in Entries(world), e.type = "effect"
        PROVE  \/ \E f \in Opens : f.id = e.id
               \/ \E o \in Entries(world) : IsOutcome(o) /\ o.id = e.id
    <3>1. Effects(world, e.id) # 0
      <4> DEFINE at == {i \in DOMAIN world.trace :
                          world.trace[i].type = "effect" /\ world.trace[i].id = e.id}
      <4>1. IsSequence(world.trace)  BY <2>1 DEF Told
      <4>2. Len(world.trace) \in Nat /\ DOMAIN world.trace = 1..Len(world.trace)
        BY <4>1, TracePositions
      <4>3. at \in SUBSET (1..Len(world.trace))  BY <4>2
      <4>4. PICK i \in DOMAIN world.trace : world.trace[i] = e  BY DEF Entries, Range
      <4>5. i \in at  BY <2>3, <4>4
      <4>6. IsFiniteSet(at)
        <5>1. IsFiniteSet(1..Len(world.trace))  BY <4>2, FS_Interval
        <5> QED  BY <4>3, <5>1, FS_Subset
      <4>7. Cardinality(at) # 0
        <5> HIDE DEF at
        <5> QED  BY <4>5, <4>6, FS_EmptySet
      <4> QED  BY <4>7 DEF Effects, CountOf
    <3>2. e.id \in Reported(world) \/ \E p \in Shares(stack, Len(stack)) : p.id = e.id
      BY <2>1, <3>1 DEF Told
    <3>3. CASE e.id \in Reported(world)  BY <3>3 DEF Reported, Outcomes
    <3>4. ASSUME NEW p \in Shares(stack, Len(stack)), p.id = e.id
          PROVE  \E f \in Opens : f.id = e.id
      <4>1. PICK i \in 1..Len(stack) : p \in SharesOf(stack[i])  BY DEF Shares
      <4>2. p.id = stack[i].id  BY <4>1 DEF SharesOf, ShareOf, Share
      <4>3. i \in DOMAIN stack  BY <4>1 DEF OutcomeInv, IsSequence
      <4> QED  BY <3>4, <4>2, <4>3 DEF Opens, Range
    <3> QED  BY <3>2, <3>3, <3>4
  <2> QED  BY <2>2, <2>3 DEF OutcomesAreTrue
<1> QED  BY <1>1, InitOutcomes, OutcomeStep, AccountsAlways, PTL DEF Spec

--------------------------------------------------------------------------------
(* The brackets of the guards.  Brackets is a recursive function, defined  *)
(* by CHOOSE: it exists for every trace, and what it says of a trace it    *)
(* says of each that goes on from there.                                   *)
LEMMA LeastElement ==
  ASSUME NEW T \in SUBSET Nat, T # {}
  PROVE  \E x \in T : \A y \in T : x <= y
<1>1. IsWellFoundedOn(OpToRel(<, Nat), Nat)  BY NatLessThanWellFounded
<1>2. PICK x \in T : \A y \in T : ~(<<y, x>> \in OpToRel(<, Nat))
  BY <1>1, WFMin
<1>3. ASSUME NEW y \in T, y < x  PROVE  FALSE
  BY <1>2, <1>3 DEF OpToRel
<1> QED  BY <1>3, SMT

\* f tells what the first 0, 1, .., k entries of t leave open.
Opened(f, t, k) ==
  /\ f = [n \in 0..k |-> f[n]] /\ f[0] = <<>>
  /\ \A n \in 1..k : f[n] = Bracket(f[n - 1], t[n])

LEMMA OpenedAgree ==
  ASSUME NEW k \in Nat, NEW l \in Nat, k <= l, NEW t, NEW u, \A i \in 1..k : t[i] = u[i],
         NEW f, Opened(f, t, k), NEW g, Opened(g, u, l)
  PROVE  \A n \in 0..k : f[n] = g[n]
<1> DEFINE T == {n \in 0..k : f[n] # g[n]}
<1>1. SUFFICES ASSUME T # {}  PROVE FALSE  OBVIOUS
<1>2. T \in SUBSET Nat  OBVIOUS
<1>3. PICK x \in T : \A y \in T : x <= y
  <2> HIDE DEF T
  <2> QED  BY <1>1, <1>2, LeastElement
<1>4. x # 0  BY <1>3 DEF Opened
<1>5. x \in 1..k /\ x \in 1..l /\ x - 1 \in 0..k /\ ~(x <= x - 1)  BY <1>3, <1>4
<1>6. f[x - 1] = g[x - 1]  BY <1>3, <1>5
<1>7. f[x] = Bracket(f[x - 1], t[x]) /\ g[x] = Bracket(g[x - 1], u[x])
  BY <1>5 DEF Opened
<1>8. t[x] = u[x] /\ f[x] # g[x]  BY <1>3, <1>5
<1> QED  BY <1>6, <1>7, <1>8

LEMMA OpenedExists ==
  ASSUME NEW t, NEW k \in Nat
  PROVE  \E f : Opened(f, t, k)
<1> DEFINE T == {n \in Nat : ~\E f : Opened(f, t, n)}
<1>1. SUFFICES ASSUME T # {}  PROVE FALSE  OBVIOUS
<1>2. PICK x \in T : \A y \in T : x <= y
  <2>1. T \in SUBSET Nat  OBVIOUS
  <2> HIDE DEF T
  <2> QED  BY <1>1, <2>1, LeastElement
<1>3. x # 0
  <2> DEFINE f == [n \in 0..0 |-> <<>>]
  <2>1. /\ f = [n \in 0..0 |-> f[n]] /\ f[0] = <<>> /\ 1..0 = {}  OBVIOUS
  <2> HIDE DEF f
  <2>2. Opened(f, t, 0)  BY <2>1 DEF Opened
  <2> QED  BY <1>2, <2>2
<1>4. x \in Nat /\ x - 1 \in Nat /\ ~(x <= x - 1)  BY <1>2, <1>3
<1>5. PICK f : Opened(f, t, x - 1)  BY <1>2, <1>4
<1> DEFINE g == [n \in 0..x |-> IF n = x THEN Bracket(f[x - 1], t[x]) ELSE f[n]]
<1>6. Opened(g, t, x)
  <2>1. g = [n \in 0..x |-> g[n]]  OBVIOUS
  <2>2. \A n \in 0..(x - 1) : n \in 0..x /\ n # x /\ g[n] = f[n]  BY <1>4
  <2>3. g[x] = Bracket(f[x - 1], t[x])  BY <1>4
  <2>4. 0 \in 0..(x - 1) /\ x - 1 \in 0..(x - 1)  BY <1>4
  <2> HIDE DEF g
  <2>5. ASSUME NEW n \in 1..x  PROVE g[n] = Bracket(g[n - 1], t[n])
    <3>1. CASE n = x  BY <2>2, <2>3, <2>4, <3>1
    <3>2. CASE n # x
      <4>1. n \in 1..(x - 1) /\ n \in 0..(x - 1) /\ n - 1 \in 0..(x - 1)  BY <1>4, <3>2
      <4> QED  BY <1>5, <2>2, <4>1 DEF Opened
    <3> QED  BY <3>1, <3>2
  <2>6. g[0] = <<>>  BY <1>5, <2>2, <2>4 DEF Opened
  <2> QED  BY <2>1, <2>5, <2>6 DEF Opened
<1> HIDE DEF g
<1> QED  BY <1>2, <1>6

LEMMA BracketsOpened ==
  ASSUME NEW t, Len(t) \in Nat
  PROVE  Opened(Brackets(t), t, Len(t))
<1> DEFINE k == Len(t)
           Step(f) == [n \in 0..k |-> IF n = 0 THEN <<>> ELSE Bracket(f[n - 1], t[n])]
           open == CHOOSE f : f = Step(f)
<1>1. PICK f : Opened(f, t, k)  BY OpenedExists
<1>2. f = Step(f)
  <2>1. ASSUME NEW n \in 0..k
        PROVE  f[n] = IF n = 0 THEN <<>> ELSE Bracket(f[n - 1], t[n])
    <3>1. n # 0 => n \in 1..k  OBVIOUS
    <3> QED  BY <1>1, <3>1 DEF Opened
  <2>2. f = [n \in 0..k |-> f[n]]  BY <1>1 DEF Opened
  <2> QED  BY <2>1, <2>2
<1>3. open = Step(open)  BY <1>2
<1>4. Brackets(t) = open  BY DEF Brackets
<1> HIDE DEF open
<1>5. /\ open = [n \in 0..k |-> open[n]] /\ open[0] = <<>>
      /\ \A n \in 1..k : open[n] = Bracket(open[n - 1], t[n])
  <2> HIDE DEF k
  <2>1. k \in Nat  BY DEF k
  <2>2. 0 \in 0..k /\ \A n \in 1..k : n \in 0..k /\ n # 0  BY <2>1
  <2> QED  BY <1>3, <2>1, <2>2
<1> QED  BY <1>4, <1>5 DEF Opened

LEMMA UnmatchedEmpty == Unmatched(<<>>) = <<>>
<1>1. Len(<<>>) = 0 /\ 0 \in Nat  OBVIOUS
<1> QED  BY <1>1, BracketsOpened DEF Unmatched, Opened

LEMMA UnmatchedAppend ==
  ASSUME NEW t, NEW e, IsSequence(t)
  PROVE  Unmatched(Append(t, e)) = Bracket(Unmatched(t), e)
<1> DEFINE u == Append(t, e)
           k == Len(t)
<1>1. /\ k \in Nat /\ Len(u) = k + 1 /\ u[k + 1] = e /\ \A i \in 1..k : t[i] = u[i]
  BY AppendIs
<1> HIDE DEF u, k
<1>2. Opened(Brackets(t), t, k)  BY <1>1, BracketsOpened DEF k
<1>3. Opened(Brackets(u), u, k + 1)  BY <1>1, BracketsOpened
<1>4. \A n \in 0..k : Brackets(t)[n] = Brackets(u)[n]
  <2> DEFINE f == Brackets(t)
             g == Brackets(u)
             l == k + 1
  <2>1. l \in Nat /\ k <= l /\ Opened(f, t, k) /\ Opened(g, u, l)  BY <1>1, <1>2, <1>3
  <2> HIDE DEF f, g, l
  <2>2. \A i \in 1..k : t[i] = u[i]  BY <1>1
  <2>3. k \in Nat /\ l \in Nat /\ k <= l  BY <1>1, <2>1
  <2>4. Opened(f, t, k) /\ Opened(g, u, l)  BY <2>1
  <2>5. \A n \in 0..k : f[n] = g[n]  BY <2>2, <2>3, <2>4, OpenedAgree
  <2> QED  BY <2>5 DEF f, g
<1>5. k + 1 \in 1..(k + 1) /\ (k + 1) - 1 = k /\ k \in 0..k  BY <1>1
<1>6. Brackets(u)[k + 1] = Bracket(Brackets(u)[k], u[k + 1])  BY <1>3, <1>5 DEF Opened
<1>7. Unmatched(u) = Brackets(u)[k + 1] /\ Unmatched(t) = Brackets(t)[k]
  BY <1>1 DEF Unmatched, k
<1> QED  BY <1>1, <1>4, <1>5, <1>6, <1>7 DEF u

--------------------------------------------------------------------------------
\* What the checks of the k lowest calls of a stack leave open, and of one more.
Marks(s, k) == Unmatched([i \in 1..k |-> CheckOf(s[i])])
With(open, f) == IF f.guard = NoGuard THEN open ELSE Append(open, Mark(CheckOf(f)))

Leaves(w, open) ==
  /\ DOMAIN w = StorageFields /\ IsSequence(w.trace) /\ IsSequence(open)
  /\ Unmatched(w.trace) = open

\* A call above others whose brackets are open.
BracketTop(f, open) ==
  /\ DOMAIN f = FrameFields /\ (f.pc = "after" => f.guard # NoGuard)
  /\ Leaves(f.entry, open) /\ (f.pc = "execute" => Leaves(f.before, With(open, f)))

BracketInv ==
  /\ IsSequence(stack)
  /\ Leaves(world, Marks(stack, Len(stack)))
  /\ \A i \in 1..Len(stack) : BracketTop(stack[i], Marks(stack, i - 1))

LEMMA SameMarks ==
  ASSUME NEW s, NEW t, NEW k, \A i \in 1..k : t[i] = s[i]
  PROVE  Marks(t, k) = Marks(s, k)
<1>1. [i \in 1..k |-> CheckOf(t[i])] = [i \in 1..k |-> CheckOf(s[i])]  OBVIOUS
<1> QED  BY <1>1 DEF Marks

\* A guarded call opens a bracket.
LEMMA OneMoreMark ==
  ASSUME NEW s, NEW k \in Nat
  PROVE  Marks(s, k + 1) = With(Marks(s, k), s[k + 1])
<1> DEFINE t == [i \in 1..k |-> CheckOf(s[i])]
           u == [i \in 1..(k + 1) |-> CheckOf(s[i])]
           e == CheckOf(s[k + 1])
           S == {CheckOf(s[i]) : i \in 1..(k + 1)}
<1>1. t \in Seq(S) /\ Len(t) = k /\ e \in S  OBVIOUS
<1>2. u = Append(t, e)
  <2>1. u \in Seq(S) /\ Len(u) = k + 1  OBVIOUS
  <2>2. Append(t, e) \in Seq(S) /\ Len(Append(t, e)) = k + 1  BY <1>1
  <2>3. \A i \in 1..(k + 1) : u[i] = Append(t, e)[i]  BY <1>1
  <2> HIDE DEF t, u, e
  <2> QED  BY <2>1, <2>2, <2>3, SeqEqual
<1>3. IsSequence(t)  BY <1>1 DEF IsSequence
<1>4. e.type = (IF s[k + 1].guard = NoGuard THEN "call" ELSE "check")
  BY DEF CheckOf, Entry
<1>5. Unmatched(u) = Bracket(Unmatched(t), e)
  <2> HIDE DEF t, u, e
  <2> QED  BY <1>2, <1>3, UnmatchedAppend
<1> HIDE DEF e
<1>6. Bracket(Unmatched(t), e) = IF s[k + 1].guard = NoGuard THEN Unmatched(t)
                                 ELSE Append(Unmatched(t), Mark(e))
  BY <1>4 DEF Bracket, Closes
<1> QED  BY <1>5, <1>6 DEF Marks, With, e

LEMMA BracketPushed ==
  ASSUME NEW s, NEW k \in Nat, NEW f, NEW w, IsSequence(s), Len(s) = k,
         \A i \in 1..k : BracketTop(s[i], Marks(s, i - 1)),
         stack' = Append(s, f), world' = w,
         BracketTop(f, Marks(s, k)), Leaves(w, With(Marks(s, k), f))
  PROVE  BracketInv'
<1>1. /\ IsSequence(stack') /\ Len(stack') = k + 1 /\ stack'[k + 1] = f
      /\ \A i \in 1..k : stack'[i] = s[i]
  BY AppendIs
<1>2. ASSUME NEW i \in 1..k  PROVE BracketTop(stack'[i], Marks(stack', i - 1))
  <2>1. \A j \in 1..(i - 1) : stack'[j] = s[j]  BY <1>1
  <2>2. Marks(stack', i - 1) = Marks(s, i - 1)  BY <2>1, SameMarks
  <2> QED  BY <1>1, <2>2
<1>3. Marks(stack', k) = Marks(s, k)  BY <1>1, SameMarks
<1>4. Marks(stack', k + 1) = With(Marks(s, k), f)  BY <1>1, <1>3, OneMoreMark
<1>5. \A i \in 1..(k + 1) : i \in 1..k \/ i = k + 1  OBVIOUS
<1>6. (k + 1) - 1 = k  OBVIOUS
<1>7. \A i \in 1..(k + 1) : BracketTop(stack'[i], Marks(stack', i - 1))
  BY <1>1, <1>2, <1>3, <1>5, <1>6
<1>8. Leaves(world', Marks(stack', Len(stack')))  BY <1>1, <1>4
<1> QED  BY <1>1, <1>7, <1>8 DEF BracketInv

LEMMA BracketsTop ==
  ASSUME BracketInv, stack # <<>>
  PROVE  LET k == Len(stack) - 1
         IN /\ k \in Nat /\ k + 1 = Len(stack) /\ IsSequence(Below) /\ Len(Below) = k
            /\ \A i \in 1..k : BracketTop(Below[i], Marks(Below, i - 1))
            /\ Marks(Below, k) = Marks(stack, k)
            /\ BracketTop(Top, Marks(stack, k))
            /\ Leaves(world, With(Marks(stack, k), Top))
<1> DEFINE k == Len(stack) - 1
<1>1. /\ k \in Nat /\ Len(stack) = k + 1 /\ IsSequence(Below) /\ Len(Below) = k
      /\ \A i \in 1..k : Below[i] = stack[i]
  BY BelowIs DEF BracketInv
<1>2. BracketTop(stack[k + 1], Marks(stack, k)) /\ Top = stack[k + 1]
  BY <1>1 DEF BracketInv, Top
<1>3. Leaves(world, Marks(stack, k + 1))  BY <1>1 DEF BracketInv
<1>4. \A i \in 1..k : BracketTop(stack[i], Marks(stack, i - 1))  BY <1>1 DEF BracketInv
<1> HIDE DEF k
<1>5. ASSUME NEW i \in 1..k  PROVE BracketTop(Below[i], Marks(Below, i - 1))
  <2>1. \A j \in 1..(i - 1) : Below[j] = stack[j]  BY <1>1
  <2>2. Marks(Below, i - 1) = Marks(stack, i - 1)  BY <2>1, SameMarks
  <2> QED  BY <1>1, <1>4, <2>2
<1>6. Marks(Below, k) = Marks(stack, k)  BY <1>1, SameMarks
<1>7. Leaves(world, With(Marks(stack, k), Top))  BY <1>1, <1>2, <1>3, OneMoreMark
<1> QED  BY <1>1, <1>2, <1>5, <1>6, <1>7 DEF k

LEMMA BracketContinue ==
  ASSUME BracketInv, stack # <<>>, NEW f, NEW w, Continue(f, w),
         BracketTop(f, Marks(stack, Len(stack) - 1)),
         Leaves(w, With(Marks(stack, Len(stack) - 1), f))
  PROVE  BracketInv'
<1> DEFINE k == Len(stack) - 1
<1>1. stack' = Append(Below, f) /\ world' = w  BY DEF Continue
<1>2. /\ k \in Nat /\ IsSequence(Below) /\ Len(Below) = k
      /\ \A i \in 1..k : BracketTop(Below[i], Marks(Below, i - 1))
      /\ Marks(Below, k) = Marks(stack, k)
  BY BracketsTop
<1>3. BracketTop(f, Marks(stack, k)) /\ Leaves(w, With(Marks(stack, k), f))  OBVIOUS
<1> HIDE DEF k
<1> QED  BY <1>1, <1>2, <1>3, BracketPushed

LEMMA BracketReturn ==
  ASSUME BracketInv, stack # <<>>, NEW w, Return(w),
         Leaves(w, Marks(stack, Len(stack) - 1))
  PROVE  BracketInv'
<1> DEFINE k == Len(stack) - 1
<1>1. /\ IsSequence(Below) /\ Len(Below) = k
      /\ \A i \in 1..k : BracketTop(Below[i], Marks(Below, i - 1))
      /\ Marks(Below, k) = Marks(stack, k)
  BY BracketsTop
<1>2. world' = w /\ stack' = Below /\ Leaves(w, Marks(stack, k))  BY DEF Return
<1> HIDE DEF k
<1> QED  BY <1>1, <1>2 DEF BracketInv

--------------------------------------------------------------------------------
\* Only the checks and the after-checks are brackets.
LEMMA NoteBrackets ==
  ASSUME NEW w, DOMAIN w = StorageFields, IsSequence(w.trace), NEW type, NEW id, NEW by
  PROVE  LET v == Note(w, type, id, by)
         IN /\ DOMAIN v = StorageFields /\ IsSequence(v.trace)
            /\ Unmatched(v.trace) = Bracket(Unmatched(w.trace), Entry(type, id, by))
<1> DEFINE v == Note(w, type, id, by)
           e == Entry(type, id, by)
<1>1. DOMAIN v = StorageFields /\ v.trace = Append(w.trace, e)
  BY DEF Note, StorageFields
<1>2. IsSequence(v.trace)  BY NoteDone
<1> HIDE DEF e, v
<1>3. Unmatched(v.trace) = Bracket(Unmatched(w.trace), e)  BY <1>1, UnmatchedAppend
<1> QED  BY <1>1, <1>2, <1>3 DEF v, e

LEMMA NoteLeaves ==
  ASSUME NEW w, NEW open, Leaves(w, open), NEW type, NEW id, NEW by,
         type \notin {"check", "after"}
  PROVE  Leaves(Note(w, type, id, by), open)
<1> DEFINE v == Note(w, type, id, by)
           e == Entry(type, id, by)
<1>1. /\ DOMAIN v = StorageFields /\ IsSequence(v.trace)
      /\ Unmatched(v.trace) = Bracket(open, e)
  BY NoteBrackets DEF Leaves
<1>2. e.type = type  BY DEF Entry
<1> HIDE DEF v, e
<1>3. Bracket(open, e) = open  BY <1>2 DEF Bracket, Closes
<1>4. Leaves(v, open)  BY <1>1, <1>3 DEF Leaves
<1> QED  BY <1>4 DEF v

LEMMA SettingsLeave ==
  ASSUME NEW w, NEW open, Leaves(w, open), NEW v,
         DOMAIN v = StorageFields, v.trace = w.trace
  PROVE  Leaves(v, open)
BY DEF Leaves

LEMMA CheckLeaves ==
  ASSUME NEW w, NEW open, Leaves(w, open), NEW f, f.guard # NoGuard
  PROVE  Leaves(Checked(f, w), With(open, f))
<1> DEFINE v == Note(w, "check", f.id, f.guard)
           e == Entry("check", f.id, f.guard)
<1>1. /\ DOMAIN v = StorageFields /\ IsSequence(v.trace)
      /\ Unmatched(v.trace) = Bracket(open, e)
  BY NoteBrackets DEF Leaves
<1>2. e = CheckOf(f) /\ e.type = "check"  BY DEF CheckOf, Entry
<1>3. DOMAIN Checked(f, w) = StorageFields /\ Checked(f, w).trace = v.trace
  BY GuardFieldsOnly DEF Leaves
<1> HIDE DEF v, e
<1>4. Bracket(open, e) = Append(open, Mark(e))  BY <1>2 DEF Bracket, Closes
<1>5. IsSequence(Append(open, Mark(e)))
  <2> DEFINE m == Mark(e)
  <2>1. IsSequence(open)  BY DEF Leaves
  <2> HIDE DEF m
  <2>2. IsSequence(Append(open, m))  BY <2>1, AppendIs
  <2> QED  BY <2>2 DEF m
<1>6. With(open, f) = Append(open, Mark(e))  BY <1>2 DEF With
<1> QED  BY <1>1, <1>3, <1>4, <1>5, <1>6 DEF Leaves

\* The after-check closes the bracket that the check of the same call has opened.
LEMMA AfterLeaves ==
  ASSUME NEW w, NEW open, IsSequence(open), NEW f, f.guard # NoGuard,
         Leaves(w, With(open, f))
  PROVE  Leaves(AfterChecked(f, w), open)
<1> DEFINE v == Note(w, "after", f.id, f.guard)
           e == Entry("after", f.id, f.guard)
           m == Mark(CheckOf(f))
           wide == Append(open, m)
<1>1. With(open, f) = wide  BY DEF With
<1>2. /\ DOMAIN v = StorageFields /\ IsSequence(v.trace)
      /\ Unmatched(v.trace) = Bracket(wide, e)
  BY <1>1, NoteBrackets DEF Leaves
<1>3. Mark(e) = m /\ e.type = "after"  BY DEF CheckOf, Entry, Mark
<1>4. DOMAIN AfterChecked(f, w) = StorageFields /\ AfterChecked(f, w).trace = v.trace
  BY GuardFieldsOnly DEF Leaves
<1> HIDE DEF v, e, m
<1>5. wide # <<>> /\ Last(wide) = m /\ Front(wide) = open
  <2>1. PICK S : open \in Seq(S)  BY DEF IsSequence
  <2>2. open \in Seq(S \cup {m}) /\ m \in S \cup {m}  BY <2>1
  <2>3. wide \in Seq(S \cup {m}) /\ Len(wide) = Len(open) + 1 /\ wide[Len(open) + 1] = m
    BY <2>2
  <2>4. wide # <<>> /\ Last(wide) = m  BY <2>2, <2>3 DEF Last
  <2>5. Front(wide) = open
    <3> DEFINE n == Len(open)
    <3>1. Front(wide) = SubSeq(wide, 1, n)
      <4>1. n \in Nat /\ Len(wide) - 1 = n  BY <2>2, <2>3
      <4> HIDE DEF wide
      <4> QED  BY <4>1 DEF Front
    <3>2. SubSeq(wide, 1, n) = open
      <4>1. n \in Nat /\ \A i \in 1..n : wide[i] = open[i]  BY <2>2
      <4>2. /\ 1 \in Int /\ n \in Int /\ \A i \in 1..n : wide[i] \in S \cup {m}
            /\ \A i \in 1..n : 1 + i - 1 = i
            /\ n - 1 + 1 = n /\ (IF 1 <= n THEN n - 1 + 1 ELSE 0) = n
        BY <2>2, <4>1
      <4> HIDE DEF wide, n
      <4>3. /\ SubSeq(wide, 1, n) \in Seq(S \cup {m})
            /\ Len(SubSeq(wide, 1, n)) = IF 1 <= n THEN n - 1 + 1 ELSE 0
            /\ \A i \in 1..(n - 1 + 1) : SubSeq(wide, 1, n)[i] = wide[1 + i - 1]
        BY <4>2, SubSeqProperties
      <4>4. /\ Len(SubSeq(wide, 1, n)) = n
            /\ \A i \in 1..n : SubSeq(wide, 1, n)[i] = open[i]
        BY <4>1, <4>2, <4>3, Zenon
      <4>5. Len(open) = n  BY DEF n
      <4> QED  BY <2>2, <4>3, <4>4, <4>5, SeqEqual
    <3> QED  BY <3>1, <3>2
  <2> QED  BY <2>4, <2>5
<1> HIDE DEF wide
<1>6. Bracket(wide, e) = open  BY <1>3, <1>5 DEF Bracket, Closes
<1> QED  BY <1>2, <1>4, <1>6 DEF Leaves

\* The call goes on with the guard that checked it.
LEMMA SameBrackets ==
  ASSUME NEW f, NEW g, NEW open, f.guard = g.guard, f.id = g.id
  PROVE  With(open, f) = With(open, g)
BY DEF With, CheckOf

LEMMA EnterBrackets ==
  ASSUME BracketInv, NEW f, NEW w, Enter(f, w), f.pc = "check", f.entry = world,
         DOMAIN f = FrameFields, DOMAIN w = StorageFields, w.trace = world.trace
  PROVE  BracketInv'
<1> DEFINE k == Len(stack)
           open == Marks(stack, k)
           g == [f EXCEPT !.pc = "execute", !.before = w]
<1>1. /\ g.before = w /\ g.entry = world /\ DOMAIN g = FrameFields /\ g.guard = f.guard
      /\ g.pc = "execute"
  BY DEF FrameFields
<1>2. /\ k \in Nat /\ IsSequence(stack) /\ Leaves(world, open)
      /\ \A i \in 1..k : BracketTop(stack[i], Marks(stack, i - 1))
  BY AppendIs DEF BracketInv
<1> HIDE DEF open
<1>3. Leaves(w, open)  BY <1>2, SettingsLeave
<1>4. CASE f.guard = NoGuard
  <2>1. world' = w /\ stack' = Append(stack, g)  BY <1>4 DEF Enter
  <2> HIDE DEF g
  <2>2. With(open, g) = open  BY <1>1, <1>4 DEF With
  <2>3. BracketTop(g, open) /\ Leaves(w, With(open, g))
    BY <1>1, <1>2, <1>3, <2>2 DEF BracketTop
  <2>4. Len(stack) = k /\ open = Marks(stack, k)  BY DEF open
  <2> HIDE DEF k
  <2> QED  BY <1>2, <2>1, <2>3, <2>4, BracketPushed
<1>5. CASE f.guard # NoGuard
  <2> DEFINE c == Checked(f, w)
  <2>1. world' = c /\ stack' = Append(stack, f)  BY <1>5 DEF Enter
  <2>2. Leaves(c, With(open, f))  BY <1>3, <1>5, CheckLeaves
  <2>3. BracketTop(f, open)  BY <1>2 DEF BracketTop
  <2>4. Len(stack) = k /\ open = Marks(stack, k)  BY DEF open
  <2> HIDE DEF c, k
  <2> QED  BY <1>2, <2>1, <2>2, <2>3, <2>4, BracketPushed
<1> QED  BY <1>4, <1>5

LEMMA ExecTransactionBrackets ==
  ASSUME BracketInv, NEW tx \in Tx, execTransaction(tx)
  PROVE  BracketInv'
<1> DEFINE f == Frame("exec", TransactionHash(tx), Ops[tx], world.guard)
           w == [world EXCEPT !.nonce = @ + 1]
<1>1. Enter(f, w)  BY DEF execTransaction
<1>2. DOMAIN w = StorageFields /\ w.trace = world.trace
  BY DEF BracketInv, Leaves, StorageFields
<1> HIDE DEF w
<1>3. f.pc = "check" /\ f.entry = world /\ DOMAIN f = FrameFields  BY FrameIs
<1> HIDE DEF f
<1> QED  BY <1>1, <1>2, <1>3, EnterBrackets

LEMMA ModuleTransactionBrackets ==
  ASSUME BracketInv, NEW m, NEW ops, execTransactionFromModule(m, ops)
  PROVE  BracketInv'
<1> DEFINE f == Frame("module", ModuleTxHash(m, ops), ops, world.moduleGuard)
<1>1. Enter(f, world)  BY DEF execTransactionFromModule
<1>2. DOMAIN world = StorageFields  BY DEF BracketInv, Leaves
<1>3. f.pc = "check" /\ f.entry = world /\ DOMAIN f = FrameFields  BY FrameIs
<1> HIDE DEF f
<1> QED  BY <1>1, <1>2, <1>3, EnterBrackets

LEMMA GuardApprovesBrackets == ASSUME BracketInv, GuardApproves PROVE BracketInv'
<1> DEFINE open == Marks(stack, Len(stack) - 1)
           f == [Top EXCEPT !.pc = "execute", !.before = world]
<1>1. stack # <<>> /\ Continue(f, world)  BY DEF GuardApproves
<1>2. BracketTop(Top, open) /\ Leaves(world, With(open, Top))  BY <1>1, BracketsTop
<1>3. /\ DOMAIN f = FrameFields /\ f.entry = Top.entry /\ f.guard = Top.guard
      /\ f.id = Top.id /\ f.before = world /\ f.pc = "execute"
  BY <1>2 DEF BracketTop, FrameFields
<1> HIDE DEF f, open
<1>4. With(open, f) = With(open, Top)  BY <1>3, SameBrackets
<1>5. BracketTop(f, open)  BY <1>2, <1>3, <1>4 DEF BracketTop
<1> QED  BY <1>1, <1>2, <1>4, <1>5, BracketContinue DEF open

LEMMA CallReturnsBrackets == ASSUME BracketInv, CallReturns PROVE BracketInv'
<1> DEFINE open == Marks(stack, Len(stack) - 1)
           f == [Top EXCEPT !.at = @ + 1]
           v == Apply(Top.ops[Top.at], world)
           w == Note(v, "effect", Top.id, NoGuard)
<1>1. stack # <<>> /\ Top.pc = "execute" /\ Continue(f, w)  BY DEF CallReturns
<1>2. BracketTop(Top, open) /\ Leaves(world, With(open, Top))  BY <1>1, BracketsTop
<1>3. /\ DOMAIN f = FrameFields /\ f.entry = Top.entry /\ f.guard = Top.guard
      /\ f.id = Top.id /\ f.before = Top.before /\ f.pc = Top.pc
  BY <1>2 DEF BracketTop, FrameFields
<1>4. DOMAIN v = StorageFields /\ v.trace = world.trace
  BY <1>2 DEF Apply, Leaves, StorageFields
<1> HIDE DEF f, v, open
<1>5. Leaves(v, With(open, Top))  BY <1>2, <1>4, SettingsLeave
<1>6. Leaves(w, With(open, Top))  BY <1>5, NoteLeaves
<1>7. With(open, f) = With(open, Top)  BY <1>3, SameBrackets
<1>8. BracketTop(f, open)  BY <1>1, <1>2, <1>3, <1>7 DEF BracketTop
<1> HIDE DEF w
<1> QED  BY <1>1, <1>6, <1>7, <1>8, BracketContinue DEF open

\* Neither the event nor what comes before it touches the brackets.
LEMMA EmitBrackets ==
  ASSUME BracketInv, stack # <<>>, NEW f, NEW w, Emit(f, w), DOMAIN f = FrameFields,
         f.kind \in {"exec", "module"}, f.entry = Top.entry, f.guard = Top.guard, f.id = Top.id,
         Leaves(w, With(Marks(stack, Len(stack) - 1), Top))
  PROVE  BracketInv'
<1> DEFINE open == Marks(stack, Len(stack) - 1)
           logged == Note(w, EventOf(f), f.id, NoGuard)
           g == [f EXCEPT !.pc = "after"]
<1>1. BracketTop(Top, open)  BY BracketsTop
<1>2. Leaves(logged, With(open, Top))
  <2>1. EventOf(f) \notin {"check", "after"}
    <3>1. CASE f.ok  BY <3>1 DEF EventOf
    <3>2. CASE ~f.ok  BY <3>2 DEF EventOf
    <3> QED  BY <3>1, <3>2
  <2> HIDE DEF open
  <2>2. Leaves(w, With(open, Top))  BY DEF open
  <2> QED  BY <2>1, <2>2, NoteLeaves
<1>3. CASE f.guard = NoGuard
  <2>1. Return(logged)  BY <1>3 DEF Emit
  <2>2. With(open, Top) = open  BY <1>3 DEF With
  <2>3. Leaves(logged, open)
    <3> HIDE DEF logged, open
    <3> QED  BY <1>2, <2>2
  <2> HIDE DEF logged
  <2> QED  BY <2>1, <2>3, BracketReturn
<1>4. CASE f.guard # NoGuard
  <2>1. Continue(g, logged)  BY <1>4 DEF Emit
  <2>2. /\ DOMAIN g = FrameFields /\ g.entry = Top.entry /\ g.guard = Top.guard
        /\ g.id = Top.id /\ g.pc = "after"
    BY DEF FrameFields
  <2> HIDE DEF g, logged, open
  <2>3. With(open, g) = With(open, Top)  BY <2>2, SameBrackets
  <2>4. BracketTop(g, open)  BY <1>1, <1>4, <2>2 DEF BracketTop
  <2> QED  BY <1>2, <2>1, <2>3, <2>4, BracketContinue DEF open
<1> QED  BY <1>3, <1>4

LEMMA AfterExecutionBrackets ==
  ASSUME BracketInv, stack # <<>>, NEW ok \in BOOLEAN, NEW w,
         AfterExecution([Top EXCEPT !.ok = ok], w), Top.kind \in {"exec", "module"},
         Leaves(w, With(Marks(stack, Len(stack) - 1), Top))
  PROVE  BracketInv'
<1> DEFINE open == Marks(stack, Len(stack) - 1)
           f == [Top EXCEPT !.ok = ok]
           r == [f EXCEPT !.pc = "refund"]
           a == [f EXCEPT !.pc = "after"]
<1>1. BracketTop(Top, open)  BY BracketsTop
<1>2. /\ DOMAIN f = FrameFields /\ f.kind = Top.kind /\ f.entry = Top.entry
      /\ f.guard = Top.guard /\ f.id = Top.id
  BY <1>1 DEF BracketTop, FrameFields
<1>3. /\ DOMAIN r = FrameFields /\ r.entry = Top.entry /\ r.guard = Top.guard
      /\ r.id = Top.id /\ r.pc = "refund"
      /\ DOMAIN a = FrameFields /\ a.entry = Top.entry /\ a.guard = Top.guard
      /\ a.id = Top.id /\ a.pc = "after"
  BY <1>2 DEF FrameFields
<1>4. \/ Emit(f, w)
      \/ Continue(r, w)
      \/ Continue(a, w) /\ f.guard # NoGuard
  <2> HIDE DEF f
  <2>1. AfterExecution(f, w) /\ f.kind \in {"exec", "module"}  BY <1>2 DEF f
  <2>2. CASE f.kind = "exec" /\ HasPrice(f.id)  BY <2>1, <2>2 DEF AfterExecution, HasPrice
  <2>3. CASE f.kind = "exec" /\ ~HasPrice(f.id)  BY <2>1, <2>3 DEF AfterExecution, HasPrice
  <2>4. CASE f.kind = "module" /\ f.guard = NoGuard  BY <2>1, <2>4 DEF AfterExecution
  <2>5. CASE f.kind = "module" /\ f.guard # NoGuard  BY <2>1, <2>5 DEF AfterExecution
  <2> QED  BY <2>1, <2>2, <2>3, <2>4, <2>5
<1>5. Leaves(w, With(open, Top))  OBVIOUS
<1> HIDE DEF f, r, a, open
<1>6. CASE Emit(f, w)  BY <1>2, <1>5, <1>6, EmitBrackets DEF open
<1>7. CASE Continue(r, w)
  <2>1. With(open, r) = With(open, Top)  BY <1>3, SameBrackets
  <2>2. BracketTop(r, open)  BY <1>1, <1>3 DEF BracketTop
  <2> QED  BY <1>5, <1>7, <2>1, <2>2, BracketContinue DEF open
<1>8. CASE Continue(a, w) /\ f.guard # NoGuard
  <2>1. With(open, a) = With(open, Top)  BY <1>3, SameBrackets
  <2>2. BracketTop(a, open)  BY <1>1, <1>2, <1>3, <1>8 DEF BracketTop
  <2> QED  BY <1>5, <1>8, <2>1, <2>2, BracketContinue DEF open
<1> QED  BY <1>4, <1>6, <1>7, <1>8

LEMMA ExecutionBrackets ==
  ASSUME BracketInv, AccountInv, ExecutionSucceeds \/ ExecutionFails
  PROVE  BracketInv'
<1>1. stack # <<>> /\ Top.pc = "execute"  BY DEF ExecutionSucceeds, ExecutionFails
<1>2. /\ Leaves(world, With(Marks(stack, Len(stack) - 1), Top))
      /\ Leaves(Top.before, With(Marks(stack, Len(stack) - 1), Top))
  BY <1>1, BracketsTop DEF BracketTop
<1>3. Top.kind \in {"exec", "module"}  BY <1>1, AccountTop DEF WellFormed
<1>4. CASE ExecutionSucceeds
  <2>1. AfterExecution([Top EXCEPT !.ok = TRUE], world)  BY <1>4 DEF ExecutionSucceeds
  <2> QED  BY <1>1, <1>2, <1>3, <2>1, AfterExecutionBrackets
<1>5. CASE ExecutionFails
  <2>1. AfterExecution([Top EXCEPT !.ok = FALSE], Top.before)  BY <1>5 DEF ExecutionFails
  <2> QED  BY <1>1, <1>2, <1>3, <2>1, AfterExecutionBrackets
<1> QED  BY <1>4, <1>5

LEMMA RefundBrackets == ASSUME BracketInv, AccountInv, RefundPaid PROVE BracketInv'
<1> DEFINE open == Marks(stack, Len(stack) - 1)
           v == Note(world, "refund", Top.id, NoGuard)
<1>1. stack # <<>> /\ Emit(Top, v)  BY DEF RefundPaid
<1>2. BracketTop(Top, open) /\ Leaves(world, With(open, Top))  BY <1>1, BracketsTop
<1> HIDE DEF open
<1>3. Leaves(v, With(open, Top))  BY <1>2, NoteLeaves
<1>4. Top.kind \in {"exec", "module"}  BY <1>1, AccountTop DEF WellFormed
<1> HIDE DEF v
<1> QED  BY <1>1, <1>2, <1>3, <1>4, EmitBrackets DEF BracketTop, open

LEMMA GuardAcceptsBrackets ==
  ASSUME BracketInv, AccountInv, GuardAccepts
  PROVE  BracketInv'
<1> DEFINE open == Marks(stack, Len(stack) - 1)
           w == AfterChecked(Top, world)
           n == Note(w, EventOf(Top), Top.id, NoGuard)
<1>1. stack # <<>> /\ Top.pc = "after"  BY DEF GuardAccepts
<1>2. BracketTop(Top, open) /\ Leaves(world, With(open, Top))  BY <1>1, BracketsTop
<1> HIDE DEF open
<1>3. Leaves(w, open)
  <2>1. Top.guard # NoGuard /\ IsSequence(open)  BY <1>1, <1>2 DEF BracketTop, Leaves
  <2> QED  BY <1>2, <2>1, AfterLeaves
<1>4. Top.kind \in {"exec", "module"}  BY <1>1, AccountTop DEF WellFormed
<1>5. CASE Top.kind = "exec"
  <2>1. Return(w)  BY <1>5 DEF GuardAccepts
  <2> HIDE DEF w
  <2> QED  BY <1>1, <1>3, <2>1, BracketReturn DEF open
<1>6. CASE Top.kind = "module"
  <2>1. Return(n)  BY <1>6 DEF GuardAccepts
  <2>2. EventOf(Top) \notin {"check", "after"}
    <3>1. CASE Top.ok  BY <1>6, <3>1 DEF EventOf
    <3>2. CASE ~Top.ok  BY <1>6, <3>2 DEF EventOf
    <3> QED  BY <3>1, <3>2
  <2> HIDE DEF w
  <2>3. Leaves(n, open)  BY <1>3, <2>2, NoteLeaves
  <2> HIDE DEF n
  <2> QED  BY <1>1, <2>1, <2>3, BracketReturn DEF open
<1> QED  BY <1>4, <1>5, <1>6

LEMMA RevertsBrackets == ASSUME BracketInv, Reverts PROVE BracketInv'
<1>1. stack # <<>> /\ Return(Top.entry)  BY DEF Reverts
<1>2. Leaves(Top.entry, Marks(stack, Len(stack) - 1))  BY <1>1, BracketsTop DEF BracketTop
<1> QED  BY <1>1, <1>2, BracketReturn

LEMMA StrangerBrackets ==
  ASSUME BracketInv, strangerChecks \/ strangerAfterChecks
  PROVE  BracketInv'
<1>1. Leaves(world, Marks(stack, Len(stack)))  BY DEF BracketInv
<1>2. /\ stack' = stack /\ DOMAIN world' = StorageFields
      /\ world'.nonce = world.nonce /\ world'.trace = world.trace
  BY <1>1, StrangerKeeps DEF Leaves
<1>3. Leaves(world', Marks(stack, Len(stack)))  BY <1>1, <1>2, SettingsLeave
<1> QED  BY <1>2, <1>3 DEF BracketInv

LEMMA BracketStep == ASSUME BracketInv, AccountInv, [Next]_vars PROVE BracketInv'
<1>1. CASE UNCHANGED vars  BY <1>1 DEF vars, BracketInv
<1> QED  BY <1>1, ExecTransactionBrackets, ModuleTransactionBrackets,
            GuardApprovesBrackets, CallReturnsBrackets, ExecutionBrackets, RefundBrackets,
            GuardAcceptsBrackets, RevertsBrackets, StrangerBrackets
         DEF Next

LEMMA InitBrackets == ASSUME Init PROVE BracketInv
<1>1. /\ DOMAIN world = StorageFields /\ world.trace = <<>>
      /\ stack = <<>> /\ Len(stack) = 0 /\ 1..0 = {}
  BY InitialAssumption DEF Init, InitialAssumption
<1>2. IsSequence(<<>>)
  <2>1. <<>> \in Seq({})  OBVIOUS
  <2> QED  BY <2>1 DEF IsSequence
<1>3. Marks(stack, 0) = <<>>
  <2>1. [i \in 1..0 |-> CheckOf(stack[i])] = <<>>  OBVIOUS
  <2> QED  BY <2>1, UnmatchedEmpty DEF Marks
<1>4. Leaves(world, Marks(stack, 0))  BY <1>1, <1>2, <1>3, UnmatchedEmpty DEF Leaves
<1> QED  BY <1>1, <1>2, <1>4 DEF BracketInv

\* The guards' checks and after-checks are brackets: every guarded call that is not
\* reverted is after-checked by the guard that checked it, in the reverse order, and what
\* is open are the checks of the calls on the stack, although any call in between may
\* replace the guards (Safe.sol:143,187, ModuleManager.sol:97,115).
THEOREM GuardBracketsAlways == Spec => []GuardBrackets
<1>1. BracketInv => GuardBrackets
  <2> SUFFICES ASSUME BracketInv  PROVE GuardBrackets  OBVIOUS
  <2>1. DOMAIN stack = 1..Len(stack)  BY DEF BracketInv, IsSequence
  <2>2. Unmatched(world.trace) = Marks(stack, Len(stack))  BY DEF BracketInv, Leaves
  <2> QED  BY <2>1, <2>2 DEF GuardBrackets, Marks
<1> QED  BY <1>1, InitBrackets, BracketStep, AccountsAlways, PTL DEF Spec
================================================================================
