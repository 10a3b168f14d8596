------------------------------ MODULE SafeL2Proofs -------------------------------
(***************************************************************************)
(* However many transactions nest, fail, revert and exchange the guard,    *)
(* DebugTransactionGuard remembers exactly the ones that it has yet to     *)
(* check again and reports of those that it did, but for what strangers    *)
(* told it since; and the events tell what was executed within what, once  *)
(* each and also after migrations: for every bound on nonces, nesting,     *)
(* events and strangers.                                                   *)
(***************************************************************************)
EXTENDS SafeL2, Functions, FiniteSetTheorems, WellFoundedInduction, TLAPS

StorageFields == {"singleton", "nonce", "guarded", "txNonces", "log"}

StorageOK(s) ==
  /\ DOMAIN s = StorageFields /\ s.nonce \in 0..MaxNonce /\ DOMAIN s.txNonces = 0..MaxNonce
  /\ s.log \in Seq(Range(s.log))

\* A storage may go with the lowest d frames of a stack: they hold lower nonces, and the
\* guard remembers those that it checked.
Fits(s, k, d) ==
  /\ StorageOK(s)
  /\ \A i \in 1..d : k[i].nonce < s.nonce
  /\ \A tx \in 0..MaxNonce : Remembers(s, tx, Under(k, d, tx))

\* What a revert and what a failure restore fits the stack they return to.
FrameOK(k, i) ==
  /\ k[i].nonce \in Int
  /\ k[i].guarded => k[i].nonce \in 0..MaxNonce /\ \A j \in 1..(i - 1) : k[j].nonce < k[i].nonce
  /\ Fits(k[i].entry, k, i - 1) /\ Fits(k[i].before, k, i)

StackOK(k) == k \in Seq(Range(k)) /\ \A i \in 1..Len(k) : FrameOK(k, i)

IndInv == StackOK(stack) /\ Fits(safe, stack, Len(stack))

--------------------------------------------------------------------------------
\* A stack with one frame more.
LEMMA Pushed ==
  ASSUME NEW k, k \in Seq(Range(k)), NEW e
  PROVE  /\ Append(k, e) \in Seq(Range(Append(k, e)))
         /\ Len(k) \in Nat /\ Len(Append(k, e)) = Len(k) + 1
         /\ \A i \in 1..Len(k) : Append(k, e)[i] = k[i]
         /\ Append(k, e)[Len(k) + 1] = e
<1> DEFINE new == Append(k, e)
<1>1. /\ Len(k) \in Nat /\ DOMAIN k = 1..Len(k)
      /\ DOMAIN new = 1..(Len(k) + 1) /\ Len(new) = Len(k) + 1
      /\ \A i \in 1..Len(k) : new[i] = k[i]
      /\ new[Len(k) + 1] = e
      /\ new \in Seq(Range(k) \cup {e})
  <2>1. k \in Seq(Range(k) \cup {e})  BY DEF Range
  <2> QED  BY <2>1
<1>2. Range(new) = Range(k) \cup {e}
  <2> HIDE DEF new
  <2> QED  BY <1>1 DEF Range
<1>3. new \in Seq(Range(new))  BY <1>1, <1>2
<1> QED  BY <1>1, <1>3

\* A stack without its top.
LEMMA Popped ==
  ASSUME NEW k, k \in Seq(Range(k)), k # <<>>
  PROVE  LET p == SubSeq(k, 1, Len(k) - 1)
         IN /\ p \in Seq(Range(p))
            /\ Len(k) \in Nat /\ Len(k) >= 1 /\ Len(p) = Len(k) - 1
            /\ \A i \in 1..(Len(k) - 1) : p[i] = k[i]
<1> DEFINE p == SubSeq(k, 1, Len(k) - 1)
<1>1. Len(k) \in Nat /\ Len(k) >= 1 /\ DOMAIN k = 1..Len(k)  OBVIOUS
<1>2. /\ Len(p) = Len(k) - 1 /\ DOMAIN p = 1..(Len(k) - 1)
      /\ \A i \in 1..(Len(k) - 1) : p[i] = k[i]
      /\ p = [i \in 1..(Len(k) - 1) |-> p[i]]
  BY <1>1
<1>3. p \in Seq(Range(p))
  <2> HIDE DEF p
  <2>1. \A i \in 1..(Len(k) - 1) : p[i] \in Range(p)  BY <1>2 DEF Range
  <2> QED  BY <1>1, <1>2, <2>1
<1> QED  BY <1>1, <1>2, <1>3

\* One event more.
LEMMA Logged ==
  ASSUME NEW s, DOMAIN s = StorageFields, s.log \in Seq(Range(s.log)), NEW e
  PROVE  LET t == Emit(s, e).log
             n == Len(s.log) + 1
         IN /\ t \in Seq(Range(t)) /\ n \in Nat /\ n >= 1
            /\ DOMAIN s.log = 1..(n - 1) /\ DOMAIN t = 1..n
            /\ \A i \in 1..(n - 1) : t[i] = s.log[i]
            /\ t[n] = e
            /\ Emit(s, e).singleton = s.singleton
            /\ Emit(s, e).nonce = s.nonce
<1> DEFINE t == Emit(s, e).log
<1>1. t = Append(s.log, e) /\ Emit(s, e).singleton = s.singleton /\ Emit(s, e).nonce = s.nonce
  BY DEF Emit, StorageFields
<1> HIDE DEF t
<1>2. /\ t \in Seq(Range(t)) /\ Len(s.log) \in Nat /\ Len(t) = Len(s.log) + 1
      /\ \A i \in 1..Len(s.log) : t[i] = s.log[i]
      /\ t[Len(s.log) + 1] = e
  BY <1>1, Pushed
<1>3. DOMAIN s.log = 1..Len(s.log) /\ DOMAIN t = 1..Len(t)  BY <1>2
<1> QED  BY <1>2, <1>3, <1>1 DEF t

\* What the guard remembers, if one more event is no call of a hook.
LEMMA NoHook ==
  ASSUME NEW s, DOMAIN s = StorageFields, s.log \in Seq(Range(s.log)), NEW e, NEW tx,
         ~IsHook(e, tx), NEW u, Remembers(s, tx, u)
  PROVE  Remembers(Emit(s, e), tx, u)
<1> DEFINE t == Emit(s, e).log
           n == Len(s.log) + 1
           Words == {p \in DOMAIN s.log : StrangersWord(s.log, p, tx, Len(s.log) + 1)}
           NewWords == {p \in DOMAIN t : StrangersWord(t, p, tx, Len(t) + 1)}
<1>1. /\ n \in Nat /\ n >= 1 /\ DOMAIN s.log = 1..(n - 1) /\ DOMAIN t = 1..n
      /\ \A i \in 1..(n - 1) : t[i] = s.log[i]
      /\ t[n] = e /\ t \in Seq(Range(t))
  BY Logged
<1>2. Len(t) = n /\ Len(s.log) = n - 1  BY <1>1
<1>3. Emit(s, e).txNonces = s.txNonces  BY DEF Emit, StorageFields
<1>4. ASSUME NEW p \in DOMAIN s.log, StrangersWord(s.log, p, tx, n)
      PROVE  p \in DOMAIN t /\ StrangersWord(t, p, tx, n + 1) /\ t[p] = s.log[p]
  <2> HIDE DEF t, n
  <2> QED  BY <1>1, <1>4 DEF StrangersWord
<1>5. ASSUME NEW p \in DOMAIN t, StrangersWord(t, p, tx, n + 1)
      PROVE  p \in DOMAIN s.log /\ StrangersWord(s.log, p, tx, n)
  <2> HIDE DEF t, n
  <2>1. p # n  BY <1>1, <1>5 DEF StrangersWord
  <2> QED  BY <1>1, <1>5, <2>1 DEF StrangersWord
<1>6. \A p \in Words : p \in NewWords /\ t[p] = s.log[p]  BY <1>2, <1>4
<1>7. NewWords \subseteq Words  BY <1>2, <1>5
<1>8. \/ \E p \in Words : s.txNonces[tx] = Left(s.log[p])
      \/ Words = {} /\ s.txNonces[tx] = IF u THEN tx ELSE 0
  BY DEF Remembers
<1>9. \/ \E p \in NewWords : Emit(s, e).txNonces[tx] = Left(t[p])
      \/ NewWords = {} /\ Emit(s, e).txNonces[tx] = IF u THEN tx ELSE 0
  <2> HIDE DEF Words, NewWords, t, n
  <2>1. CASE \E p \in Words : s.txNonces[tx] = Left(s.log[p])
    <3>1. PICK p \in Words : s.txNonces[tx] = Left(s.log[p])  BY <2>1
    <3>2. p \in NewWords /\ t[p] = s.log[p]  BY <1>6
    <3> QED  BY <1>3, <3>1, <3>2
  <2>2. CASE Words = {} /\ s.txNonces[tx] = IF u THEN tx ELSE 0  BY <1>3, <1>7, <2>2
  <2> QED  BY <1>8, <2>1, <2>2
<1> QED  BY <1>9 DEF Remembers

\* What it remembers once the Safe, or a stranger, called a hook.
LEMMA OwnHook ==
  ASSUME NEW r, DOMAIN r = StorageFields, r.log \in Seq(Range(r.log)), NEW tx,
         NEW e, IsHook(e, tx), e.by = "Safe", NEW u, r.txNonces[tx] = IF u THEN tx ELSE 0
  PROVE  Remembers(Emit(r, e), tx, u)
<1> DEFINE t == Emit(r, e).log
           n == Len(r.log) + 1
<1>1. n \in Nat /\ n >= 1 /\ DOMAIN t = 1..n /\ t[n] = e /\ t \in Seq(Range(t))  BY Logged
<1>2. Len(t) = n  BY <1>1
<1>3. Emit(r, e).txNonces = r.txNonces  BY DEF Emit, StorageFields
<1> HIDE DEF n
<1>4. ASSUME NEW p \in DOMAIN t, StrangersWord(t, p, tx, n + 1)  PROVE FALSE
  <2> HIDE DEF t
  <2>1. p # n  BY <1>1, <1>4 DEF StrangersWord
  <2> QED  BY <1>1, <1>4, <2>1 DEF StrangersWord
<1> QED  BY <1>2, <1>3, <1>4 DEF Remembers

LEMMA StrangersHook ==
  ASSUME NEW r, DOMAIN r = StorageFields, r.log \in Seq(Range(r.log)), NEW tx,
         NEW e, IsHook(e, tx), e.by = "stranger", r.txNonces[tx] = Left(e), NEW u
  PROVE  Remembers(Emit(r, e), tx, u)
<1> DEFINE t == Emit(r, e).log
           n == Len(r.log) + 1
<1>1. n \in Nat /\ n >= 1 /\ DOMAIN t = 1..n /\ t[n] = e /\ t \in Seq(Range(t))  BY Logged
<1>2. Len(t) = n  BY <1>1
<1>3. Emit(r, e).txNonces = r.txNonces  BY DEF Emit, StorageFields
<1> HIDE DEF n
<1>4. n \in DOMAIN t /\ StrangersWord(t, n, tx, n + 1)
  <2> HIDE DEF t
  <2> QED  BY <1>1 DEF StrangersWord
<1> QED  BY <1>1, <1>2, <1>3, <1>4 DEF Remembers

\* Only the frames up to d matter.
LEMMA SamePrefix ==
  ASSUME NEW s, NEW k, NEW h, NEW d \in Nat, \A i \in 1..d : h[i] = k[i], Fits(s, k, d)
  PROVE  Fits(s, h, d)
BY DEF Fits, Under

LEMMA SameFrame ==
  ASSUME NEW k, NEW h, NEW i \in Nat, i >= 1, \A j \in 1..i : h[j] = k[j], FrameOK(k, i)
  PROVE  FrameOK(h, i)
<1>1. h[i] = k[i] /\ i - 1 \in Nat /\ \A j \in 1..(i - 1) : h[j] = k[j]  OBVIOUS
<1>2. Fits(k[i].entry, h, i - 1) /\ Fits(k[i].before, h, i)
  BY <1>1, SamePrefix DEF FrameOK
<1> QED  BY <1>1, <1>2 DEF FrameOK

\* The singleton and the guard do not matter, nor do events that are no calls of hooks.
LEMMA SameStorage ==
  ASSUME NEW s, NEW t, NEW k, NEW d, Fits(s, k, d), DOMAIN t = StorageFields,
         t.nonce = s.nonce, t.txNonces = s.txNonces, t.log = s.log
  PROVE  Fits(t, k, d)
BY DEF Fits, StorageOK, Remembers

LEMMA EmitKeeps ==
  ASSUME NEW s, DOMAIN s = StorageFields, NEW e
  PROVE  /\ DOMAIN Emit(s, e) = StorageFields
         /\ Emit(s, e).nonce = s.nonce /\ Emit(s, e).txNonces = s.txNonces
         /\ Emit(s, e).guarded = s.guarded
BY DEF Emit, StorageFields

LEMMA EmitOK ==
  ASSUME NEW s, StorageOK(s), NEW e
  PROVE  StorageOK(Emit(s, e)) /\ Emit(s, e).nonce = s.nonce
BY EmitKeeps, Logged DEF StorageOK

LEMMA EmitFits ==
  ASSUME NEW s, NEW k, NEW d, Fits(s, k, d), NEW e, \A tx \in 0..MaxNonce : ~IsHook(e, tx)
  PROVE  Fits(Emit(s, e), k, d)
<1>1. StorageOK(Emit(s, e)) /\ Emit(s, e).nonce = s.nonce  BY EmitOK DEF Fits
<1>2. \A tx \in 0..MaxNonce : Remembers(Emit(s, e), tx, Under(k, d, tx))
  BY NoHook DEF Fits, StorageOK
<1> QED  BY <1>1, <1>2 DEF Fits

--------------------------------------------------------------------------------
LEMMA InitOK == ASSUME Init PROVE IndInv
<1>1. stack = <<>> /\ Len(stack) = 0  BY DEF Init
<1>2. StackOK(stack)  BY <1>1 DEF StackOK
<1>3. /\ DOMAIN safe = StorageFields /\ safe.nonce = 0 /\ safe.log = <<>>
      /\ safe.txNonces = [n \in 0..MaxNonce |-> 0]
  BY DEF Init, StorageFields
<1>4. safe.log \in Seq(Range(safe.log)) /\ DOMAIN safe.log = {}
  <2>1. <<>> \in Seq(Range(<<>>)) /\ DOMAIN <<>> = {}  OBVIOUS
  <2> QED  BY <1>3, <2>1
<1>5. \A tx \in 0..MaxNonce : Remembers(safe, tx, Under(stack, 0, tx))
  BY <1>3, <1>4 DEF Remembers, Under
<1>6. Fits(safe, stack, 0)
  BY <1>3, <1>4, <1>5, BoundAssumption DEF Fits, StorageOK, BoundAssumption
<1> QED  BY <1>1, <1>2, <1>6 DEF IndInv

\* A transaction or a module's execution begins.
LEMMA PushOK ==
  ASSUME IndInv, NEW n \in Int, NEW g, NEW b, Push(n, g, b),
         g => n = safe.nonce, n < b.nonce, safe.nonce <= b.nonce, StorageOK(b),
         \A tx \in 0..MaxNonce :
           Remembers(b, tx, Under(stack, Len(stack), tx) \/ (g /\ n = tx))
  PROVE  IndInv'
<1> DEFINE frame == [nonce |-> n, guarded |-> g, l2 |-> safe.singleton.l2, entry |-> safe,
                     before |-> b]
           top == Len(stack) + 1
<1>1. safe' = b /\ stack' = Append(stack, frame)  BY DEF Push
<1>2. /\ frame.nonce = n /\ (frame.guarded <=> g) /\ frame.entry = safe
      /\ frame.before = b
  OBVIOUS
<1> HIDE DEF frame
<1>3. /\ stack' \in Seq(Range(stack')) /\ Len(stack) \in Nat /\ Len(stack') = top
      /\ \A i \in 1..Len(stack) : stack'[i] = stack[i]
      /\ stack'[top] = frame
  BY <1>1, Pushed DEF IndInv, StackOK
<1>4. \A i \in 1..Len(stack) : FrameOK(stack', i)
  BY <1>3, SameFrame DEF IndInv, StackOK
<1>5. Fits(safe, stack', Len(stack))  BY <1>3, SamePrefix DEF IndInv
<1>6. safe.nonce \in 0..MaxNonce /\ MaxNonce \in Nat
  BY BoundAssumption DEF IndInv, Fits, StorageOK, BoundAssumption
<1>7. \A i \in 1..top : stack'[i].nonce < b.nonce
  <2>1. \A i \in 1..Len(stack) : stack'[i].nonce \in Int /\ stack'[i].nonce < safe.nonce
    BY <1>4, <1>5 DEF FrameOK, Fits
  <2> QED  BY <1>2, <1>3, <1>6, <2>1 DEF StorageOK
<1>8. ASSUME NEW tx \in 0..MaxNonce  PROVE Remembers(b, tx, Under(stack', top, tx))
  <2>1. \A i \in 1..top : i \in 1..Len(stack) \/ i = top  BY <1>3
  <2>2. Under(stack', top, tx) <=> Under(stack, Len(stack), tx) \/ (g /\ n = tx)
    BY <1>2, <1>3, <2>1 DEF Under
  <2> QED  BY <2>2 DEF Remembers
<1>9. Fits(b, stack', top)  BY <1>7, <1>8 DEF Fits
<1>10. FrameOK(stack', top)
  <2>1. top - 1 = Len(stack)  BY <1>3
  <2>2. g => \A i \in 1..Len(stack) : stack'[i].nonce < n  BY <1>5 DEF Fits
  <2> QED  BY <1>2, <1>3, <1>5, <1>6, <1>9, <2>1, <2>2 DEF FrameOK
<1>11. StackOK(stack')
  <2>1. \A i \in 1..top : i \in 1..Len(stack) \/ i = top  BY <1>3
  <2> QED  BY <1>3, <1>4, <1>10, <2>1 DEF StackOK
<1> QED  BY <1>1, <1>3, <1>9, <1>11 DEF IndInv

\* The top of the stack is done with.
LEMMA PopOK ==
  ASSUME IndInv, stack # <<>>, stack' = Below, Fits(safe', stack, Len(stack) - 1)
  PROVE  IndInv'
<1>1. /\ stack' \in Seq(Range(stack'))
      /\ Len(stack) \in Nat /\ Len(stack) >= 1 /\ Len(stack') = Len(stack) - 1
      /\ \A i \in 1..(Len(stack) - 1) : stack'[i] = stack[i]
  BY Popped DEF IndInv, StackOK, Below
<1>2. ASSUME NEW i \in 1..Len(stack')  PROVE FrameOK(stack', i)
  BY <1>1, SameFrame DEF IndInv, StackOK
<1>3. Fits(safe', stack', Len(stack'))  BY <1>1, SamePrefix
<1> QED  BY <1>1, <1>2, <1>3 DEF IndInv, StackOK

\* The end of an execution: if the guard checks again it forgets the nonce.
LEMMA FinishedOK ==
  ASSUME IndInv, stack # <<>>, NEW s, Fits(s, stack, Len(stack)), Finished(s)
  PROVE  Fits(safe', stack, Len(stack) - 1)
<1> DEFINE top == Len(stack)
<1>1. top \in Nat /\ top >= 1  BY DEF IndInv, StackOK
<1>2. FrameOK(stack, top) /\ stack[top] = Top  BY <1>1 DEF IndInv, StackOK, Top
<1>3. \A i \in 1..top : i \in 1..(top - 1) \/ i = top  BY <1>1
<1>4. \A i \in 1..(top - 1) : i \in 1..top  BY <1>1
<1> HIDE DEF top
<1>5. CASE ~Top.guarded
  <2>1. safe' = s  BY <1>5 DEF Finished, AfterCheck
  <2>2. \A tx \in 0..MaxNonce : Under(stack, top, tx) <=> Under(stack, top - 1, tx)
    BY <1>2, <1>3, <1>4, <1>5 DEF Under
  <2>3. Fits(s, stack, top - 1)  BY <1>4, <2>2 DEF Fits, Remembers, top
  <2> QED  BY <2>1, <2>3 DEF top
<1>6. CASE Top.guarded
  <2> DEFINE event == Told("GasUsage", Top.nonce, s.txNonces[Top.nonce], "Safe")
             t == [s EXCEPT !.txNonces[Top.nonce] = 0]
  <2>1. safe' = Emit(t, event)
    BY <1>6 DEF Finished, AfterCheck, checkAfterExecution
  <2>2. /\ Top.nonce \in 0..MaxNonce
        /\ \A i \in 1..(top - 1) : stack[i].nonce < Top.nonce
    BY <1>2, <1>6 DEF FrameOK
  <2>3. StorageOK(s)  BY DEF Fits
  <2>4. /\ DOMAIN t = StorageFields /\ t.nonce = s.nonce /\ t.log = s.log
        /\ DOMAIN t.txNonces = 0..MaxNonce
        /\ \A tx \in 0..MaxNonce :
             t.txNonces[tx] = IF tx = Top.nonce THEN 0 ELSE s.txNonces[tx]
    BY <2>2, <2>3 DEF StorageOK, StorageFields
  <2>5. /\ IsHook(event, Top.nonce) /\ event.by = "Safe"
        /\ \A tx : tx # Top.nonce => ~IsHook(event, tx)
    BY DEF IsHook, Told
  <2> HIDE DEF t, event
  <2>6. StorageOK(t)  BY <2>3, <2>4 DEF StorageOK
  <2>7. ASSUME NEW tx \in 0..MaxNonce
        PROVE  Remembers(Emit(t, event), tx, Under(stack, top - 1, tx))
    <3>1. CASE tx = Top.nonce
      <4>1. \A i \in 1..top : stack[i].nonce \in Int  BY DEF IndInv, StackOK, FrameOK, top
      <4>2. ~Under(stack, top - 1, tx)  BY <1>4, <2>2, <3>1, <4>1 DEF Under
      <4> QED  BY <2>4, <2>5, <2>6, <3>1, <4>2, OwnHook DEF StorageOK
    <3>2. CASE tx # Top.nonce
      <4>1. Under(stack, top, tx) <=> Under(stack, top - 1, tx)
        BY <1>2, <1>3, <1>4, <3>2 DEF Under
      <4>2. Remembers(t, tx, Under(stack, top - 1, tx))
        BY <2>4, <3>2, <4>1 DEF Fits, Remembers, top
      <4> QED  BY <2>5, <2>6, <3>2, <4>2, NoHook DEF StorageOK
    <3> QED  BY <3>1, <3>2
  <2>8. StorageOK(Emit(t, event)) /\ Emit(t, event).nonce = s.nonce  BY <2>4, <2>6, EmitOK
  <2>9. Fits(Emit(t, event), stack, top - 1)
    BY <1>4, <2>7, <2>8 DEF Fits, top
  <2> QED  BY <2>1, <2>9 DEF top
<1> QED  BY <1>5, <1>6

--------------------------------------------------------------------------------
LEMMA NoHooks ==
  /\ \A n, w, tx : ~IsHook(Announcement(n, w), tx)
  /\ \A name, n, tx : name \notin {"TransactionDetails", "GasUsage"} => ~IsHook(Event(name, n), tx)
BY DEF IsHook, Announcement, Event

LEMMA AnnouncedKeeps ==
  ASSUME NEW s, NEW k, NEW d, Fits(s, k, d)
  PROVE  Fits(Announced(s), k, d) /\ Announced(s).nonce = s.nonce
<1>1. CASE s.singleton.l2
  BY <1>1, EmitFits, EmitOK, NoHooks DEF Announced, Fits
<1>2. CASE ~s.singleton.l2  BY <1>2 DEF Announced
<1> QED  BY <1>1, <1>2

LEMMA ExecStep == ASSUME IndInv, execTransaction PROVE IndInv'
<1> DEFINE n == safe.nonce
           announced == Announced(safe)
           counted == [announced EXCEPT !.nonce = @ + 1]
           recorded == [counted EXCEPT !.txNonces[n] = counted.nonce - 1]
           event == Told("TransactionDetails", n, counted.nonce - 1, "Safe")
           checked == checkTransaction(counted, n, counted.nonce - 1, "Safe")
<1>1. StorageOK(safe) /\ n \in 0..MaxNonce /\ n < MaxNonce /\ MaxNonce \in Nat
  BY BoundAssumption DEF IndInv, Fits, StorageOK, execTransaction, BoundAssumption
<1>2. Fits(announced, stack, Len(stack)) /\ announced.nonce = n
  BY AnnouncedKeeps DEF IndInv
<1>3. Push(n, safe.guarded, IF safe.guarded THEN checked ELSE counted)
  BY DEF execTransaction
<1> HIDE DEF announced
<1>4. /\ DOMAIN counted = StorageFields /\ counted.nonce = n + 1
      /\ counted.txNonces = announced.txNonces /\ counted.log = announced.log
  BY <1>2 DEF Fits, StorageOK, StorageFields
<1> HIDE DEF counted
<1>5. n + 1 \in 0..MaxNonce /\ n \in Int /\ n < n + 1 /\ n <= n + 1  BY <1>1
<1>6. StorageOK(counted)  BY <1>2, <1>4, <1>5 DEF Fits, StorageOK
<1>7. \A tx \in 0..MaxNonce : Remembers(counted, tx, Under(stack, Len(stack), tx))
  BY <1>2, <1>4 DEF Fits, Remembers
<1>8. /\ DOMAIN recorded = StorageFields /\ recorded.nonce = n + 1
      /\ recorded.log = counted.log /\ DOMAIN recorded.txNonces = 0..MaxNonce
      /\ \A tx \in 0..MaxNonce :
           recorded.txNonces[tx] = IF tx = n THEN n ELSE counted.txNonces[tx]
  BY <1>1, <1>4, <1>6 DEF StorageOK, StorageFields
<1>9. checked = Emit(recorded, event)  BY DEF checkTransaction
<1>10. /\ IsHook(event, n) /\ event.by = "Safe"
       /\ \A tx : tx # n => ~IsHook(event, tx)
  BY DEF IsHook, Told
<1> HIDE DEF recorded, checked, event
<1>11. StorageOK(recorded)  BY <1>5, <1>6, <1>8 DEF StorageOK
<1>12. StorageOK(checked) /\ checked.nonce = n + 1  BY <1>8, <1>9, <1>11, EmitOK
<1>13. CASE safe.guarded
  <2>1. Push(n, safe.guarded, checked)  BY <1>3, <1>13
  <2>2. ASSUME NEW tx \in 0..MaxNonce
        PROVE  Remembers(checked, tx, Under(stack, Len(stack), tx) \/ (safe.guarded /\ n = tx))
    <3>1. CASE tx = n
      <4>1. Remembers(checked, tx, TRUE)
        BY <1>8, <1>9, <1>10, <1>11, <3>1, OwnHook DEF StorageOK
      <4> QED  BY <1>13, <3>1, <4>1 DEF Remembers
    <3>2. CASE tx # n
      <4>1. Remembers(recorded, tx, Under(stack, Len(stack), tx))
        BY <1>7, <1>8, <3>2 DEF Remembers
      <4>2. Remembers(checked, tx, Under(stack, Len(stack), tx))
        BY <1>9, <1>10, <1>11, <3>2, <4>1, NoHook DEF StorageOK
      <4> QED  BY <3>2, <4>2 DEF Remembers
    <3> QED  BY <3>1, <3>2
  <2> QED  BY <1>5, <1>12, <2>1, <2>2, PushOK
<1>14. CASE ~safe.guarded
  <2>1. Push(n, safe.guarded, counted)  BY <1>3, <1>14
  <2>2. \A tx \in 0..MaxNonce :
          Remembers(counted, tx, Under(stack, Len(stack), tx) \/ (safe.guarded /\ n = tx))
    BY <1>7, <1>14 DEF Remembers
  <2> QED  BY <1>4, <1>5, <1>6, <1>14, <2>1, <2>2, PushOK
<1> QED  BY <1>13, <1>14

LEMMA ModuleStep == ASSUME IndInv, execTransactionFromModule PROVE IndInv'
<1> DEFINE event == Event("SafeModuleTransaction", FromModule)
           b == IF safe.singleton.l2 THEN Emit(safe, event) ELSE safe
<1>1. Fits(safe, stack, Len(stack)) /\ StorageOK(safe)  BY DEF IndInv, Fits
<1>2. Fits(b, stack, Len(stack)) /\ b.nonce = safe.nonce
  BY <1>1, EmitFits, EmitOK, NoHooks
<1>3. Push(FromModule, FALSE, b)  BY DEF execTransactionFromModule
<1> HIDE DEF b
<1>4. StorageOK(b) /\ FromModule \in Int /\ FromModule < b.nonce /\ safe.nonce <= b.nonce
  BY <1>1, <1>2 DEF StorageOK, FromModule, Fits
<1>5. \A tx \in 0..MaxNonce :
        Remembers(b, tx, Under(stack, Len(stack), tx) \/ (FALSE /\ FromModule = tx))
  BY <1>2 DEF Fits, Remembers
<1> QED  BY <1>2, <1>3, <1>4, <1>5, PushOK

LEMMA FinishStep == ASSUME IndInv, Finish PROVE IndInv'
<1>1. stack # <<>> /\ stack' = Below  BY DEF Finish
<1>2. Len(stack) \in Nat /\ Len(stack) >= 1  BY <1>1 DEF IndInv, StackOK
<1>3. Fits(Top.before, stack, Len(stack))  BY <1>2 DEF IndInv, StackOK, FrameOK, Top
<1>4. \A name, tx : name \in {"ExecutionSuccess", "ExecutionFailure"} => ~IsHook(Outcome(name), tx)
  BY DEF IsHook, Outcome
<1>5. ASSUME NEW s, Fits(s, stack, Len(stack)),
             NEW name \in {"ExecutionSuccess", "ExecutionFailure"}
      PROVE  Fits(Emit(s, Outcome(name)), stack, Len(stack))
  BY <1>4, <1>5, EmitFits
<1>6. \E s : Fits(s, stack, Len(stack)) /\ Finished(s)
  BY <1>3, <1>5 DEF Finish, IndInv
<1> QED  BY <1>1, <1>6, FinishedOK, PopOK

LEMMA RevertsStep == ASSUME IndInv, Reverts PROVE IndInv'
<1>1. stack # <<>> /\ stack' = Below /\ safe' = Top.entry  BY DEF Reverts
<1>2. Len(stack) \in Nat /\ Len(stack) >= 1  BY <1>1 DEF IndInv, StackOK
<1>3. Fits(Top.entry, stack, Len(stack) - 1)
  BY <1>2 DEF IndInv, StackOK, FrameOK, Top
<1> QED  BY <1>1, <1>3, PopOK

LEMMA SetGuardStep == ASSUME IndInv, setGuard PROVE IndInv'
<1>1. safe' = [safe EXCEPT !.guarded = ~safe.guarded] /\ stack' = stack  BY DEF setGuard
<1>2. StorageOK(safe)  BY DEF IndInv, Fits
<1>3. /\ DOMAIN safe' = StorageFields
      /\ safe'.nonce = safe.nonce /\ safe'.txNonces = safe.txNonces /\ safe'.log = safe.log
  BY <1>1, <1>2 DEF StorageOK, StorageFields
<1> QED  BY <1>1, <1>3, SameStorage DEF IndInv

LEMMA MigrateStep ==
  ASSUME IndInv, NEW l2Singleton, NEW s, Fits(s, stack, Len(stack)), migrate(l2Singleton, s)
  PROVE  IndInv'
<1> DEFINE first == Emit(s, Announcement(0, FromModule))
           second == Emit(first, Event("ChangedMasterCopy", 0))
<1>1. safe' = [second EXCEPT !.singleton = l2Singleton] /\ stack' = stack  BY DEF migrate
<1>2. Fits(second, stack, Len(stack))
  <2>1. Fits(first, stack, Len(stack))  BY EmitFits, NoHooks
  <2> HIDE DEF first
  <2> QED  BY <2>1, EmitFits, NoHooks
<1> HIDE DEF second
<1>3. /\ DOMAIN safe' = StorageFields /\ safe'.nonce = second.nonce
      /\ safe'.txNonces = second.txNonces /\ safe'.log = second.log
  BY <1>1, <1>2 DEF StorageFields, Fits, StorageOK
<1> QED  BY <1>1, <1>2, <1>3, SameStorage DEF IndInv

\* A stranger's call of a hook: what it leaves is now what the guard knows of tx.
LEMMA StrangerOK ==
  ASSUME NEW s, NEW k, NEW d, Fits(s, k, d), NEW tx \in 0..MaxNonce, NEW e, IsHook(e, tx),
         e.by = "stranger"
  PROVE  Fits(Emit([s EXCEPT !.txNonces[tx] = Left(e)], e), k, d)
<1> DEFINE r == [s EXCEPT !.txNonces[tx] = Left(e)]
<1>1. StorageOK(s)  BY DEF Fits
<1>2. /\ DOMAIN r = StorageFields /\ r.nonce = s.nonce /\ r.log = s.log
      /\ DOMAIN r.txNonces = 0..MaxNonce
      /\ \A x \in 0..MaxNonce : r.txNonces[x] = IF x = tx THEN Left(e) ELSE s.txNonces[x]
  BY <1>1 DEF StorageOK, StorageFields
<1> HIDE DEF r
<1>3. StorageOK(r)  BY <1>1, <1>2 DEF StorageOK
<1>4. StorageOK(Emit(r, e)) /\ Emit(r, e).nonce = s.nonce  BY <1>2, <1>3, EmitOK
<1>5. ASSUME NEW x \in 0..MaxNonce  PROVE Remembers(Emit(r, e), x, Under(k, d, x))
  <2>1. CASE x = tx  BY <1>2, <1>3, <2>1, StrangersHook DEF StorageOK
  <2>2. CASE x # tx
    <3>1. Remembers(r, x, Under(k, d, x))  BY <1>2, <2>2 DEF Fits, Remembers
    <3>2. ~IsHook(e, x)  BY <2>2 DEF IsHook
    <3> QED  BY <1>3, <3>1, <3>2, NoHook DEF StorageOK
  <2> QED  BY <2>1, <2>2
<1> QED  BY <1>4, <1>5 DEF Fits, r

LEMMA StrangerStep ==
  ASSUME IndInv, NEW tx \in 0..MaxNonce,
         strangerAfterChecks(tx) \/ \E nonce \in Claims : strangerChecks(tx, nonce)
  PROVE  IndInv'
<1>1. CASE strangerAfterChecks(tx)
  <2> DEFINE e == Told("GasUsage", tx, safe.txNonces[tx], "stranger")
  <2>1. IsHook(e, tx) /\ e.by = "stranger" /\ Left(e) = 0  BY DEF IsHook, Left, Told
  <2>2. safe' = Emit([safe EXCEPT !.txNonces[tx] = 0], e) /\ stack' = stack
    BY <1>1 DEF strangerAfterChecks, checkAfterExecution
  <2> HIDE DEF e
  <2> QED  BY <2>1, <2>2, StrangerOK DEF IndInv
<1>2. ASSUME NEW nonce \in Claims, strangerChecks(tx, nonce)  PROVE IndInv'
  <2> DEFINE e == Told("TransactionDetails", tx, nonce, "stranger")
  <2>1. IsHook(e, tx) /\ e.by = "stranger" /\ Left(e) = nonce  BY DEF IsHook, Left, Told
  <2>2. safe' = Emit([safe EXCEPT !.txNonces[tx] = nonce], e) /\ stack' = stack
    BY <1>2 DEF strangerChecks, checkTransaction
  <2> HIDE DEF e
  <2> QED  BY <2>1, <2>2, StrangerOK DEF IndInv
<1> QED  BY <1>1, <1>2

\* No step loses or leaves behind what the guard remembers.
LEMMA StepOK == ASSUME IndInv, [Next]_vars PROVE IndInv'
<1>1. Fits(safe, stack, Len(stack))  BY DEF IndInv
<1>2. ASSUME NEW s \in Singletons, migrateToL2(s)  PROVE IndInv'
  BY <1>1, <1>2, MigrateStep DEF migrateToL2
<1>3. ASSUME NEW s \in Singletons, migrateFromV111(s)  PROVE IndInv'
  <2> DEFINE first == Emit(safe, Event("ChangedFallbackHandler", 0))
             t == Emit(first, Event("SafeSetup", 0))
  <2>1. Fits(first, stack, Len(stack))  BY <1>1, EmitFits, NoHooks
  <2>2. Fits(t, stack, Len(stack))
    <3> HIDE DEF first
    <3> QED  BY <2>1, EmitFits, NoHooks
  <2>3. migrate(s, t)  BY <1>3 DEF migrateFromV111
  <2> HIDE DEF t
  <2> QED  BY <2>2, <2>3, MigrateStep
<1>4. ASSUME NEW tx \in 0..(MaxNonce - 1),
             strangerAfterChecks(tx) \/ \E nonce \in Claims : strangerChecks(tx, nonce)
      PROVE  IndInv'
  <2>1. tx \in 0..MaxNonce  BY BoundAssumption DEF BoundAssumption
  <2> QED  BY <1>4, <2>1, StrangerStep
<1>5. CASE UNCHANGED vars  BY <1>5 DEF vars, IndInv
<1> QED  BY <1>2, <1>3, <1>4, <1>5, ExecStep, ModuleStep, FinishStep, RevertsStep, SetGuardStep
         DEF Next

\* The guard knows exactly the transactions under way that it checked, but for what strangers
\* told it since (DebugTransactionGuard.sol:84-87).
THEOREM PendingExactlyAlways == Spec => []PendingExactly
<1>1. IndInv => PendingExactly
  <2> SUFFICES ASSUME IndInv  PROVE PendingExactly  OBVIOUS
  <2> QED  BY DEF IndInv, Fits, PendingExactly
<1> QED  BY <1>1, InitOK, StepOK, PTL DEF Spec

--------------------------------------------------------------------------------
(***************************************************************************)
(* What the events tell.  A storage that a revert or a failure may bring   *)
(* back has its own events, so again each of them is right for the frames  *)
(* that are then left.                                                     *)
(***************************************************************************)
IsOutcome(e) == e.name \in {"ExecutionSuccess", "ExecutionFailure"}
IsAnnouncement(e) == e.name = "SafeMultiSigTransaction"
Announces(e, n) == IsAnnouncement(e) /\ e.nonce = n
Ends(e, n) == IsOutcome(e) /\ e.nonce = n

IsReport(e) == e.name = "GasUsage" /\ e.by = "Safe"

\* The outcome at i has its report behind it: with its own nonce, or a stranger's.
HasReport(t, i) ==
  /\ i + 1 \in DOMAIN t /\ IsReport(t[i + 1])
  /\ t[i + 1].tx = t[i].nonce /\ t[i + 1].nonce # 0
  /\ \/ t[i + 1].nonce = t[i].nonce
     \/ \E p \in DOMAIN t :
          StrangersWord(t, p, t[i].nonce, i) /\ t[i + 1].nonce = Left(t[p])

\* The guard reports right after the outcomes of what it checked, and of nothing else.
UsageOK(t) ==
  /\ \A i \in DOMAIN t : IsOutcome(t[i]) /\ t[i].guarded => HasReport(t, i)
  /\ \A i \in DOMAIN t : IsReport(t[i]) =>
       i - 1 \in DOMAIN t /\ IsOutcome(t[i - 1]) /\ t[i - 1].guarded

IsMigration(t, i) == i + 1 \in DOMAIN t /\ t[i + 1].name = "ChangedMasterCopy"

\* What was announced was executed, and once but for nonce 0, which migrations repeat; and a
\* Safe that is a SafeL2, from the beginning or since a migration, announced all of it.
AnnouncedOK(s) ==
  /\ \A i \in DOMAIN s.log : IsAnnouncement(s.log[i]) =>
       /\ s.log[i].nonce \in Int /\ s.log[i].nonce < s.nonce
       /\ IsMigration(s.log, i) => s.log[i].nonce = 0
  /\ \A i, j \in DOMAIN s.log :
       /\ IsAnnouncement(s.log[i]) /\ IsAnnouncement(s.log[j])
       /\ s.log[i].nonce = s.log[j].nonce
       /\ ~IsMigration(s.log, i) /\ ~IsMigration(s.log, j)
       => i = j
  /\ s.singleton.l2 =>
       \A n \in 0..MaxNonce : n < s.nonce => \E i \in DOMAIN s.log : Announces(s.log[i], n)

\* Only what is below the nonce has ended, and what was announced ended after that.
EndsOK(s) ==
  \A c \in DOMAIN s.log : IsOutcome(s.log[c]) =>
    /\ s.log[c].nonce \in Int /\ s.log[c].nonce < s.nonce
    /\ s.log[c].announced /\ s.log[c].nonce # FromModule =>
         \E o \in DOMAIN s.log : o < c /\ Announces(s.log[o], s.log[c].nonce)

\* What is announced at p lies within up: what began between the two has ended.
Lies(t, p, up) ==
  \E o \in DOMAIN t :
    /\ Announces(t[o], up) /\ o < p
    /\ \A c \in DOMAIN t : Ends(t[c], up) => p < c
    /\ \A q \in DOMAIN t : o < q /\ q < p /\ IsAnnouncement(t[q]) /\ t[q].nonce # up =>
         \E c \in DOMAIN t : Ends(t[c], t[q].nonce) /\ q < c /\ c < p

NestOK(t) ==
  \A p \in DOMAIN t :
    IsAnnouncement(t[p]) /\ t[p].within # FromModule => Lies(t, p, t[p].within)

\* A transaction that was announced and is under way has not ended, and what was announced
\* after it has ended or is under way within it.
Tells(f) == f.l2 /\ f.nonce # FromModule

OpenOK(t, k, i, d) ==
  Tells(k[i]) =>
    /\ \A c \in DOMAIN t : ~Ends(t[c], k[i].nonce)
    /\ \E o \in DOMAIN t :
         /\ Announces(t[o], k[i].nonce)
         /\ \A q \in DOMAIN t : o < q /\ IsAnnouncement(t[q]) /\ t[q].nonce # k[i].nonce =>
              \/ \E c \in DOMAIN t : Ends(t[c], t[q].nonce) /\ q < c
              \/ \E j \in (i + 1)..d : Tells(k[j]) /\ k[j].nonce = t[q].nonce

StructureOK(s, k, d) ==
  /\ s.log \in Seq(Range(s.log)) /\ s.singleton \in Singletons
  /\ AnnouncedOK(s) /\ EndsOK(s) /\ NestOK(s.log)
  /\ \A i \in 1..d : OpenOK(s.log, k, i, d)

LogOK(s, k, d) == StructureOK(s, k, d) /\ UsageOK(s.log)

LogFrameOK(k, i) ==
  /\ k[i].nonce \in {FromModule, k[i].entry.nonce}
  /\ LogOK(k[i].entry, k, i - 1) /\ LogOK(k[i].before, k, i)

LogInv ==
  /\ IndInv
  /\ \A i \in 1..Len(stack) : LogFrameOK(stack, i)
  /\ LogOK(safe, stack, Len(stack))

--------------------------------------------------------------------------------
\* A report stays one.
LEMMA HasReportStill ==
  ASSUME NEW u, NEW t, NEW n \in Nat, DOMAIN u = 1..(n - 1), DOMAIN t = 1..n,
         \A x \in 1..(n - 1) : t[x] = u[x],
         NEW i \in 1..(n - 1), HasReport(u, i)
  PROVE  HasReport(t, i)
<1>1. i + 1 \in DOMAIN u /\ i + 1 \in DOMAIN t /\ t[i] = u[i] /\ t[i + 1] = u[i + 1]
  BY DEF HasReport
<1>2. ASSUME NEW p \in DOMAIN u, StrangersWord(u, p, u[i].nonce, i)
      PROVE  p \in DOMAIN t /\ t[p] = u[p] /\ StrangersWord(t, p, u[i].nonce, i)
  BY <1>1, <1>2 DEF StrangersWord
<1> QED  BY <1>1, <1>2 DEF HasReport

\* The guard's reports, of which there is one for each outcome of what it checked.
LEMMA PlainUsage ==
  ASSUME NEW s, DOMAIN s = StorageFields, s.log \in Seq(Range(s.log)), UsageOK(s.log),
         NEW e, ~IsReport(e), IsOutcome(e) => ~e.guarded
  PROVE  UsageOK(Emit(s, e).log)
<1> DEFINE t == Emit(s, e).log
           n == Len(s.log) + 1
<1>1. /\ n \in Nat /\ n >= 1 /\ DOMAIN s.log = 1..(n - 1) /\ DOMAIN t = 1..n
      /\ \A i \in 1..(n - 1) : t[i] = s.log[i]
      /\ t[n] = e
  BY Logged
<1> HIDE DEF t, n
<1>2. ASSUME NEW i \in DOMAIN t, IsOutcome(t[i]), t[i].guarded  PROVE HasReport(t, i)
  <2>1. i # n  BY <1>1, <1>2
  <2>2. i \in 1..(n - 1) /\ t[i] = s.log[i]  BY <1>1, <2>1
  <2>3. HasReport(s.log, i)  BY <1>1, <1>2, <2>2 DEF UsageOK
  <2> QED  BY <1>1, <2>2, <2>3, HasReportStill
<1>3. ASSUME NEW i \in DOMAIN t, IsReport(t[i])
      PROVE  i - 1 \in DOMAIN t /\ IsOutcome(t[i - 1]) /\ t[i - 1].guarded
  <2>1. i # n  BY <1>1, <1>3
  <2>2. i \in 1..(n - 1) /\ t[i] = s.log[i]  BY <1>1, <2>1
  <2>3. i - 1 \in DOMAIN s.log /\ IsOutcome(s.log[i - 1]) /\ s.log[i - 1].guarded
    BY <1>1, <1>3, <2>2 DEF UsageOK
  <2> QED  BY <1>1, <2>2, <2>3
<1> QED  BY <1>2, <1>3 DEF UsageOK, t

LEMMA CheckedUsage ==
  ASSUME NEW s, DOMAIN s = StorageFields, s.log \in Seq(Range(s.log)), UsageOK(s.log),
         NEW o, IsOutcome(o), o.guarded,
         NEW r, DOMAIN r = StorageFields, r.log = Emit(s, o).log,
         NEW e, IsReport(e), e.tx = o.nonce, e.nonce # 0,
         \/ e.nonce = o.nonce
         \/ \E p \in DOMAIN s.log :
              StrangersWord(s.log, p, o.nonce, Len(s.log) + 1) /\ e.nonce = Left(s.log[p])
  PROVE  UsageOK(Emit(r, e).log)
<1> DEFINE t == Emit(r, e).log
           n == Len(s.log) + 1
<1>1. /\ n \in Nat /\ n >= 1 /\ DOMAIN s.log = 1..(n - 1) /\ DOMAIN r.log = 1..n
      /\ r.log \in Seq(Range(r.log))
      /\ \A i \in 1..(n - 1) : r.log[i] = s.log[i]
      /\ r.log[n] = o
  BY Logged
<1>2. Len(r.log) = n  BY <1>1
<1>3. /\ DOMAIN t = 1..(n + 1) /\ t[n + 1] = e
      /\ \A i \in 1..n : t[i] = r.log[i]
  BY <1>1, <1>2, Logged
<1>4. \/ e.nonce = o.nonce
      \/ \E p \in DOMAIN s.log : StrangersWord(s.log, p, o.nonce, n) /\ e.nonce = Left(s.log[p])
  OBVIOUS
<1> HIDE DEF t, n
<1>5. ~IsOutcome(e) /\ ~IsReport(o)  BY DEF IsOutcome, IsReport
<1>6. ASSUME NEW i \in DOMAIN t
      PROVE  i = n + 1 \/ i = n \/ (i \in 1..(n - 1) /\ t[i] = s.log[i])
  BY <1>1, <1>3
<1>7. t[n] = o  BY <1>1, <1>3
<1>8. ASSUME NEW i \in DOMAIN t, IsOutcome(t[i]), t[i].guarded  PROVE HasReport(t, i)
  <2>1. CASE i = n
    <3>1. \A p \in DOMAIN s.log : p \in DOMAIN t /\ t[p] = s.log[p]  BY <1>1, <1>3
    <3>2. ASSUME NEW p \in DOMAIN s.log, StrangersWord(s.log, p, o.nonce, n)
          PROVE  StrangersWord(t, p, o.nonce, n)
      <4>1. \A q \in DOMAIN t : q < n => q \in DOMAIN s.log  BY <1>1, <1>3
      <4> QED  BY <3>1, <3>2, <4>1 DEF StrangersWord
    <3> QED  BY <1>1, <1>3, <1>4, <1>7, <2>1, <3>1, <3>2 DEF HasReport
  <2>2. CASE i \in 1..(n - 1) /\ t[i] = s.log[i]
    <3>1. HasReport(s.log, i)  BY <1>1, <1>8, <2>2 DEF UsageOK
    <3>2. HasReport(r.log, i)  BY <1>1, <2>2, <3>1, HasReportStill
    <3>3. n + 1 \in Nat /\ (n + 1) - 1 = n /\ i \in 1..n  BY <1>1, <2>2
    <3> QED  BY <1>1, <1>3, <3>2, <3>3, HasReportStill
  <2> QED  BY <1>3, <1>5, <1>6, <1>8, <2>1, <2>2
<1>9. ASSUME NEW i \in DOMAIN t, IsReport(t[i])
      PROVE  i - 1 \in DOMAIN t /\ IsOutcome(t[i - 1]) /\ t[i - 1].guarded
  <2>1. CASE i = n + 1  BY <1>1, <1>3, <1>7, <2>1
  <2>2. CASE i \in 1..(n - 1) /\ t[i] = s.log[i]
    <3>1. i - 1 \in DOMAIN s.log /\ IsOutcome(s.log[i - 1]) /\ s.log[i - 1].guarded
      BY <1>1, <1>9, <2>2 DEF UsageOK
    <3> QED  BY <1>1, <1>3, <2>2, <3>1
  <2> QED  BY <1>5, <1>6, <1>7, <1>9, <2>1, <2>2
<1> QED  BY <1>8, <1>9 DEF UsageOK, t

\* What was announced, if one more event is no announcement and no migration.
LEMMA SameAnnounced ==
  ASSUME NEW s, DOMAIN s = StorageFields, s.log \in Seq(Range(s.log)), AnnouncedOK(s),
         NEW e, ~IsAnnouncement(e), e.name # "ChangedMasterCopy"
  PROVE  AnnouncedOK(Emit(s, e))
<1> DEFINE t == Emit(s, e).log
           n == Len(s.log) + 1
<1>1. /\ n \in Nat /\ n >= 1 /\ DOMAIN s.log = 1..(n - 1) /\ DOMAIN t = 1..n
      /\ \A i \in 1..(n - 1) : t[i] = s.log[i]
      /\ t[n] = e
      /\ Emit(s, e).singleton = s.singleton /\ Emit(s, e).nonce = s.nonce
  BY Logged
<1> HIDE DEF t, n
<1>2. ASSUME NEW i \in DOMAIN t, IsAnnouncement(t[i])
      PROVE  i \in DOMAIN s.log /\ t[i] = s.log[i]
  BY <1>1, <1>2
<1>3. \A i \in DOMAIN s.log : i \in DOMAIN t /\ t[i] = s.log[i]  BY <1>1
<1>4. ASSUME NEW i \in DOMAIN s.log  PROVE IsMigration(t, i) <=> IsMigration(s.log, i)
  <2>1. i + 1 \in DOMAIN t => i + 1 = n \/ i + 1 \in DOMAIN s.log  BY <1>1
  <2> QED  BY <1>1, <1>3, <2>1 DEF IsMigration
<1>5. ASSUME NEW i \in DOMAIN t, IsAnnouncement(t[i])
      PROVE  t[i].nonce \in Int /\ t[i].nonce < s.nonce /\ (IsMigration(t, i) => t[i].nonce = 0)
  BY <1>2, <1>4, <1>5 DEF AnnouncedOK
<1>6. ASSUME NEW i \in DOMAIN t, NEW j \in DOMAIN t, IsAnnouncement(t[i]), IsAnnouncement(t[j]),
             t[i].nonce = t[j].nonce, ~IsMigration(t, i), ~IsMigration(t, j)
      PROVE  i = j
  BY <1>2, <1>4, <1>6 DEF AnnouncedOK
<1>7. ASSUME s.singleton.l2, NEW m \in 0..MaxNonce, m < s.nonce
      PROVE  \E i \in DOMAIN t : Announces(t[i], m)
  BY <1>3, <1>7 DEF AnnouncedOK
<1> QED  BY <1>1, <1>5, <1>6, <1>7 DEF AnnouncedOK, t

\* What lies within what, if one more event is announced within nothing or lies where it says.
LEMMA NestLogged ==
  ASSUME NEW s, DOMAIN s = StorageFields, s.log \in Seq(Range(s.log)), NestOK(s.log),
         NEW e, IsAnnouncement(e) /\ e.within # FromModule =>
                  Lies(Emit(s, e).log, Len(s.log) + 1, e.within)
  PROVE  NestOK(Emit(s, e).log)
<1> DEFINE t == Emit(s, e).log
           n == Len(s.log) + 1
<1>1. /\ n \in Nat /\ n >= 1 /\ DOMAIN s.log = 1..(n - 1) /\ DOMAIN t = 1..n
      /\ \A i \in 1..(n - 1) : t[i] = s.log[i]
      /\ t[n] = e
  BY Logged
<1> HIDE DEF t, n
<1>2. SUFFICES ASSUME NEW p \in DOMAIN t, IsAnnouncement(t[p]), t[p].within # FromModule
               PROVE  Lies(t, p, t[p].within)
  BY DEF NestOK, t
<1>3. CASE p = n  BY <1>1, <1>2, <1>3 DEF t, n
<1>4. CASE p # n
  <2> DEFINE up == t[p].within
  <2>1. p \in DOMAIN s.log /\ t[p] = s.log[p] /\ p < n  BY <1>1, <1>4
  <2> HIDE DEF up
  <2>2. Lies(s.log, p, up)  BY <1>2, <2>1 DEF NestOK, up
  <2>3. PICK o \in DOMAIN s.log :
          /\ Announces(s.log[o], up) /\ o < p
          /\ \A c \in DOMAIN s.log : Ends(s.log[c], up) => p < c
          /\ \A q \in DOMAIN s.log :
               o < q /\ q < p /\ IsAnnouncement(s.log[q]) /\ s.log[q].nonce # up =>
                 \E c \in DOMAIN s.log : Ends(s.log[c], s.log[q].nonce) /\ q < c /\ c < p
    BY <2>2 DEF Lies
  <2>4. o \in DOMAIN t /\ Announces(t[o], up) /\ o < p  BY <1>1, <2>3
  <2>5. \A c \in DOMAIN t : Ends(t[c], up) => p < c
    <3>1. \A c \in DOMAIN t : c = n \/ (c \in DOMAIN s.log /\ t[c] = s.log[c])  BY <1>1
    <3> QED  BY <2>1, <2>3, <3>1
  <2>6. ASSUME NEW q \in DOMAIN t, o < q, q < p, IsAnnouncement(t[q]), t[q].nonce # up
        PROVE  \E c \in DOMAIN t : Ends(t[c], t[q].nonce) /\ q < c /\ c < p
    <3>1. q \in DOMAIN s.log /\ t[q] = s.log[q]  BY <1>1, <2>1, <2>6
    <3>2. PICK c \in DOMAIN s.log : Ends(s.log[c], s.log[q].nonce) /\ q < c /\ c < p
      BY <2>3, <2>6, <3>1
    <3>3. c \in DOMAIN t /\ t[c] = s.log[c]  BY <1>1
    <3> QED  BY <3>1, <3>2, <3>3
  <2>7. Lies(t, p, up)  BY <2>4, <2>5, <2>6 DEF Lies
  <2> QED  BY <2>7 DEF up
<1> QED  BY <1>3, <1>4

\* What has ended, if one more event is no outcome.
LEMMA SameEnds ==
  ASSUME NEW s, DOMAIN s = StorageFields, s.log \in Seq(Range(s.log)), EndsOK(s),
         NEW e, ~IsOutcome(e)
  PROVE  EndsOK(Emit(s, e))
<1> DEFINE t == Emit(s, e).log
           n == Len(s.log) + 1
<1>1. /\ n \in Nat /\ n >= 1 /\ DOMAIN s.log = 1..(n - 1) /\ DOMAIN t = 1..n
      /\ \A i \in 1..(n - 1) : t[i] = s.log[i]
      /\ t[n] = e /\ Emit(s, e).nonce = s.nonce
  BY Logged
<1> HIDE DEF t, n
<1>2. SUFFICES ASSUME NEW c \in DOMAIN t, IsOutcome(t[c])
               PROVE  /\ t[c].nonce \in Int /\ t[c].nonce < s.nonce
                      /\ t[c].announced /\ t[c].nonce # FromModule =>
                           \E o \in DOMAIN t : o < c /\ Announces(t[o], t[c].nonce)
  BY <1>1 DEF EndsOK, t
<1>3. c \in DOMAIN s.log /\ t[c] = s.log[c]  BY <1>1, <1>2
<1>4. \A o \in DOMAIN s.log : o \in DOMAIN t /\ t[o] = s.log[o]  BY <1>1
<1> QED  BY <1>2, <1>3, <1>4 DEF EndsOK

\* A transaction under way, if one event more ends those above it that go, or announces one
\* that comes.
LEMMA StillOpen ==
  ASSUME NEW s, DOMAIN s = StorageFields, s.log \in Seq(Range(s.log)),
         NEW k, NEW h, NEW i \in Nat, NEW d \in Nat, NEW d2 \in Nat, NEW e,
         OpenOK(s.log, k, i, d), h[i] = k[i],
         Tells(k[i]) => ~Ends(e, k[i].nonce),
         IsAnnouncement(e) =>
           e.nonce = k[i].nonce \/ \E j \in (i + 1)..d2 : Tells(h[j]) /\ h[j].nonce = e.nonce,
         \A j \in (i + 1)..d : Tells(k[j]) => (j <= d2 /\ h[j] = k[j]) \/ Ends(e, k[j].nonce)
  PROVE  OpenOK(Emit(s, e).log, h, i, d2)
<1> DEFINE t == Emit(s, e).log
           n == Len(s.log) + 1
           m == k[i].nonce
<1>1. /\ n \in Nat /\ n >= 1 /\ DOMAIN s.log = 1..(n - 1) /\ DOMAIN t = 1..n
      /\ \A x \in 1..(n - 1) : t[x] = s.log[x]
      /\ t[n] = e
  BY Logged
<1> HIDE DEF t, n
<1>2. SUFFICES ASSUME Tells(k[i])
               PROVE  /\ \A c \in DOMAIN t : ~Ends(t[c], m)
                      /\ \E o \in DOMAIN t :
                           /\ Announces(t[o], m)
                           /\ \A q \in DOMAIN t :
                                o < q /\ IsAnnouncement(t[q]) /\ t[q].nonce # m =>
                                  \/ \E c \in DOMAIN t : Ends(t[c], t[q].nonce) /\ q < c
                                  \/ \E j \in (i + 1)..d2 : Tells(h[j]) /\ h[j].nonce = t[q].nonce
  BY DEF OpenOK, t
<1>3. \A x \in DOMAIN t : x = n \/ (x \in DOMAIN s.log /\ t[x] = s.log[x] /\ x < n)  BY <1>1
<1>4. \A x \in DOMAIN s.log : x \in DOMAIN t /\ t[x] = s.log[x]  BY <1>1
<1>5. \A c \in DOMAIN t : ~Ends(t[c], m)  BY <1>1, <1>2, <1>3 DEF OpenOK
<1>6. PICK o \in DOMAIN s.log :
        /\ Announces(s.log[o], m)
        /\ \A q \in DOMAIN s.log :
             o < q /\ IsAnnouncement(s.log[q]) /\ s.log[q].nonce # m =>
               \/ \E c \in DOMAIN s.log : Ends(s.log[c], s.log[q].nonce) /\ q < c
               \/ \E j \in (i + 1)..d : Tells(k[j]) /\ k[j].nonce = s.log[q].nonce
  BY <1>2 DEF OpenOK
<1>7. ASSUME NEW q \in DOMAIN t, o < q, IsAnnouncement(t[q]), t[q].nonce # m
      PROVE  \/ \E c \in DOMAIN t : Ends(t[c], t[q].nonce) /\ q < c
             \/ \E j \in (i + 1)..d2 : Tells(h[j]) /\ h[j].nonce = t[q].nonce
  <2>1. CASE q = n  BY <1>1, <1>7, <2>1
  <2>2. CASE q \in DOMAIN s.log /\ t[q] = s.log[q] /\ q < n
    <3>1. CASE \E c \in DOMAIN s.log : Ends(s.log[c], s.log[q].nonce) /\ q < c
      BY <1>4, <2>2, <3>1
    <3>2. CASE \E j \in (i + 1)..d : Tells(k[j]) /\ k[j].nonce = s.log[q].nonce
      <4>1. PICK j \in (i + 1)..d : Tells(k[j]) /\ k[j].nonce = s.log[q].nonce  BY <3>2
      <4>2. CASE j <= d2 /\ h[j] = k[j]
        <5>1. j \in (i + 1)..d2  BY <4>2
        <5> QED  BY <2>2, <4>1, <4>2, <5>1
      <4>3. CASE Ends(e, k[j].nonce)
        <5>1. n \in DOMAIN t /\ Ends(t[n], t[q].nonce) /\ q < n  BY <1>1, <2>2, <4>1, <4>3
        <5> QED  BY <5>1
      <4> QED  BY <4>1, <4>2, <4>3
    <3> QED  BY <1>6, <1>7, <2>2, <3>1, <3>2
  <2> QED  BY <1>3, <2>1, <2>2
<1>8. o \in DOMAIN t /\ Announces(t[o], m)  BY <1>4, <1>6
<1> QED  BY <1>5, <1>7, <1>8

\* Only the events, the nonce and the singleton matter, and the frames up to d.
LEMMA SameStructure ==
  ASSUME NEW s, NEW k, NEW d, StructureOK(s, k, d), NEW t, t.log = s.log, t.nonce = s.nonce,
         t.singleton = s.singleton
  PROVE  StructureOK(t, k, d)
BY DEF StructureOK, AnnouncedOK, EndsOK

LEMMA SamePrefixLogged ==
  ASSUME NEW s, NEW k, NEW h, NEW d \in Nat, \A i \in 1..d : h[i] = k[i], LogOK(s, k, d)
  PROVE  LogOK(s, h, d)
<1>1. ASSUME NEW i \in 1..d  PROVE OpenOK(s.log, h, i, d)
  <2>1. h[i] = k[i] /\ OpenOK(s.log, k, i, d)  BY DEF LogOK, StructureOK
  <2>2. \A j \in (i + 1)..d : h[j] = k[j]  OBVIOUS
  <2> QED  BY <2>1, <2>2 DEF OpenOK
<1> QED  BY <1>1 DEF LogOK, StructureOK

LEMMA SameFrameLogged ==
  ASSUME NEW k, NEW h, NEW i \in Nat, i >= 1, \A j \in 1..i : h[j] = k[j], LogFrameOK(k, i)
  PROVE  LogFrameOK(h, i)
<1>1. h[i] = k[i] /\ i - 1 \in Nat /\ \A j \in 1..(i - 1) : h[j] = k[j]  OBVIOUS
<1>2. LogOK(k[i].entry, h, i - 1) /\ LogOK(k[i].before, h, i)
  BY <1>1, SamePrefixLogged DEF LogFrameOK
<1> QED  BY <1>1, <1>2 DEF LogFrameOK

\* An event that begins, ends and moves nothing.
Plain(e) == ~IsOutcome(e) /\ ~IsAnnouncement(e) /\ e.name # "ChangedMasterCopy"

LEMMA PlainStructure ==
  ASSUME NEW s, DOMAIN s = StorageFields, NEW k, NEW d \in Nat, StructureOK(s, k, d),
         NEW e, Plain(e)
  PROVE  StructureOK(Emit(s, e), k, d)
<1>1. s.log \in Seq(Range(s.log)) /\ s.singleton \in Singletons  BY DEF StructureOK
<1>2. Emit(s, e).log \in Seq(Range(Emit(s, e).log)) /\ Emit(s, e).singleton = s.singleton
  BY <1>1, Logged
<1>3. AnnouncedOK(Emit(s, e))  BY <1>1, SameAnnounced DEF StructureOK, Plain
<1>4. EndsOK(Emit(s, e)) /\ NestOK(Emit(s, e).log)
  BY <1>1, SameEnds, NestLogged DEF StructureOK, Plain
<1>5. ASSUME NEW i \in 1..d  PROVE OpenOK(Emit(s, e).log, k, i, d)
  <2>1. OpenOK(s.log, k, i, d) /\ i \in Nat /\ \A j \in (i + 1)..d : j <= d /\ k[j] = k[j]
    BY DEF StructureOK
  <2>2. ~IsAnnouncement(e) /\ ~Ends(e, k[i].nonce)  BY DEF Plain, Ends
  <2> QED  BY <1>1, <2>1, <2>2, StillOpen
<1> QED  BY <1>1, <1>2, <1>3, <1>4, <1>5 DEF StructureOK

LEMMA PlainLogged ==
  ASSUME NEW s, DOMAIN s = StorageFields, NEW k, NEW d \in Nat, LogOK(s, k, d),
         NEW e, Plain(e), ~IsReport(e)
  PROVE  LogOK(Emit(s, e), k, d)
<1>1. s.log \in Seq(Range(s.log))  BY DEF LogOK, StructureOK
<1>2. UsageOK(Emit(s, e).log)  BY <1>1, PlainUsage DEF LogOK, Plain
<1> QED  BY <1>2, PlainStructure DEF LogOK

--------------------------------------------------------------------------------
\* The stack, as both invariants have it.
LEMMA Frames ==
  ASSUME LogInv
  PROVE  /\ Len(stack) \in Nat /\ DOMAIN stack = 1..Len(stack) /\ stack \in Seq(Range(stack))
         /\ DOMAIN safe = StorageFields /\ safe.nonce \in 0..MaxNonce
         /\ \A i \in 1..Len(stack) :
              /\ stack[i].nonce \in Int /\ stack[i].nonce >= FromModule
              /\ stack[i].nonce < safe.nonce
              /\ \A j \in 1..(i - 1) : stack[i].nonce # FromModule => stack[j].nonce < stack[i].nonce
<1>1. /\ Len(stack) \in Nat /\ DOMAIN stack = 1..Len(stack) /\ stack \in Seq(Range(stack))
      /\ DOMAIN safe = StorageFields /\ safe.nonce \in 0..MaxNonce
  BY DEF LogInv, IndInv, StackOK, Fits, StorageOK
<1>2. ASSUME NEW i \in 1..Len(stack)
      PROVE  /\ stack[i].nonce \in Int /\ stack[i].nonce >= FromModule
             /\ stack[i].nonce < safe.nonce
             /\ \A j \in 1..(i - 1) : stack[i].nonce # FromModule => stack[j].nonce < stack[i].nonce
  <2>1. FrameOK(stack, i) /\ LogFrameOK(stack, i)  BY DEF LogInv, IndInv, StackOK
  <2>2. /\ stack[i].entry.nonce \in 0..MaxNonce
        /\ \A j \in 1..(i - 1) : stack[j].nonce < stack[i].entry.nonce
    BY <2>1 DEF FrameOK, Fits, StorageOK
  <2>3. stack[i].nonce \in {FromModule, stack[i].entry.nonce}  BY <2>1 DEF LogFrameOK
  <2>4. stack[i].nonce < safe.nonce  BY DEF LogInv, IndInv, Fits
  <2> QED  BY <2>2, <2>3, <2>4, BoundAssumption DEF FromModule, BoundAssumption
<1> QED  BY <1>1, <1>2

\* The outcome of the top of the stack.
LEMMA OutcomeStructure ==
  ASSUME LogInv, stack # <<>>, NEW s, Fits(s, stack, Len(stack)),
         StructureOK(s, stack, Len(stack)),
         NEW e, IsOutcome(e), e.nonce = Top.nonce, e.announced => Top.l2
  PROVE  StructureOK(Emit(s, e), stack, Len(stack) - 1)
<1> DEFINE top == Len(stack)
           t == Emit(s, e).log
           n == Len(s.log) + 1
<1>1. top \in Nat /\ top >= 1 /\ stack[top] = Top  BY Frames DEF Top
<1>2. DOMAIN s = StorageFields /\ s.log \in Seq(Range(s.log)) /\ s.singleton \in Singletons
  BY DEF StructureOK, Fits, StorageOK
<1>3. /\ t \in Seq(Range(t)) /\ n \in Nat /\ n >= 1
      /\ DOMAIN s.log = 1..(n - 1) /\ DOMAIN t = 1..n
      /\ \A i \in 1..(n - 1) : t[i] = s.log[i]
      /\ t[n] = e /\ Emit(s, e).nonce = s.nonce /\ Emit(s, e).singleton = s.singleton
  BY <1>2, Logged
<1>4. ~IsAnnouncement(e) /\ e.name # "ChangedMasterCopy"  BY DEF IsAnnouncement, IsOutcome
<1>5. AnnouncedOK(Emit(s, e)) /\ NestOK(t)
  BY <1>2, <1>4, SameAnnounced, NestLogged DEF StructureOK
<1> HIDE DEF t, n, top
<1>6. EndsOK(Emit(s, e))
  <2>1. SUFFICES ASSUME NEW c \in DOMAIN t, IsOutcome(t[c])
                 PROVE  /\ t[c].nonce \in Int /\ t[c].nonce < s.nonce
                        /\ t[c].announced /\ t[c].nonce # FromModule =>
                             \E o \in DOMAIN t : o < c /\ Announces(t[o], t[c].nonce)
    BY <1>3 DEF EndsOK, t
  <2>2. \A o \in DOMAIN s.log : o \in DOMAIN t /\ t[o] = s.log[o] /\ o < n  BY <1>3
  <2>3. CASE c = n
    <3>1. Top.nonce \in Int /\ Top.nonce < s.nonce  BY <1>1, Frames DEF Fits, top
    <3>2. ASSUME Top.l2, Top.nonce # FromModule
          PROVE  \E o \in DOMAIN s.log : Announces(s.log[o], Top.nonce)
      <4>1. OpenOK(s.log, stack, top, top)  BY <1>1 DEF StructureOK, top
      <4> QED  BY <1>1, <3>2, <4>1 DEF OpenOK, Tells
    <3> QED  BY <1>3, <2>2, <2>3, <3>1, <3>2
  <2>4. CASE c # n
    <3>1. c \in DOMAIN s.log /\ t[c] = s.log[c]  BY <1>3, <2>4
    <3>2. EndsOK(s)  BY DEF StructureOK
    <3> QED  BY <2>1, <2>2, <3>1, <3>2 DEF EndsOK
  <2> QED  BY <2>3, <2>4
<1>7. ASSUME NEW i \in 1..(top - 1)  PROVE OpenOK(t, stack, i, top - 1)
  <2>1. i \in Nat /\ i \in 1..top /\ top - 1 \in Nat  BY <1>1
  <2>2. OpenOK(s.log, stack, i, top)  BY <2>1 DEF StructureOK, top
  <2>3. Tells(stack[i]) => ~Ends(e, stack[i].nonce)
    <3>1. Top.nonce # FromModule => stack[i].nonce < Top.nonce
      BY <1>1, <2>1, Frames DEF top
    <3>2. stack[i].nonce \in Int /\ Top.nonce \in Int  BY <1>1, <2>1, Frames DEF top
    <3> QED  BY <3>1, <3>2 DEF Ends, Tells
  <2>4. ASSUME NEW j \in (i + 1)..top
        PROVE  (j <= top - 1 /\ stack[j] = stack[j]) \/ Ends(e, stack[j].nonce)
    <3>1. j <= top - 1 \/ j = top  BY <1>1
    <3> QED  BY <1>1, <3>1 DEF Ends
  <2> QED  BY <1>1, <1>2, <1>4, <2>1, <2>2, <2>3, <2>4, StillOpen DEF t
<1> QED  BY <1>2, <1>3, <1>5, <1>6, <1>7 DEF StructureOK, t, top

\* The end of an execution, and the guard's report of it.
LEMMA Concluded ==
  ASSUME LogInv, stack # <<>>, NEW s, Fits(s, stack, Len(stack)), LogOK(s, stack, Len(stack)),
         NEW name \in {"ExecutionSuccess", "ExecutionFailure"},
         Finished(Emit(s, Outcome(name)))
  PROVE  LogOK(safe', stack, Len(stack) - 1)
<1> DEFINE o == Outcome(name)
           t == Emit(s, o)
           top == Len(stack)
<1>1. top \in Nat /\ top >= 1 /\ stack[top] = Top  BY Frames DEF Top
<1>2. DOMAIN s = StorageFields /\ s.log \in Seq(Range(s.log))
  BY DEF LogOK, StructureOK, Fits, StorageOK
<1>3. /\ IsOutcome(o) /\ ~IsReport(o) /\ o.nonce = Top.nonce
      /\ o.announced = Top.l2 /\ o.guarded = Top.guarded
  BY DEF Outcome, IsOutcome, IsReport
<1>4. Finished(t)  OBVIOUS
<1> HIDE DEF o
<1>5. StructureOK(t, stack, top - 1)  BY <1>3, OutcomeStructure DEF LogOK
<1>6. DOMAIN t = StorageFields /\ t.txNonces = s.txNonces  BY <1>2, EmitKeeps
<1> HIDE DEF t, top
<1>7. CASE ~Top.guarded
  <2>1. safe' = t  BY <1>4, <1>7 DEF Finished, AfterCheck
  <2>2. UsageOK(t.log)  BY <1>2, <1>3, <1>7, PlainUsage DEF LogOK, t
  <2> QED  BY <1>5, <2>1, <2>2 DEF LogOK, top
<1>8. CASE Top.guarded
  <2> DEFINE r == [t EXCEPT !.txNonces[Top.nonce] = 0]
             e == Told("GasUsage", Top.nonce, t.txNonces[Top.nonce], "Safe")
  <2>1. safe' = Emit(r, e) /\ t.txNonces[Top.nonce] # 0
    BY <1>4, <1>8 DEF Finished, AfterCheck, checkAfterExecution, Finds
  <2>2. /\ DOMAIN r = StorageFields /\ r.log = t.log /\ r.nonce = t.nonce
        /\ r.singleton = t.singleton
    BY <1>6 DEF StorageFields
  <2>3. /\ IsReport(e) /\ e.name = "GasUsage" /\ e.tx = Top.nonce
        /\ e.nonce = t.txNonces[Top.nonce]
    BY DEF Told, IsReport
  <2> HIDE DEF r, e
  <2>4. \/ t.txNonces[Top.nonce] = Top.nonce
        \/ \E p \in DOMAIN s.log :
             /\ StrangersWord(s.log, p, Top.nonce, Len(s.log) + 1)
             /\ t.txNonces[Top.nonce] = Left(s.log[p])
    <3>1. FrameOK(stack, top)  BY <1>1 DEF LogInv, IndInv, StackOK, top
    <3>2. Top.nonce \in 0..MaxNonce  BY <1>1, <1>8, <3>1 DEF FrameOK
    <3>3. Under(stack, top, Top.nonce)  BY <1>1, <1>8 DEF Under
    <3>4. Remembers(s, Top.nonce, Under(stack, top, Top.nonce))  BY <3>2 DEF Fits, top
    <3> QED  BY <1>6, <3>3, <3>4 DEF Remembers
  <2>5. UsageOK(Emit(r, e).log)
    <3>1. UsageOK(s.log) /\ o.guarded /\ r.log = Emit(s, o).log
      BY <1>3, <1>8, <2>2 DEF LogOK, t
    <3>2. e.tx = o.nonce /\ e.nonce # 0  BY <1>3, <2>1, <2>3
    <3>3. \/ e.nonce = o.nonce
          \/ \E p \in DOMAIN s.log :
               StrangersWord(s.log, p, o.nonce, Len(s.log) + 1) /\ e.nonce = Left(s.log[p])
      BY <1>3, <2>3, <2>4
    <3> QED  BY <1>2, <1>3, <2>2, <2>3, <3>1, <3>2, <3>3, CheckedUsage
  <2>6. Plain(e)  BY <2>3 DEF Plain, IsOutcome, IsAnnouncement
  <2>7. StructureOK(r, stack, top - 1)  BY <1>5, <2>2, SameStructure
  <2>8. top - 1 \in Nat  BY <1>1
  <2>9. StructureOK(Emit(r, e), stack, top - 1)  BY <2>2, <2>6, <2>7, <2>8, PlainStructure
  <2> QED  BY <2>1, <2>5, <2>9 DEF LogOK, top
<1> QED  BY <1>7, <1>8

--------------------------------------------------------------------------------
LEMMA LeastElement ==
  ASSUME NEW T \in SUBSET Nat, T # {}
  PROVE  \E x \in T : \A y \in T : x <= y
<1>1. IsWellFoundedOn(OpToRel(<, Nat), Nat)  BY NatLessThanWellFounded
<1>2. PICK x \in T : \A y \in T : ~(<<y, x>> \in OpToRel(<, Nat))
  BY <1>1, WFMin
<1>3. ASSUME NEW y \in T, y < x  PROVE  FALSE
  BY <1>2, <1>3 DEF OpToRel
<1> QED  BY <1>3, SMT

LEMMA MaxOfSome ==
  ASSUME NEW N \in Int, NEW S, \A x \in S : x \in Int /\ x <= N, S # {}
  PROVE  Max(S) \in S /\ \A y \in S : Max(S) >= y
<1> DEFINE T == {t \in Nat : N - t \in S}
<1>1. \A x \in S : N - x \in Nat /\ N - (N - x) = x  OBVIOUS
<1>2. T # {}
  <2>1. PICK x \in S : TRUE  OBVIOUS
  <2>2. N - x \in T  BY <1>1, <2>1
  <2> QED  BY <2>2
<1>3. PICK t \in T : \A y \in T : t <= y
  <2>1. T \in SUBSET Nat  OBVIOUS
  <2> HIDE DEF T
  <2> QED  BY <1>2, <2>1, LeastElement
<1>4. N - t \in S /\ \A y \in S : N - t >= y
  <2>1. ASSUME NEW y \in S  PROVE N - t >= y
    <3>1. N - y \in T  BY <1>1
    <3>2. t <= N - y /\ t \in Nat  BY <1>3, <3>1
    <3> QED  BY <3>2
  <2> QED  BY <2>1
<1>5. \E x \in S : \A y \in S : x >= y  BY <1>4
<1> QED  BY <1>5 DEF Max

\* The innermost transaction that was announced is one under way, and none above it was.
LEMMA Innermost ==
  ASSUME LogInv, Within # FromModule
  PROVE  \E j \in 1..Len(stack) :
           /\ Tells(stack[j]) /\ stack[j].nonce = Within
           /\ \A i \in (j + 1)..Len(stack) : ~Tells(stack[i])
<1> DEFINE told == {stack[i].nonce : i \in {j \in DOMAIN stack : stack[j].l2}}
           S == {FromModule} \cup told
<1>1. /\ Len(stack) \in Nat /\ DOMAIN stack = 1..Len(stack) /\ safe.nonce \in Int
      /\ safe.nonce >= 0
      /\ \A i \in 1..Len(stack) : stack[i].nonce \in Int /\ stack[i].nonce < safe.nonce
  BY Frames
<1>2. \A x \in S : x \in Int /\ x <= safe.nonce  BY <1>1 DEF FromModule
<1>3. Within = Max(S) /\ S # {}  BY DEF Within
<1>4. \A i \in 1..Len(stack) : stack[i].l2 => stack[i].nonce \in S  BY <1>1
<1>5. \A x \in S : x # FromModule => \E j \in 1..Len(stack) : stack[j].l2 /\ stack[j].nonce = x
  BY <1>1
<1> HIDE DEF S
<1>6. Within \in S /\ \A y \in S : Within >= y  BY <1>1, <1>2, <1>3, MaxOfSome
<1>7. PICK j \in 1..Len(stack) : stack[j].l2 /\ stack[j].nonce = Within  BY <1>5, <1>6
<1>8. ASSUME NEW i \in (j + 1)..Len(stack), Tells(stack[i])  PROVE FALSE
  <2>1. i \in 1..Len(stack) /\ j \in 1..(i - 1)  OBVIOUS
  <2>2. stack[i].nonce \in S /\ stack[i].nonce # FromModule  BY <1>4, <1>8, <2>1 DEF Tells
  <2>3. stack[j].nonce < stack[i].nonce  BY <2>1, <2>2, Frames
  <2>4. stack[i].nonce <= stack[j].nonce  BY <1>6, <1>7, <2>2
  <2> QED  BY <1>1, <2>1, <2>3, <2>4
<1> QED  BY <1>7, <1>8 DEF Tells

\* What is announced now lies within the innermost one.
LEMMA LiesWithin ==
  ASSUME LogInv, Within # FromModule, NEW e, IsAnnouncement(e)
  PROVE  Lies(Emit(safe, e).log, Len(safe.log) + 1, Within)
<1> DEFINE t == Emit(safe, e).log
           p == Len(safe.log) + 1
           up == Within
<1>1. PICK j \in 1..Len(stack) :
        /\ Tells(stack[j]) /\ stack[j].nonce = up
        /\ \A i \in (j + 1)..Len(stack) : ~Tells(stack[i])
  BY Innermost
<1>2. /\ p \in Nat /\ p >= 1 /\ DOMAIN safe.log = 1..(p - 1) /\ DOMAIN t = 1..p
      /\ \A i \in 1..(p - 1) : t[i] = safe.log[i]
      /\ t[p] = e
  BY Frames, Logged DEF LogInv, LogOK, StructureOK
<1>3. OpenOK(safe.log, stack, j, Len(stack))  BY DEF LogInv, LogOK, StructureOK
<1> HIDE DEF t, p, up
<1>4. \A c \in DOMAIN safe.log : ~Ends(safe.log[c], up)  BY <1>1, <1>3 DEF OpenOK
<1>5. PICK o \in DOMAIN safe.log :
        /\ Announces(safe.log[o], up)
        /\ \A q \in DOMAIN safe.log :
             o < q /\ IsAnnouncement(safe.log[q]) /\ safe.log[q].nonce # up =>
               \E c \in DOMAIN safe.log : Ends(safe.log[c], safe.log[q].nonce) /\ q < c
  BY <1>1, <1>3 DEF OpenOK
<1>6. \A x \in DOMAIN t : x = p \/ (x \in DOMAIN safe.log /\ t[x] = safe.log[x])  BY <1>2
<1>7. \A x \in DOMAIN safe.log : x \in DOMAIN t /\ t[x] = safe.log[x] /\ x < p  BY <1>2
<1>8. ~Ends(t[p], up)  BY <1>2 DEF Ends, IsOutcome, IsAnnouncement
<1>9. \A c \in DOMAIN t : Ends(t[c], up) => p < c  BY <1>4, <1>6, <1>8
<1>10. ASSUME NEW q \in DOMAIN t, o < q, q < p, IsAnnouncement(t[q]), t[q].nonce # up
       PROVE  \E c \in DOMAIN t : Ends(t[c], t[q].nonce) /\ q < c /\ c < p
  <2>1. q \in DOMAIN safe.log /\ t[q] = safe.log[q]  BY <1>2, <1>6, <1>10
  <2>2. PICK c \in DOMAIN safe.log : Ends(safe.log[c], safe.log[q].nonce) /\ q < c
    BY <1>5, <1>10, <2>1
  <2> QED  BY <1>7, <2>1, <2>2
<1>11. o \in DOMAIN t /\ Announces(t[o], up) /\ o < p  BY <1>5, <1>7
<1> QED  BY <1>9, <1>10, <1>11 DEF Lies, t, p, up

--------------------------------------------------------------------------------
\* The stack after a transaction or a module's execution began.
LEMMA PushedFrames ==
  ASSUME LogInv, NEW n, NEW g, NEW b, Push(n, g, b)
  PROVE  LET top == Len(stack) + 1
         IN /\ safe' = b /\ top \in Nat /\ top >= 1 /\ Len(stack') = top
            /\ \A i \in 1..Len(stack) : stack'[i] = stack[i]
            /\ stack'[top].nonce = n /\ stack'[top].l2 = safe.singleton.l2
            /\ stack'[top].entry = safe /\ stack'[top].before = b
<1> DEFINE frame == [nonce |-> n, guarded |-> g, l2 |-> safe.singleton.l2, entry |-> safe,
                     before |-> b]
<1>1. safe' = b /\ stack' = Append(stack, frame)  BY DEF Push
<1>2. /\ frame.nonce = n /\ frame.l2 = safe.singleton.l2 /\ frame.entry = safe
      /\ frame.before = b
  OBVIOUS
<1> HIDE DEF frame
<1>3. /\ Len(stack) \in Nat /\ Len(stack') = Len(stack) + 1
      /\ \A i \in 1..Len(stack) : stack'[i] = stack[i]
      /\ stack'[Len(stack) + 1] = frame
  BY <1>1, Frames, Pushed
<1> QED  BY <1>1, <1>2, <1>3

LEMMA PushLogged ==
  ASSUME LogInv, IndInv', NEW n \in {FromModule, safe.nonce}, NEW g, NEW b, Push(n, g, b),
         LogOK(b, stack', Len(stack) + 1)
  PROVE  LogInv'
<1> DEFINE top == Len(stack) + 1
<1>1. /\ safe' = b /\ top \in Nat /\ top >= 1 /\ Len(stack') = top
      /\ \A i \in 1..Len(stack) : stack'[i] = stack[i]
      /\ stack'[top].nonce = n
      /\ stack'[top].entry = safe /\ stack'[top].before = b
  BY PushedFrames
<1>2. \A i \in 1..Len(stack) : LogFrameOK(stack', i)
  BY <1>1, SameFrameLogged DEF LogInv
<1>3. LogOK(safe, stack', Len(stack))
  BY <1>1, SamePrefixLogged, Frames DEF LogInv
<1>4. LogFrameOK(stack', top)  BY <1>1, <1>3 DEF LogFrameOK
<1>5. \A i \in 1..top : i \in 1..Len(stack) \/ i = top  BY <1>1
<1> QED  BY <1>1, <1>2, <1>4, <1>5 DEF LogInv

\* A frame that announced nothing.
LEMMA SilentFrame ==
  ASSUME NEW s, NEW k, NEW h, NEW d \in Nat, \A i \in 1..d : h[i] = k[i], ~Tells(h[d + 1]),
         LogOK(s, k, d)
  PROVE  LogOK(s, h, d + 1)
<1>1. ASSUME NEW i \in 1..d  PROVE OpenOK(s.log, h, i, d + 1)
  <2>1. h[i] = k[i] /\ OpenOK(s.log, k, i, d)  BY DEF LogOK, StructureOK
  <2>2. \A j \in (i + 1)..d : h[j] = k[j] /\ j \in (i + 1)..(d + 1)  OBVIOUS
  <2> QED  BY <2>1, <2>2 DEF OpenOK
<1>2. OpenOK(s.log, h, d + 1, d + 1)  BY DEF OpenOK
<1>3. \A i \in 1..(d + 1) : i \in 1..d \/ i = d + 1  OBVIOUS
<1> QED  BY <1>1, <1>2, <1>3 DEF LogOK, StructureOK

LEMMA EndsGrow ==
  ASSUME NEW s, EndsOK(s), s.nonce \in Int, NEW t, t.log = s.log, t.nonce = s.nonce + 1
  PROVE  EndsOK(t)
BY DEF EndsOK

\* Of a Safe that is no SafeL2 the nonce may grow.
LEMMA NonceGrows ==
  ASSUME NEW s, NEW k, NEW d, LogOK(s, k, d), ~s.singleton.l2, s.nonce \in Int,
         NEW t, t.log = s.log, t.singleton = s.singleton, t.nonce = s.nonce + 1
  PROVE  LogOK(t, k, d)
<1>1. AnnouncedOK(t)  BY DEF LogOK, StructureOK, AnnouncedOK
<1>2. EndsOK(t)  BY EndsGrow DEF LogOK, StructureOK
<1> QED  BY <1>1, <1>2 DEF LogOK, StructureOK

\* A SafeL2 announces the transaction that is now at the top of the stack.
LEMMA AnnouncedLogged ==
  ASSUME LogInv, safe.singleton.l2, NEW t, t.log = Emit(safe, Announcement(safe.nonce, Within)).log,
         t.singleton = safe.singleton, t.nonce = safe.nonce + 1,
         NEW h, \A i \in 1..Len(stack) : h[i] = stack[i],
         h[Len(stack) + 1].nonce = safe.nonce, h[Len(stack) + 1].l2
  PROVE  LogOK(t, h, Len(stack) + 1)
<1> DEFINE e == Announcement(safe.nonce, Within)
           u == Emit(safe, e)
           n == Len(safe.log) + 1
           top == Len(stack) + 1
<1>1. /\ IsAnnouncement(e) /\ ~IsOutcome(e) /\ ~IsReport(e)
      /\ e.name # "ChangedMasterCopy" /\ e.nonce = safe.nonce /\ e.within = Within
  BY DEF Announcement, IsAnnouncement, IsOutcome, IsReport
<1> HIDE DEF e
<1>2. LogOK(safe, stack, Len(stack)) /\ DOMAIN safe = StorageFields /\ Len(stack) \in Nat
  BY Frames DEF LogInv
<1>3. safe.nonce \in 0..MaxNonce /\ safe.nonce # FromModule  BY Frames DEF FromModule
<1>4. safe.log \in Seq(Range(safe.log)) /\ safe.singleton \in Singletons
  BY <1>2 DEF LogOK, StructureOK
<1>5. /\ u.log \in Seq(Range(u.log)) /\ n \in Nat /\ n >= 1
      /\ DOMAIN safe.log = 1..(n - 1) /\ DOMAIN u.log = 1..n
      /\ \A i \in 1..(n - 1) : u.log[i] = safe.log[i]
      /\ u.log[n] = e /\ u.nonce = safe.nonce /\ u.singleton = safe.singleton
  BY <1>2, <1>4, Logged
<1>6. UsageOK(u.log)  BY <1>1, <1>2, <1>4, PlainUsage DEF LogOK
<1>7. NestOK(u.log)
  <2>1. e.within # FromModule => Lies(u.log, n, e.within)  BY <1>1, LiesWithin
  <2> QED  BY <1>2, <1>4, <2>1, NestLogged DEF LogOK, StructureOK
<1>8. EndsOK(u)  BY <1>1, <1>2, <1>4, SameEnds DEF LogOK, StructureOK
<1> HIDE DEF n
<1>9. t.log = u.log  BY DEF e
<1>10. EndsOK(t)
  <2>1. t.nonce = u.nonce + 1 /\ u.nonce \in Int  BY <1>3, <1>5
  <2> HIDE DEF u
  <2> QED  BY <1>8, <1>9, <2>1, EndsGrow
<1>11. AnnouncedOK(t)
  <2>1. \A x \in DOMAIN t.log : x = n \/ (x \in DOMAIN safe.log /\ t.log[x] = safe.log[x])
    BY <1>5, <1>9
  <2>2. \A x \in DOMAIN safe.log : x \in DOMAIN t.log /\ t.log[x] = safe.log[x]
    BY <1>5, <1>9
  <2>3. n \in DOMAIN t.log /\ t.log[n] = e  BY <1>5, <1>9
  <2>4. AnnouncedOK(safe)  BY <1>2 DEF LogOK, StructureOK
  <2>5. ASSUME NEW x \in DOMAIN safe.log
        PROVE  IsMigration(t.log, x) <=> IsMigration(safe.log, x)
    <3>1. x + 1 \in DOMAIN t.log => x + 1 = n \/ x + 1 \in DOMAIN safe.log  BY <1>5, <1>9
    <3> QED  BY <1>1, <2>2, <2>3, <3>1 DEF IsMigration
  <2>6. ~IsMigration(t.log, n)  BY <1>5, <1>9 DEF IsMigration
  <2>7. ASSUME NEW i \in DOMAIN t.log, IsAnnouncement(t.log[i])
        PROVE  /\ t.log[i].nonce \in Int /\ t.log[i].nonce < safe.nonce + 1
               /\ IsMigration(t.log, i) => t.log[i].nonce = 0
    <3>1. CASE i = n  BY <1>1, <1>3, <2>3, <2>6, <3>1
    <3>2. CASE i \in DOMAIN safe.log /\ t.log[i] = safe.log[i]
      BY <1>3, <2>4, <2>5, <2>7, <3>2 DEF AnnouncedOK
    <3> QED  BY <2>1, <3>1, <3>2
  <2>8. ASSUME NEW i \in DOMAIN t.log, NEW j \in DOMAIN t.log,
               IsAnnouncement(t.log[i]), IsAnnouncement(t.log[j]),
               t.log[i].nonce = t.log[j].nonce, ~IsMigration(t.log, i), ~IsMigration(t.log, j)
        PROVE  i = j
    <3>1. ASSUME NEW x \in DOMAIN safe.log, IsAnnouncement(safe.log[x])
          PROVE  safe.log[x].nonce # safe.nonce
      BY <1>3, <2>4, <3>1 DEF AnnouncedOK
    <3>2. CASE i = n /\ j = n  BY <3>2
    <3>3. CASE i = n /\ j # n  BY <1>1, <2>1, <2>3, <2>8, <3>1, <3>3
    <3>4. CASE i # n /\ j = n  BY <1>1, <2>1, <2>3, <2>8, <3>1, <3>4
    <3>5. CASE i # n /\ j # n  BY <2>1, <2>4, <2>5, <2>8, <3>5 DEF AnnouncedOK
    <3> QED  BY <3>2, <3>3, <3>4, <3>5
  <2>9. ASSUME NEW m \in 0..MaxNonce, m < safe.nonce + 1
        PROVE  \E i \in DOMAIN t.log : Announces(t.log[i], m)
    <3>1. CASE m = safe.nonce  BY <1>1, <2>3, <3>1 DEF Announces
    <3>2. CASE m < safe.nonce  BY <2>2, <2>4, <3>2 DEF AnnouncedOK
    <3> QED  BY <1>3, <2>9, <3>1, <3>2
  <2> QED  BY <2>7, <2>8, <2>9 DEF AnnouncedOK
<1>12. Tells(h[top])  BY <1>3 DEF Tells
<1>13. ASSUME NEW i \in 1..Len(stack)  PROVE OpenOK(u.log, h, i, top)
  <2>1. i \in Nat /\ top \in Nat /\ top \in (i + 1)..top  BY <1>2
  <2>2. OpenOK(safe.log, stack, i, Len(stack)) /\ h[i] = stack[i]
    BY <1>2 DEF LogOK, StructureOK
  <2>3. ~Ends(e, stack[i].nonce)  BY <1>1 DEF Ends
  <2>4. \E j \in (i + 1)..top : Tells(h[j]) /\ h[j].nonce = e.nonce  BY <1>1, <1>12, <2>1
  <2>5. \A j \in (i + 1)..Len(stack) : j <= top /\ h[j] = stack[j]  BY <1>2
  <2> HIDE DEF top
  <2>6. /\ Tells(stack[i]) => ~Ends(e, stack[i].nonce)
        /\ IsAnnouncement(e) =>
             e.nonce = stack[i].nonce
               \/ \E j \in (i + 1)..top : Tells(h[j]) /\ h[j].nonce = e.nonce
        /\ \A j \in (i + 1)..Len(stack) :
             Tells(stack[j]) => (j <= top /\ h[j] = stack[j]) \/ Ends(e, stack[j].nonce)
    BY <2>3, <2>4, <2>5
  <2> QED  BY <1>2, <1>4, <2>1, <2>2, <2>6, StillOpen
<1>14. OpenOK(u.log, h, top, top)
  <2>1. ASSUME NEW c \in DOMAIN u.log, Ends(u.log[c], safe.nonce)  PROVE FALSE
    BY <1>3, <1>5, <1>8, <2>1 DEF EndsOK, Ends
  <2>2. n \in DOMAIN u.log /\ Announces(u.log[n], safe.nonce)  BY <1>1, <1>5 DEF Announces
  <2>3. \A q \in DOMAIN u.log : ~(n < q)  BY <1>5
  <2> QED  BY <2>1, <2>2, <2>3 DEF OpenOK
<1>15. \A i \in 1..top : OpenOK(t.log, h, i, top)
  <2>1. \A i \in 1..top : i \in 1..Len(stack) \/ i = top  BY <1>2
  <2> QED  BY <1>9, <1>13, <1>14, <2>1
<1> QED  BY <1>4, <1>5, <1>6, <1>7, <1>9, <1>10, <1>11, <1>15 DEF LogOK, StructureOK

--------------------------------------------------------------------------------
(***************************************************************************)
(* The steps.                                                              *)
(***************************************************************************)
LEMMA InitLogged == ASSUME Init PROVE LogInv
<1>1. IndInv  BY InitOK
<1>2. stack = <<>> /\ Len(stack) = 0  BY DEF Init
<1>3. safe.log = <<>> /\ safe.nonce = 0 /\ safe.singleton \in Singletons  BY DEF Init
<1>4. safe.log \in Seq(Range(safe.log)) /\ DOMAIN safe.log = {}
  <2>1. <<>> \in Seq(Range(<<>>)) /\ DOMAIN <<>> = {}  OBVIOUS
  <2> QED  BY <1>3, <2>1
<1>5. UsageOK(safe.log) /\ EndsOK(safe) /\ NestOK(safe.log)
  BY <1>4 DEF UsageOK, EndsOK, NestOK
<1>6. AnnouncedOK(safe)
  <2>1. \A n \in 0..MaxNonce : ~(n < safe.nonce)  BY <1>3
  <2> QED  BY <1>4, <2>1 DEF AnnouncedOK
<1> QED  BY <1>1, <1>2, <1>3, <1>4, <1>5, <1>6 DEF LogInv, LogOK, StructureOK

LEMMA ExecLogged == ASSUME LogInv, execTransaction PROVE LogInv'
<1> DEFINE n == safe.nonce
           counted == [Announced(safe) EXCEPT !.nonce = @ + 1]
           checked == checkTransaction(counted, n, counted.nonce - 1, "Safe")
           b == IF safe.guarded THEN checked ELSE counted
           top == Len(stack) + 1
<1>1. IndInv'  BY ExecStep DEF LogInv
<1>2. Push(n, safe.guarded, b)  BY DEF execTransaction
<1>3. /\ safe' = b /\ top \in Nat /\ top >= 1 /\ Len(stack') = top
      /\ \A i \in 1..Len(stack) : stack'[i] = stack[i]
      /\ stack'[top].nonce = n /\ stack'[top].l2 = safe.singleton.l2
  <2> HIDE DEF b, n
  <2> QED  BY <1>2, PushedFrames
<1>4. /\ DOMAIN safe = StorageFields /\ n \in Int /\ Len(stack) \in Nat
      /\ LogOK(safe, stack, Len(stack))
  BY Frames DEF LogInv
<1>5. safe.log \in Seq(Range(safe.log))  BY <1>4 DEF LogOK, StructureOK
<1>6. DOMAIN counted = StorageFields /\ counted.nonce = n + 1
  BY <1>4, AnnouncedKeeps DEF StorageFields, Fits, StorageOK, LogInv, IndInv
<1>7. LogOK(counted, stack', top)
  <2>1. CASE safe.singleton.l2
    <3> DEFINE u == Emit(safe, Announcement(safe.nonce, Within))
    <3>1. Announced(safe) = u  BY <2>1 DEF Announced
    <3>2. DOMAIN u = StorageFields /\ u.singleton = safe.singleton  BY <1>4, <1>5, EmitKeeps, Logged
    <3>3. counted.log = u.log /\ counted.singleton = safe.singleton
      BY <3>1, <3>2 DEF StorageFields
    <3> HIDE DEF counted
    <3> QED  BY <1>3, <1>6, <2>1, <3>3, AnnouncedLogged
  <2>2. CASE ~safe.singleton.l2
    <3>1. Announced(safe) = safe  BY <2>2 DEF Announced
    <3>2. counted.log = safe.log /\ counted.singleton = safe.singleton
      BY <1>4, <3>1 DEF StorageFields
    <3> HIDE DEF counted
    <3>3. LogOK(counted, stack, Len(stack))  BY <1>4, <1>6, <2>2, <3>2, NonceGrows
    <3>4. ~Tells(stack'[top])  BY <1>3, <2>2 DEF Tells
    <3> QED  BY <1>3, <1>4, <3>3, <3>4, SilentFrame
  <2> QED  BY <2>1, <2>2
<1>8. LogOK(checked, stack', top)
  <2> DEFINE r == [counted EXCEPT !.txNonces[n] = counted.nonce - 1]
             e == Told("TransactionDetails", n, counted.nonce - 1, "Safe")
  <2>1. checked = Emit(r, e)  BY DEF checkTransaction
  <2>2. /\ DOMAIN r = StorageFields /\ r.log = counted.log /\ r.nonce = counted.nonce
        /\ r.singleton = counted.singleton
    <3> HIDE DEF counted
    <3> QED  BY <1>6 DEF StorageFields
  <2>3. Plain(e) /\ ~IsReport(e)  BY DEF Told, Plain, IsOutcome, IsAnnouncement, IsReport
  <2> HIDE DEF r, e, counted, checked
  <2>4. LogOK(r, stack', top)  BY <1>7, <2>2, SameStructure DEF LogOK
  <2> QED  BY <1>3, <2>1, <2>2, <2>3, <2>4, PlainLogged
<1>9. LogOK(b, stack', top)
  <2> HIDE DEF counted, checked
  <2> QED  BY <1>7, <1>8
<1> HIDE DEF b
<1> QED  BY <1>1, <1>2, <1>9, PushLogged

LEMMA ModuleLogged == ASSUME LogInv, execTransactionFromModule PROVE LogInv'
<1> DEFINE e == Event("SafeModuleTransaction", FromModule)
           b == IF safe.singleton.l2 THEN Emit(safe, e) ELSE safe
           top == Len(stack) + 1
<1>1. IndInv'  BY ModuleStep DEF LogInv
<1>2. Push(FromModule, FALSE, b)  BY DEF execTransactionFromModule
<1>3. /\ DOMAIN safe = StorageFields /\ Len(stack) \in Nat /\ LogOK(safe, stack, Len(stack))
  BY Frames DEF LogInv
<1>4. Plain(e) /\ ~IsReport(e)  BY DEF Event, Plain, IsOutcome, IsAnnouncement, IsReport
<1> HIDE DEF e
<1>5. LogOK(b, stack, Len(stack))  BY <1>3, <1>4, PlainLogged
<1> HIDE DEF b
<1>6. /\ \A i \in 1..Len(stack) : stack'[i] = stack[i]
      /\ stack'[top].nonce = FromModule
  BY <1>2, PushedFrames
<1>7. LogOK(b, stack', top)  BY <1>3, <1>5, <1>6, SilentFrame DEF Tells
<1> QED  BY <1>1, <1>2, <1>7, PushLogged

LEMMA PopLogged ==
  ASSUME LogInv, IndInv', stack # <<>>, stack' = Below, LogOK(safe', stack, Len(stack) - 1)
  PROVE  LogInv'
<1>1. /\ Len(stack) \in Nat /\ Len(stack) >= 1 /\ Len(stack') = Len(stack) - 1
      /\ \A i \in 1..(Len(stack) - 1) : stack'[i] = stack[i]
  BY Frames, Popped DEF Below
<1>2. ASSUME NEW i \in 1..Len(stack')  PROVE LogFrameOK(stack', i)
  BY <1>1, SameFrameLogged DEF LogInv
<1>3. LogOK(safe', stack', Len(stack'))  BY <1>1, SamePrefixLogged
<1> QED  BY <1>1, <1>2, <1>3 DEF LogInv

LEMMA FinishLogged == ASSUME LogInv, Finish PROVE LogInv'
<1>1. stack # <<>> /\ stack' = Below  BY DEF Finish
<1>2. Len(stack) \in Nat /\ Len(stack) >= 1 /\ Top = stack[Len(stack)]
  BY <1>1, Frames DEF Top
<1>3. Fits(Top.before, stack, Len(stack)) /\ LogOK(Top.before, stack, Len(stack))
  BY <1>2 DEF LogInv, IndInv, StackOK, FrameOK, LogFrameOK
<1>4. Fits(safe, stack, Len(stack)) /\ LogOK(safe, stack, Len(stack))  BY DEF LogInv, IndInv
<1>5. LogOK(safe', stack, Len(stack) - 1)  BY <1>1, <1>3, <1>4, Concluded DEF Finish
<1>6. IndInv'  BY FinishStep DEF LogInv
<1> QED  BY <1>1, <1>5, <1>6, PopLogged

LEMMA RevertsLogged == ASSUME LogInv, Reverts PROVE LogInv'
<1>1. stack # <<>> /\ stack' = Below /\ safe' = Top.entry  BY DEF Reverts
<1>2. Len(stack) \in Nat /\ Len(stack) >= 1 /\ Top = stack[Len(stack)]
  BY <1>1, Frames DEF Top
<1>3. LogOK(Top.entry, stack, Len(stack) - 1)  BY <1>2 DEF LogInv, LogFrameOK
<1>4. IndInv'  BY RevertsStep DEF LogInv
<1> QED  BY <1>1, <1>3, <1>4, PopLogged

LEMMA SetGuardLogged == ASSUME LogInv, setGuard PROVE LogInv'
<1>1. safe' = [safe EXCEPT !.guarded = ~safe.guarded] /\ stack' = stack  BY DEF setGuard
<1>2. IndInv'  BY SetGuardStep DEF LogInv
<1>3. DOMAIN safe = StorageFields  BY Frames
<1>4. /\ safe'.log = safe.log /\ safe'.nonce = safe.nonce
      /\ safe'.singleton = safe.singleton
  BY <1>1, <1>3 DEF StorageFields
<1>5. LogOK(safe', stack, Len(stack))  BY <1>4, SameStructure DEF LogInv, LogOK
<1> QED  BY <1>1, <1>2, <1>5 DEF LogInv

\* The migration makes up for the announcement of the transaction it is part of.
LEMMA MigrateLogged ==
  ASSUME LogInv, IndInv', NEW l2Singleton \in Singletons, NEW s, DOMAIN s = StorageFields,
         s.nonce = safe.nonce, LogOK(s, stack, Len(stack)), migrate(l2Singleton, s)
  PROVE  LogInv'
<1> DEFINE e == Announcement(0, FromModule)
           c == Event("ChangedMasterCopy", 0)
           u == Emit(s, e)
           v == Emit(u, c)
           n == Len(s.log) + 1
<1>1. safe' = [v EXCEPT !.singleton = l2Singleton] /\ stack' = stack /\ safe.nonce = 1
  BY DEF migrate
<1>2. /\ IsAnnouncement(e) /\ ~IsOutcome(e) /\ ~IsReport(e)
      /\ e.name # "ChangedMasterCopy" /\ e.nonce = 0 /\ e.within = FromModule
      /\ c.name = "ChangedMasterCopy" /\ ~IsAnnouncement(c) /\ ~IsOutcome(c)
      /\ ~IsReport(c)
  BY DEF Announcement, Event, IsAnnouncement, IsOutcome, IsReport
<1> HIDE DEF e, c
<1>3. s.log \in Seq(Range(s.log)) /\ Len(stack) \in Nat  BY Frames DEF LogOK, StructureOK
<1>4. /\ u.log \in Seq(Range(u.log)) /\ n \in Nat /\ n >= 1
      /\ DOMAIN s.log = 1..(n - 1) /\ DOMAIN u.log = 1..n
      /\ \A i \in 1..(n - 1) : u.log[i] = s.log[i]
      /\ u.log[n] = e /\ u.nonce = s.nonce
  BY <1>3, Logged
<1>5. DOMAIN u = StorageFields /\ Len(u.log) = n  BY <1>4, EmitKeeps
<1>6. UsageOK(u.log)  BY <1>2, <1>3, PlainUsage DEF LogOK
<1>7. EndsOK(u) /\ NestOK(u.log)
  BY <1>2, <1>3, SameEnds, NestLogged DEF LogOK, StructureOK
<1>8. ASSUME NEW i \in 1..Len(stack)  PROVE OpenOK(u.log, stack, i, Len(stack))
  <2>1. i \in Nat /\ OpenOK(s.log, stack, i, Len(stack))  BY DEF LogOK, StructureOK
  <2>2. CASE Tells(stack[i])
    <3>1. stack[i].nonce = 0  BY <1>1, <2>2, Frames DEF Tells, FromModule
    <3>2. ~Ends(e, stack[i].nonce)  BY <1>2 DEF Ends
    <3>3. \A j \in (i + 1)..Len(stack) : j <= Len(stack) /\ stack[j] = stack[j]  BY <1>3
    <3> QED  BY <1>2, <1>3, <2>1, <3>1, <3>2, <3>3, StillOpen
  <2>3. CASE ~Tells(stack[i])  BY <2>3 DEF OpenOK
  <2> QED  BY <2>2, <2>3
<1> HIDE DEF u, n
<1>9. /\ v.log \in Seq(Range(v.log))
      /\ DOMAIN u.log = 1..n /\ DOMAIN v.log = 1..(n + 1)
      /\ \A i \in 1..n : v.log[i] = u.log[i]
      /\ v.log[n + 1] = c /\ v.nonce = u.nonce
  BY <1>4, <1>5, Logged
<1>10. DOMAIN v = StorageFields  BY <1>5, EmitKeeps
<1>11. UsageOK(v.log)  BY <1>2, <1>4, <1>5, <1>6, PlainUsage
<1>12. EndsOK(v) /\ NestOK(v.log)
  BY <1>2, <1>4, <1>5, <1>7, SameEnds, NestLogged
<1>13. ASSUME NEW i \in 1..Len(stack)  PROVE OpenOK(v.log, stack, i, Len(stack))
  <2>1. i \in Nat /\ OpenOK(u.log, stack, i, Len(stack))  BY <1>8
  <2>2. ~Ends(c, stack[i].nonce)  BY <1>2 DEF Ends
  <2>3. \A j \in (i + 1)..Len(stack) : j <= Len(stack) /\ stack[j] = stack[j]  BY <1>3
  <2> QED  BY <1>2, <1>3, <1>4, <1>5, <2>1, <2>2, <2>3, StillOpen
<1> HIDE DEF v
<1>14. /\ DOMAIN safe' = StorageFields /\ safe'.log = v.log /\ safe'.nonce = 1
       /\ safe'.singleton = l2Singleton
  BY <1>1, <1>4, <1>9, <1>10 DEF StorageFields
<1>15. AnnouncedOK(safe')
  <2>1. AnnouncedOK(s) /\ s.nonce = 1  BY <1>1 DEF LogOK, StructureOK
  <2>2. \A x \in 1..(n - 1) : x \in DOMAIN v.log /\ v.log[x] = s.log[x]  BY <1>4, <1>9
  <2>3. n \in DOMAIN v.log /\ v.log[n] = e
    <3>1. n \in 1..n /\ n \in 1..(n + 1)  BY <1>4
    <3> QED  BY <1>4, <1>9, <3>1
  <2>4. ASSUME NEW x \in DOMAIN v.log, IsAnnouncement(v.log[x])
        PROVE  x = n \/ (x \in 1..(n - 1) /\ x \in DOMAIN s.log /\ v.log[x] = s.log[x])
    BY <1>2, <1>4, <1>9, <2>2, <2>4
  <2>5. ASSUME NEW x \in 1..(n - 1)
        PROVE  IsMigration(v.log, x) <=> IsMigration(s.log, x)
    <3>1. x + 1 \in DOMAIN s.log \/ x + 1 = n  BY <1>4
    <3>2. n \notin DOMAIN s.log  BY <1>4
    <3> QED  BY <1>2, <1>4, <2>2, <2>3, <3>1, <3>2 DEF IsMigration
  <2>6. IsMigration(v.log, n)  BY <1>2, <1>4, <1>9 DEF IsMigration
  <2>7. ASSUME NEW i \in DOMAIN v.log, IsAnnouncement(v.log[i])
        PROVE  /\ v.log[i].nonce \in Int /\ v.log[i].nonce < 1
               /\ IsMigration(v.log, i) => v.log[i].nonce = 0
    BY <1>2, <2>1, <2>3, <2>4, <2>5, <2>7 DEF AnnouncedOK
  <2>8. ASSUME NEW i \in DOMAIN v.log, NEW j \in DOMAIN v.log,
               IsAnnouncement(v.log[i]), IsAnnouncement(v.log[j]),
               v.log[i].nonce = v.log[j].nonce, ~IsMigration(v.log, i), ~IsMigration(v.log, j)
        PROVE  i = j
    BY <2>1, <2>4, <2>5, <2>6, <2>8 DEF AnnouncedOK
  <2>9. ASSUME NEW m \in 0..MaxNonce, m < 1
        PROVE  \E i \in DOMAIN v.log : Announces(v.log[i], m)
    <3>1. m = 0  BY <2>9
    <3> QED  BY <1>2, <2>3, <3>1 DEF Announces
  <2> QED  BY <1>14, <2>7, <2>8, <2>9 DEF AnnouncedOK
<1>16. EndsOK(safe')
  <2>1. v.nonce = 1  BY <1>1, <1>4, <1>9
  <2> QED  BY <1>12, <1>14, <2>1 DEF EndsOK
<1>17. LogOK(safe', stack, Len(stack))
  BY <1>9, <1>11, <1>12, <1>13, <1>14, <1>15, <1>16 DEF LogOK, StructureOK
<1> QED  BY <1>1, <1>17 DEF LogInv

LEMMA MigrationsLogged ==
  ASSUME LogInv, NEW l2Singleton \in Singletons,
         migrateToL2(l2Singleton) \/ migrateFromV111(l2Singleton)
  PROVE  LogInv'
<1>1. /\ DOMAIN safe = StorageFields /\ LogOK(safe, stack, Len(stack)) /\ Len(stack) \in Nat
  BY Frames DEF LogInv
<1>3. IndInv'  BY StepOK DEF LogInv, Next
<1>4. CASE migrateToL2(l2Singleton)
  BY <1>1, <1>3, <1>4, MigrateLogged DEF migrateToL2
<1>5. CASE migrateFromV111(l2Singleton)
  <2> DEFINE f == Event("ChangedFallbackHandler", 0)
             g == Event("SafeSetup", 0)
             t == Emit(safe, f)
             s == Emit(t, g)
  <2>1. migrate(l2Singleton, s)  BY <1>5 DEF migrateFromV111
  <2>2. Plain(f) /\ ~IsReport(f) /\ Plain(g) /\ ~IsReport(g)
    BY DEF Event, Plain, IsOutcome, IsAnnouncement, IsReport
  <2> HIDE DEF f, g
  <2>3. safe.log \in Seq(Range(safe.log))  BY <1>1 DEF LogOK, StructureOK
  <2>4. /\ DOMAIN t = StorageFields /\ t.nonce = safe.nonce
        /\ t.log \in Seq(Range(t.log)) /\ t.singleton = safe.singleton
    BY <1>1, <2>3, EmitKeeps, Logged
  <2>5. LogOK(t, stack, Len(stack))  BY <1>1, <2>2, PlainLogged
  <2> HIDE DEF t
  <2>6. DOMAIN s = StorageFields /\ s.nonce = safe.nonce /\ s.singleton = safe.singleton
    BY <2>4, EmitKeeps, Logged
  <2>7. LogOK(s, stack, Len(stack))  BY <1>1, <2>2, <2>4, <2>5, PlainLogged
  <2> HIDE DEF s
  <2> QED  BY <1>3, <2>1, <2>6, <2>7, MigrateLogged
<1> QED  BY <1>4, <1>5

\* What a stranger makes the guard tell begins, ends and moves nothing, and is no report to
\* the Safe.
LEMMA StrangerLogged ==
  ASSUME LogInv, NEW tx \in 0..MaxNonce,
         strangerAfterChecks(tx) \/ \E nonce \in Claims : strangerChecks(tx, nonce)
  PROVE  LogInv'
<1>1. IndInv'  BY StrangerStep DEF LogInv
<1>2. /\ DOMAIN safe = StorageFields /\ Len(stack) \in Nat /\ LogOK(safe, stack, Len(stack))
  BY Frames DEF LogInv
<1>3. ASSUME NEW x, NEW e, Plain(e), ~IsReport(e),
             safe' = Emit([safe EXCEPT !.txNonces[tx] = x], e), stack' = stack
      PROVE  LogInv'
  <2> DEFINE r == [safe EXCEPT !.txNonces[tx] = x]
  <2>1. /\ DOMAIN r = StorageFields /\ r.log = safe.log /\ r.nonce = safe.nonce
        /\ r.singleton = safe.singleton
    BY <1>2 DEF StorageFields
  <2> HIDE DEF r
  <2>2. LogOK(r, stack, Len(stack))  BY <1>2, <2>1, SameStructure DEF LogOK
  <2>3. LogOK(Emit(r, e), stack, Len(stack))  BY <1>2, <1>3, <2>1, <2>2, PlainLogged
  <2> QED  BY <1>1, <1>3, <2>3 DEF LogInv, r
<1>4. CASE strangerAfterChecks(tx)
  <2> DEFINE e == Told("GasUsage", tx, safe.txNonces[tx], "stranger")
  <2>1. Plain(e) /\ ~IsReport(e)  BY DEF Told, Plain, IsOutcome, IsAnnouncement, IsReport
  <2>2. safe' = Emit([safe EXCEPT !.txNonces[tx] = 0], e) /\ stack' = stack
    BY <1>4 DEF strangerAfterChecks, checkAfterExecution
  <2> HIDE DEF e
  <2> QED  BY <1>3, <2>1, <2>2
<1>5. ASSUME NEW nonce \in Claims, strangerChecks(tx, nonce)  PROVE LogInv'
  <2> DEFINE e == Told("TransactionDetails", tx, nonce, "stranger")
  <2>1. Plain(e) /\ ~IsReport(e)  BY DEF Told, Plain, IsOutcome, IsAnnouncement, IsReport
  <2>2. safe' = Emit([safe EXCEPT !.txNonces[tx] = nonce], e) /\ stack' = stack
    BY <1>5 DEF strangerChecks, checkTransaction
  <2> HIDE DEF e
  <2> QED  BY <1>3, <2>1, <2>2
<1> QED  BY <1>4, <1>5

\* No step lets the events tell what was not.
LEMMA StepLogged == ASSUME LogInv, [Next]_vars PROVE LogInv'
<1>1. CASE UNCHANGED vars
  <2>1. IndInv'  BY <1>1, StepOK DEF LogInv
  <2>2. safe' = safe /\ stack' = stack  BY <1>1 DEF vars
  <2> QED  BY <2>1, <2>2 DEF LogInv
<1>2. ASSUME NEW tx \in 0..(MaxNonce - 1),
             strangerAfterChecks(tx) \/ \E nonce \in Claims : strangerChecks(tx, nonce)
      PROVE  LogInv'
  <2>1. tx \in 0..MaxNonce  BY BoundAssumption DEF BoundAssumption
  <2> QED  BY <1>2, <2>1, StrangerLogged
<1> QED  BY <1>1, <1>2, ExecLogged, ModuleLogged, FinishLogged, RevertsLogged, SetGuardLogged,
            MigrationsLogged DEF Next

--------------------------------------------------------------------------------
\* The guard reports of exactly the executed transactions that it checked, with their nonce
\* or the one a stranger told it in between (DebugTransactionGuard.sol:83-88).
THEOREM UsageIsTrueAlways == Spec => []UsageIsTrue
<1>1. ASSUME LogInv  PROVE UsageIsTrue
  <2> DEFINE log == safe.log
  <2>1. UsageOK(log)  BY <1>1 DEF LogInv, LogOK
  <2>2. log \in Seq(Range(log))  BY <1>1 DEF LogInv, LogOK, StructureOK
  <2>3. DOMAIN log \subseteq Int  BY <2>2
  <2> HIDE DEF log
  <2> DEFINE Checked == {i \in DOMAIN log :
                           /\ log[i].name \in {"ExecutionSuccess", "ExecutionFailure"}
                           /\ log[i].guarded}
             Usage == {i \in DOMAIN log : log[i].name = "GasUsage" /\ log[i].by = "Safe"}
  <2>4. \A i \in Checked : HasReport(log, i)  BY <2>1 DEF UsageOK, IsOutcome
  <2>5. \A i \in Checked : i + 1 \in Usage  BY <2>4 DEF HasReport, IsReport
  <2>6. \A i \in Usage : i - 1 \in Checked /\ i = (i - 1) + 1
    BY <2>1, <2>3 DEF UsageOK, IsOutcome, IsReport
  <2>7. Usage = {i + 1 : i \in Checked}
    <3> HIDE DEF Checked, Usage
    <3> QED  BY <2>5, <2>6
  <2>8. \A i \in Checked :
          /\ log[i + 1].tx = log[i].nonce /\ log[i + 1].nonce # 0
          /\ \/ log[i + 1].nonce = log[i].nonce
             \/ \E p \in DOMAIN log :
                  StrangersWord(log, p, log[i].nonce, i) /\ log[i + 1].nonce = Left(log[p])
    <3> HIDE DEF Checked
    <3> QED  BY <2>4 DEF HasReport
  <2> QED  BY <2>7, <2>8 DEF UsageIsTrue, log
<1> QED  BY <1>1, InitLogged, StepLogged, PTL DEF Spec

\* The events of a SafeL2 give every nonce, and once but for what migrations announce
\* (SafeToL2Migration.sol:98).
THEOREM EachNonceAnnouncedOnceAlways == Spec => []EachNonceAnnouncedOnce
<1>1. ASSUME LogInv  PROVE EachNonceAnnouncedOnce
  <2> DEFINE log == safe.log
  <2>1. AnnouncedOK(safe) /\ log \in Seq(Range(log)) /\ safe.nonce \in Int
    BY <1>1, Frames DEF LogInv, LogOK, StructureOK
  <2>2. SUFFICES ASSUME safe.singleton.l2, NEW n \in 0..MaxNonce
                 PROVE  /\ n < safe.nonce <=> Announcements(n) # {}
                        /\ Cardinality(Announcements(n) \ OfMigration) <= 1
                        /\ n # 0 => Announcements(n) \cap OfMigration = {}
    BY DEF EachNonceAnnouncedOnce
  <2>3. Announcements(n) = {i \in DOMAIN log : IsAnnouncement(log[i]) /\ log[i].nonce = n}
    BY DEF Announcements, Positions, IsAnnouncement
  <2>4. \A i \in DOMAIN log : i \in OfMigration <=> IsMigration(log, i)
    BY DEF OfMigration, IsMigration
  <2>5. n < safe.nonce <=> Announcements(n) # {}
    <3>1. ASSUME NEW i \in Announcements(n)  PROVE n < safe.nonce
      BY <2>1, <2>3 DEF AnnouncedOK
    <3>2. ASSUME n < safe.nonce  PROVE Announcements(n) # {}
      BY <2>1, <2>2, <2>3, <3>2 DEF AnnouncedOK, Announces
    <3> QED  BY <3>1, <3>2
  <2>6. n # 0 => Announcements(n) \cap OfMigration = {}
    BY <2>1, <2>3, <2>4 DEF AnnouncedOK
  <2>7. Cardinality(Announcements(n) \ OfMigration) <= 1
    <3> DEFINE S == Announcements(n) \ OfMigration
    <3>1. \A i, j \in S : i = j  BY <2>1, <2>3, <2>4 DEF AnnouncedOK
    <3> HIDE DEF S
    <3>2. CASE S = {}  BY <3>2, FS_EmptySet DEF S
    <3>3. CASE S # {}
      <4>1. PICK i \in S : TRUE  BY <3>3
      <4>2. S = {i}  BY <3>1, <4>1
      <4> QED  BY <4>2, FS_Singleton DEF S
    <3> QED  BY <3>2, <3>3
  <2> QED  BY <2>5, <2>6, <2>7
<1> QED  BY <1>1, InitLogged, StepLogged, PTL DEF Spec

\* From the events an indexer can tell what was executed within what (SafeL2.sol:53).
THEOREM EventsNestAlways == Spec => []EventsNest
<1>1. ASSUME LogInv  PROVE EventsNest
  <2> DEFINE log == safe.log
  <2>1. EndsOK(safe) /\ NestOK(log)  BY <1>1 DEF LogInv, LogOK, StructureOK
  <2>2. \A n : Announcements(n) = {i \in DOMAIN log : Announces(log[i], n)}
    BY DEF Announcements, Positions, Announces, IsAnnouncement
  <2>3. \A n : Outcomes(n) = {i \in DOMAIN log : Ends(log[i], n)}
    BY DEF Outcomes, Positions, Ends, IsOutcome
  <2>4. ASSUME NEW n \in 0..MaxNonce, NEW c \in Outcomes(n), log[c].announced
        PROVE  \E o \in Announcements(n) : o < c
    <3>1. c \in DOMAIN log /\ IsOutcome(log[c]) /\ log[c].nonce = n  BY <2>3 DEF Ends
    <3>2. n # FromModule  BY DEF FromModule
    <3>3. \E o \in DOMAIN log : o < c /\ Announces(log[o], n)
      BY <2>1, <2>4, <3>1, <3>2 DEF EndsOK
    <3> QED  BY <2>2, <3>3
  <2>5. ASSUME NEW n \in 0..MaxNonce, NEW p \in Announcements(n), NEW up,
               up = log[p].within, up # FromModule
        PROVE  \E o \in Announcements(up) :
                 /\ o < p
                 /\ \A c \in Outcomes(up) : p < c
                 /\ \A m \in 0..MaxNonce \ {up} : \A q \in Announcements(m) :
                      o < q /\ q < p => \E d \in Outcomes(m) : q < d /\ d < p
    <3>1. p \in DOMAIN log /\ IsAnnouncement(log[p])  BY <2>2 DEF Announces
    <3>2. Lies(log, p, up)  BY <2>1, <2>5, <3>1 DEF NestOK
    <3>3. PICK o \in DOMAIN log :
            /\ Announces(log[o], up) /\ o < p
            /\ \A c \in DOMAIN log : Ends(log[c], up) => p < c
            /\ \A q \in DOMAIN log :
                 o < q /\ q < p /\ IsAnnouncement(log[q]) /\ log[q].nonce # up =>
                   \E c \in DOMAIN log : Ends(log[c], log[q].nonce) /\ q < c /\ c < p
      BY <3>2 DEF Lies
    <3>4. ASSUME NEW m \in 0..MaxNonce \ {up}, NEW q \in Announcements(m), o < q, q < p
          PROVE  \E d \in Outcomes(m) : q < d /\ d < p
      <4>1. q \in DOMAIN log /\ IsAnnouncement(log[q]) /\ log[q].nonce = m
        BY <2>2 DEF Announces
      <4> HIDE DEF log
      <4>2. \E c \in DOMAIN log : Ends(log[c], m) /\ q < c /\ c < p
        BY <3>3, <3>4, <4>1
      <4> QED  BY <2>3, <4>2
    <3>5. o \in Announcements(up) /\ \A c \in Outcomes(up) : p < c  BY <2>2, <2>3, <3>3
    <3> QED  BY <3>3, <3>4, <3>5
  <2> QED  BY <2>4, <2>5 DEF EventsNest
<1> QED  BY <1>1, InitLogged, StepLogged, PTL DEF Spec
==================================================================================
