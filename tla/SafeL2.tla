--------------------------------- MODULE SafeL2 ----------------------------------
(***************************************************************************)
(* What an indexer learns of a Safe from events.  SafeL2 announces every   *)
(* transaction with its nonce before it is executed; a Safe that is no     *)
(* SafeL2 does not, and SafeToL2Migration turns it into one within its     *)
(* first transaction and makes up for that transaction's event.            *)
(* DebugTransactionGuard tells of transactions as well: its first hook     *)
(* stores the nonce under the hash, and its second has to find it there,   *)
(* where zero stands for none.  Calls may execute further transactions of  *)
(* the Safe, let its modules execute, set the guard, migrate, fail or      *)
(* revert; and anyone may call the hooks of the guard at any time, telling *)
(* it any nonce, as they ask for no caller.                                *)
(***************************************************************************)
EXTENDS Integers, Sequences, FiniteSetsExt

CONSTANTS
  Singletons,              \* contracts: their address, version, and whether they are a SafeL2
  MaxNonce, MaxDepth, MaxLog, \* bounds: transactions, nested executions, events
  Claims,                  \* what strangers may tell the guard that their nonce is, less one
  MaxStrangers             \* bound: calls of strangers

ASSUME BoundAssumption == MaxNonce \in Nat /\ Claims \subseteq Nat

VARIABLES
  safe,    \* its singleton, nonce, whether it has the guard, what the guard keeps, and
           \* the events: what a revert restores
  stack    \* the executions under way

vars == <<safe, stack>>

HasGuards(singleton) == singleton.version # "1.1.1"

\* setup may set the guard in its initializer.
Init ==
  /\ safe \in [singleton : Singletons, nonce : {0}, guarded : BOOLEAN,
               txNonces : {[n \in 0..MaxNonce |-> 0]}, log : {<<>>}]
  /\ safe.guarded => HasGuards(safe.singleton)
  /\ stack = <<>>

Top == stack[Len(stack)]
Below == SubSeq(stack, 1, Len(stack) - 1)

FromModule == -1   \* the executions of modules have no nonce
Emit(s, event) == [s EXCEPT !.log = Append(@, event)]
Event(name, nonce) == [name |-> name, nonce |-> nonce]

\* The innermost transaction under way that was announced: nonces grow up the stack.
Within == Max({FromModule} \cup {stack[i].nonce : i \in {j \in DOMAIN stack : stack[j].l2}})
Announcement(nonce, within) ==
  [name |-> "SafeMultiSigTransaction", nonce |-> nonce, within |-> within]

CanCall == Len(stack) < MaxDepth /\ Len(safe.log) < MaxLog

--------------------------------------------------------------------------------
(***************************************************************************)
(* The hooks of DebugTransactionGuard, by the Safe or by a stranger (the   *)
(* Safe too, if it is what a transaction calls).  A hash is the nonce it   *)
(* contains: no two transactions with one nonce are ever both in effect.   *)
(***************************************************************************)
Told(name, tx, nonce, by) == [name |-> name, tx |-> tx, nonce |-> nonce, by |-> by]

\* The nonce is the caller's, less one.
checkTransaction(s, tx, nonce, by) ==
  Emit([s EXCEPT !.txNonces[tx] = nonce], Told("TransactionDetails", tx, nonce, by))

Finds(s, tx) == s.txNonces[tx] # 0

\* Leaves the entry behind.
checkAfterExecutionSlip(s, tx, by) == Emit(s, Told("GasUsage", tx, s.txNonces[tx], by))

checkAfterExecution(s, tx, by) ==
  Emit([s EXCEPT !.txNonces[tx] = 0], Told("GasUsage", tx, s.txNonces[tx], by))

ByStrangers(log) ==
  {i \in DOMAIN log : log[i].name \in {"TransactionDetails", "GasUsage"} /\ log[i].by = "stranger"}

StrangerCanCall == Cardinality(ByStrangers(safe.log)) < MaxStrangers

\* Its nonce() and getTransactionHash() answer what it likes.
strangerChecks(tx, nonce) ==
  /\ StrangerCanCall
  /\ safe' = checkTransaction(safe, tx, nonce, "stranger")
  /\ UNCHANGED stack

strangerAfterChecks(tx) ==
  /\ StrangerCanCall /\ Finds(safe, tx)
  /\ safe' = checkAfterExecution(safe, tx, "stranger")
  /\ UNCHANGED stack

--------------------------------------------------------------------------------
\* An execution keeps what its revert restores, and what the failure of its call does.
Push(nonce, guarded, before) ==
  /\ safe' = before
  /\ stack' = Append(stack, [nonce |-> nonce, guarded |-> guarded,
                             l2 |-> safe.singleton.l2, entry |-> safe, before |-> before])

\* Announces the nonce after it was incremented.
AnnouncedSlip(s) == IF s.singleton.l2 THEN Emit(s, Announcement(s.nonce + 1, Within)) ELSE s

Announced(s) == IF s.singleton.l2 THEN Emit(s, Announcement(s.nonce, Within)) ELSE s

\* The guard is read once, after the nonce was incremented.
execTransaction ==
  /\ CanCall /\ safe.nonce < MaxNonce
  /\ LET counted == [Announced(safe) EXCEPT !.nonce = @ + 1]
     IN Push(safe.nonce, safe.guarded,
             IF safe.guarded THEN checkTransaction(counted, safe.nonce, counted.nonce - 1, "Safe")
             ELSE counted)

execTransactionFromModule ==
  /\ CanCall
  /\ Push(FromModule, FALSE,
          IF safe.singleton.l2 THEN Emit(safe, Event("SafeModuleTransaction", FromModule))
          ELSE safe)

Outcome(name) == [name |-> name, nonce |-> Top.nonce, announced |-> Top.l2,
                  guarded |-> Top.guarded]

\* The guard is looked up again after the call.
AfterCheckSlip(s) == s.guarded /\ Top.nonce # FromModule

AfterCheck(s) == Top.guarded

Finished(s) ==
  /\ AfterCheck(s) => Finds(s, Top.nonce)
  /\ safe' = IF AfterCheck(s) THEN checkAfterExecution(s, Top.nonce, "Safe") ELSE s

\* Tells of the outcome before the call is made.
FinishSlip ==
  /\ stack # <<>>
  /\ stack' = Below
  /\ Finished([Emit(Top.before, Outcome("ExecutionSuccess")) EXCEPT
                 !.nonce = safe.nonce, !.singleton = safe.singleton,
                 !.log = @ \o SubSeq(safe.log, Len(Top.before.log) + 1, Len(safe.log))])

\* The call is over: it succeeded, or failed and nothing of it is left.
Finish ==
  /\ stack # <<>>
  /\ stack' = Below
  /\ \/ Finished(Emit(safe, Outcome("ExecutionSuccess")))
     \/ Finished(Emit(Top.before, Outcome("ExecutionFailure")))

\* A require, the guard's too, or the gas; the caller may go on.
Reverts == stack # <<>> /\ safe' = Top.entry /\ stack' = Below

\* By what is executed under way, of the owners or of a module.
setGuard ==
  /\ stack # <<>> /\ HasGuards(safe.singleton)
  /\ safe' = [safe EXCEPT !.guarded = ~@]
  /\ UNCHANGED stack

--------------------------------------------------------------------------------
\* The common part: by delegatecall, with nonce 1.
migrate(l2Singleton, s) ==
  /\ stack # <<>> /\ Len(safe.log) < MaxLog
  /\ safe.nonce = 1                                 \* onlyNonceZero
  /\ safe' = [Emit(Emit(s, Announcement(0, FromModule)), Event("ChangedMasterCopy", 0))
                EXCEPT !.singleton = l2Singleton]
  /\ UNCHANGED stack

\* The new singleton has to have the same version, and to be another contract: a SafeL2 can
\* migrate to another one.
migrateToL2(l2Singleton) ==
  /\ safe.singleton # l2Singleton
  /\ safe.singleton.version = l2Singleton.version
  /\ l2Singleton.version \in {"1.3.0", "1.4.1"}
  /\ migrate(l2Singleton, safe)

migrateFromV111(l2Singleton) ==
  /\ safe.singleton.version = "1.1.1"
  /\ l2Singleton.version \in {"1.3.0", "1.4.1"}
  /\ migrate(l2Singleton,
             Emit(Emit(safe, Event("ChangedFallbackHandler", 0)), Event("SafeSetup", 0)))

Next ==
  \/ execTransaction \/ execTransactionFromModule \/ Finish \/ Reverts \/ setGuard
  \/ \E s \in Singletons : migrateToL2(s) \/ migrateFromV111(s)
  \/ \E tx \in 0..(MaxNonce - 1) :
       strangerAfterChecks(tx) \/ \E nonce \in Claims : strangerChecks(tx, nonce)

Spec == Init /\ [][Next]_vars

--------------------------------------------------------------------------------
Positions(names, nonce) ==
  {i \in DOMAIN safe.log : safe.log[i].name \in names /\ safe.log[i].nonce = nonce}
Announcements(n) == Positions({"SafeMultiSigTransaction"}, n)
Outcomes(n) == Positions({"ExecutionSuccess", "ExecutionFailure"}, n)

\* What a migration announced: it lies right before the change of the master copy.
OfMigration ==
  {i \in DOMAIN safe.log :
    i + 1 \in DOMAIN safe.log /\ safe.log[i + 1].name = "ChangedMasterCopy"}

\* An indexer that reads the events of a SafeL2 has every nonce below the current one, no
\* other, and none twice, also within nested executions, failed and reverted ones and after
\* migrations (SafeToL2Migration.sol:98, "so backend can support it").  Only what migrations
\* announce comes again, as a SafeL2 may migrate to another: that is nonce 0 alone.
EachNonceAnnouncedOnce ==
  safe.singleton.l2 =>
    \A n \in 0..MaxNonce :
      /\ n < safe.nonce <=> Announcements(n) # {}
      /\ Cardinality(Announcements(n) \ OfMigration) <= 1
      /\ n # 0 => Announcements(n) \cap OfMigration = {}

\* Every outcome has its announcement before it, and what is announced within another
\* transaction lies between the two of that one, and of none that is nested in between; so
\* an indexer can tell which events belong to which transaction (SafeL2.sol:53).
EventsNest ==
  /\ \A n \in 0..MaxNonce : \A c \in Outcomes(n) :
       safe.log[c].announced => \E o \in Announcements(n) : o < c
  /\ \A n \in 0..MaxNonce : \A p \in Announcements(n) :
       LET up == safe.log[p].within
       IN up # FromModule =>
            \E o \in Announcements(up) :
              /\ o < p
              /\ \A c \in Outcomes(up) : p < c
              /\ \A m \in 0..MaxNonce \ {up} : \A q \in Announcements(m) :
                   o < q /\ q < p => \E d \in Outcomes(m) : q < d /\ d < p

IsHook(e, tx) == e.name \in {"TransactionDetails", "GasUsage"} /\ e.tx = tx
Left(e) == IF e.name = "GasUsage" THEN 0 ELSE e.nonce

\* Of the calls of the hooks about tx before c, the last is a stranger's, at p.
StrangersWord(log, p, tx, c) ==
  /\ p < c /\ IsHook(log[p], tx) /\ log[p].by = "stranger"
  /\ \A q \in DOMAIN log : p < q /\ q < c => ~IsHook(log[q], tx)

Under(k, d, tx) == \E i \in 1..d : k[i].guarded /\ k[i].nonce = tx

\* What the guard knows of a transaction is what the last stranger left who came after the
\* Safe.  Without one it knows the nonces of exactly the transactions under way that it
\* checked, whatever was set, failed or reverted in between: nothing is left behind for
\* later (DebugTransactionGuard.sol:86), and no after-check but that of nonce 0 misses its
\* entry and so takes the transaction back (DebugTransactionGuard.sol:85).
Remembers(s, tx, under) ==
  LET Words == {p \in DOMAIN s.log : StrangersWord(s.log, p, tx, Len(s.log) + 1)}
  IN \/ \E p \in Words : s.txNonces[tx] = Left(s.log[p])
     \/ Words = {} /\ s.txNonces[tx] = IF under THEN tx ELSE 0

PendingExactly ==
  \A tx \in 0..MaxNonce : Remembers(safe, tx, Under(stack, Len(stack), tx))

\* For each executed transaction that it checked, and for no other, the guard reports to the
\* Safe right after the outcome, and with the nonce of that transaction unless a stranger
\* told it another between the two hooks; it never reports nonce 0
\* (DebugTransactionGuard.sol:84-87).
UsageIsTrue ==
  LET Guarded == {i \in DOMAIN safe.log :
                   /\ safe.log[i].name \in {"ExecutionSuccess", "ExecutionFailure"}
                   /\ safe.log[i].guarded}
      Usage == {i \in DOMAIN safe.log : safe.log[i].name = "GasUsage" /\ safe.log[i].by = "Safe"}
  IN /\ Usage = {i + 1 : i \in Guarded}
     /\ \A i \in Guarded :
          LET tx == safe.log[i].nonce
              told == safe.log[i + 1].nonce
          IN /\ safe.log[i + 1].tx = tx /\ told # 0
             /\ \/ told = tx
                \/ \E p \in DOMAIN safe.log :
                     StrangersWord(safe.log, p, tx, i) /\ told = Left(safe.log[p])

\* CHANGELOG.md:537 says of the guard: "One event will be emitted containing the transaction
\* details and another to track the status of a specific nonce": once the call of what it
\* checked returns, the after-check can emit that event.
StatusTracked ==
  stack # <<>> /\ Top.guarded => Finds(safe, Top.nonce)
================================================================================
