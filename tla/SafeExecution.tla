----------------------------- MODULE SafeExecution ------------------------------
(***************************************************************************)
(* How a Safe executes transactions: execTransaction (Safe.sol), the       *)
(* module's execTransactionFromModule (ModuleManager.sol) and the guards   *)
(* around both, with everything that runs in between.                      *)
(*                                                                         *)
(* The EVM runs one call at a time, but every external call hands control  *)
(* to code the Safe does not know: the target, the guard, the receiver of  *)
(* the refund or its token.  That code may call the Safe again, return, or *)
(* revert, and a revert takes back all that happened since its call.  So   *)
(* the state is the storage, `world`, and the stack of the Safe's own open *)
(* calls; each action is the code between two external calls, and the      *)
(* nondeterminism is what the code at the top of the stack does next.      *)
(***************************************************************************)
EXTENDS Integers, Sequences, FiniteSets, SequencesExt

CONSTANTS
  Tx,             \* transactions that owners sign
  Ops,            \* Ops[tx]: the calls tx makes.  One, or those of a MultiSend
  safeTxGas, gasPrice,  \* functions on Tx
  Signed,         \* the [tx, nonce] that enough owners have confirmed
  Module,         \* contracts that may be modules
  ModuleOps,      \* what modules ask for: sequences of calls
  ReentrancyGuard,  \* the guard whose code is ReentrancyTransactionGuard.sol
  NoGuard,        \* address(0)
  InitialWorlds,  \* the storage when the behaviour begins
  MaxNonce, MaxDepth, MaxTrace,  \* bounds: nonces, open calls, trace entries
  MaxStrangers    \* bound: calls of that guard by others

(***************************************************************************)
(* The storage that a revert restores.  trace is what contracts and events *)
(* record: the guards' calls, the effects of executed calls, refunds, and  *)
(* the events.  busy is the flag of ReentrancyTransactionGuard, one for    *)
(* all that call its hooks; strangers are the calls that changed it and    *)
(* were not made around a transaction of this Safe.                        *)
(***************************************************************************)
Entry(type, id, by) == [type |-> type, id |-> id, by |-> by]

Note(w, type, id, by) == [w EXCEPT !.trace = Append(@, Entry(type, id, by))]

(***************************************************************************)
(* An open call of execTransaction ("exec") or execTransactionFromModule   *)
(* ("module").  pc is the external call it waits for, at the call of its   *)
(* MultiSend that is running, entry and before the storage to restore when *)
(* the whole call or only what it executes reverts, guard the local        *)
(* variable that both functions read once.                                 *)
(***************************************************************************)
VARIABLES world, stack

vars == <<world, stack>>

StorageFields ==
  {"nonce", "guard", "moduleGuard", "modules", "busy", "strangers", "trace"}

\* A behaviour begins with a Safe that has executed nothing.
ASSUME InitialAssumption ==
  \A w \in InitialWorlds :
    /\ DOMAIN w = StorageFields /\ w.nonce = 0 /\ w.trace = <<>>
    /\ w.busy = FALSE /\ w.strangers = <<>>

ASSUME GuardAssumption == ReentrancyGuard # NoGuard

\* What is executed is a sequence of calls.
ASSUME CallsAssumption ==
  /\ \A tx \in Tx : Ops[tx] \in Seq(Range(Ops[tx]))
  /\ \A ops \in ModuleOps : ops \in Seq(Range(ops))

Init == world \in InitialWorlds /\ stack = <<>>

Top == stack[Len(stack)]
Below == SubSeq(stack, 1, Len(stack) - 1)

\* The Safe's call at the top goes on: new storage, new state of the call.
Continue(f, w) == world' = w /\ stack' = Append(Below, f)

Return(w) == world' = w /\ stack' = Below

IsSelfCall(op) == op.do # "call"

\* The call waits for code that the Safe does not know, and that may call any
\* contract, so also any module.
CallsOut(f) ==
  \/ f.pc = "execute" /\ f.at \in DOMAIN f.ops /\ ~IsSelfCall(f.ops[f.at])
  \/ f.pc = "refund"
  \/ f.pc \in {"check", "after"} /\ f.guard # ReentrancyGuard

CanEnter ==
  /\ stack # <<>> => CallsOut(Top)
  /\ Len(stack) < MaxDepth
  /\ Len(world.trace) < MaxTrace

--------------------------------------------------------------------------------
(***************************************************************************)
(* The guards' hooks, as the trace records them.  ReentrancyTransactionGuard *)
(* refuses a check while it is active, and is active until its after-check; *)
(* for both kinds of transaction it is the same code.                      *)
(***************************************************************************)
\* A guard that forgets to look at its own flag.
AdmitsSlip(guard, w) == TRUE

Admits(guard, w) == guard = ReentrancyGuard => ~w.busy

Checked(f, w) ==
  [Note(w, "check", f.id, f.guard) EXCEPT !.busy = @ \/ f.guard = ReentrancyGuard]

AfterChecked(f, w) ==
  [Note(w, "after", f.id, f.guard) EXCEPT !.busy = @ /\ f.guard # ReentrancyGuard]

\* The hooks ask for no caller: another Safe with this guard calls them, and so may any code
\* that runs, or a transaction of this Safe whose target is the guard.
StrangerCalls(hook, active) ==
  /\ stack # <<>> => CallsOut(Top)
  /\ Len(world.strangers) < MaxStrangers
  /\ world' = [world EXCEPT !.busy = active, !.strangers = Append(@, hook)]
  /\ UNCHANGED stack

strangerChecks == Admits(ReentrancyGuard, world) /\ StrangerCalls("check", TRUE)

\* It changes nothing when the flag is not set.
strangerAfterChecks == world.busy /\ StrangerCalls("after", FALSE)

(***************************************************************************)
(* Entering.  The guard is read once; if there is one it is called first.  *)
(***************************************************************************)
Enter(f, w) ==
  \/ /\ f.guard = NoGuard
     /\ world' = w /\ stack' = Append(stack, [f EXCEPT !.pc = "execute", !.before = w])
  \/ /\ f.guard # NoGuard /\ Admits(f.guard, w)
     /\ world' = Checked(f, w) /\ stack' = Append(stack, f)

Frame(kind, id, ops, guard) ==
  [kind |-> kind, id |-> id, ops |-> ops, guard |-> guard, pc |-> "check", at |-> 1,
   ok |-> FALSE, entry |-> world, before |-> world]

\* A pre-increment: the nonce in the hash is the next one.
TransactionHashSlip(tx) == [tx |-> tx, nonce |-> world.nonce + 1]

\* The hash binds every parameter of the transaction and the nonce.
TransactionHash(tx) == [tx |-> tx, nonce |-> world.nonce]

\* Anyone who has the signatures may relay them.  nonce++ comes before the
\* signatures are checked and before any external call.
execTransaction(tx) ==
  /\ CanEnter /\ world.nonce < MaxNonce
  /\ TransactionHash(tx) \in Signed                 \* checkSignatures
  /\ Enter(Frame("exec", TransactionHash(tx), Ops[tx], world.guard),
           [world EXCEPT !.nonce = @ + 1])

\* What tells two module transactions apart: guards make a hash of their own.
ModuleTxHash(module, ops) ==
  [module |-> module, ops |-> ops, at |-> Len(world.trace), depth |-> Len(stack)]

execTransactionFromModule(module, ops) ==
  /\ CanEnter
  /\ module \in world.modules                       \* GS104
  /\ Enter(Frame("module", ModuleTxHash(module, ops), ops, world.moduleGuard), world)

\* The guard lets the transaction pass: execute begins.
GuardApproves ==
  /\ stack # <<>> /\ Top.pc = "check"
  /\ Continue([Top EXCEPT !.pc = "execute", !.before = world], world)

--------------------------------------------------------------------------------
(***************************************************************************)
(* Executing the calls one after the other: a call to the Safe itself is   *)
(* an authorized function, any other leaves its effect when it returns.    *)
(***************************************************************************)
CanApply(op, w) ==
  CASE op.do = "enableModule"  -> op.arg \notin w.modules       \* GS102
    [] op.do = "disableModule" -> op.arg \in w.modules          \* GS103
    [] OTHER -> TRUE

Apply(op, w) ==
  CASE op.do = "setGuard"       -> [w EXCEPT !.guard = op.arg]
    [] op.do = "setModuleGuard" -> [w EXCEPT !.moduleGuard = op.arg]
    [] op.do = "enableModule"   -> [w EXCEPT !.modules = @ \cup {op.arg}]
    [] op.do = "disableModule"  -> [w EXCEPT !.modules = @ \ {op.arg}]
    [] OTHER -> w

CallReturns ==
  /\ stack # <<>> /\ Top.pc = "execute" /\ Top.at \in DOMAIN Top.ops
  /\ LET op == Top.ops[Top.at]
     IN /\ CanApply(op, world)
        /\ Continue([Top EXCEPT !.at = @ + 1],
                    Note(Apply(op, world), "effect", Top.id, NoGuard))

\* The event, then the guard; execTransactionFromModule does it the other way round.
EventOf(f) ==
  CASE f.kind = "exec" /\ f.ok    -> "ExecutionSuccess"
    [] f.kind = "exec" /\ ~f.ok   -> "ExecutionFailure"
    [] f.kind = "module" /\ f.ok  -> "ExecutionFromModuleSuccess"
    [] f.kind = "module" /\ ~f.ok -> "ExecutionFromModuleFailure"

\* Asks for the guard again, instead of using the one that checked.
EmitSlip(f, w) ==
  LET logged == Note(w, EventOf(f), f.id, NoGuard)
  IN IF w.guard = NoGuard
     THEN Return(logged)
     ELSE Continue([f EXCEPT !.pc = "after", !.guard = w.guard], logged)

Emit(f, w) ==
  LET logged == Note(w, EventOf(f), f.id, NoGuard)
  IN IF f.guard = NoGuard
     THEN Return(logged)
     ELSE Continue([f EXCEPT !.pc = "after"], logged)

\* Forgets the refund of a transaction that failed.
AfterExecutionSlip(f, w) ==
  CASE f.kind = "exec" /\ gasPrice[f.id.tx] > 0 /\ f.ok ->
         Continue([f EXCEPT !.pc = "refund"], w)
    [] f.kind = "exec" /\ (gasPrice[f.id.tx] = 0 \/ ~f.ok) -> Emit(f, w)
    [] f.kind = "module" /\ f.guard = NoGuard -> Emit(f, w)
    [] f.kind = "module" /\ f.guard # NoGuard ->
         Continue([f EXCEPT !.pc = "after"], w)

AfterExecution(f, w) ==
  CASE f.kind = "exec" /\ gasPrice[f.id.tx] > 0 ->
         Continue([f EXCEPT !.pc = "refund"], w)
    [] f.kind = "exec" /\ ~(gasPrice[f.id.tx] > 0) -> Emit(f, w)
    [] f.kind = "module" /\ f.guard = NoGuard -> Emit(f, w)
    [] f.kind = "module" /\ f.guard # NoGuard ->
         Continue([f EXCEPT !.pc = "after"], w)

ExecutionSucceeds ==
  /\ stack # <<>> /\ Top.pc = "execute" /\ Top.at > Len(Top.ops)
  /\ AfterExecution([Top EXCEPT !.ok = TRUE], world)

\* execTransaction goes on after a failure only if the transaction sets a gas limit
\* or a gas price (GS013); execTransactionFromModule always does.
FailureTolerated(f) ==
  f.kind = "exec" => safeTxGas[f.id.tx] # 0 \/ gasPrice[f.id.tx] # 0

\* A MultiSend that goes on when one of its calls fails.
ExecutionFailsSlip ==
  /\ stack # <<>> /\ Top.pc = "execute" /\ FailureTolerated(Top)
  /\ AfterExecution([Top EXCEPT !.ok = FALSE], world)

\* The target reverts, a call of the MultiSend fails and takes the others with it,
\* or the gas for the call is used up.
ExecutionFails ==
  /\ stack # <<>> /\ Top.pc = "execute" /\ FailureTolerated(Top)
  /\ AfterExecution([Top EXCEPT !.ok = FALSE], Top.before)

\* handlePayment: the receiver or the token is called, and has to accept.
RefundPaid ==
  /\ stack # <<>> /\ Top.pc = "refund"
  /\ Emit(Top, Note(world, "refund", Top.id, NoGuard))

\* Asks for the module guard again, instead of using the one that checked.
GuardAcceptsSlip ==
  /\ stack # <<>> /\ Top.pc = "after"
  /\ LET guard == IF Top.kind = "exec" THEN Top.guard ELSE world.moduleGuard
         w == AfterChecked([Top EXCEPT !.guard = guard], world)
     IN IF Top.kind = "exec" THEN Return(w)
        ELSE Return(Note(w, EventOf(Top), Top.id, NoGuard))

\* checkAfterExecution, checkAfterModuleExecution: by the guard that checked.
GuardAccepts ==
  /\ stack # <<>> /\ Top.pc = "after"
  /\ LET w == AfterChecked(Top, world)
     IN IF Top.kind = "exec" THEN Return(w)
        ELSE Return(Note(w, EventOf(Top), Top.id, NoGuard))

\* Takes back what the transaction executed but not its nonce.
RevertsSlip == stack # <<>> /\ Return([Top.before EXCEPT !.nonce = world.nonce])

\* The Safe's call reverts as a whole: a guard refuses, the refund fails (GS011,
\* GS012), execution fails and is not tolerated (GS013), the gas does not suffice
\* (GS010) or runs out anywhere.  Its caller may go on.
Reverts == stack # <<>> /\ Return(Top.entry)

Next ==
  \/ \E tx \in Tx : execTransaction(tx)
  \/ \E m \in Module, ops \in ModuleOps : execTransactionFromModule(m, ops)
  \/ GuardApproves \/ CallReturns
  \/ ExecutionSucceeds \/ ExecutionFails
  \/ RefundPaid \/ GuardAccepts \/ Reverts
  \/ strangerChecks \/ strangerAfterChecks

Spec == Init /\ [][Next]_vars

--------------------------------------------------------------------------------
IsExecution(e) == e.type \in {"ExecutionSuccess", "ExecutionFailure"}
IsOutcome(e) ==
  IsExecution(e) \/
  e.type \in {"ExecutionFromModuleSuccess", "ExecutionFromModuleFailure"}

Entries(w) == Range(w.trace)
CountOf(w, type, id) ==
  Cardinality({i \in DOMAIN w.trace : w.trace[i].type = type /\ w.trace[i].id = id})

Opens == Range(stack)

\* A nonce is used once and for all: in every state, the nonces below the current one
\* are those of the executions in the events and of the calls that are still open,
\* each of them once, however calls nest, fail or revert (Safe.sol:139, "we use the
\* post-increment here").
NonceUsedOnce ==
  \A n \in 0..MaxNonce :
    LET done == {i \in DOMAIN world.trace :
                   IsExecution(world.trace[i]) /\ world.trace[i].id.nonce = n}
        open == {i \in DOMAIN stack :
                   /\ stack[i].kind = "exec" /\ stack[i].pc # "after"
                   /\ stack[i].id.nonce = n}
    IN Cardinality(done) + Cardinality(open) = IF n < world.nonce THEN 1 ELSE 0

\* The brackets that a trace leaves open: a check opens one, an after-check closes the
\* last, if that is its own.  The function's n-th value is that of the first n entries.
Mark(e) == [id |-> e.id, by |-> e.by]
Closes(open, e) == e.type = "after" /\ open # <<>> /\ Last(open) = Mark(e)

Bracket(open, e) ==
  CASE e.type = "check" -> Append(open, Mark(e))
    [] Closes(open, e) -> Front(open)
    [] e.type = "after" /\ ~Closes(open, e) -> Append(open, [Mark(e) EXCEPT !.by = NoGuard])
    [] OTHER -> open

Brackets(trace) ==
  LET open[n \in 0..Len(trace)] ==
        IF n = 0 THEN <<>> ELSE Bracket(open[n - 1], trace[n])
  IN open

Unmatched(trace) == Brackets(trace)[Len(trace)]

\* The checks and the after-checks of the guards are balanced like brackets, each pair
\* by the same guard about the same transaction, and the brackets that are open are
\* those that the checks of the guarded calls on the stack would leave: although
\* setGuard may replace the guard in between (Safe.sol:143,187, ModuleManager.sol:97,115).
CheckOf(f) == Entry(IF f.guard = NoGuard THEN "call" ELSE "check", f.id, f.guard)

GuardBrackets ==
  Unmatched(world.trace) = Unmatched([i \in DOMAIN stack |-> CheckOf(stack[i])])

\* An event tells what happened: a transaction that is reported as a success has done
\* all its calls, one that is reported as a failure none of them, and nothing is left
\* of a transaction that is not reported, once it is over.
CallsOf(id) == IF "tx" \in DOMAIN id THEN Ops[id.tx] ELSE id.ops

OutcomesAreTrue ==
  /\ \A e \in Entries(world) : IsOutcome(e) =>
       CountOf(world, "effect", e.id) =
         IF e.type \in {"ExecutionSuccess", "ExecutionFromModuleSuccess"}
         THEN Len(CallsOf(e.id)) ELSE 0
  /\ \A e \in Entries(world) : e.type = "effect" =>
       \/ \E f \in Opens : f.id = e.id
       \/ \E o \in Entries(world) : IsOutcome(o) /\ o.id = e.id

\* A transaction with a gas price is refunded exactly once, whether its call fails or
\* not, and one without is not (ISafe.sol:47, "the fees are always transferred, even if
\* the user transaction fails"; docs/safe_tx_gas.md for the retry of what reverted).
RefundedOnce ==
  \A e \in Entries(world) : IsExecution(e) =>
    CountOf(world, "refund", e.id) = IF gasPrice[e.id.tx] > 0 THEN 1 ELSE 0

\* Whether a stranger cleared the flag in w that it has not in v, from which w comes.
Cleared(v, w) ==
  \E p \in (Len(v.strangers) + 1)..Len(w.strangers) : w.strangers[p] = "after"

\* ReentrancyTransactionGuard never fails by itself, although its check and its reset are
\* calls of two different places and reverts come in between: two calls that it guards are
\* open at once, or one may enter while another is open, only if a stranger cleared the flag
\* since the outer one began; and the flag is left set, which locks every Safe with this
\* guard, only if it was a stranger who set it (CHANGELOG.md:546, "if multiple Safes use the
\* same guard instance it prevents reentrancy in all of the connected Safes").
OnlyStrangersInterfere ==
  LET guarded == {i \in DOMAIN stack : stack[i].guard = ReentrancyGuard}
  IN /\ \A i, j \in guarded : i < j => Cleared(stack[i].entry, stack[j].entry)
     /\ ~world.busy => \A i \in guarded : Cleared(stack[i].entry, world)
     /\ world.busy /\ guarded = {} =>
          world.strangers # <<>> /\ Last(world.strangers) = "check"

\* Seen from outside, where an Ethereum transaction happens at once, the Safe keeps the
\* ledger of ExecutionLedger: its state is the storage at the entry of the outermost
\* call as long as that call is open.
Committed == IF stack = <<>> THEN world ELSE stack[1].entry

Ledger == INSTANCE ExecutionLedger WITH
  nonce <- Committed.nonce,
  executed <- {e.id : e \in {e \in Entries(Committed) : IsExecution(e)}}

KeepsLedger == Ledger!Spec
================================================================================
