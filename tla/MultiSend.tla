-------------------------------- MODULE MultiSend --------------------------------
(***************************************************************************)
(* Batches: encodeMultiSend packs transactions one behind the other, and   *)
(* MultiSend and MultiSendCallOnly unpack them in memory while they        *)
(* execute them.  The data of a transaction may be a batch again, for      *)
(* either of the two contracts.                                            *)
(***************************************************************************)
EXTENDS Integers, Sequences, SequencesExt

CONSTANTS
  Transaction,    \* all transactions there are in batches
  Batches,        \* what buildMultiSendSafeTx is asked for: sequences of transactions
  SafeAddress, AddressZero

VARIABLES
  batch,     \* what was asked for, and which contract executes it
  stack,     \* the running loops
  executed,  \* the calls that were made, in order
  status     \* "running", "done" or "reverted"

vars == <<batch, stack, executed, status>>

\* The contracts that execute batches.
Library == {"MultiSend", "MultiSendCallOnly"}

--------------------------------------------------------------------------------
(***************************************************************************)
(* A transaction has an operation, a receiver and length bytes of data,    *)
(* which may be a batch.  Each takes 1 + 20 + 32 + 32 bytes and its data.  *)
(***************************************************************************)
Offsets(txs) ==
  LET offset[n \in 0..Len(txs)] == IF n = 0 THEN 0 ELSE offset[n - 1] + 85 + txs[n].length
  IN offset

\* Where the transactions are in the bytes, by their offsets.
encodeMultiSend(txs) ==
  LET offsets == Offsets(txs)
  IN [length |-> offsets[Len(txs)],
      at |-> [offset \in {offsets[n] : n \in 0..(Len(txs) - 1)} |->
                txs[CHOOSE n \in 1..Len(txs) : offsets[n - 1] = offset]]]

\* A batch in a batch is data, as long as it is encoded.
BatchAssumption ==
  /\ \A txs \in Batches : txs \in Seq(Transaction)
  /\ \A tx \in Transaction :
       /\ tx.length \in Nat
       /\ tx.to \in Library => /\ tx.batch \in Seq(Transaction)
                             /\ tx.length = encodeMultiSend(tx.batch).length

ASSUME BatchAssumption

--------------------------------------------------------------------------------
(***************************************************************************)
(* The loop.  i counts from the word with the length, which takes 32       *)
(* bytes, and is compared with the length alone.                           *)
(***************************************************************************)
Frame(library, this, txs) ==
  [library |-> library, this |-> this, bytes |-> encodeMultiSend(txs), i |-> 32]

Top == stack[Len(stack)]
Below == SubSeq(stack, 1, Len(stack) - 1)

\* Stops where the length word and the bytes would end together, one transaction early.
MoreSlip(f) == f.i + 85 < f.bytes.length
More(f) == f.i < f.bytes.length

\* Between two transactions there would be anything.
Garbage == [operation |-> 0, to |-> "garbage", length |-> 0, id |-> 0]

Read(f) == IF f.i - 32 \in DOMAIN f.bytes.at THEN f.bytes.at[f.i - 32] ELSE Garbage

NextEntry(f) == [f EXCEPT !.i = @ + 85 + Read(f).length]

Receiver(f) == IF Read(f).to = AddressZero THEN f.this ELSE Read(f).to

Revert ==
  /\ stack' = <<>> /\ executed' = <<>> /\ status' = "reverted"
  /\ UNCHANGED batch

\* What MultiSend and MultiSendCallOnly do not let pass.
Refused(f, tx) ==
  \/ tx.operation \notin {0, 1}
  \/ tx.operation = 1 /\ f.library = "MultiSendCallOnly"
  \/ tx.operation = 0 /\ Receiver(f) = "MultiSend"   \* only via delegatecall
  \/ Receiver(f) \in Library /\ tx.to = AddressZero  \* itself, without a batch

\* A call of anything but a library, which may fail.
Call(f, tx) ==
  /\ Receiver(f) \notin Library
  /\ stack' = Append(Below, NextEntry(f))
  /\ executed' = Append(executed,
       [operation |-> tx.operation, from |-> f.this, to |-> Receiver(f), id |-> tx.id])
  /\ UNCHANGED <<batch, status>>

\* Does not go on to the next entry.
CallBatchSlip(f, tx) ==
  /\ Receiver(f) \in Library
  /\ stack' = Append(stack,
       Frame(Receiver(f), IF tx.operation = 0 THEN Receiver(f) ELSE f.this, tx.batch))
  /\ UNCHANGED <<batch, executed, status>>

\* A batch in the batch: called, it runs as the library, delegate-called as this.
CallBatch(f, tx) ==
  /\ Receiver(f) \in Library
  /\ stack' = Below \o <<NextEntry(f),
       Frame(Receiver(f), IF tx.operation = 0 THEN Receiver(f) ELSE f.this, tx.batch)>>
  /\ UNCHANGED <<batch, executed, status>>

Execute ==
  /\ stack # <<>> /\ More(Top)
  /\ LET tx == Read(Top)
     IN \/ Revert
        \/ ~Refused(Top, tx) /\ (Call(Top, tx) \/ CallBatch(Top, tx))

Return ==
  /\ stack # <<>> /\ ~More(Top)
  /\ stack' = Below
  /\ status' = IF Below = <<>> THEN "done" ELSE status
  /\ UNCHANGED <<batch, executed>>

\* buildMultiSendSafeTx makes the Safe delegate-call the library.
buildMultiSendSafeTx(library, txs) == <<Frame(library, SafeAddress, txs)>>

Init ==
  /\ batch \in [library : Library, txs : Batches]
  /\ stack = buildMultiSendSafeTx(batch.library, batch.txs)
  /\ executed = <<>>
  /\ status = "running"

Next == Execute \/ Return

Spec == Init /\ [][Next]_vars /\ WF_vars(Next)

--------------------------------------------------------------------------------
(***************************************************************************)
(* What a batch means, without bytes: its calls, those of the batches in   *)
(* it at their place, or nothing if it contains what is refused.           *)
(***************************************************************************)
Item == [library : Library, this : Library \cup {SafeAddress}, tx : Transaction]

Items(library, this, txs) ==
  [n \in 1..Len(txs) |-> [library |-> library, this |-> this, tx |-> txs[n]]]

ItemReceiver(item) == IF item.tx.to = AddressZero THEN item.this ELSE item.tx.to

Allowed(item) ==
  /\ item.tx.operation \in {0} \cup IF item.library = "MultiSend" THEN {1} ELSE {}
  /\ ItemReceiver(item) \in Library =>
       item.tx.to # AddressZero /\ (item.tx.operation = 1 \/ item.tx.to # "MultiSend")

CallOf(item) ==
  [operation |-> item.tx.operation, from |-> item.this, to |-> ItemReceiver(item), id |-> item.tx.id]

\* The items of the batch that an item is.
Within(item) ==
  Items(item.tx.to, IF item.tx.operation = 1 THEN item.this ELSE item.tx.to, item.tx.batch)

CallsOf[item \in Item] ==
  IF ~Allowed(item) THEN <<"refused">>
  ELSE IF ItemReceiver(item) \in Library
  THEN FlattenSeq([n \in DOMAIN Within(item) |-> CallsOf[Within(item)[n]]])
  ELSE <<CallOf(item)>>

Meaning(library, this, txs) ==
  FlattenSeq([n \in DOMAIN txs |-> CallsOf[Items(library, this, txs)[n]]])

\* A batch is executed as a whole: at its end, each of its calls has been made once, in
\* order and from the right account, nested batches included; before, a part of them;
\* and if one fails or is refused, none (MultiSend.sol:19, "Sends multiple transactions
\* and reverts all if one fails").
AllOrNothing ==
  LET calls == Meaning(batch.library, SafeAddress, batch.txs)
  IN CASE status = "running"  -> IsPrefix(executed, calls)
       [] status = "done"     -> executed = calls
       [] status = "reverted" -> executed = <<>>

\* The loop ends for every batch, whatever the lengths of the data, empty data included.
BatchEnds == <>(status # "running")
================================================================================
