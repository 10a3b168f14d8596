------------------------------- MODULE MCMultiSend -------------------------------
EXTENDS MultiSend

(* Up to two transactions in a batch, each a call or delegate call with or       *)
(* without data, one with an unknown operation, or a batch of up to two; three   *)
(* calls; and a batch in a batch in a batch.                                     *)
Leaf(operation, to, length, id) ==
  [operation |-> operation, to |-> to, length |-> length, id |-> id]

Leaves ==
  {Leaf(0, "target", 0, 1), Leaf(0, AddressZero, 68, 2), Leaf(1, "target", 31, 3),
   Leaf(2, "target", 0, 4)}

UpToTwo(S) == {<<>>} \cup {<<a>> : a \in S} \cup {<<a, b>> : a, b \in S}

Batch(operation, library, txs) ==
  [operation |-> operation, to |-> library, batch |-> txs,
   length |-> encodeMultiSend(txs).length, id |-> 0]

Nested == {Batch(o, l, txs) : o \in {0, 1}, l \in Library, txs \in UpToTwo(Leaves)}

Deeper == {Batch(o, l, <<tx>>) : o \in {0, 1}, l \in Library, tx \in Nested}

MCTransaction == Leaves \cup Nested \cup Deeper

MCBatches ==
  UpToTwo(Leaves \cup Nested) \cup {<<a, b, c>> : a, b, c \in Leaves} \cup {<<a>> : a \in Deeper}
================================================================================
