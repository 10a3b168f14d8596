------------------------------ MODULE MCSafeClient -------------------------------
EXTENDS SafeClient

(* Two scripts on one chain, c3 with the same call as c1 on the other chain, and *)
(* c4, which is signed ahead, for the second nonce.                              *)
ACall(method, overrides) ==
  [contract |-> "target", method |-> method, params |-> <<>>,
   delegateCall |-> method = "n", overrides |-> overrides]

MCCallOf ==
  [c \in Client |-> CASE c = "c2" -> ACall("n", <<>>)
                     [] c = "c4" -> ACall("m", [nonce |-> 1])
                     [] OTHER -> ACall("m", <<>>)]
MCHomeOf == [c \in Client |-> IF c = "c3" THEN 2 ELSE 1]
================================================================================
