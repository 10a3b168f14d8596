----------------------------- MODULE MCOwnerManager -----------------------------
(* Four possible owners, so that a list has inner nodes to remove and swap,     *)
(* and setup arrays with reserved addresses, repetitions next to each other and *)
(* repetitions apart.                                                           *)
EXTENDS OwnerManager

MCAddress == 0..6
MCSelf == 2

MCOwnerList ==
  UNION {[1..n -> MCAddress] : n \in 0..2}
    \cup {<<3, 4, 5>>, <<5, 4, 3>>, <<3, 4, 3>>, <<3, 3, 4>>, <<4, 3, 3>>,
          <<3, 4, 5, 6>>, <<3, 4, 5, 4>>, <<3, 4, 5, 3>>, <<6, 5, 2, 3>>}
================================================================================
