------------------------------ MODULE SentinelList ------------------------------
(***************************************************************************)
(* The circular singly linked list that OwnerManager and ModuleManager     *)
(* keep in a mapping(address => address).  links[a] is the successor of a, *)
(* links[Sentinel] the head, the last node points back to Sentinel, and an *)
(* address that is not in the list maps to the zero address.  Addresses    *)
(* are naturals, because signature checking compares them as numbers.      *)
(***************************************************************************)
EXTENDS Integers

Zero == 0        \* address(0): "not in the mapping"
Sentinel == 1    \* SENTINEL_OWNERS, SENTINEL_MODULES

CONSTANT Address \* a finite set of addresses, among them these two

ASSUME AddressAssumption ==
  Address \subseteq Nat /\ {Zero, Sentinel} \subseteq Address

\* What a lookup in the mapping tells about one address.
IsNode(links, a) == a # Sentinel /\ links[a] # Zero

Nodes(links) == {a \in DOMAIN links : IsNode(links, a)}

\* A new node goes to the front of the list.
PushFront(links, node) ==
  [links EXCEPT ![node] = links[Sentinel], ![Sentinel] = node]

\* prev is the claimed predecessor of node: the caller checks the claim.
Unlink(links, prev, node) ==
  [links EXCEPT ![prev] = links[node], ![node] = Zero]

Replace(links, prev, old, new) ==
  [links EXCEPT ![new] = links[old], ![prev] = new, ![old] = Zero]

(***************************************************************************)
(* links spells the list s of n nodes (s a function on 1..n): the relation *)
(* every operation has to maintain.                                        *)
(***************************************************************************)
NodeAt(s, n, i) == IF i \in 1..n THEN s[i] ELSE Sentinel

Spells(links, s, n) ==
  /\ \A i, j \in 1..n : s[i] = s[j] => i = j
  /\ \A i \in 1..n : s[i] \in DOMAIN links \ {Zero, Sentinel}
  /\ links[Sentinel] = NodeAt(s, n, 1)
  /\ \A i \in 1..n : links[s[i]] = NodeAt(s, n, i + 1)
  /\ \A a \in DOMAIN links \ {Sentinel} :
       (\A i \in 1..n : s[i] # a) => links[a] = Zero

\* The address reached from start after i + 1 steps along the links.
Hops(links, start, bound) ==
  LET hop[i \in 0..bound] ==
        IF i = 0 THEN links[start] ELSE links[hop[i - 1]]
  IN hop
================================================================================
