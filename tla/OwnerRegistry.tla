----------------------------- MODULE OwnerRegistry ------------------------------
(***************************************************************************)
(* What a Safe promises about its owners, with no trace of how they are    *)
(* stored: a set of members and the number of them that has to confirm a   *)
(* transaction.  OwnerManager implements it with a linked list and two     *)
(* counters.                                                               *)
(***************************************************************************)
EXTENDS Integers, FiniteSets

CONSTANT Candidate      \* the addresses that may become owners

VARIABLES members, quorum

vars == <<members, quorum>>

Init == members = {} /\ quorum = 0

\* A registry is set up once, and a registry that is set up can be satisfied.
Found(ms, q) ==
  /\ quorum = 0
  /\ q \in 1..Cardinality(ms)
  /\ members' = ms /\ quorum' = q

Retune(ms, q) ==
  /\ quorum # 0
  /\ q \in 1..Cardinality(ms)
  /\ members' = ms /\ quorum' = q

Admit(m, q) == m \in Candidate \ members /\ Retune(members \cup {m}, q)

Expel(m, q) == m \in members /\ Retune(members \ {m}, q)

Exchange(old, new) ==
  /\ old \in members /\ new \in Candidate \ members
  /\ Retune((members \ {old}) \cup {new}, quorum)

SetQuorum(q) == Retune(members, q)

Next ==
  \/ \E ms \in SUBSET Candidate : \E q \in 1..Cardinality(ms) : Found(ms, q)
  \/ \E m \in Candidate : \E q \in 1..(Cardinality(members) + 1) :
        Admit(m, q) \/ Expel(m, q)
  \/ \E old, new \in Candidate : Exchange(old, new)
  \/ \E q \in 1..Cardinality(members) : SetQuorum(q)

Spec == Init /\ [][Next]_vars
================================================================================
