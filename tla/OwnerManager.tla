------------------------------ MODULE OwnerManager ------------------------------
(***************************************************************************)
(* contracts/base/OwnerManager.sol: the owners of a Safe, kept as a list   *)
(* through a sentinel, their number and the threshold.  A call that        *)
(* reverts changes nothing, so each operation is an action whose guards    *)
(* are the checks that do not revert, with any caller-chosen arguments.    *)
(***************************************************************************)
EXTENDS SentinelList, Sequences, FiniteSets, Functions

CONSTANT Self           \* address(this), the proxy that is the Safe

ASSUME SelfAssumption == Self \in Address \ {Zero, Sentinel}

VARIABLES owners, ownerCount, threshold

ownerVars == <<owners, ownerCount, threshold>>

Reserved == {Zero, Sentinel, Self}     \* addresses that GS203 refuses

\* The storage of a new proxy.  (The singleton's threshold is 1 from its
\* constructor on: no call on it is ever authorized.)
OwnersInit ==
  /\ owners = [a \in Address |-> Zero]
  /\ ownerCount = 0
  /\ threshold = 0

--------------------------------------------------------------------------------
(***************************************************************************)
(* The operators whose names end in Slip are plausible mistakes in the     *)
(* definition that follows them.  No specification uses them: they record  *)
(* which mistake each property is there to catch.                          *)
(*                                                                         *)
(* setupOwners.  The loop links the addresses one after the other; before  *)
(* iteration i the mapping holds a successor for each earlier entry but    *)
(* the last one, the currentOwner, which is compared separately.           *)
(***************************************************************************)
currentOwner(os, i) == IF i = 1 THEN Sentinel ELSE os[i - 1]

LinkedBefore(os, i, a) ==
  owners[a] # Zero \/ \E j \in 1..(i - 2) : os[j] = a

\* Forgets the entry that was linked last: its own successor is still zero.
AcceptableSlip(os) ==
  \A i \in DOMAIN os : os[i] \notin Reserved /\ ~LinkedBefore(os, i, os[i])

Acceptable(os) ==
  \A i \in DOMAIN os :
    /\ os[i] \notin Reserved                       \* GS203
    /\ os[i] # currentOwner(os, i)                 \* GS203
    /\ ~LinkedBefore(os, i, os[i])                 \* GS204

Linked(os) ==
  [a \in Address |->
     IF a = Sentinel THEN NodeAt(os, Len(os), 1)
     ELSE IF \E i \in DOMAIN os : os[i] = a
          THEN LET i == CHOOSE i \in DOMAIN os : os[i] = a
               IN NodeAt(os, Len(os), i + 1)
          ELSE owners[a]]

\* Can be called again, with owners that are not in the list yet.
setupOwnersSlip(os, t) ==
  /\ t <= Len(os) /\ t # 0 /\ Acceptable(os)
  /\ owners' = Linked(os) /\ ownerCount' = Len(os) /\ threshold' = t

setupOwners(os, t) ==
  /\ threshold = 0                                 \* GS200
  /\ t <= Len(os)                                  \* GS201
  /\ t # 0                                         \* GS202
  /\ Acceptable(os)
  /\ owners' = Linked(os)
  /\ ownerCount' = Len(os)
  /\ threshold' = t

--------------------------------------------------------------------------------
\* The tail of addOwnerWithThreshold and removeOwner: changeThreshold(t), whose
\* checks read the new count, is only called for a new value.
ThresholdBecomes(t) ==
  /\ t # threshold => t <= ownerCount' /\ t # 0    \* GS201, GS202
  /\ threshold' = t

addOwnerWithThreshold(owner, t) ==
  /\ owner \notin Reserved                         \* GS203
  /\ owners[owner] = Zero                          \* GS204
  /\ owners' = PushFront(owners, owner)
  /\ ownerCount' = ownerCount + 1
  /\ ThresholdBecomes(t)

removeOwner(prevOwner, owner, t) ==
  /\ t <= ownerCount - 1                           \* GS201
  /\ owner \notin {Zero, Sentinel}                 \* GS203
  /\ owners[prevOwner] = owner                     \* GS205
  /\ owners' = Unlink(owners, prevOwner, owner)
  /\ ownerCount' = ownerCount - 1
  /\ ThresholdBecomes(t)

swapOwner(prevOwner, oldOwner, newOwner) ==
  /\ newOwner \notin Reserved                      \* GS203
  /\ owners[newOwner] = Zero                       \* GS204
  /\ oldOwner \notin {Zero, Sentinel}              \* GS203
  /\ owners[prevOwner] = oldOwner                  \* GS205
  /\ owners' = Replace(owners, prevOwner, oldOwner, newOwner)
  /\ UNCHANGED <<ownerCount, threshold>>

changeThreshold(t) ==
  /\ t <= ownerCount                               \* GS201
  /\ t # 0                                         \* GS202
  /\ threshold' = t
  /\ UNCHANGED <<owners, ownerCount>>

--------------------------------------------------------------------------------
(***************************************************************************)
(* The views.  getOwners walks the list into an array of ownerCount        *)
(* entries and reverts when the walk runs past its end.                    *)
(***************************************************************************)
isOwner(a) == IsNode(owners, a)

OwnerSet == Nodes(owners)

GetOwnersReturns ==
  \E i \in 0..ownerCount : Hops(owners, Sentinel, ownerCount)[i] = Sentinel

getOwners ==
  LET hop == Hops(owners, Sentinel, ownerCount)
      end == CHOOSE i \in 0..ownerCount :
               hop[i] = Sentinel /\ \A j \in 0..(i - 1) : hop[j] # Sentinel
  IN [i \in 1..ownerCount |-> IF i <= end THEN hop[i - 1] ELSE Zero]

--------------------------------------------------------------------------------
\* Every function but setupOwners is `authorized`: the caller is the Safe
\* itself, which takes a threshold (checkSignatures, GS001).
CONSTANT OwnerList      \* the arrays that setup may be called with

ASSUME OwnerListAssumption == OwnerList \subseteq Seq(Address)

OwnersSelfCall(call) == threshold # 0 /\ call

OwnersNext ==
  \/ \E os \in OwnerList, t \in 0..(Cardinality(Address) + 1) : setupOwners(os, t)
  \/ \E a \in Address, t \in 0..(ownerCount + 2) :
       OwnersSelfCall(addOwnerWithThreshold(a, t))
  \/ \E p, a \in Address, t \in 0..(ownerCount + 1) :
       OwnersSelfCall(removeOwner(p, a, t))
  \/ \E p, a, b \in Address : OwnersSelfCall(swapOwner(p, a, b))
  \/ \E t \in 0..(ownerCount + 1) : OwnersSelfCall(changeThreshold(t))

OwnersSpec == OwnersInit /\ [][OwnersNext]_ownerVars

--------------------------------------------------------------------------------
\* The three storage slots hold addresses and counts in their ranges.
OwnersTypeOK ==
  /\ owners \in [Address -> Address]
  /\ ownerCount \in Nat
  /\ threshold \in Nat

\* getOwners (OwnerManager.sol:130) walks from the sentinel and stops at it.  Once
\* the Safe is set up it never reverts, fills its array exactly, and lists every
\* address that isOwner accepts once and nothing else: no operation, with any
\* prevOwner, leaves a stray node, a short cut or a count that is off.
OwnersListedOnce ==
  threshold # 0 =>
    /\ GetOwnersReturns
    /\ IsInjective(getOwners)
    /\ Range(getOwners) = OwnerSet
    /\ Cardinality(OwnerSet) = ownerCount

\* The owners can always confirm a transaction: between one and all of them have
\* to (OwnerManager.sol:70,106), and neither the Safe itself nor a reserved address
\* is counted among them.
ThresholdReachable ==
  threshold # 0 => threshold \in 1..Cardinality(OwnerSet \ Reserved)

\* The list, the count and the threshold together are a registry: a set of owners
\* that is founded once, changes by one admission, expulsion or exchange at a time,
\* and always has a quorum that its members can reach.
Registry == INSTANCE OwnerRegistry WITH
  Candidate <- Address \ Reserved, members <- OwnerSet, quorum <- threshold

ImplementsRegistry == Registry!Spec
================================================================================
