--------------------------- MODULE DataStructureProofs ---------------------------
(***************************************************************************)
(* Theorems about the data structures that the contracts walk through: the *)
(* lists of OwnerManager and ModuleManager, which are linked through a     *)
(* sentinel and read in pages, and the batches of MultiSend, which are     *)
(* packed into bytes.  The order of a list is in no variable, so their     *)
(* inductive invariants name the sequence that the mapping spells; that of *)
(* a batch names the transactions which its bytes and loops stand for.     *)
(***************************************************************************)
EXTENDS OwnerManager, ModulePaging, MultiSend, FiniteSetTheorems,
  SequenceTheorems, NaturalsInduction, WellFoundedInduction, TLAPS

--------------------------------------------------------------------------------
(***************************************************************************)
(* What the list operations do to a well-formed list, for every list.  A   *)
(* list is well formed when it Spells some sequence s of n nodes.          *)
(***************************************************************************)
\* The links of a list over the addresses A, and the nodes it may hold.
IsList(links, s, n, A, Legal) ==
  /\ n \in Nat
  /\ {Zero, Sentinel} \subseteq A
  /\ Legal \subseteq A \ {Zero, Sentinel}
  /\ links \in [A -> A]
  /\ s \in [1..n -> Legal]
  /\ Spells(links, s, n)

\* A node's position is unique, and the nodes of the mapping are those of s.
LEMMA SpellsNodes ==
  ASSUME NEW links, NEW s, NEW n, NEW A, NEW Legal, IsList(links, s, n, A, Legal)
  PROVE  /\ Nodes(links) = {s[i] : i \in 1..n}
         /\ Nodes(links) \subseteq Legal
<1>1. ASSUME NEW i \in 1..n  PROVE  s[i] \in Nodes(links)
  <2>1. s[i] \in Legal /\ s[i] \in A /\ s[i] # Sentinel  BY DEF IsList
  <2>2. links[s[i]] = NodeAt(s, n, i + 1)  BY DEF IsList, Spells
  <2>3. NodeAt(s, n, i + 1) # Zero
    BY DEF NodeAt, IsList, Zero, Sentinel
  <2> QED  BY <2>1, <2>2, <2>3 DEF Nodes, IsNode, IsList
<1>2. ASSUME NEW a \in Nodes(links)  PROVE  \E i \in 1..n : s[i] = a
  BY DEF Nodes, IsNode, IsList, Spells
<1> QED  BY <1>1, <1>2 DEF IsList

\* The number of nodes is the length of the sequence.
LEMMA SpellsCardinality ==
  ASSUME NEW links, NEW s, NEW n, NEW A, NEW Legal, IsList(links, s, n, A, Legal)
  PROVE  IsFiniteSet(Nodes(links)) /\ Cardinality(Nodes(links)) = n
<1>1. Nodes(links) = {s[i] : i \in 1..n}  BY SpellsNodes
<1>2. s \in Injection(1..n, Nodes(links))
  BY <1>1 DEF IsList, Spells, Injection, IsInjective
<1>3. s \in Surjection(1..n, Nodes(links))
  BY <1>1, <1>2 DEF Surjection, Injection
<1>4. ExistsBijection(1..n, Nodes(links))
  BY <1>2, <1>3 DEF ExistsBijection, Bijection
<1>5. n \in Nat  BY DEF IsList
<1>6. IsFiniteSet(1..n) /\ Cardinality(1..n) = n
  BY <1>5, FS_Interval, SMT
<1> QED  BY <1>4, <1>6, FS_Bijection

\* Only the predecessor of a node points to it: a claimed predecessor that the
\* code's check (GS205, GS103) lets through is the right one.
LEMMA Predecessor ==
  ASSUME NEW links, NEW s, NEW n, NEW A, NEW Legal, IsList(links, s, n, A, Legal),
         NEW prev \in A, NEW node \in A \ {Zero, Sentinel}, links[prev] = node
  PROVE  \E k \in 1..n : /\ s[k] = node
                         /\ prev = IF k = 1 THEN Sentinel ELSE s[k - 1]
<1>1. CASE prev = Sentinel
  <2>1. links[Sentinel] = NodeAt(s, n, 1)  BY DEF IsList, Spells
  <2> QED  BY <1>1, <2>1 DEF NodeAt, IsList
<1>2. CASE prev # Sentinel
  <2>1. PICK i \in 1..n : s[i] = prev
    BY <1>2 DEF IsList, Spells
  <2>2. links[prev] = NodeAt(s, n, i + 1)  BY <2>1 DEF IsList, Spells
  <2>3. i + 1 \in 1..n /\ s[i + 1] = node  BY <2>2 DEF NodeAt
  <2>4. i + 1 # 1 /\ (i + 1) - 1 = i  OBVIOUS
  <2> QED  BY <2>1, <2>3, <2>4
<1> QED  BY <1>1, <1>2

Pushed(s, n, node) == [i \in 1..(n + 1) |-> IF i = 1 THEN node ELSE s[i - 1]]

\* A node that was not in the list becomes its first.
LEMMA PushFrontSpells ==
  ASSUME NEW links, NEW s, NEW n, NEW A, NEW Legal, IsList(links, s, n, A, Legal),
         NEW node \in Legal, links[node] = Zero
  PROVE  IsList(PushFront(links, node), Pushed(s, n, node), n + 1, A, Legal)
<1> DEFINE t == Pushed(s, n, node)
           after == PushFront(links, node)
<1>1. n \in Nat /\ node \in A /\ node # Sentinel /\ node # Zero
  BY DEF IsList
<1>2. t \in [1..(n + 1) -> Legal]
  BY <1>1 DEF IsList, Pushed
<1>3. after \in [A -> A]  BY <1>1 DEF IsList, PushFront
<1>4. /\ after[node] = links[Sentinel]
      /\ after[Sentinel] = node
      /\ \A a \in A \ {node, Sentinel} : after[a] = links[a]
  BY <1>1 DEF IsList, PushFront
<1>5. \A i \in 1..n : s[i] # node
  BY SpellsNodes DEF Nodes, IsNode
<1>6. t[1] = node /\ \A i \in 1..(n + 1) : i # 1 => t[i] = s[i - 1]
  BY <1>1 DEF Pushed
<1>7. Spells(after, t, n + 1)
  <2>1. ASSUME NEW i \in 1..(n + 1), NEW j \in 1..(n + 1), t[i] = t[j]
        PROVE  i = j
    <3>1. \A k \in 1..(n + 1) : k # 1 => k - 1 \in 1..n  BY <1>1
    <3>2. CASE i = 1 \/ j = 1  BY <1>5, <1>6, <2>1, <3>1, <3>2
    <3>3. CASE i # 1 /\ j # 1
      <4>1. s[i - 1] = s[j - 1]  BY <1>6, <2>1, <3>3
      <4>2. i - 1 = j - 1  BY <3>1, <3>3, <4>1 DEF IsList, Spells
      <4> QED  BY <4>2, <1>1
    <3> QED  BY <3>2, <3>3
  <2>2. \A i \in 1..(n + 1) : t[i] \in DOMAIN after \ {Zero, Sentinel}
    BY <1>2, <1>3 DEF IsList
  <2>3. after[Sentinel] = NodeAt(t, n + 1, 1)
    BY <1>1, <1>4, <1>6 DEF NodeAt
  <2>4. ASSUME NEW i \in 1..(n + 1)
        PROVE  after[t[i]] = NodeAt(t, n + 1, i + 1)
    <3>1. CASE i = 1
      <4>1. links[Sentinel] = NodeAt(s, n, 1)  BY DEF IsList, Spells
      <4>2. NodeAt(t, n + 1, 2) = NodeAt(s, n, 1)
        BY <1>1, <1>6 DEF NodeAt
      <4> QED  BY <1>4, <1>6, <3>1, <4>1, <4>2
    <3>2. CASE i # 1
      <4>1. i - 1 \in 1..n /\ t[i] = s[i - 1]  BY <1>1, <1>6, <3>2
      <4>2. s[i - 1] \in A \ {node, Sentinel}
        BY <1>5, <4>1 DEF IsList
      <4>3. links[s[i - 1]] = NodeAt(s, n, (i - 1) + 1)
        BY <4>1 DEF IsList, Spells
      <4>4. NodeAt(t, n + 1, i + 1) = NodeAt(s, n, (i - 1) + 1)
        BY <1>1, <1>6, <4>1 DEF NodeAt
      <4> QED  BY <1>4, <4>1, <4>2, <4>3, <4>4
    <3> QED  BY <3>1, <3>2
  <2>5. ASSUME NEW a \in DOMAIN after \ {Sentinel},
               \A i \in 1..(n + 1) : t[i] # a
        PROVE  after[a] = Zero
    <3>1. a \in A \ {node, Sentinel}  BY <1>1, <1>3, <1>6, <2>5
    <3>2. ASSUME NEW i \in 1..n  PROVE  s[i] # a
      <4>1. i + 1 \in 1..(n + 1) /\ i + 1 # 1 /\ (i + 1) - 1 = i  BY <1>1
      <4> QED  BY <1>6, <2>5, <4>1
    <3>3. links[a] = Zero  BY <3>1, <3>2 DEF IsList, Spells
    <3> QED  BY <1>4, <3>1, <3>3
  <2> QED  BY <2>1, <2>2, <2>3, <2>4, <2>5 DEF Spells
<1>8. n + 1 \in Nat  BY <1>1
<1> QED  BY <1>2, <1>3, <1>7, <1>8 DEF IsList

Without(s, n, k) == [i \in 1..(n - 1) |-> IF i < k THEN s[i] ELSE s[i + 1]]

\* Unlinking a node after its predecessor closes the gap, wherever it is.
LEMMA UnlinkSpells ==
  ASSUME NEW links, NEW s, NEW n, NEW A, NEW Legal, IsList(links, s, n, A, Legal),
         NEW k \in 1..n
  PROVE  IsList(Unlink(links, IF k = 1 THEN Sentinel ELSE s[k - 1], s[k]),
                Without(s, n, k), n - 1, A, Legal)
<1> DEFINE prev == IF k = 1 THEN Sentinel ELSE s[k - 1]
           node == s[k]
           t == Without(s, n, k)
           after == Unlink(links, prev, node)
<1>1. n \in Nat /\ n - 1 \in Nat /\ k \in Int /\ 1 <= k /\ k <= n  BY DEF IsList
<1>2. t \in [1..(n - 1) -> Legal]
  <2>1. ASSUME NEW i \in 1..(n - 1)
        PROVE  (IF i < k THEN s[i] ELSE s[i + 1]) \in Legal
    <3>1. i \in 1..n /\ i + 1 \in 1..n  BY <1>1
    <3> QED  BY <3>1 DEF IsList
  <2> QED  BY <2>1 DEF Without
<1>3. /\ node \in A \ {Zero, Sentinel} /\ prev \in A /\ prev # node
      /\ links[node] = NodeAt(s, n, k + 1)
  <2>1. k # 1 => k - 1 \in 1..n /\ k - 1 # k  BY <1>1
  <2> QED  BY <2>1 DEF IsList, Spells
<1>4. after \in [A -> A]  BY <1>3 DEF IsList, Unlink
<1>5. /\ after[prev] = links[node]
      /\ after[node] = Zero
      /\ \A a \in A \ {prev, node} : after[a] = links[a]
  BY <1>3 DEF IsList, Unlink
<1>6. \A i \in 1..(n - 1) :
        /\ i \in 1..n /\ i + 1 \in 1..n
        /\ i < k => t[i] = s[i] /\ i # k
        /\ i >= k => t[i] = s[i + 1] /\ i + 1 # k
  BY <1>1 DEF Without
<1>7. Spells(after, t, n - 1)
  <2>1. ASSUME NEW i \in 1..(n - 1), NEW j \in 1..(n - 1), t[i] = t[j]
        PROVE  i = j
    <3>1. CASE i < k /\ j < k
      BY <1>6, <2>1, <3>1 DEF IsList, Spells
    <3>2. CASE i >= k /\ j >= k
      <4>1. s[i + 1] = s[j + 1]  BY <1>6, <2>1, <3>2
      <4>2. i + 1 = j + 1  BY <1>6, <4>1 DEF IsList, Spells
      <4> QED  BY <4>2
    <3>3. CASE i < k /\ j >= k
      <4>1. s[i] = s[j + 1]  BY <1>6, <2>1, <3>3
      <4>2. i = j + 1  BY <1>6, <4>1 DEF IsList, Spells
      <4> QED  BY <1>1, <3>3, <4>2
    <3>4. CASE i >= k /\ j < k
      <4>1. s[i + 1] = s[j]  BY <1>6, <2>1, <3>4
      <4>2. i + 1 = j  BY <1>6, <4>1 DEF IsList, Spells
      <4> QED  BY <1>1, <3>4, <4>2
    <3> QED  BY <1>1, <3>1, <3>2, <3>3, <3>4
  <2>2. \A i \in 1..(n - 1) : t[i] \in DOMAIN after \ {Zero, Sentinel}
    BY <1>2, <1>4 DEF IsList
  <2>3. after[Sentinel] = NodeAt(t, n - 1, 1)
    <3>1. CASE k = 1
      <4>1. NodeAt(t, n - 1, 1) = NodeAt(s, n, 2)
        BY <1>1, <1>6, <3>1 DEF NodeAt
      <4> QED  BY <1>3, <1>5, <3>1, <4>1
    <3>2. CASE k # 1
      <4>1. prev = s[k - 1] /\ k - 1 \in 1..n  BY <1>1, <3>2
      <4>2. Sentinel \in A \ {prev, node}  BY <1>3, <4>1 DEF IsList, Spells
      <4>3. links[Sentinel] = NodeAt(s, n, 1)  BY DEF IsList, Spells
      <4>4. NodeAt(s, n, 1) = NodeAt(t, n - 1, 1)
        BY <1>1, <1>6, <3>2 DEF NodeAt
      <4> QED  BY <1>5, <4>2, <4>3, <4>4
    <3> QED  BY <3>1, <3>2
  <2>4. ASSUME NEW i \in 1..(n - 1)
        PROVE  after[t[i]] = NodeAt(t, n - 1, i + 1)
    <3>1. CASE i >= k
      <4>1. t[i] = s[i + 1] /\ i + 1 \in 1..n /\ i + 1 # k  BY <1>6, <3>1
      <4>2. s[i + 1] # node  BY <4>1 DEF IsList, Spells
      <4>3. s[i + 1] # prev
        <5>1. k # 1 => k - 1 \in 1..n /\ k - 1 # i + 1  BY <1>1, <3>1
        <5> QED  BY <4>1, <5>1 DEF IsList, Spells
      <4>4. links[s[i + 1]] = NodeAt(s, n, (i + 1) + 1)
        BY <4>1 DEF IsList, Spells
      <4>5. NodeAt(s, n, (i + 1) + 1) = NodeAt(t, n - 1, i + 1)
        BY <1>1, <1>6, <3>1 DEF NodeAt
      <4> QED  BY <1>5, <4>1, <4>2, <4>3, <4>4, <4>5 DEF IsList
    <3>2. CASE i < k /\ i + 1 # k
      <4>1. t[i] = s[i] /\ i \in 1..n /\ i # k  BY <1>6, <3>2
      <4>2. s[i] # node  BY <4>1 DEF IsList, Spells
      <4>3. s[i] # prev
        <5>1. k # 1 => k - 1 \in 1..n /\ k - 1 # i  BY <1>1, <3>2
        <5> QED  BY <4>1, <5>1 DEF IsList, Spells
      <4>4. links[s[i]] = NodeAt(s, n, i + 1)  BY <4>1 DEF IsList, Spells
      <4>5. NodeAt(s, n, i + 1) = NodeAt(t, n - 1, i + 1)
        BY <1>1, <1>6, <3>2 DEF NodeAt
      <4> QED  BY <1>5, <4>1, <4>2, <4>3, <4>4, <4>5 DEF IsList
    <3>3. CASE i + 1 = k
      <4>1. t[i] = s[i] /\ prev = s[i]  BY <1>1, <1>6, <3>3
      <4>2. NodeAt(s, n, k + 1) = NodeAt(t, n - 1, i + 1)
        BY <1>1, <1>6, <3>3 DEF NodeAt
      <4> QED  BY <1>3, <1>5, <4>1, <4>2
    <3> QED  BY <1>1, <3>1, <3>2, <3>3
  <2>5. ASSUME NEW a \in DOMAIN after \ {Sentinel},
               \A i \in 1..(n - 1) : t[i] # a
        PROVE  after[a] = Zero
    <3>1. CASE a = node  BY <1>5, <3>1
    <3>2. CASE a # node
      <4>1. ASSUME NEW i \in 1..n  PROVE  s[i] # a
        <5>1. CASE i < k
          <6>1. i \in 1..(n - 1)  BY <1>1, <5>1
          <6> QED  BY <1>6, <2>5, <5>1, <6>1
        <5>2. CASE i = k  BY <3>2, <5>2
        <5>3. CASE i > k
          <6>1. i - 1 \in 1..(n - 1) /\ i - 1 >= k /\ (i - 1) + 1 = i
            BY <1>1, <5>3
          <6> QED  BY <1>6, <2>5, <6>1
        <5> QED  BY <1>1, <5>1, <5>2, <5>3
      <4>2. links[a] = Zero  BY <1>4, <4>1, <2>5 DEF IsList, Spells
      <4>3. a # prev
        <5>1. k # 1 => k - 1 \in 1..n  BY <1>1
        <5> QED  BY <2>5, <4>1, <5>1
      <4> QED  BY <1>4, <1>5, <2>5, <3>2, <4>2, <4>3
    <3> QED  BY <3>1, <3>2
  <2> QED  BY <2>1, <2>2, <2>3, <2>4, <2>5 DEF Spells
<1> QED  BY <1>1, <1>2, <1>4, <1>7 DEF IsList

\* Replacing a node keeps its place in the list.
LEMMA ReplaceSpells ==
  ASSUME NEW links, NEW s, NEW n, NEW A, NEW Legal, IsList(links, s, n, A, Legal),
         NEW k \in 1..n, NEW new \in Legal, links[new] = Zero
  PROVE  IsList(Replace(links, IF k = 1 THEN Sentinel ELSE s[k - 1], s[k], new),
                [s EXCEPT ![k] = new], n, A, Legal)
<1> DEFINE prev == IF k = 1 THEN Sentinel ELSE s[k - 1]
           old == s[k]
           t == [s EXCEPT ![k] = new]
           after == Replace(links, prev, old, new)
<1>1. n \in Nat /\ k \in Int /\ 1 <= k /\ k <= n  BY DEF IsList
<1>2. t \in [1..n -> Legal]  BY DEF IsList
<1>3. \A i \in 1..n : s[i] # new /\ s[i] # Sentinel
  BY SpellsNodes DEF Nodes, IsNode
<1>4. /\ old \in A \ {Zero, Sentinel, new} /\ new \in A \ {Zero, Sentinel}
      /\ prev \in A \ {old, new}
      /\ links[old] = NodeAt(s, n, k + 1)
  <2>1. k # 1 => k - 1 \in 1..n /\ k - 1 # k  BY <1>1
  <2>2. k # 1 => s[k - 1] # s[k]  BY <2>1 DEF IsList, Spells
  <2> QED  BY <1>3, <2>1, <2>2 DEF IsList, Spells
<1>5. after \in [A -> A]  BY <1>4 DEF IsList, Replace
<1>6. /\ after[new] = links[old]
      /\ after[prev] = new
      /\ after[old] = Zero
      /\ \A a \in A \ {prev, old, new} : after[a] = links[a]
  BY <1>4 DEF IsList, Replace
<1>7. t[k] = new /\ \A i \in 1..n : i # k => t[i] = s[i]  BY DEF IsList
<1>8. \A i \in 1..n : s[i] = old => i = k  BY DEF IsList, Spells
<1>9. Spells(after, t, n)
  <2>1. ASSUME NEW i \in 1..n, NEW j \in 1..n, t[i] = t[j]
        PROVE  i = j
    BY <1>3, <1>7, <2>1 DEF IsList, Spells
  <2>2. \A i \in 1..n : t[i] \in DOMAIN after \ {Zero, Sentinel}
    BY <1>2, <1>5 DEF IsList
  <2>3. after[Sentinel] = NodeAt(t, n, 1)
    <3>1. CASE k = 1
      BY <1>1, <1>6, <1>7, <3>1 DEF NodeAt
    <3>2. CASE k # 1
      <4>1. prev = s[k - 1] /\ k - 1 \in 1..n  BY <1>1, <3>2
      <4>2. Sentinel \in A \ {prev, old, new}  BY <1>3, <1>4, <4>1 DEF IsList
      <4>3. links[Sentinel] = NodeAt(s, n, 1)  BY DEF IsList, Spells
      <4>4. NodeAt(s, n, 1) = NodeAt(t, n, 1)
        BY <1>1, <1>7, <3>2 DEF NodeAt
      <4> QED  BY <1>6, <4>2, <4>3, <4>4
    <3> QED  BY <3>1, <3>2
  <2>4. ASSUME NEW i \in 1..n
        PROVE  after[t[i]] = NodeAt(t, n, i + 1)
    <3>1. CASE i = k
      <4>1. NodeAt(s, n, k + 1) = NodeAt(t, n, k + 1)
        BY <1>1, <1>7 DEF NodeAt
      <4> QED  BY <1>4, <1>6, <1>7, <3>1, <4>1
    <3>2. CASE i + 1 = k
      <4>1. t[i] = s[i] /\ prev = s[i]  BY <1>1, <1>7, <3>2
      <4>2. NodeAt(t, n, i + 1) = new
        BY <1>1, <1>7, <3>2 DEF NodeAt
      <4> QED  BY <1>6, <4>1, <4>2
    <3>3. CASE i # k /\ i + 1 # k
      <4>1. t[i] = s[i]  BY <1>7, <3>3
      <4>2. s[i] \in A \ {prev, old, new}
        <5>1. k # 1 => k - 1 \in 1..n /\ k - 1 # i  BY <1>1, <3>3
        <5>2. s[i] # prev  BY <1>3, <5>1 DEF IsList, Spells
        <5> QED  BY <1>3, <1>8, <3>3, <5>2 DEF IsList
      <4>3. links[s[i]] = NodeAt(s, n, i + 1)  BY DEF IsList, Spells
      <4>4. NodeAt(s, n, i + 1) = NodeAt(t, n, i + 1)
        BY <1>1, <1>7, <3>3 DEF NodeAt
      <4> QED  BY <1>6, <4>1, <4>2, <4>3, <4>4
    <3> QED  BY <1>1, <3>1, <3>2, <3>3
  <2>5. ASSUME NEW a \in DOMAIN after \ {Sentinel},
               \A i \in 1..n : t[i] # a
        PROVE  after[a] = Zero
    <3>1. CASE a = old  BY <1>6, <3>1
    <3>2. CASE a # old
      <4>1. \A i \in 1..n : s[i] # a  BY <1>7, <2>5, <3>2
      <4>2. links[a] = Zero  BY <1>5, <2>5, <4>1 DEF IsList, Spells
      <4>3. a # new  BY <1>7, <2>5
      <4>4. a # prev
        <5>1. k # 1 => k - 1 \in 1..n  BY <1>1
        <5> QED  BY <2>5, <4>1, <5>1
      <4> QED  BY <1>5, <1>6, <2>5, <3>2, <4>2, <4>3, <4>4
    <3> QED  BY <3>1, <3>2
  <2> QED  BY <2>1, <2>2, <2>3, <2>4, <2>5 DEF Spells
<1> QED  BY <1>1, <1>2, <1>5, <1>9 DEF IsList

\* Every nonempty set of natural numbers has a least element.
LEMMA LeastElement ==
  ASSUME NEW T \in SUBSET Nat, T # {}
  PROVE  \E x \in T : \A y \in T : x <= y
<1>1. IsWellFoundedOn(OpToRel(<, Nat), Nat)  BY NatLessThanWellFounded
<1>2. PICK x \in T : \A y \in T : ~(<<y, x>> \in OpToRel(<, Nat))
  BY <1>1, WFMin
<1>3. ASSUME NEW y \in T, y < x  PROVE  FALSE
  BY <1>2, <1>3 DEF OpToRel
<1> QED  BY <1>3, SMT

(***************************************************************************)
(* Walking the list.  Hops is a recursive function, defined by CHOOSE: of  *)
(* the bounds for which no function satisfies its equation there would be  *)
(* a least one.                                                            *)
(***************************************************************************)
Walks(hop, links, start, bound) ==
  /\ hop = [i \in 0..bound |-> hop[i]] /\ hop[0] = links[start]
  /\ \A i \in 1..bound : hop[i] = links[hop[i - 1]]

LEMMA WalkExists ==
  ASSUME NEW links, NEW start, NEW bound \in Nat
  PROVE  \E hop : Walks(hop, links, start, bound)
<1> DEFINE T == {b \in Nat : ~\E hop : Walks(hop, links, start, b)}
<1>1. SUFFICES ASSUME T # {}  PROVE FALSE  OBVIOUS
<1>2. PICK x \in T : \A y \in T : x <= y
  <2>1. T \in SUBSET Nat  OBVIOUS
  <2> HIDE DEF T
  <2> QED  BY <1>1, <2>1, LeastElement
<1>3. x # 0
  <2> DEFINE f == [i \in 0..0 |-> links[start]]
  <2>1. f = [i \in 0..0 |-> f[i]] /\ f[0] = links[start] /\ 1..0 = {}  OBVIOUS
  <2> HIDE DEF f
  <2>2. Walks(f, links, start, 0)  BY <2>1 DEF Walks
  <2> QED  BY <1>2, <2>2
<1>4. x \in Nat /\ x - 1 \in Nat /\ ~(x <= x - 1)  BY <1>2, <1>3
<1>5. PICK f : Walks(f, links, start, x - 1)  BY <1>2, <1>4
<1> DEFINE g == [i \in 0..x |-> IF i = x THEN links[f[x - 1]] ELSE f[i]]
<1>6. Walks(g, links, start, x)
  <2>1. g = [i \in 0..x |-> g[i]]  OBVIOUS
  <2>2. \A i \in 0..(x - 1) : i \in 0..x /\ i # x /\ g[i] = f[i]  BY <1>4
  <2>3. g[x] = links[f[x - 1]]  BY <1>4
  <2>4. 0 \in 0..(x - 1) /\ x - 1 \in 0..(x - 1)  BY <1>4
  <2> HIDE DEF g
  <2>5. ASSUME NEW i \in 1..x  PROVE g[i] = links[g[i - 1]]
    <3>1. CASE i = x  BY <2>2, <2>3, <2>4, <3>1
    <3>2. CASE i # x
      <4>1. i \in 1..(x - 1) /\ i \in 0..(x - 1) /\ i - 1 \in 0..(x - 1)  BY <1>4, <3>2
      <4> QED  BY <1>5, <2>2, <4>1 DEF Walks
    <3> QED  BY <3>1, <3>2
  <2>6. g[0] = links[start]  BY <1>5, <2>2, <2>4 DEF Walks
  <2> QED  BY <2>1, <2>5, <2>6 DEF Walks
<1> HIDE DEF g
<1> QED  BY <1>2, <1>6

LEMMA HopsWalk ==
  ASSUME NEW links, NEW start, NEW bound \in Nat
  PROVE  Walks(Hops(links, start, bound), links, start, bound)
<1> DEFINE Step(f) == [i \in 0..bound |-> IF i = 0 THEN links[start] ELSE links[f[i - 1]]]
           hop == CHOOSE f : f = Step(f)
<1>1. PICK f : Walks(f, links, start, bound)  BY WalkExists
<1>2. f = Step(f)
  <2>1. ASSUME NEW i \in 0..bound
        PROVE  f[i] = IF i = 0 THEN links[start] ELSE links[f[i - 1]]
    <3>1. i # 0 => i \in 1..bound  OBVIOUS
    <3> QED  BY <1>1, <3>1 DEF Walks
  <2>2. f = [i \in 0..bound |-> f[i]]  BY <1>1 DEF Walks
  <2> QED  BY <2>1, <2>2
<1>3. hop = Step(hop)  BY <1>2
<1>4. Hops(links, start, bound) = hop  BY DEF Hops
<1> HIDE DEF hop
<1>5. /\ hop = [i \in 0..bound |-> hop[i]] /\ hop[0] = links[start]
      /\ \A i \in 1..bound : hop[i] = links[hop[i - 1]]
  <2>1. 0 \in 0..bound /\ \A i \in 1..bound : i \in 0..bound /\ i # 0  OBVIOUS
  <2> QED  BY <1>3, <2>1
<1> QED  BY <1>4, <1>5 DEF Walks

(* From the sentinel or any node the walk visits the nodes that follow,    *)
(* and then the sentinel.                                                  *)
LEMMA HopsFrom ==
  ASSUME NEW links, NEW s, NEW n, NEW A, NEW Legal, IsList(links, s, n, A, Legal),
         NEW k \in 0..n, NEW bound \in Nat, NEW i \in 0..bound, k + i <= n
  PROVE  Hops(links, NodeAt(s, n, k), bound)[i] = NodeAt(s, n, k + i + 1)
<1> DEFINE hop == Hops(links, NodeAt(s, n, k), bound)
           T == {j \in 0..bound : k + j <= n /\ hop[j] # NodeAt(s, n, k + j + 1)}
<1>1. n \in Nat /\ Walks(hop, links, NodeAt(s, n, k), bound)  BY HopsWalk DEF IsList
<1>2. ASSUME NEW j \in 0..n  PROVE links[NodeAt(s, n, j)] = NodeAt(s, n, j + 1)
  <2>1. CASE j = 0  BY <1>1, <2>1 DEF IsList, Spells, NodeAt
  <2>2. CASE j # 0
    <3>1. j \in 1..n  BY <1>1, <2>2
    <3> QED  BY <3>1 DEF IsList, Spells, NodeAt
  <2> QED  BY <2>1, <2>2
<1> HIDE DEF hop
<1>3. T = {}
  <2>1. SUFFICES ASSUME T # {}  PROVE FALSE  OBVIOUS
  <2>2. T \in SUBSET Nat  OBVIOUS
  <2>3. PICK x \in T : \A y \in T : x <= y
    <3> HIDE DEF T
    <3> QED  BY <2>1, <2>2, LeastElement
  <2>4. CASE x = 0
    <3>1. hop[0] = links[NodeAt(s, n, k)]  BY <1>1 DEF Walks
    <3>2. k + 0 + 1 = k + 1  BY <1>1
    <3> QED  BY <1>2, <2>3, <2>4, <3>1, <3>2
  <2>5. CASE x # 0
    <3>1. /\ x \in 1..bound /\ x - 1 \in 0..bound /\ ~(x <= x - 1) /\ k + (x - 1) <= n
          /\ k + x \in 0..n /\ k + (x - 1) + 1 = k + x
      BY <1>1, <2>3, <2>5
    <3>2. hop[x - 1] = NodeAt(s, n, k + x)  BY <2>3, <3>1
    <3>3. hop[x] = links[hop[x - 1]]  BY <1>1, <3>1 DEF Walks
    <3>4. hop[x] = NodeAt(s, n, k + x + 1)  BY <1>2, <3>1, <3>2, <3>3
    <3> QED  BY <2>3, <3>4
  <2> QED  BY <2>4, <2>5
<1> QED  BY <1>3 DEF hop

(* The walk over the whole list.                                           *)
LEMMA HopsFollow ==
  ASSUME NEW links, NEW s, NEW n, NEW A, NEW Legal, IsList(links, s, n, A, Legal)
  PROVE  \A i \in 0..n : Hops(links, Sentinel, n)[i] = NodeAt(s, n, i + 1)
<1>1. n \in Nat /\ 0 \in 0..n /\ NodeAt(s, n, 0) = Sentinel  BY DEF IsList, NodeAt
<1>2. ASSUME NEW i \in 0..n  PROVE Hops(links, Sentinel, n)[i] = NodeAt(s, n, i + 1)
  <2>1. 0 + i <= n /\ 0 + i + 1 = i + 1  BY <1>1
  <2> QED  BY <1>1, <2>1, HopsFrom
<1> QED  BY <1>2

(***************************************************************************)
(* What the operations do to the set of nodes.                             *)
(***************************************************************************)
LEMMA PushFrontNodes ==
  ASSUME NEW links, NEW s, NEW n, NEW A, NEW Legal, IsList(links, s, n, A, Legal),
         NEW node \in Legal, links[node] = Zero
  PROVE  Nodes(PushFront(links, node)) = Nodes(links) \cup {node}
<1>1. n \in Nat  BY DEF IsList
<1>2. Nodes(PushFront(links, node)) = {Pushed(s, n, node)[i] : i \in 1..(n + 1)}
  BY PushFrontSpells, SpellsNodes
<1>3. Nodes(links) = {s[i] : i \in 1..n}  BY SpellsNodes
<1>4. Pushed(s, n, node)[1] = node /\ 1 \in 1..(n + 1)  BY <1>1 DEF Pushed
<1>5. \A i \in 1..n : i + 1 \in 1..(n + 1) /\ Pushed(s, n, node)[i + 1] = s[i]
  BY <1>1 DEF Pushed
<1>6. \A i \in 1..(n + 1) : i # 1 => i - 1 \in 1..n /\ Pushed(s, n, node)[i] = s[i - 1]
  BY <1>1 DEF Pushed
<1> QED  BY <1>2, <1>3, <1>4, <1>5, <1>6

LEMMA UnlinkNodes ==
  ASSUME NEW links, NEW s, NEW n, NEW A, NEW Legal, IsList(links, s, n, A, Legal),
         NEW k \in 1..n
  PROVE  Nodes(Unlink(links, IF k = 1 THEN Sentinel ELSE s[k - 1], s[k]))
           = Nodes(links) \ {s[k]}
<1> DEFINE t == Without(s, n, k)
           after == Unlink(links, IF k = 1 THEN Sentinel ELSE s[k - 1], s[k])
<1>1. n \in Nat /\ k \in Int /\ 1 <= k /\ k <= n  BY DEF IsList
<1>2. Nodes(after) = {t[i] : i \in 1..(n - 1)}
  <2> HIDE DEF t, after
  <2>1. IsList(after, t, n - 1, A, Legal)  BY UnlinkSpells DEF t, after
  <2> QED  BY <2>1, SpellsNodes
<1>3. Nodes(links) = {s[i] : i \in 1..n}  BY SpellsNodes
<1>4. \A i, j \in 1..n : s[i] = s[j] => i = j  BY DEF IsList, Spells
<1>5. \A i \in 1..(n - 1) :
        /\ i \in 1..n /\ i + 1 \in 1..n
        /\ i < k => t[i] = s[i]
        /\ i >= k => t[i] = s[i + 1]
  BY <1>1 DEF Without
<1>6. ASSUME NEW i \in 1..(n - 1)  PROVE  t[i] \in Nodes(links) \ {s[k]}
  <2>1. CASE i < k
    <3>1. t[i] = s[i] /\ i \in 1..n /\ i # k  BY <1>1, <1>5, <2>1
    <3> QED  BY <1>3, <1>4, <3>1
  <2>2. CASE i >= k
    <3>1. t[i] = s[i + 1] /\ i + 1 \in 1..n /\ i + 1 # k  BY <1>1, <1>5, <2>2
    <3> QED  BY <1>3, <1>4, <3>1
  <2> QED  BY <1>1, <2>1, <2>2
<1>7. ASSUME NEW i \in 1..n, i # k  PROVE  \E j \in 1..(n - 1) : t[j] = s[i]
  <2>1. CASE i < k
    <3>1. i \in 1..(n - 1)  BY <1>1, <2>1
    <3> QED  BY <1>5, <2>1, <3>1
  <2>2. CASE i > k
    <3>1. i - 1 \in 1..(n - 1) /\ i - 1 >= k /\ (i - 1) + 1 = i  BY <1>1, <2>2
    <3>2. t[i - 1] = s[i]  BY <1>5, <3>1
    <3> QED  BY <3>1, <3>2
  <2> QED  BY <1>1, <1>7, <2>1, <2>2
<1> HIDE DEF t, after
<1> QED  BY <1>2, <1>3, <1>6, <1>7 DEF after

LEMMA ReplaceNodes ==
  ASSUME NEW links, NEW s, NEW n, NEW A, NEW Legal, IsList(links, s, n, A, Legal),
         NEW k \in 1..n, NEW new \in Legal, links[new] = Zero
  PROVE  Nodes(Replace(links, IF k = 1 THEN Sentinel ELSE s[k - 1], s[k], new))
           = (Nodes(links) \ {s[k]}) \cup {new}
<1> DEFINE t == [s EXCEPT ![k] = new]
           after == Replace(links, IF k = 1 THEN Sentinel ELSE s[k - 1], s[k], new)
<1>1. Nodes(after) = {t[i] : i \in 1..n}
  <2> HIDE DEF t, after
  <2>1. IsList(after, t, n, A, Legal)  BY ReplaceSpells DEF t, after
  <2> QED  BY <2>1, SpellsNodes
<1>2. Nodes(links) = {s[i] : i \in 1..n}  BY SpellsNodes
<1>3. \A i, j \in 1..n : s[i] = s[j] => i = j  BY DEF IsList, Spells
<1>4. t[k] = new /\ \A i \in 1..n : i # k => t[i] = s[i]  BY DEF IsList
<1> HIDE DEF t, after
<1>5. {t[i] : i \in 1..n} = ({s[i] : i \in 1..n} \ {s[k]}) \cup {new}
  BY <1>3, <1>4
<1> QED  BY <1>1, <1>2, <1>5 DEF after


--------------------------------------------------------------------------------
(***************************************************************************)
(* OwnerManager, for every set of addresses and every setup array.         *)
(***************************************************************************)
LegalOwner == Address \ Reserved

OwnersListed(s) == IsList(owners, s, ownerCount, Address, LegalOwner)

\* Before setup the mapping is empty; from then on it is a list of ownerCount
\* owners, and the threshold is at most their number.
OwnersListOK ==
  /\ threshold = 0 => owners = [a \in Address |-> Zero] /\ ownerCount = 0
  /\ threshold # 0 => threshold \in 1..ownerCount /\ \E s : OwnersListed(s)

OwnersInv == OwnersTypeOK /\ OwnersListOK

--------------------------------------------------------------------------------
(* The setup loop accepts an array only if its entries are different.      *)
LEMMA AcceptableIsInjective ==
  ASSUME NEW os \in Seq(Address), Acceptable(os)
  PROVE  \A i, j \in 1..Len(os) : os[i] = os[j] => i = j
<1>1. ASSUME NEW i \in 1..Len(os), NEW j \in 1..Len(os), i < j  PROVE  os[i] # os[j]
  <2>1. j \in DOMAIN os /\ j # 1 /\ Len(os) \in Nat  BY <1>1
  <2>2. os[j] # os[j - 1]  BY <2>1 DEF Acceptable, currentOwner
  <2>3. \A l \in 1..(j - 2) : os[l] # os[j]  BY <2>1 DEF Acceptable, LinkedBefore
  <2>4. i = j - 1 \/ i \in 1..(j - 2)  BY <1>1
  <2> QED  BY <2>2, <2>3, <2>4
<1>2. \A i, j \in 1..Len(os) : i = j \/ i < j \/ j < i  OBVIOUS
<1> QED  BY <1>1, <1>2

(* setupOwners writes a well-formed list of its argument.                  *)
LEMMA SetupOwnersSpells ==
  ASSUME NEW os \in Seq(Address), Acceptable(os), Len(os) # 0,
         owners = [a \in Address |-> Zero]
  PROVE  IsList(Linked(os), os, Len(os), Address, LegalOwner)
<1> DEFINE n == Len(os)
           after == Linked(os)
<1>1. n \in Nat /\ DOMAIN os = 1..n /\ os \in [1..n -> Address]  OBVIOUS
<1>2. os \in [1..n -> LegalOwner]
  <2>1. \A i \in 1..n : os[i] \in LegalOwner  BY <1>1 DEF Acceptable, LegalOwner
  <2> QED  BY <1>1, <2>1
<1>3. \A i, j \in 1..n : os[i] = os[j] => i = j  BY AcceptableIsInjective
<1>4. /\ {Zero, Sentinel} \subseteq Address
      /\ LegalOwner \subseteq Address \ {Zero, Sentinel}
  BY AddressAssumption, SelfAssumption DEF LegalOwner, Reserved
<1>5. \A i \in 0..n : NodeAt(os, n, i + 1) \in Address
  BY <1>1, <1>4 DEF NodeAt
<1>6. after[Sentinel] = NodeAt(os, n, 1)  BY <1>4 DEF Linked
<1>7. ASSUME NEW i \in 1..n  PROVE  after[os[i]] = NodeAt(os, n, i + 1)
  <2>1. os[i] \in Address /\ os[i] # Sentinel  BY <1>2, <1>4
  <2>2. (CHOOSE j \in DOMAIN os : os[j] = os[i]) = i  BY <1>1, <1>3
  <2> QED  BY <1>1, <2>1, <2>2 DEF Linked
<1>8. ASSUME NEW a \in Address \ {Sentinel}, \A i \in 1..n : os[i] # a
      PROVE  after[a] = Zero
  BY <1>1, <1>8 DEF Linked
<1>9. after \in [Address -> Address]
  <2>1. ASSUME NEW a \in Address  PROVE  after[a] \in Address
    <3>1. CASE a = Sentinel  BY <1>1, <1>5, <1>6, <3>1
    <3>2. CASE a # Sentinel /\ \E i \in 1..n : os[i] = a
      BY <1>1, <1>5, <1>7, <3>2
    <3>3. CASE a # Sentinel /\ \A i \in 1..n : os[i] # a
      BY <1>4, <1>8, <3>3
    <3> QED  BY <3>1, <3>2, <3>3
  <2>2. after = [a \in Address |-> after[a]]  BY DEF Linked
  <2> HIDE DEF after
  <2> QED  BY <2>1, <2>2
<1>10. Spells(after, os, n)
  <2>1. DOMAIN after = Address  BY <1>9
  <2> HIDE DEF after
  <2> QED  BY <1>2, <1>3, <1>4, <1>6, <1>7, <1>8, <2>1 DEF Spells
<1> QED  BY <1>1, <1>2, <1>4, <1>9, <1>10 DEF IsList

--------------------------------------------------------------------------------
(* Each operation preserves the inductive invariant.                       *)
LEMMA OwnersInvInit == OwnersInit => OwnersInv
<1> QED  BY AddressAssumption DEF OwnersInit, OwnersInv, OwnersTypeOK, OwnersListOK

(* What the operations have in common: a list again, and a threshold that  *)
(* its length reaches.                                                     *)
LEMMA ListStep ==
  ASSUME NEW s, IsList(owners', s, ownerCount', Address, LegalOwner),
         threshold' \in 1..ownerCount'
  PROVE  OwnersInv'
BY DEF OwnersListed, LegalOwner, Reserved, IsList, OwnersInv, OwnersTypeOK, OwnersListOK

LEMMA SetupOwnersStep ==
  ASSUME OwnersInv, NEW os \in OwnerList, NEW t \in Nat, setupOwners(os, t)
  PROVE  OwnersInv'
<1>1. os \in Seq(Address) /\ Len(os) \in Nat  BY OwnerListAssumption
<1>2. Len(os) # 0 /\ t \in 1..Len(os)  BY <1>1 DEF setupOwners
<1>3. owners = [a \in Address |-> Zero]  BY DEF OwnersInv, OwnersListOK, setupOwners
<1>4. IsList(Linked(os), os, Len(os), Address, LegalOwner)
  BY <1>1, <1>2, <1>3, SetupOwnersSpells DEF setupOwners
<1>5. IsList(owners', os, ownerCount', Address, LegalOwner)  BY <1>4 DEF setupOwners
<1> QED  BY <1>2, <1>5, ListStep DEF setupOwners

LEMMA AddStep ==
  ASSUME OwnersInv, threshold # 0, NEW owner \in Address, NEW t \in Nat,
         addOwnerWithThreshold(owner, t)
  PROVE  OwnersInv'
<1>1. PICK s : OwnersListed(s)  BY DEF OwnersInv, OwnersListOK
<1>2. owner \in LegalOwner /\ owners[owner] = Zero
  BY DEF addOwnerWithThreshold, LegalOwner
<1>3. IsList(PushFront(owners, owner), Pushed(s, ownerCount, owner),
             ownerCount + 1, Address, LegalOwner)
  BY <1>1, <1>2, PushFrontSpells DEF OwnersListed
<1>4. IsList(owners', Pushed(s, ownerCount, owner), ownerCount', Address, LegalOwner)
  BY <1>3 DEF addOwnerWithThreshold
<1>5. threshold' \in 1..ownerCount'
  BY DEF OwnersInv, OwnersTypeOK, OwnersListOK, addOwnerWithThreshold, ThresholdBecomes
<1> QED  BY <1>4, <1>5, ListStep

LEMMA RemoveStep ==
  ASSUME OwnersInv, threshold # 0, NEW prevOwner \in Address, NEW owner \in Address,
         NEW t \in Nat, removeOwner(prevOwner, owner, t)
  PROVE  OwnersInv'
<1>1. PICK s : OwnersListed(s)  BY DEF OwnersInv, OwnersListOK
<1>2. owner \in Address \ {Zero, Sentinel} /\ owners[prevOwner] = owner
  BY DEF removeOwner
<1>3. PICK k \in 1..ownerCount :
        s[k] = owner /\ prevOwner = IF k = 1 THEN Sentinel ELSE s[k - 1]
  BY <1>1, <1>2, Predecessor DEF OwnersListed
<1>4. IsList(Unlink(owners, prevOwner, owner), Without(s, ownerCount, k),
             ownerCount - 1, Address, LegalOwner)
  BY <1>1, <1>3, UnlinkSpells DEF OwnersListed
<1>5. IsList(owners', Without(s, ownerCount, k), ownerCount', Address, LegalOwner)
  BY <1>4 DEF removeOwner
<1>6. threshold' \in 1..ownerCount'
  BY DEF OwnersInv, OwnersTypeOK, OwnersListOK, removeOwner, ThresholdBecomes
<1> QED  BY <1>5, <1>6, ListStep

LEMMA SwapStep ==
  ASSUME OwnersInv, threshold # 0, NEW prevOwner \in Address, NEW oldOwner \in Address,
         NEW newOwner \in Address, swapOwner(prevOwner, oldOwner, newOwner)
  PROVE  OwnersInv'
<1>1. PICK s : OwnersListed(s)  BY DEF OwnersInv, OwnersListOK
<1>2. /\ newOwner \in LegalOwner /\ owners[newOwner] = Zero
      /\ oldOwner \in Address \ {Zero, Sentinel} /\ owners[prevOwner] = oldOwner
  BY DEF swapOwner, LegalOwner
<1>3. PICK k \in 1..ownerCount :
        s[k] = oldOwner /\ prevOwner = IF k = 1 THEN Sentinel ELSE s[k - 1]
  BY <1>1, <1>2, Predecessor DEF OwnersListed
<1>4. IsList(Replace(owners, prevOwner, oldOwner, newOwner),
             [s EXCEPT ![k] = newOwner], ownerCount, Address, LegalOwner)
  BY <1>1, <1>2, <1>3, ReplaceSpells DEF OwnersListed
<1>5. IsList(owners', [s EXCEPT ![k] = newOwner], ownerCount', Address, LegalOwner)
  BY <1>4 DEF swapOwner
<1>6. threshold' \in 1..ownerCount'
  BY DEF OwnersInv, OwnersListOK, swapOwner
<1> QED  BY <1>5, <1>6, ListStep

LEMMA ChangeThresholdStep ==
  ASSUME OwnersInv, threshold # 0, NEW t \in Nat, changeThreshold(t)
  PROVE  OwnersInv'
<1>1. PICK s : OwnersListed(s)  BY DEF OwnersInv, OwnersListOK
<1>2. IsList(owners', s, ownerCount', Address, LegalOwner)
  BY <1>1 DEF OwnersListed, changeThreshold
<1>3. threshold' \in 1..ownerCount'
  BY DEF OwnersInv, OwnersTypeOK, changeThreshold
<1> QED  BY <1>2, <1>3, ListStep

LEMMA StutterStep ==
  ASSUME OwnersInv, UNCHANGED ownerVars
  PROVE  OwnersInv'
BY DEF OwnersInv, OwnersTypeOK, OwnersListOK, OwnersListed, LegalOwner, Reserved, ownerVars

LEMMA OwnersInvStep == OwnersInv /\ [OwnersNext]_ownerVars => OwnersInv'
<1> SUFFICES ASSUME OwnersInv, [OwnersNext]_ownerVars  PROVE OwnersInv'
  OBVIOUS
<1>1. ASSUME NEW os \in OwnerList, NEW t \in 0..(Cardinality(Address) + 1),
             setupOwners(os, t)
      PROVE  OwnersInv'
  <2>1. t \in Nat  OBVIOUS
  <2> QED  BY <1>1, <2>1, SetupOwnersStep
<1>2. ASSUME NEW a \in Address, NEW t \in 0..(ownerCount + 2),
             OwnersSelfCall(addOwnerWithThreshold(a, t))
      PROVE  OwnersInv'
  <2>1. t \in Nat  OBVIOUS
  <2> QED  BY <1>2, <2>1, AddStep DEF OwnersSelfCall
<1>3. ASSUME NEW p \in Address, NEW a \in Address, NEW t \in 0..(ownerCount + 1),
             OwnersSelfCall(removeOwner(p, a, t))
      PROVE  OwnersInv'
  <2>1. t \in Nat  OBVIOUS
  <2> QED  BY <1>3, <2>1, RemoveStep DEF OwnersSelfCall
<1>4. ASSUME NEW p \in Address, NEW a \in Address, NEW b \in Address,
             OwnersSelfCall(swapOwner(p, a, b))
      PROVE  OwnersInv'
  BY <1>4, SwapStep DEF OwnersSelfCall
<1>5. ASSUME NEW t \in 0..(ownerCount + 1), OwnersSelfCall(changeThreshold(t))
      PROVE  OwnersInv'
  <2>1. t \in Nat  OBVIOUS
  <2> QED  BY <1>5, <2>1, ChangeThresholdStep DEF OwnersSelfCall
<1>6. CASE UNCHANGED ownerVars  BY <1>6, StutterStep
<1> QED  BY <1>1, <1>2, <1>3, <1>4, <1>5, <1>6 DEF OwnersNext

\* The mapping of owners spells a list of ownerCount owners after every operation of
\* OwnerManager, with a threshold between 1 and the count once it is set up.
THEOREM OwnersInvAlways == OwnersSpec => []OwnersInv
<1> QED  BY OwnersInvInit, OwnersInvStep, PTL DEF OwnersSpec

--------------------------------------------------------------------------------
\* The slots of OwnerManager (OwnerManager.sol:16-18) keep their types: the mapping
\* stays within the addresses and the count never goes below zero.
THEOREM OwnersTypeCorrect == OwnersSpec => []OwnersTypeOK
<1>1. OwnersInv => OwnersTypeOK  BY DEF OwnersInv
<1> QED  BY <1>1, OwnersInvAlways, PTL

LEMMA ListedOnce == OwnersInv => OwnersListedOnce
<1> SUFFICES ASSUME OwnersInv, threshold # 0
             PROVE  /\ GetOwnersReturns
                    /\ IsInjective(getOwners)
                    /\ Range(getOwners) = OwnerSet
                    /\ Cardinality(OwnerSet) = ownerCount
  BY DEF OwnersListedOnce
<1>1. PICK s : OwnersListed(s)  BY DEF OwnersInv, OwnersListOK
<1> DEFINE n == ownerCount
           hop == Hops(owners, Sentinel, n)
<1>2. n \in Nat /\ s \in [1..n -> LegalOwner]  BY <1>1 DEF OwnersListed, IsList
<1>3. \A i \in 0..n : hop[i] = NodeAt(s, n, i + 1)
  BY <1>1, HopsFollow DEF OwnersListed
<1> HIDE DEF hop
<1>4. hop[n] = Sentinel /\ n \in 0..n  BY <1>2, <1>3 DEF NodeAt
<1>5. \A i \in 0..n : hop[i] = Sentinel => i = n
  <2>1. ASSUME NEW i \in 0..n, i # n  PROVE  hop[i] # Sentinel
    <3>1. i + 1 \in 1..n  BY <1>2, <2>1
    <3>2. s[i + 1] # Sentinel  BY <1>2, <3>1 DEF LegalOwner, Reserved
    <3> QED  BY <1>3, <3>1, <3>2 DEF NodeAt
  <2> QED  BY <2>1
<1>6. (CHOOSE i \in 0..n : hop[i] = Sentinel /\ \A j \in 0..(i - 1) : hop[j] # Sentinel)
        = n
  <2>1. \A j \in 0..(n - 1) : hop[j] # Sentinel  BY <1>2, <1>5
  <2> QED  BY <1>4, <1>5, <2>1
<1>7. getOwners = [i \in 1..n |-> IF i <= n THEN hop[i - 1] ELSE Zero]
  BY <1>6 DEF getOwners, hop
<1>8. \A i \in 1..n : hop[i - 1] = s[i]
  <2>1. ASSUME NEW i \in 1..n  PROVE  hop[i - 1] = s[i]
    <3>1. i - 1 \in 0..n /\ (i - 1) + 1 = i  BY <1>2
    <3> QED  BY <1>3, <3>1 DEF NodeAt
  <2> QED  BY <2>1
<1>9. DOMAIN getOwners = 1..n /\ \A i \in 1..n : getOwners[i] = s[i]
  BY <1>2, <1>7, <1>8
<1>10. GetOwnersReturns  BY <1>4 DEF GetOwnersReturns, hop
<1>11. IsInjective(getOwners)
  BY <1>1, <1>9 DEF IsInjective, OwnersListed, IsList, Spells
<1>12. OwnerSet = {s[i] : i \in 1..n}  BY <1>1, SpellsNodes DEF OwnerSet, OwnersListed
<1>13. Range(getOwners) = OwnerSet  BY <1>9, <1>12 DEF Range
<1>14. Cardinality(OwnerSet) = n  BY <1>1, SpellsCardinality DEF OwnerSet, OwnersListed
<1> QED  BY <1>10, <1>11, <1>13, <1>14

\* getOwners lists every owner once, and nothing else, in every reachable state of
\* a Safe that is set up: the walk from the sentinel always closes after
\* ownerCount steps.
THEOREM OwnersListedOnceAlways == OwnersSpec => []OwnersListedOnce
<1> QED  BY ListedOnce, OwnersInvAlways, PTL

LEMMA OwnerSetLegal ==
  ASSUME OwnersInv, threshold # 0
  PROVE  /\ OwnerSet \subseteq LegalOwner
         /\ IsFiniteSet(OwnerSet)
         /\ Cardinality(OwnerSet) = ownerCount
<1>1. PICK s : OwnersListed(s)  BY DEF OwnersInv, OwnersListOK
<1> QED  BY <1>1, SpellsNodes, SpellsCardinality DEF OwnerSet, OwnersListed

LEMMA Reachable == OwnersInv => ThresholdReachable
<1> SUFFICES ASSUME OwnersInv, threshold # 0
             PROVE  threshold \in 1..Cardinality(OwnerSet \ Reserved)
  BY DEF ThresholdReachable
<1>1. OwnerSet \ Reserved = OwnerSet  BY OwnerSetLegal DEF LegalOwner
<1> QED  BY <1>1, OwnerSetLegal DEF OwnersInv, OwnersListOK

\* A set-up Safe always has enough owners to confirm a transaction, none of them
\* the Safe itself, the sentinel or the zero address.
THEOREM ThresholdReachableAlways == OwnersSpec => []ThresholdReachable
<1> QED  BY Reachable, OwnersInvAlways, PTL

--------------------------------------------------------------------------------
(* Refinement: a step of the list is a step of the registry, or changes    *)
(* neither the members nor the quorum.                                     *)
LEMMA InitRegistry == OwnersInit => Registry!Init
BY DEF OwnersInit, Registry!Init, OwnerSet, Nodes, IsNode

(* The instance has its own copy of the definition of cardinality.         *)
LEMMA SameCardinality ==
  ASSUME NEW S  PROVE Registry!Cardinality(S) = Cardinality(S)
BY Zenon DEF Registry!Cardinality, Cardinality

(* An operation leaves a quorum that the new members reach.                *)
LEMMA QuorumInRange ==
  ASSUME OwnersInv', threshold' # 0
  PROVE  /\ OwnerSet' \subseteq LegalOwner
         /\ threshold' \in 1..Cardinality(OwnerSet')
<1>1. PICK s : IsList(owners', s, ownerCount', Address, LegalOwner)
  BY DEF OwnersInv, OwnersListOK, OwnersListed, LegalOwner, Reserved
<1>2. Nodes(owners') \subseteq LegalOwner /\ Cardinality(Nodes(owners')) = ownerCount'
  BY <1>1, SpellsNodes, SpellsCardinality
<1> QED  BY <1>2 DEF OwnersInv, OwnersListOK, OwnerSet

LEMMA SetupRegistry ==
  ASSUME OwnersInv, OwnersInv', NEW os \in OwnerList, NEW t \in Nat, setupOwners(os, t)
  PROVE  Registry!Next
<1>1. threshold' = t /\ threshold = 0 /\ t # 0  BY DEF setupOwners
<1>2. OwnerSet' \subseteq LegalOwner /\ t \in 1..Cardinality(OwnerSet')
  BY <1>1, QuorumInRange
<1>3. Registry!Found(OwnerSet', t)  BY <1>1, <1>2, SameCardinality DEF Registry!Found
<1> QED  BY <1>2, <1>3, SameCardinality DEF Registry!Next, LegalOwner

(* Around a call of a set-up Safe the quorum stays reachable: Retune.      *)
LEMMA Retunes ==
  ASSUME OwnersInv', threshold # 0, threshold' # 0
  PROVE  Registry!Retune(OwnerSet', threshold')
BY QuorumInRange, SameCardinality DEF Registry!Retune

LEMMA AddRegistry ==
  ASSUME OwnersInv, OwnersInv', threshold # 0, NEW owner \in Address, NEW t \in Nat,
         addOwnerWithThreshold(owner, t)
  PROVE  Registry!Next
<1>1. PICK s : OwnersListed(s)  BY DEF OwnersInv, OwnersListOK
<1>2. owner \in LegalOwner /\ owners[owner] = Zero
  BY DEF addOwnerWithThreshold, LegalOwner
<1>3. OwnerSet' = OwnerSet \cup {owner}
  BY <1>1, <1>2, PushFrontNodes DEF OwnerSet, OwnersListed, addOwnerWithThreshold
<1>4. owner \notin OwnerSet  BY <1>2 DEF OwnerSet, Nodes, IsNode
<1>5. threshold' # 0
  BY DEF addOwnerWithThreshold, ThresholdBecomes
<1>6. Registry!Admit(owner, threshold')
  BY <1>2, <1>3, <1>4, <1>5, Retunes DEF Registry!Admit, LegalOwner
<1>7. threshold' \in 1..(Cardinality(OwnerSet) + 1)
  BY <1>5, OwnerSetLegal
  DEF OwnersInv, OwnersTypeOK, OwnersListOK, addOwnerWithThreshold
<1> QED  BY <1>2, <1>6, <1>7, SameCardinality DEF Registry!Next, LegalOwner

LEMMA RemoveRegistry ==
  ASSUME OwnersInv, OwnersInv', threshold # 0, NEW prevOwner \in Address,
         NEW owner \in Address, NEW t \in Nat, removeOwner(prevOwner, owner, t)
  PROVE  Registry!Next
<1>1. PICK s : OwnersListed(s)  BY DEF OwnersInv, OwnersListOK
<1>2. PICK k \in 1..ownerCount :
        s[k] = owner /\ prevOwner = IF k = 1 THEN Sentinel ELSE s[k - 1]
  BY <1>1, Predecessor DEF OwnersListed, removeOwner
<1>3. OwnerSet' = OwnerSet \ {owner}
  BY <1>1, <1>2, UnlinkNodes DEF OwnerSet, OwnersListed, removeOwner
<1>4. owner \in OwnerSet  BY <1>1, <1>2, SpellsNodes DEF OwnerSet, OwnersListed
<1>5. owner \in LegalOwner  BY <1>4, OwnerSetLegal
<1>6. threshold' # 0  BY DEF removeOwner, ThresholdBecomes
<1>7. Registry!Expel(owner, threshold')
  BY <1>3, <1>4, <1>6, Retunes DEF Registry!Expel
<1>8. threshold' \in 1..(Cardinality(OwnerSet) + 1)
  BY <1>6, OwnerSetLegal DEF OwnersInv, OwnersTypeOK, OwnersListOK, removeOwner
<1> QED  BY <1>5, <1>7, <1>8, SameCardinality DEF Registry!Next, LegalOwner

LEMMA SwapRegistry ==
  ASSUME OwnersInv, OwnersInv', threshold # 0, NEW prevOwner \in Address,
         NEW oldOwner \in Address, NEW newOwner \in Address,
         swapOwner(prevOwner, oldOwner, newOwner)
  PROVE  Registry!Next
<1>1. PICK s : OwnersListed(s)  BY DEF OwnersInv, OwnersListOK
<1>2. newOwner \in LegalOwner /\ owners[newOwner] = Zero  BY DEF swapOwner, LegalOwner
<1>3. PICK k \in 1..ownerCount :
        s[k] = oldOwner /\ prevOwner = IF k = 1 THEN Sentinel ELSE s[k - 1]
  BY <1>1, Predecessor DEF OwnersListed, swapOwner
<1>4. OwnerSet' = (OwnerSet \ {oldOwner}) \cup {newOwner}
  BY <1>1, <1>2, <1>3, ReplaceNodes DEF OwnerSet, OwnersListed, swapOwner
<1>5. oldOwner \in OwnerSet  BY <1>1, <1>3, SpellsNodes DEF OwnerSet, OwnersListed
<1>6. oldOwner \in LegalOwner  BY <1>5, OwnerSetLegal
<1>7. newOwner \notin OwnerSet  BY <1>2 DEF OwnerSet, Nodes, IsNode
<1>8. threshold' = threshold  BY DEF swapOwner
<1>9. Registry!Exchange(oldOwner, newOwner)
  BY <1>2, <1>4, <1>5, <1>7, <1>8, Retunes DEF Registry!Exchange, LegalOwner
<1> QED  BY <1>2, <1>6, <1>9 DEF Registry!Next, LegalOwner

LEMMA ChangeThresholdRegistry ==
  ASSUME OwnersInv, OwnersInv', threshold # 0, NEW t \in Nat, changeThreshold(t)
  PROVE  Registry!Next
<1>1. OwnerSet' = OwnerSet  BY DEF OwnerSet, changeThreshold
<1>2. threshold' # 0 /\ threshold' = t  BY DEF changeThreshold
<1>3. Registry!SetQuorum(t)
  BY <1>1, <1>2, Retunes DEF Registry!SetQuorum
<1>4. t \in 1..Cardinality(OwnerSet)  BY <1>1, <1>2, QuorumInRange
<1> QED  BY <1>3, <1>4, SameCardinality DEF Registry!Next

LEMMA NextRegistry ==
  OwnersInv /\ OwnersInv' /\ [OwnersNext]_ownerVars => [Registry!Next]_(Registry!vars)
<1> SUFFICES ASSUME OwnersInv, OwnersInv', [OwnersNext]_ownerVars
             PROVE  [Registry!Next]_(Registry!vars)
  OBVIOUS
<1>1. ASSUME NEW os \in OwnerList, NEW t \in 0..(Cardinality(Address) + 1),
             setupOwners(os, t)
      PROVE  Registry!Next
  <2>1. t \in Nat  OBVIOUS
  <2> QED  BY <1>1, <2>1, SetupRegistry
<1>2. ASSUME NEW a \in Address, NEW t \in 0..(ownerCount + 2),
             OwnersSelfCall(addOwnerWithThreshold(a, t))
      PROVE  Registry!Next
  <2>1. t \in Nat  OBVIOUS
  <2> QED  BY <1>2, <2>1, AddRegistry DEF OwnersSelfCall
<1>3. ASSUME NEW p \in Address, NEW a \in Address, NEW t \in 0..(ownerCount + 1),
             OwnersSelfCall(removeOwner(p, a, t))
      PROVE  Registry!Next
  <2>1. t \in Nat  OBVIOUS
  <2> QED  BY <1>3, <2>1, RemoveRegistry DEF OwnersSelfCall
<1>4. ASSUME NEW p \in Address, NEW a \in Address, NEW b \in Address,
             OwnersSelfCall(swapOwner(p, a, b))
      PROVE  Registry!Next
  BY <1>4, SwapRegistry DEF OwnersSelfCall
<1>5. ASSUME NEW t \in 0..(ownerCount + 1), OwnersSelfCall(changeThreshold(t))
      PROVE  Registry!Next
  <2>1. t \in Nat  OBVIOUS
  <2> QED  BY <1>5, <2>1, ChangeThresholdRegistry DEF OwnersSelfCall
<1>6. CASE UNCHANGED ownerVars
  BY <1>6 DEF ownerVars, Registry!vars, OwnerSet
<1> QED  BY <1>1, <1>2, <1>3, <1>4, <1>5, <1>6 DEF OwnersNext

\* The linked list, its count and the threshold implement the registry of
\* OwnerRegistry: membership changes one owner at a time, and every reachable
\* membership has a quorum it can reach.
THEOREM OwnersImplementation == OwnersSpec => ImplementsRegistry
<1> QED
  BY InitRegistry, NextRegistry, OwnersInvAlways, PTL
  DEF OwnersSpec, ImplementsRegistry, Registry!Spec

--------------------------------------------------------------------------------
(***************************************************************************)
(* ModuleManager, for every finite set of addresses and every initializer. *)
(* Its list has no counter, so its length is part of the sequence.         *)
(***************************************************************************)
LegalModule == Address \ {Zero, Sentinel}

ModulesListed(s, n) == IsList(modules, s, n, Address, LegalModule)

\* Before setup the mapping is empty; from then on it is a list.
ModulesListOK ==
  \/ modules = [a \in Address |-> Zero]
  \/ \E n \in Nat : \E s : ModulesListed(s, n)

(* The mapping tells by the sentinel's entry whether setup has run.        *)
LEMMA OpenList ==
  ASSUME ModulesListOK, modules[Sentinel] # Zero
  PROVE  \E n \in Nat : \E s : ModulesListed(s, n)
BY AddressAssumption DEF ModulesListOK

LEMMA ListIsOpen ==
  ASSUME NEW links, NEW s, NEW n, IsList(links, s, n, Address, LegalModule)
  PROVE  links[Sentinel] # Zero
BY DEF IsList, Spells, NodeAt, LegalModule, Sentinel, Zero

Backwards(ms) == [i \in 1..Len(ms) |-> ms[Len(ms) + 1 - i]]

(* The initializer's modules end up in the reverse of their order.         *)
LEMMA SetupModulesSpells ==
  ASSUME NEW ms \in Seq(Address), \A i \in DOMAIN ms : CanBeModule(ms[i]),
         IsInjective(ms)
  PROVE  IsList(EnabledInTurn(ms), Backwards(ms), Len(ms), Address, LegalModule)
<1> DEFINE n == Len(ms)
           s == Backwards(ms)
           after == EnabledInTurn(ms)
<1>1. n \in Nat /\ DOMAIN ms = 1..n /\ ms \in [1..n -> Address]  OBVIOUS
<1>2. ms \in [1..n -> LegalModule]  BY <1>1 DEF CanBeModule, LegalModule
<1>3. \A i, j \in 1..n : ms[i] = ms[j] => i = j  BY <1>1 DEF IsInjective
<1>4. {Zero, Sentinel} \subseteq Address  BY AddressAssumption
<1>5. \A i \in 1..n : n + 1 - i \in 1..n /\ s[i] = ms[n + 1 - i]
  BY <1>1 DEF Backwards
<1>6. s \in [1..n -> LegalModule]  BY <1>2, <1>5 DEF Backwards
<1>7. after[Sentinel] = NodeAt(s, n, 1)
  <2>1. CASE ms = <<>>  BY <1>1, <1>4, <2>1 DEF EnabledInTurn, NodeAt
  <2>2. CASE ms # <<>>
    <3>1. n # 0  BY <2>2
    <3>2. 1 \in 1..n /\ s[1] = ms[n]  BY <1>1, <1>5, <3>1
    <3>3. after[Sentinel] = ms[n]  BY <1>4, <2>2 DEF EnabledInTurn
    <3> QED  BY <3>2, <3>3 DEF NodeAt
  <2> QED  BY <2>1, <2>2
<1>8. ASSUME NEW i \in 1..n  PROVE  after[s[i]] = NodeAt(s, n, i + 1)
  <2> DEFINE j == n + 1 - i
  <2>1. j \in 1..n /\ s[i] = ms[j]  BY <1>5
  <2>2. s[i] \in Address /\ s[i] # Sentinel  BY <1>6 DEF LegalModule
  <2>3. (CHOOSE l \in DOMAIN ms : ms[l] = s[i]) = j
    <3> HIDE DEF j, s
    <3> QED  BY <1>1, <1>3, <2>1
  <2>4. after[s[i]] = IF j = 1 THEN Sentinel ELSE ms[j - 1]
    <3> HIDE DEF j, s
    <3> QED  BY <1>1, <2>1, <2>2, <2>3 DEF EnabledInTurn
  <2>5. CASE j = 1
    <3>1. i = n
      <4> HIDE DEF n
      <4> QED  BY <1>1, <2>5
    <3> QED  BY <1>1, <2>4, <2>5, <3>1 DEF NodeAt
  <2>6. CASE j # 1
    <3>1. i + 1 \in 1..n /\ n + 1 - (i + 1) = j - 1  BY <1>1, <2>1, <2>6
    <3>2. s[i + 1] = ms[j - 1]  BY <1>5, <3>1
    <3> QED  BY <2>4, <2>6, <3>1, <3>2 DEF NodeAt
  <2> QED  BY <2>5, <2>6
<1>9. ASSUME NEW a \in Address \ {Sentinel}, \A i \in 1..n : s[i] # a
      PROVE  after[a] = Zero
  <2>1. ASSUME NEW j \in 1..n  PROVE  ms[j] # a
    <3>1. n + 1 - j \in 1..n /\ n + 1 - (n + 1 - j) = j  BY <1>1
    <3>2. s[n + 1 - j] = ms[j]  BY <1>5, <3>1
    <3> QED  BY <1>9, <3>1, <3>2
  <2> QED  BY <1>1, <2>1 DEF EnabledInTurn
<1>10. after \in [Address -> Address]
  <2>1. ASSUME NEW a \in Address  PROVE  after[a] \in Address
    <3>1. \A i \in 0..n : NodeAt(s, n, i + 1) \in Address
      BY <1>1, <1>4, <1>6 DEF NodeAt, LegalModule
    <3>2. CASE a = Sentinel  BY <1>1, <1>7, <3>1, <3>2
    <3>3. CASE a # Sentinel /\ \E i \in 1..n : s[i] = a
      BY <1>1, <1>8, <3>1, <3>3
    <3>4. CASE a # Sentinel /\ \A i \in 1..n : s[i] # a
      BY <1>4, <1>9, <3>4
    <3> QED  BY <3>2, <3>3, <3>4
  <2>2. after = [a \in Address |-> after[a]]  BY DEF EnabledInTurn
  <2> HIDE DEF after
  <2> QED  BY <2>1, <2>2
<1>11. Spells(after, s, n)
  <2>1. \A i, j \in 1..n : s[i] = s[j] => i = j
    <3>1. ASSUME NEW i \in 1..n, NEW j \in 1..n, s[i] = s[j]  PROVE  i = j
      <4>1. n + 1 - i = n + 1 - j
        <5> HIDE DEF s
        <5> QED  BY <1>3, <1>5, <3>1
      <4> QED  BY <1>1, <4>1
    <3> QED  BY <3>1
  <2>2. DOMAIN after = Address  BY <1>10
  <2> HIDE DEF after, s
  <2> QED  BY <1>6, <1>7, <1>8, <1>9, <2>1, <2>2 DEF Spells, LegalModule
<1> QED  BY <1>1, <1>4, <1>6, <1>10, <1>11 DEF IsList, LegalModule

--------------------------------------------------------------------------------
LEMMA InitModulesListOK == ModulesInit => ModulesListOK
BY DEF ModulesInit, ModulesListOK

LEMMA NextModulesListOK ==
  ASSUME NEW s, NEW n \in Nat, IsList(modules', s, n, Address, LegalModule)
  PROVE  ModulesListOK'
BY DEF ModulesListOK, ModulesListed, LegalModule

(* A step opens the list or changes one node of it, and maps to the same   *)
(* step of the set.                                                        *)
LEMMA SetupModulesStep ==
  ASSUME ModulesListOK, NEW ms \in InitialModules, setupModules(ms)
  PROVE  ModulesListOK' /\ Abstract!Next
<1>1. ms \in Seq(Address) /\ Len(ms) \in Nat  BY ModuleAssumption
<1>2. IsList(modules', Backwards(ms), Len(ms), Address, LegalModule)
  BY <1>1, SetupModulesSpells DEF setupModules
<1>3. Abstract!Open(EnabledModules')
  BY <1>2, ListIsOpen DEF Abstract!Open, setupModules
<1>4. EnabledModules' \in SUBSET (Address \ {Zero, Sentinel})
  BY <1>2, SpellsNodes DEF EnabledModules, LegalModule
<1> QED  BY <1>1, <1>2, <1>3, <1>4, NextModulesListOK DEF Abstract!Next

LEMMA EnableStep ==
  ASSUME ModulesListOK, modules[Sentinel] # Zero, NEW module \in Address,
         enableModule(module)
  PROVE  ModulesListOK' /\ Abstract!Next
<1>0. PICK n \in Nat : \E q : ModulesListed(q, n)  BY OpenList
<1>1. PICK s : ModulesListed(s, n)  BY <1>0
<1>2. module \in LegalModule /\ modules[module] = Zero
  BY DEF enableModule, CanBeModule, LegalModule
<1>3. IsList(modules', Pushed(s, n, module), n + 1, Address, LegalModule)
  BY <1>1, <1>2, PushFrontSpells DEF ModulesListed, enableModule
<1>4. EnabledModules' = EnabledModules \cup {module}
  BY <1>1, <1>2, PushFrontNodes DEF EnabledModules, ModulesListed, enableModule
<1>5. module \notin EnabledModules  BY <1>2 DEF EnabledModules, Nodes, IsNode
<1>6. Abstract!Enable(module)
  BY <1>3, <1>4, <1>5, ListIsOpen DEF Abstract!Enable
<1> QED  BY <1>2, <1>3, <1>6, NextModulesListOK DEF Abstract!Next, LegalModule

LEMMA DisableStep ==
  ASSUME ModulesListOK, modules[Sentinel] # Zero, NEW prevModule \in Address,
         NEW module \in Address, disableModule(prevModule, module)
  PROVE  ModulesListOK' /\ Abstract!Next
<1>0. PICK n \in Nat : \E q : ModulesListed(q, n)  BY OpenList
<1>1. PICK s : ModulesListed(s, n)  BY <1>0
<1>2. module \in LegalModule /\ modules[prevModule] = module
  BY DEF disableModule, CanBeModule, LegalModule
<1>3. PICK k \in 1..n :
        s[k] = module /\ prevModule = IF k = 1 THEN Sentinel ELSE s[k - 1]
  BY <1>1, <1>2, Predecessor DEF ModulesListed, LegalModule
<1>4. IsList(modules', Without(s, n, k), n - 1, Address, LegalModule)
  BY <1>1, <1>3, UnlinkSpells DEF ModulesListed, disableModule
<1>5. EnabledModules' = EnabledModules \ {module}
  <2>1. modules' = Unlink(modules, IF k = 1 THEN Sentinel ELSE s[k - 1], s[k])
    BY <1>3 DEF disableModule
  <2>2. Nodes(modules') = Nodes(modules) \ {s[k]}
    BY <1>1, <2>1, UnlinkNodes DEF ModulesListed
  <2> QED  BY <1>3, <2>2 DEF EnabledModules
<1>6. module \in EnabledModules
  BY <1>1, <1>3, SpellsNodes DEF EnabledModules, ModulesListed
<1>7. Abstract!Disable(module)
  BY <1>4, <1>5, <1>6, ListIsOpen DEF Abstract!Disable
<1>8. n - 1 \in Nat  BY <1>3
<1> QED  BY <1>2, <1>4, <1>7, <1>8, NextModulesListOK DEF Abstract!Next, LegalModule

LEMMA NextStep ==
  ModulesListOK /\ [ModulesNext]_moduleVars => ModulesListOK' /\ [Abstract!Next]_(Abstract!vars)
<1> SUFFICES ASSUME ModulesListOK, [ModulesNext]_moduleVars
             PROVE  ModulesListOK' /\ [Abstract!Next]_(Abstract!vars)
  OBVIOUS
<1>1. CASE ModulesNext
  BY <1>1, SetupModulesStep, EnableStep, DisableStep DEF ModulesNext, ModulesSelfCall
<1>2. CASE UNCHANGED moduleVars
  BY <1>2 DEF moduleVars, ModulesListOK, ModulesListed, Abstract!vars, EnabledModules
<1> QED  BY <1>1, <1>2

\* The mapping of modules spells a list without repetitions after every operation of
\* ModuleManager, or is still empty.
THEOREM ModulesListOKAlways == ModulesSpec => []ModulesListOK
<1>1. ModulesListOK /\ [ModulesNext]_moduleVars => ModulesListOK'  BY NextStep
<1> QED  BY InitModulesListOK, <1>1, PTL DEF ModulesSpec

\* The mapping of ModuleManager.sol:64 implements a set of modules: opened once,
\* then changed by one enableModule or disableModule at a time, with any prevModule.
THEOREM ModulesImplementation == ModulesSpec => ImplementsModuleSet
<1>1. ModulesInit => Abstract!Init
  BY AddressAssumption DEF ModulesInit, Abstract!Init, EnabledModules, Nodes, IsNode
<1>2. ModulesListOK /\ [ModulesNext]_moduleVars => [Abstract!Next]_(Abstract!vars)  BY NextStep
<1> QED
  BY <1>1, <1>2, ModulesListOKAlways, PTL DEF ModulesSpec, ImplementsModuleSet, Abstract!Spec

--------------------------------------------------------------------------------
\* How many modules a page that starts after the k-th of n holds.
PageLength(n, k, size) == IF k + size <= n THEN size ELSE n - k

\* A page holds the modules that follow in the list, as many as fit.
LEMMA PageFollows ==
  ASSUME NEW s, NEW n, ModulesListed(s, n), NEW k \in 0..n, NEW size \in Nat \ {0}
  PROVE  LET page == getModulesPaginated(NodeAt(s, n, k), size)
             q == PageLength(n, k, size)
         IN /\ q \in 0..(n - k)
            /\ page.array = [i \in 1..q |-> s[k + i]]
            /\ page.next = IF k + q = n THEN Sentinel ELSE s[k + q]
<1> DEFINE hop == Hops(modules, NodeAt(s, n, k), size)
           q == PageLength(n, k, size)
           count == moduleCount(hop, size)
<1>1. /\ n \in Nat /\ q \in 0..(n - k) /\ q \in 0..size /\ (q = size \/ q = n - k)
      /\ k + q \in 0..n /\ (k + q # n => q = size /\ q \in 1..q)
  BY DEF PageLength, ModulesListed, IsList
<1> HIDE DEF q
<1>2. \A i \in 0..size : k + i <= n => hop[i] = NodeAt(s, n, k + i + 1)
  BY HopsFrom DEF ModulesListed
<1> HIDE DEF hop
<1>3. ASSUME NEW i \in 0..size, k + i < n
      PROVE  hop[i] = s[k + i + 1] /\ hop[i] \notin {Zero, Sentinel}
  <2>1. k + i + 1 \in 1..n /\ k + i <= n  BY <1>1, <1>3
  <2>2. hop[i] = s[k + i + 1]  BY <1>2, <2>1 DEF NodeAt
  <2>3. s[k + i + 1] \in LegalModule  BY <2>1 DEF ModulesListed, IsList
  <2> QED  BY <2>2, <2>3 DEF LegalModule
<1>4. ASSUME k + q = n  PROVE hop[q] = Sentinel
  <2>1. k + q <= n /\ k + q + 1 \notin 1..n  BY <1>1, <1>4
  <2> QED  BY <1>1, <1>2, <2>1 DEF NodeAt
<1>5. count = q
  <2> DEFINE Stops(i) == /\ i = size \/ hop[i] \in {Zero, Sentinel}
                         /\ \A j \in 0..(i - 1) : hop[j] \notin {Zero, Sentinel}
  <2>1. Stops(q)
    <3>1. q = size \/ hop[q] \in {Zero, Sentinel}  BY <1>1, <1>4
    <3>2. ASSUME NEW j \in 0..(q - 1)  PROVE hop[j] \notin {Zero, Sentinel}
      <4>1. j \in 0..size /\ k + j < n  BY <1>1
      <4> QED  BY <1>3, <4>1
    <3> QED  BY <3>1, <3>2
  <2>2. ASSUME NEW i \in 0..size, Stops(i)  PROVE i = q
    <3>1. CASE i < q
      <4>1. k + i < n /\ i # size  BY <1>1, <3>1
      <4> QED  BY <1>3, <2>2, <4>1
    <3>2. CASE i > q
      <4>1. q \in 0..(i - 1) /\ k + q = n  BY <1>1, <3>2
      <4> QED  BY <1>4, <2>2, <4>1
    <3> QED  BY <1>1, <3>1, <3>2
  <2>3. count = CHOOSE i \in 0..size : Stops(i)  BY DEF moduleCount
  <2> HIDE DEF Stops, count
  <2> QED  BY <1>1, <2>1, <2>2, <2>3
<1> HIDE DEF count
<1> DEFINE array == [i \in 1..q |-> hop[i - 1]]
<1>6. array = [i \in 1..q |-> s[k + i]]
  <2>1. ASSUME NEW i \in 1..q  PROVE hop[i - 1] = s[k + i]
    <3>1. i - 1 \in 0..size /\ k + (i - 1) < n /\ k + (i - 1) + 1 = k + i  BY <1>1
    <3> QED  BY <1>3, <3>1
  <2> QED  BY <2>1
<1>7. (IF hop[q] # Sentinel THEN array[q] ELSE Sentinel)
        = IF k + q = n THEN Sentinel ELSE s[k + q]
  <2>1. CASE k + q = n  BY <1>4, <2>1
  <2>2. CASE k + q # n
    <3>1. k + q < n /\ q \in 0..size /\ q \in 1..q  BY <1>1, <2>2
    <3>2. hop[q] # Sentinel  BY <1>3, <3>1
    <3> QED  BY <1>6, <2>2, <3>1, <3>2
  <2> QED  BY <2>1, <2>2
<1>8. getModulesPaginated(NodeAt(s, n, k), size)
        = [array |-> array, next |-> IF hop[q] # Sentinel THEN array[q] ELSE Sentinel]
  BY <1>5 DEF getModulesPaginated, hop, count
<1> HIDE DEF array
<1> QED  BY <1>1, <1>6, <1>7, <1>8 DEF q

LEMMA PageIsAvailable ==
  ASSUME NEW s, NEW n, ModulesListed(s, n), NEW k \in 0..n, NEW size \in Nat \ {0}
  PROVE  PageAvailable(NodeAt(s, n, k), size)
<1>1. n \in Nat /\ \A i \in 1..n : s[i] \in LegalModule  BY DEF ModulesListed, IsList
<1>2. \A j \in 1..(n + 1) : NodeAt(s, n, j) # Zero
  BY <1>1 DEF NodeAt, LegalModule, Zero, Sentinel
<1>3. modules[NodeAt(s, n, k)] = NodeAt(s, n, k + 1)
  <2>1. CASE k = 0  BY <1>1, <2>1 DEF ModulesListed, IsList, Spells, NodeAt
  <2>2. CASE k # 0
    <3>1. k \in 1..n  BY <1>1, <2>2
    <3> QED  BY <3>1 DEF ModulesListed, IsList, Spells, NodeAt
  <2> QED  BY <2>1, <2>2
<1>4. k + 1 \in 1..(n + 1)  BY <1>1
<1> QED  BY <1>2, <1>3, <1>4 DEF PageAvailable, isModuleEnabled, IsNode

\* A page that is long enough holds the whole list.
LEMMA WholeListIs ==
  ASSUME NEW s, NEW n, ModulesListed(s, n)
  PROVE  WholeList = [i \in 1..n |-> s[i]] /\ Cardinality(Address) \in Nat \ {0}
<1> DEFINE size == Cardinality(Address)
<1>1. n \in Nat /\ Nodes(modules) \in SUBSET Address /\ NodeAt(s, n, 0) = Sentinel
  BY DEF ModulesListed, IsList, Nodes, NodeAt
<1>2. IsFiniteSet(Address) /\ Sentinel \in Address
  BY AddressAssumption, ModuleAssumption
<1>3. size \in Nat /\ n <= size
  <2>1. Cardinality(Nodes(modules)) = n  BY SpellsCardinality DEF ModulesListed
  <2>2. Cardinality(Nodes(modules)) <= Cardinality(Address)  BY <1>1, <1>2, FS_Subset
  <2> QED  BY <1>2, <2>1, <2>2, FS_CardinalityType
<1>4. size # 0  BY <1>2, FS_EmptySet
<1> HIDE DEF size
<1>5. PageLength(n, 0, size) = n  BY <1>1, <1>3 DEF PageLength
<1>6. 0 \in 0..n /\ \A i \in 1..n : 0 + i = i  BY <1>1
<1>7. getModulesPaginated(NodeAt(s, n, 0), size).array = [i \in 1..n |-> s[0 + i]]
  BY <1>3, <1>4, <1>5, <1>6, PageFollows
<1>8. WholeList = getModulesPaginated(Sentinel, size).array  BY DEF WholeList, size
<1>9. [i \in 1..n |-> s[0 + i]] = [i \in 1..n |-> s[i]]  BY <1>6
<1> QED  BY <1>1, <1>3, <1>4, <1>7, <1>8, <1>9 DEF size

LEMMA ListOKImpliesPages == ModulesListOK => PagesFollow
<1> SUFFICES ASSUME ModulesListOK, modules[Sentinel] # Zero  PROVE PagesFollow!2
  BY DEF PagesFollow
<1>1. PICK n \in Nat : \E q : ModulesListed(q, n)  BY OpenList
<1>2. PICK s : ModulesListed(s, n)  BY <1>1
<1> DEFINE list == WholeList
<1>3. list = [i \in 1..n |-> s[i]] /\ Cardinality(Address) \in Nat \ {0}
  BY <1>2, WholeListIs
<1> HIDE DEF list
<1>4. /\ DOMAIN list = 1..n /\ Len(list) = n /\ \A i \in 1..n : list[i] = s[i]
      /\ list \in Seq(LegalModule)
  <2>1. list \in [1..n -> LegalModule]  BY <1>2, <1>3 DEF ModulesListed, IsList
  <2> QED  BY <1>3, <2>1
<1>5. Range(list) = EnabledModules
  <2>1. EnabledModules = {s[i] : i \in 1..n}  BY <1>2, SpellsNodes DEF EnabledModules, ModulesListed
  <2> QED  BY <1>4, <2>1 DEF Range
<1>6. IsInjective(list)
  BY <1>2, <1>4 DEF IsInjective, ModulesListed, IsList, Spells
<1>7. ASSUME NEW from \in 0..n, NEW size \in 1..Cardinality(Address)
      PROVE  LET start == IF from = 0 THEN Sentinel ELSE list[from]
                 page == getModulesPaginated(start, size)
                 last == IF from + size < n THEN from + size ELSE n
             IN /\ PageAvailable(start, size)
                /\ page.array = SubSeq(list, from + 1, last)
                /\ page.next = IF last = n THEN Sentinel ELSE list[last]
  <2> DEFINE start == IF from = 0 THEN Sentinel ELSE list[from]
             page == getModulesPaginated(start, size)
             last == IF from + size < n THEN from + size ELSE n
             q == PageLength(n, from, size)
             rest == SubSeq(list, from + 1, last)
  <2>1. size \in Nat \ {0}  BY <1>3
  <2>2. start = NodeAt(s, n, from)  BY <1>4 DEF NodeAt
  <2>3. /\ q \in 0..(n - from)
        /\ page.array = [i \in 1..q |-> s[from + i]]
        /\ page.next = IF from + q = n THEN Sentinel ELSE s[from + q]
    BY <1>2, <2>1, <2>2, PageFollows
  <2>4. last = from + q /\ last \in 0..n /\ (last # n => last \in 1..n)
    BY <2>1 DEF PageLength
  <2>5. page.next = IF last = n THEN Sentinel ELSE list[last]
    <3> HIDE DEF page, last
    <3> QED  BY <1>4, <2>3, <2>4
  <2>6. page.array = rest
    <3>1. \A i \in (from + 1)..last : i \in 1..n /\ list[i] \in LegalModule
      <4> HIDE DEF last
      <4>1. \A i \in (from + 1)..last : i \in 1..n  BY <2>4
      <4> QED  BY <1>4, <4>1
    <3> HIDE DEF last, q
    <3>2. from + 1 \in Int /\ last \in Int  BY <2>4
    <3>3. /\ rest \in Seq(LegalModule)
          /\ Len(rest) = IF from + 1 <= last THEN last - (from + 1) + 1 ELSE 0
          /\ \A i \in 1..(last - (from + 1) + 1) : rest[i] = list[from + 1 + i - 1]
      <4> HIDE DEF list
      <4> QED  BY <3>1, <3>2, SubSeqProperties
    <3> HIDE DEF rest
    <3>4. Len(rest) = q /\ last - (from + 1) + 1 = q  BY <2>3, <2>4, <3>3
    <3>5. \A i \in 1..q : from + 1 + i - 1 = from + i /\ from + i \in 1..n  BY <2>3
    <3>6. \A i \in 1..q : rest[i] = s[from + i]  BY <1>4, <3>3, <3>4, <3>5
    <3>7. rest = [i \in 1..q |-> rest[i]]  BY <3>3, <3>4
    <3> QED  BY <2>3, <3>6, <3>7
  <2> HIDE DEF page
  <2> QED  BY <1>2, <2>1, <2>2, <2>5, <2>6, PageIsAvailable DEF page
<1> QED  BY <1>4, <1>5, <1>6, <1>7 DEF list

\* Pages of any size, begun at the sentinel or after any module, hold the modules that
\* follow in the list, and tell where the next one begins: PagesFollow, for every set of
\* addresses.
THEOREM PagesFollowAlways == ModulesSpec => []PagesFollow
<1> QED  BY ModulesListOKAlways, ListOKImpliesPages, PTL

--------------------------------------------------------------------------------
(***************************************************************************)
(* Reading page after page.  In the list s, what is due and at or before   *)
(* the cursor was seen, and as long as nothing that was seen has gone,     *)
(* nothing that was seen is behind it.  Where the cursor is no longer in   *)
(* the list, nothing is said: the read starts over, or the cursor is       *)
(* enabled again and so at the front.                                      *)
(***************************************************************************)
Due == before \ removed

\* The cursor stands before the first module or at one of them.
StandsAt(s, n, k) == k \in 0..n /\ cursor = NodeAt(s, n, k)

ReadOK(s, n) ==
  /\ Due \subseteq {s[i] : i \in 1..n}
  /\ \A k \in 0..n : StandsAt(s, n, k) => \A i \in 1..k : s[i] \in Due => s[i] \in seen
  /\ seen \cap removed = {} =>
       /\ seen \subseteq {s[i] : i \in 1..n}
       /\ \A k \in 0..n : StandsAt(s, n, k) => \A i \in (k + 1)..n : s[i] \notin seen

CursorOK == IF cursor = Sentinel THEN seen = {} ELSE cursor \in seen \cap LegalModule

ReadInv ==
  /\ ModulesListOK
  /\ cursor # Zero =>
       /\ ~finished /\ CursorOK
       /\ \E n \in Nat : \E s : ModulesListed(s, n) /\ ReadOK(s, n)
  /\ ReadsEveryModule /\ RepeatsAfterRemoval

LEMMA PagingStepIsStep == [PagingNext]_pagingVars => [ModulesNext]_moduleVars
BY DEF PagingNext, StartReading, Reading, ReadPage, StartOver, BeginRead, EditList,
       pagingVars, moduleVars

\* What holds of the list holds of it while it is read.
LEMMA PagingIsSpec == PagingSpec => ModulesSpec
<1>1. PagingInit => ModulesInit  BY DEF PagingInit
<1> QED  BY <1>1, PagingStepIsStep, PTL DEF PagingSpec, ModulesSpec

LEMMA PagingListOK == ModulesListOK /\ [PagingNext]_pagingVars => ModulesListOK'
BY PagingStepIsStep, NextStep

LEMMA InitReadInv == PagingInit => ReadInv
BY InitModulesListOK DEF PagingInit, ReadInv, ReadsEveryModule, RepeatsAfterRemoval

\* A read begins with nothing seen, and everything is due.
LEMMA BeginStep ==
  ASSUME ModulesListOK, BeginRead, modules[Sentinel] # Zero
  PROVE  ReadInv'
<1>1. PICK n \in Nat : \E q : ModulesListed(q, n)  BY OpenList
<1>2. PICK s : ModulesListed(s, n)  BY <1>1
<1>3. /\ UNCHANGED modules /\ cursor' = Sentinel /\ seen' = {} /\ repeated' = {}
      /\ before' = EnabledModules /\ removed' = {} /\ finished' = FALSE
  BY DEF BeginRead
<1>4. ModulesListed(s, n)' /\ ModulesListOK'  BY <1>2, <1>3 DEF ModulesListed, ModulesListOK
<1>5. EnabledModules = {s[i] : i \in 1..n}  BY <1>2, SpellsNodes DEF EnabledModules, ModulesListed
<1>6. ASSUME NEW k \in 0..n, NodeAt(s, n, k) = Sentinel  PROVE k = 0
  <2>1. k \in 1..n => s[k] \in LegalModule  BY <1>2 DEF ModulesListed, IsList
  <2> QED  BY <1>6, <2>1 DEF NodeAt, LegalModule
<1>7. ReadOK(s, n)'
  <2>1. Due' = {s[i] : i \in 1..n}  BY <1>3, <1>5 DEF Due
  <2>2. \A k \in 0..n : StandsAt(s, n, k)' => 1..k = {}  BY <1>3, <1>6 DEF StandsAt
  <2> QED  BY <1>3, <2>1, <2>2 DEF ReadOK
<1>8. CursorOK' /\ ReadsEveryModule' /\ RepeatsAfterRemoval'
  BY <1>3 DEF CursorOK, ReadsEveryModule, RepeatsAfterRemoval
<1> QED  BY <1>1, <1>3, <1>4, <1>7, <1>8 DEF ReadInv

\* A cursor from which a page can be read is in the list.
LEMMA CursorListed ==
  ASSUME NEW s, NEW n, ModulesListed(s, n), CursorOK, NEW size, PageAvailable(cursor, size)
  PROVE  \E k \in 0..n : StandsAt(s, n, k)
<1>1. n \in Nat  BY DEF ModulesListed, IsList
<1>2. CASE cursor = Sentinel
  <2>1. 0 \in 0..n /\ NodeAt(s, n, 0) = Sentinel  BY <1>1 DEF NodeAt
  <2> QED  BY <1>2, <2>1 DEF StandsAt
<1>3. CASE cursor # Sentinel
  <2>1. cursor \in Nodes(modules)
    BY <1>3, AddressAssumption
    DEF CursorOK, PageAvailable, isModuleEnabled, IsNode, Nodes, LegalModule, ModulesListed, IsList
  <2>2. PICK k \in 1..n : cursor = s[k]  BY <2>1, SpellsNodes DEF ModulesListed
  <2>3. k \in 0..n /\ NodeAt(s, n, k) = s[k]  BY <1>1, <2>2 DEF NodeAt
  <2> QED  BY <2>2, <2>3 DEF StandsAt
<1> QED  BY <1>2, <1>3

\* A page is read: up to its last module all that is due was seen, and none of its modules
\* had been, unless something that was seen has gone.
LEMMA ReadPageStep ==
  ASSUME ReadInv, NEW size \in PageSizes, ReadPage(size)
  PROVE  ReadInv'
<1>1. PICK n \in Nat : \E q : ModulesListed(q, n) /\ ReadOK(q, n)  BY DEF ReadInv, ReadPage
<1>2. PICK s : ModulesListed(s, n) /\ ReadOK(s, n)  BY <1>1
<1>3. size \in Nat \ {0}  BY PagingAssumption DEF PagingAssumption, ReadPage, PageAvailable
<1>4. PICK k \in 0..n : StandsAt(s, n, k)
  BY <1>2, CursorListed DEF ReadInv, ReadPage
<1>5. cursor = NodeAt(s, n, k)  BY <1>4 DEF StandsAt
<1> DEFINE page == getModulesPaginated(cursor, size)
           q == PageLength(n, k, size)
<1>6. /\ q \in 0..(n - k) /\ page.array = [i \in 1..q |-> s[k + i]]
      /\ page.next = IF k + q = n THEN Sentinel ELSE s[k + q]
  BY <1>2, <1>3, <1>5, PageFollows
<1>7. k + q # n => q >= 1  BY <1>3 DEF PageLength
<1>8. /\ seen' = seen \cup Range(page.array)
      /\ repeated' = repeated \cup
           {page.array[i] : i \in {i \in DOMAIN page.array :
                  page.array[i] \in seen \cup {page.array[j] : j \in 1..(i - 1)}}}
      /\ finished' = (page.next = Sentinel)
      /\ cursor' = IF page.next = Sentinel THEN Zero ELSE page.next
      /\ UNCHANGED <<modules, before, removed>>
  BY DEF ReadPage
<1> HIDE DEF page, q
<1>9. Range(page.array) = {s[k + i] : i \in 1..q}
  <2>1. DOMAIN page.array = 1..q /\ \A i \in 1..q : page.array[i] = s[k + i]  BY <1>6
  <2> QED  BY <2>1, Zenon DEF Range
<1>10. /\ \A i \in 1..n : s[i] \in LegalModule /\ s[i] # Zero /\ s[i] # Sentinel
       /\ \A i, j \in 1..n : s[i] = s[j] => i = j
  BY <1>2 DEF ModulesListed, IsList, Spells, LegalModule
<1>11. \A i \in 1..q : k + i \in 1..n /\ k + i \in (k + 1)..n  BY <1>6
<1>12. ModulesListOK' /\ ModulesListed(s, n)' /\ Due' = Due
  BY <1>2, <1>8 DEF ModulesListOK, ModulesListed, ReadInv, Due
\* What is due and at or before the last module of the page was seen.
<1>13. ASSUME NEW i \in 1..(k + q), s[i] \in Due  PROVE s[i] \in seen'
  <2>1. CASE i <= k
    <3>1. i \in 1..k  BY <2>1
    <3>2. s[i] \in seen  BY <1>2, <1>4, <1>13, <3>1 DEF ReadOK
    <3> QED  BY <1>8, <3>2
  <2>2. CASE i > k
    <3>1. i - k \in 1..q /\ k + (i - k) = i  BY <1>6, <2>2
    <3>2. s[i] \in Range(page.array)  BY <1>9, <3>1
    <3> QED  BY <1>8, <3>2
  <2> QED  BY <1>6, <2>1, <2>2
<1>14. ASSUME seen' \cap removed' = {}
       PROVE  /\ seen \cap removed = {} /\ repeated = {}
              /\ seen \subseteq {s[i] : i \in 1..n}
              /\ \A i \in (k + 1)..n : s[i] \notin seen
  <2>1. seen \cap removed = {}  BY <1>8, <1>14
  <2>2. repeated = {}  BY <2>1 DEF ReadInv, RepeatsAfterRemoval
  <2> QED  BY <1>2, <1>4, <2>1, <2>2 DEF ReadOK
<1>15. RepeatsAfterRemoval'
  <2>1. ASSUME seen' \cap removed' = {}  PROVE repeated' = {}
    <3>1. ASSUME NEW i \in DOMAIN page.array
          PROVE  page.array[i] \notin seen \cup {page.array[j] : j \in 1..(i - 1)}
      <4>1. i \in 1..q /\ page.array[i] = s[k + i]  BY <1>6
      <4>2. page.array[i] \notin seen  BY <1>11, <1>14, <2>1, <4>1
      <4>3. ASSUME NEW j \in 1..(i - 1)  PROVE page.array[i] # page.array[j]
        <5>1. j \in 1..q /\ k + i # k + j /\ page.array[j] = s[k + j]  BY <1>6, <4>1
        <5> QED  BY <1>10, <1>11, <4>1, <5>1
      <4> QED  BY <4>2, <4>3
    <3>2. {page.array[i] : i \in {i \in DOMAIN page.array :
             page.array[i] \in seen \cup {page.array[j] : j \in 1..(i - 1)}}} = {}
      BY <3>1
    <3> QED  BY <1>8, <1>14, <2>1, <3>2
  <2> QED  BY <2>1 DEF RepeatsAfterRemoval
<1>16. CASE k + q = n
  <2>1. cursor' = Zero /\ finished' = TRUE  BY <1>6, <1>8, <1>16
  <2>2. Due \subseteq {s[i] : i \in 1..n}  BY <1>2 DEF ReadOK
  <2>3. Due \subseteq seen'  BY <1>13, <1>16, <2>2
  <2>4. ReadsEveryModule'  BY <1>12, <2>3 DEF ReadsEveryModule, Due
  <2> QED  BY <1>12, <1>15, <2>1, <2>4 DEF ReadInv
<1>17. CASE k + q # n
  <2> DEFINE l == k + q
  <2>1. l \in 1..n /\ l \in 0..n /\ q \in 1..q  BY <1>6, <1>7, <1>17
  <2>2. cursor' = s[l] /\ finished' = FALSE  BY <1>6, <1>8, <1>10, <1>17, <2>1
  <2>3. CursorOK'
    <3>1. s[l] \in seen'  BY <1>8, <1>9, <2>1
    <3> QED  BY <1>10, <2>1, <2>2, <3>1 DEF CursorOK
  <2>4. ASSUME NEW m \in 0..n, StandsAt(s, n, m)'  PROVE m = l
    <3>1. s[l] = NodeAt(s, n, m)  BY <2>2, <2>4 DEF StandsAt
    <3> QED  BY <1>10, <2>1, <3>1 DEF NodeAt
  <2>5. ReadOK(s, n)'
    <3>1. Due' \subseteq {s[i] : i \in 1..n}  BY <1>2, <1>12 DEF ReadOK
    <3>2. \A m \in 0..n : StandsAt(s, n, m)' => \A i \in 1..m : s[i] \in Due' => s[i] \in seen'
      BY <1>12, <1>13, <2>4
    <3>3. ASSUME seen' \cap removed' = {}
          PROVE  /\ seen' \subseteq {s[i] : i \in 1..n}
                 /\ \A i \in (l + 1)..n : s[i] \notin seen'
      <4>1. seen' \subseteq {s[i] : i \in 1..n}  BY <1>8, <1>9, <1>11, <1>14, <3>3
      <4>2. ASSUME NEW i \in (l + 1)..n  PROVE s[i] \notin seen'
        <5>1. i \in (k + 1)..n /\ i \in 1..n /\ \A j \in 1..q : k + j # i  BY <1>6, <2>1
        <5>2. s[i] \notin seen  BY <1>14, <3>3, <5>1
        <5>3. \A j \in 1..q : s[k + j] # s[i]  BY <1>10, <1>11, <5>1
        <5> QED  BY <1>8, <1>9, <5>2, <5>3
      <4> QED  BY <4>1, <4>2
    <3> HIDE DEF l
    <3> QED  BY <2>4, <3>1, <3>2, <3>3 DEF ReadOK
  <2>6. ReadsEveryModule'  BY <2>2 DEF ReadsEveryModule
  <2> QED  BY <1>12, <1>15, <2>2, <2>3, <2>5, <2>6 DEF ReadInv
<1> QED  BY <1>16, <1>17

\* A module in front of the list was not enabled, so it is not due, and was not seen
\* unless something has gone.
LEMMA EnabledReadOK ==
  ASSUME NEW s, NEW n, ModulesListed(s, n), ReadOK(s, n), CursorOK, NEW module \in LegalModule,
         modules[module] = Zero, UNCHANGED readVars
  PROVE  ReadOK(Pushed(s, n, module), n + 1)'
<1> DEFINE t == Pushed(s, n, module)
<1>1. n \in Nat /\ t[1] = module /\ \A i \in 1..n : i + 1 \in 1..(n + 1) /\ t[i + 1] = s[i]
  BY DEF Pushed, ModulesListed, IsList
<1>2. \A i \in 1..(n + 1) : i = 1 \/ (i - 1 \in 1..n /\ t[i] = s[i - 1])
  BY <1>1 DEF Pushed
<1> HIDE DEF t
<1>3. \A i \in 1..n : s[i] \in LegalModule /\ s[i] # module /\ s[i] # Zero
  <2>1. \A i \in 1..n : s[i] \in LegalModule /\ s[i] \in Nodes(modules)
    BY SpellsNodes DEF ModulesListed, IsList
  <2> QED  BY <2>1 DEF Nodes, IsNode, LegalModule
<1>4. {s[i] : i \in 1..n} \subseteq {t[i] : i \in 1..(n + 1)}  BY <1>1
<1>5. module \notin Due  BY <1>3 DEF ReadOK
<1>6. ASSUME NEW k \in 0..(n + 1), cursor = NodeAt(t, n + 1, k)
      PROVE  \/ k = 0 /\ cursor = Sentinel
             \/ k = 1 /\ cursor = module
             \/ k \in 2..(n + 1) /\ k - 1 \in 0..n /\ StandsAt(s, n, k - 1)
  <2>1. CASE k = 0  BY <1>1, <1>6, <2>1 DEF NodeAt
  <2>2. CASE k = 1  BY <1>1, <1>6, <2>2 DEF NodeAt
  <2>3. CASE k # 0 /\ k # 1
    <3>1. k \in 2..(n + 1) /\ k - 1 \in 1..n /\ k - 1 \in 0..n /\ k \in 1..(n + 1)  BY <1>1, <2>3
    <3>2. cursor = s[k - 1]  BY <1>2, <1>6, <2>3, <3>1 DEF NodeAt
    <3> QED  BY <3>1, <3>2 DEF NodeAt, StandsAt
  <2> QED  BY <2>1, <2>2, <2>3
<1>7. ASSUME NEW k \in 0..(n + 1), cursor = NodeAt(t, n + 1, k), NEW i \in 1..k, t[i] \in Due
      PROVE  t[i] \in seen
  <2>1. CASE i = 1  BY <1>1, <1>5, <1>7, <2>1
  <2>2. CASE i # 1
    <3>1. k \in 2..(n + 1) /\ k - 1 \in 0..n /\ StandsAt(s, n, k - 1)  BY <1>6, <1>7, <2>2
    <3>2. i - 1 \in 1..(k - 1) /\ t[i] = s[i - 1]  BY <1>1, <1>2, <2>2, <3>1
    <3> QED  BY <1>7, <3>1, <3>2 DEF ReadOK
  <2> QED  BY <2>1, <2>2
<1>8. ASSUME seen \cap removed = {}
      PROVE  /\ seen \subseteq {t[i] : i \in 1..(n + 1)}
             /\ \A k \in 0..(n + 1) : cursor = NodeAt(t, n + 1, k) =>
                  \A i \in (k + 1)..(n + 1) : t[i] \notin seen
  <2>1. seen \subseteq {s[i] : i \in 1..n} /\ module \notin seen  BY <1>3, <1>8 DEF ReadOK
  <2>2. ASSUME NEW k \in 0..(n + 1), cursor = NodeAt(t, n + 1, k), NEW i \in (k + 1)..(n + 1)
        PROVE  t[i] \notin seen
    <3>1. CASE k = 0  BY <1>6, <2>2, <3>1 DEF CursorOK
    <3>2. CASE k = 1  BY <1>6, <2>1, <2>2, <3>2, Zero # Sentinel
          DEF CursorOK, Zero, Sentinel, LegalModule
    <3>3. CASE k # 0 /\ k # 1
      <4>1. k \in 2..(n + 1) /\ k - 1 \in 0..n /\ StandsAt(s, n, k - 1)  BY <1>6, <2>2, <3>3
      <4>2. i - 1 \in ((k - 1) + 1)..n /\ t[i] = s[i - 1]  BY <1>1, <1>2, <2>2, <4>1
      <4> QED  BY <1>8, <4>1, <4>2 DEF ReadOK
    <3> QED  BY <3>1, <3>2, <3>3
  <2> QED  BY <1>4, <2>1, <2>2
<1>9. /\ Due' = Due /\ seen' = seen /\ removed' = removed
      /\ \A k : StandsAt(t, n + 1, k)' <=> k \in 0..(n + 1) /\ cursor = NodeAt(t, n + 1, k)
  BY DEF readVars, Due, StandsAt
<1>10. Due \subseteq {t[i] : i \in 1..(n + 1)}  BY <1>4 DEF ReadOK
<1>11. ReadOK(t, n + 1)'
  BY <1>7, <1>8, <1>9, <1>10 DEF ReadOK
<1> QED  BY <1>11 DEF t

\* A module that is unlinked is no longer due, and the others stay in their order.
LEMMA DisabledReadOK ==
  ASSUME NEW s, NEW n, ModulesListed(s, n), ReadOK(s, n), NEW j \in 1..n,
         removed' = removed \cup {s[j]}, UNCHANGED <<cursor, seen, before>>
  PROVE  ReadOK(Without(s, n, j), n - 1)'
<1> DEFINE t == Without(s, n, j)
           old(i) == IF i < j THEN i ELSE i + 1
           place(k) == IF k = 0 THEN 0 ELSE old(k)
<1>1. n \in Nat  BY DEF ModulesListed, IsList
<1>2. /\ \A i \in 1..(n - 1) : old(i) \in 1..n /\ old(i) # j /\ t[i] = s[old(i)]
      /\ \A k \in 0..(n - 1) : place(k) \in 0..n
      /\ \A k \in 0..(n - 1) : \A i \in 1..k : i \in 1..(n - 1) /\ old(i) \in 1..place(k)
      /\ \A k \in 0..(n - 1) : \A i \in (k + 1)..(n - 1) :
           i \in 1..(n - 1) /\ old(i) \in (place(k) + 1)..n
  BY <1>1 DEF Without
<1>3. \A i \in 1..n : i # j => \E l \in 1..(n - 1) : old(l) = i
  <2>1. ASSUME NEW i \in 1..n, i # j  PROVE \E l \in 1..(n - 1) : old(l) = i
    <3>1. CASE i < j
      <4>1. i \in 1..(n - 1) /\ old(i) = i  BY <1>1, <3>1
      <4> QED  BY <4>1
    <3>2. CASE i > j
      <4>1. i - 1 \in 1..(n - 1) /\ old(i - 1) = i  BY <1>1, <3>2
      <4> QED  BY <4>1
    <3> QED  BY <2>1, <3>1, <3>2
  <2> QED  BY <2>1
<1>4. \A k \in 1..(n - 1) : k # 0 /\ place(k) = old(k) /\ old(k) \in 1..n  BY <1>1, <1>2
<1>5. place(0) = 0  OBVIOUS
<1> HIDE DEF t, old, place
<1>6. \A k \in 0..(n - 1) : cursor = NodeAt(t, n - 1, k) => StandsAt(s, n, place(k))
  <2>1. ASSUME NEW k \in 0..(n - 1), cursor = NodeAt(t, n - 1, k)
        PROVE  StandsAt(s, n, place(k))
    <3>1. CASE k = 0  BY <1>1, <1>5, <2>1, <3>1 DEF NodeAt, StandsAt
    <3>2. CASE k # 0
      <4>1. k \in 1..(n - 1)  BY <1>1, <3>2
      <4>2. cursor = s[place(k)]  BY <1>2, <1>4, <2>1, <4>1 DEF NodeAt
      <4>3. place(k) \in 1..n /\ place(k) \in 0..n  BY <1>2, <1>4, <4>1
      <4> QED  BY <4>2, <4>3 DEF NodeAt, StandsAt
    <3> QED  BY <3>1, <3>2
  <2> QED  BY <2>1
<1>7. \A x \in {s[i] : i \in 1..n} : x # s[j] => x \in {t[i] : i \in 1..(n - 1)}
  BY <1>2, <1>3
<1>8. /\ Due' = Due \ {s[j]} /\ seen' = seen
      /\ \A k : StandsAt(t, n - 1, k)' <=> k \in 0..(n - 1) /\ cursor = NodeAt(t, n - 1, k)
  BY DEF Due, StandsAt
<1>9. Due' \subseteq {t[i] : i \in 1..(n - 1)}  BY <1>7, <1>8 DEF ReadOK
<1>10. ASSUME NEW k \in 0..(n - 1), StandsAt(t, n - 1, k)', NEW i \in 1..k, t[i] \in Due'
       PROVE  t[i] \in seen'
  <2>1. StandsAt(s, n, place(k)) /\ place(k) \in 0..n  BY <1>2, <1>6, <1>8, <1>10
  <2>2. old(i) \in 1..place(k) /\ t[i] = s[old(i)]  BY <1>2
  <2> QED  BY <1>8, <1>10, <2>1, <2>2 DEF ReadOK
<1>11. ASSUME seen' \cap removed' = {}
       PROVE  /\ seen' \subseteq {t[i] : i \in 1..(n - 1)}
              /\ \A k \in 0..(n - 1) : StandsAt(t, n - 1, k)' =>
                   \A i \in (k + 1)..(n - 1) : t[i] \notin seen'
  <2>1. seen \cap removed = {} /\ s[j] \notin seen  BY <1>8, <1>11
  <2>2. seen' \subseteq {t[i] : i \in 1..(n - 1)}  BY <1>7, <1>8, <2>1 DEF ReadOK
  <2>3. ASSUME NEW k \in 0..(n - 1), StandsAt(t, n - 1, k)', NEW i \in (k + 1)..(n - 1)
        PROVE  t[i] \notin seen'
    <3>1. StandsAt(s, n, place(k)) /\ place(k) \in 0..n  BY <1>2, <1>6, <1>8, <2>3
    <3>2. old(i) \in (place(k) + 1)..n /\ t[i] = s[old(i)]  BY <1>2
    <3> QED  BY <1>8, <2>1, <3>1, <3>2 DEF ReadOK
  <2> QED  BY <2>2, <2>3
<1>12. ReadOK(t, n - 1)'  BY <1>9, <1>10, <1>11 DEF ReadOK
<1> QED  BY <1>12 DEF t

\* The list changes: SetupStep, EnableStep and DisableStep say how.
LEMMA EditStep ==
  ASSUME ReadInv, EditList
  PROVE  ReadInv'
<1>1. /\ ModulesNext /\ UNCHANGED <<cursor, seen, repeated, before, finished>>
      /\ removed' = IF finished THEN removed ELSE removed \cup (EnabledModules \ EnabledModules')
  BY DEF EditList
<1>2. ModulesListOK'  BY <1>1, NextStep DEF ReadInv
<1>3. ReadsEveryModule' /\ RepeatsAfterRemoval'
  <2>1. removed \subseteq removed' /\ (finished => removed' = removed)  BY <1>1
  <2> QED  BY <1>1, <2>1 DEF ReadInv, ReadsEveryModule, RepeatsAfterRemoval
<1>4. CASE cursor = Zero  BY <1>1, <1>2, <1>3, <1>4 DEF ReadInv
<1>5. CASE cursor # Zero
  <2>1. ~finished /\ CursorOK /\ CursorOK'  BY <1>1, <1>5 DEF ReadInv, CursorOK
  <2>2. PICK n \in Nat : \E q : ModulesListed(q, n) /\ ReadOK(q, n)  BY <1>5 DEF ReadInv
  <2>3. PICK s : ModulesListed(s, n) /\ ReadOK(s, n)  BY <2>2
  <2>4. modules[Sentinel] # Zero  BY <2>3, ListIsOpen DEF ModulesListed
  <2>5. SUFFICES \E m \in Nat : \E t : ModulesListed(t, m)' /\ ReadOK(t, m)'
    BY <1>1, <1>2, <1>3, <1>5, <2>1 DEF ReadInv
  <2>6. ASSUME NEW module \in Address, enableModule(module)
        PROVE  \E m \in Nat : \E t : ModulesListed(t, m)' /\ ReadOK(t, m)'
    <3>1. module \in LegalModule /\ modules[module] = Zero
      BY <2>6 DEF enableModule, CanBeModule, LegalModule
    <3>2. ModulesListed(Pushed(s, n, module), n + 1)'
      BY <2>3, <2>6, <3>1, PushFrontSpells DEF ModulesListed, enableModule, Pushed
    <3>3. EnabledModules' = EnabledModules \cup {module}
      BY <2>3, <2>6, <3>1, PushFrontNodes DEF EnabledModules, ModulesListed, enableModule
    <3>4. UNCHANGED readVars
      <4>1. removed' = removed  BY <1>1, <3>3
      <4> QED  BY <1>1, <4>1 DEF readVars
    <3>5. ReadOK(Pushed(s, n, module), n + 1)'  BY <2>1, <2>3, <3>1, <3>4, EnabledReadOK
    <3>6. n + 1 \in Nat  OBVIOUS
    <3> QED  BY <3>2, <3>5, <3>6
  <2>7. ASSUME NEW prevModule \in Address, NEW module \in Address,
               disableModule(prevModule, module)
        PROVE  \E m \in Nat : \E t : ModulesListed(t, m)' /\ ReadOK(t, m)'
    <3>1. module \in LegalModule /\ modules[prevModule] = module
      BY <2>7 DEF disableModule, CanBeModule, LegalModule
    <3>2. PICK k \in 1..n :
            s[k] = module /\ prevModule = IF k = 1 THEN Sentinel ELSE s[k - 1]
      BY <2>3, <3>1, Predecessor DEF ModulesListed, LegalModule
    <3>3. modules' = Unlink(modules, IF k = 1 THEN Sentinel ELSE s[k - 1], s[k])
      BY <2>7, <3>2 DEF disableModule
    <3>4. ModulesListed(Without(s, n, k), n - 1)'
      BY <2>3, <3>3, UnlinkSpells DEF ModulesListed, Without
    <3>5. EnabledModules' = EnabledModules \ {s[k]}
      BY <2>3, <3>3, UnlinkNodes DEF EnabledModules, ModulesListed
    <3>6. s[k] \in EnabledModules  BY <2>3, SpellsNodes DEF EnabledModules, ModulesListed
    <3>7. removed' = removed \cup {s[k]}  BY <1>1, <2>1, <3>5, <3>6
    <3>8. ReadOK(Without(s, n, k), n - 1)'  BY <1>1, <2>3, <3>7, DisabledReadOK
    <3>9. n - 1 \in Nat  BY <3>2
    <3> QED  BY <3>4, <3>8, <3>9
  <2> QED  BY <1>1, <2>4, <2>6, <2>7 DEF ModulesNext, ModulesSelfCall, setupModules
<1> QED  BY <1>4, <1>5

LEMMA ReadInvStep ==
  ASSUME ReadInv, [PagingNext]_pagingVars
  PROVE  ReadInv'
<1>1. ASSUME StartReading  PROVE ReadInv'
  BY <1>1, BeginStep DEF ReadInv, StartReading
<1>2. ASSUME NEW size \in PageSizes, StartOver(size)  PROVE ReadInv'
  <2>1. modules[Sentinel] # Zero
    BY <1>2, ListIsOpen DEF ReadInv, StartOver, ModulesListed
  <2> QED  BY <1>2, <2>1, BeginStep DEF ReadInv, StartOver
<1>3. CASE UNCHANGED pagingVars
  BY <1>3 DEF pagingVars, readVars, ReadInv, ModulesListOK, ModulesListed, ReadOK, StandsAt, Due, CursorOK,
              ReadsEveryModule, RepeatsAfterRemoval
<1> QED  BY <1>1, <1>2, <1>3, ReadPageStep, EditStep DEF PagingNext, Reading

LEMMA ReadInvAlways == PagingSpec => []ReadInv
<1> QED  BY InitReadInv, ReadInvStep, PTL DEF PagingSpec

\* Who reads the modules page by page misses none that was enabled all the time, however
\* the list changes between the pages: ReadsEveryModule, for every set of addresses, every
\* page size, also changing ones, and any number of changes.
THEOREM ReadsEveryModuleAlways == PagingSpec => []ReadsEveryModule
<1> QED  BY ReadInvAlways, PTL DEF ReadInv

\* No module is read twice unless one that was read has been disabled since:
\* RepeatsAfterRemoval.
THEOREM RepeatsAfterRemovalAlways == PagingSpec => []RepeatsAfterRemoval
<1> QED  BY ReadInvAlways, PTL DEF ReadInv

--------------------------------------------------------------------------------
(***************************************************************************)
(* Batches.  First the bytes: the offsets of a batch.                      *)
(***************************************************************************)
\* off is what Offsets computes, up to transaction bound.
AddsUp(off, txs, bound) ==
  /\ off = [n \in 0..bound |-> off[n]] /\ off[0] = 0
  /\ \A n \in 1..bound : off[n] = off[n - 1] + 85 + txs[n].length

\* There are such offsets up to every transaction, so the equation of Offsets has a solution.
LEMMA AddingExists ==
  ASSUME NEW txs, NEW bound \in Nat
  PROVE  \E off : AddsUp(off, txs, bound)
<1> DEFINE T == {b \in Nat : ~\E off : AddsUp(off, txs, b)}
<1>1. SUFFICES ASSUME T # {}  PROVE FALSE  OBVIOUS
<1>2. PICK x \in T : \A y \in T : x <= y
  <2>1. T \in SUBSET Nat  OBVIOUS
  <2> HIDE DEF T
  <2> QED  BY <1>1, <2>1, LeastElement
<1>3. x # 0
  <2> DEFINE f == [n \in 0..0 |-> 0]
  <2>1. f = [n \in 0..0 |-> f[n]] /\ f[0] = 0 /\ 1..0 = {}  OBVIOUS
  <2> HIDE DEF f
  <2>2. AddsUp(f, txs, 0)  BY <2>1 DEF AddsUp
  <2> QED  BY <1>2, <2>2
<1>4. x \in Nat /\ x - 1 \in Nat /\ ~(x <= x - 1)  BY <1>2, <1>3
<1>5. PICK f : AddsUp(f, txs, x - 1)  BY <1>2, <1>4
<1> DEFINE g == [n \in 0..x |-> IF n = x THEN f[x - 1] + 85 + txs[x].length ELSE f[n]]
<1>6. AddsUp(g, txs, x)
  <2>1. g = [n \in 0..x |-> g[n]]  OBVIOUS
  <2>2. \A n \in 0..(x - 1) : n \in 0..x /\ n # x /\ g[n] = f[n]  BY <1>4
  <2>3. g[x] = f[x - 1] + 85 + txs[x].length  BY <1>4
  <2>4. 0 \in 0..(x - 1) /\ x - 1 \in 0..(x - 1)  BY <1>4
  <2> HIDE DEF g
  <2>5. ASSUME NEW n \in 1..x  PROVE g[n] = g[n - 1] + 85 + txs[n].length
    <3>1. CASE n = x  BY <2>2, <2>3, <2>4, <3>1
    <3>2. CASE n # x
      <4>1. n \in 1..(x - 1) /\ n \in 0..(x - 1) /\ n - 1 \in 0..(x - 1)  BY <1>4, <3>2
      <4> QED  BY <1>5, <2>2, <4>1 DEF AddsUp
    <3> QED  BY <3>1, <3>2
  <2>6. g[0] = 0  BY <1>5, <2>2, <2>4 DEF AddsUp
  <2> QED  BY <2>1, <2>5, <2>6 DEF AddsUp
<1> HIDE DEF g
<1> QED  BY <1>2, <1>6

\* encodeMultiSend: each transaction begins where the one before it ends.
LEMMA OffsetsAddUp ==
  ASSUME NEW txs, Len(txs) \in Nat
  PROVE  AddsUp(Offsets(txs), txs, Len(txs))
<1> DEFINE bound == Len(txs)
           Next1(f) == [n \in 0..bound |-> IF n = 0 THEN 0 ELSE f[n - 1] + 85 + txs[n].length]
           off == CHOOSE f : f = Next1(f)
<1>1. PICK f : AddsUp(f, txs, bound)  BY AddingExists
<1>2. f = Next1(f)
  <2>1. ASSUME NEW n \in 0..bound
        PROVE  f[n] = IF n = 0 THEN 0 ELSE f[n - 1] + 85 + txs[n].length
    <3>1. n # 0 => n \in 1..bound  OBVIOUS
    <3> QED  BY <1>1, <3>1 DEF AddsUp
  <2>2. f = [n \in 0..bound |-> f[n]]  BY <1>1 DEF AddsUp
  <2> QED  BY <2>1, <2>2
<1>3. off = Next1(off)  BY <1>2
<1>4. Offsets(txs) = off  BY DEF Offsets
<1> HIDE DEF off
<1>5. /\ off = [n \in 0..bound |-> off[n]] /\ off[0] = 0
      /\ \A n \in 1..bound : off[n] = off[n - 1] + 85 + txs[n].length
  <2>1. 0 \in 0..bound /\ \A n \in 1..bound : n \in 0..bound /\ n # 0  OBVIOUS
  <2> QED  BY <1>3, <2>1
<1> QED  BY <1>4, <1>5 DEF AddsUp

\* Offsets are numbers, and a transaction begins at least 85 bytes after any before it.
LEMMA OffsetsGrow ==
  ASSUME NEW txs \in Seq(Transaction), NEW n \in 0..Len(txs)
  PROVE  /\ Offsets(txs)[n] \in Nat
         /\ \A m \in 0..Len(txs) : m < n =>
              /\ Offsets(txs)[m] \in Nat /\ Offsets(txs)[m] + 85 <= Offsets(txs)[n]
              /\ \A k \in 1..n : txs[k].length < Offsets(txs)[n]
<1> DEFINE off == Offsets(txs)
           Fine(i) == /\ off[i] \in Nat
                      /\ \A m \in 0..Len(txs) : m < i =>
                           /\ off[m] \in Nat /\ off[m] + 85 <= off[i]
                           /\ \A k \in 1..i : txs[k].length < off[i]
           T == {i \in 0..Len(txs) : ~Fine(i)}
<1>1. AddsUp(off, txs, Len(txs))  BY OffsetsAddUp
<1>2. \A i \in 1..Len(txs) : txs[i].length \in Nat
  BY BatchAssumption DEF BatchAssumption
<1> HIDE DEF off
<1>3. T = {}
  <2>1. SUFFICES ASSUME T # {}  PROVE FALSE  OBVIOUS
  <2>2. T \in SUBSET Nat  OBVIOUS
  <2>3. PICK x \in T : \A y \in T : x <= y
    <3> HIDE DEF T
    <3> QED  BY <2>1, <2>2, LeastElement
  <2>4. x # 0
    BY <1>1, <2>3 DEF AddsUp
  <2>5. x \in 1..Len(txs) /\ x - 1 \in 0..Len(txs) /\ ~(x <= x - 1)
    BY <2>3, <2>4
  <2>6. Fine(x - 1)
    <3> HIDE DEF Fine
    <3> QED  BY <2>3, <2>5
  <2>7. off[x] = off[x - 1] + 85 + txs[x].length /\ txs[x].length \in Nat /\ off[x - 1] \in Nat
    BY <1>1, <1>2, <2>5, <2>6 DEF AddsUp
  <2>8. ASSUME NEW m \in 0..Len(txs), m < x
        PROVE  off[m] \in Nat /\ off[m] + 85 <= off[x]
    <3>1. CASE m = x - 1  BY <2>7, <3>1
    <3>2. CASE m # x - 1
      <4>1. m < x - 1  BY <2>5, <2>8, <3>2
      <4> QED  BY <2>6, <2>7, <4>1
    <3> QED  BY <3>1, <3>2
  <2>9. ASSUME NEW k \in 1..x  PROVE txs[k].length < off[x]
    <3>1. CASE k = x  BY <2>7, <3>1
    <3>2. CASE k # x
      <4>1. k \in 1..(x - 1) /\ 0 < x - 1 /\ 0 \in 0..Len(txs)  BY <2>5, <3>2
      <4>2. txs[k].length < off[x - 1]  BY <2>6, <4>1
      <4>3. txs[k].length \in Nat  BY <1>2, <2>5, <4>1
      <4> QED  BY <2>7, <4>2, <4>3
    <3> QED  BY <3>1, <3>2
  <2>10. off[x] \in Nat  BY <2>7
  <2>11. Fine(x)  BY <2>8, <2>9, <2>10
  <2> QED  BY <2>3, <2>11
<1>4. Fine(n)
  <2> HIDE DEF Fine
  <2> QED  BY <1>3
<1> QED  BY <1>4 DEF off

\* At the offset that encodeMultiSend gives a transaction, the loop of multiSend reads that
\* transaction and no other, whatever the lengths of those before it.
THEOREM ReadAtOffset ==
  ASSUME NEW txs \in Seq(Transaction), NEW n \in 1..Len(txs)
  PROVE  /\ Offsets(txs)[n - 1] \in DOMAIN encodeMultiSend(txs).at
         /\ encodeMultiSend(txs).at[Offsets(txs)[n - 1]] = txs[n]
<1> DEFINE off == Offsets(txs)
           where(offset) == CHOOSE m \in 1..Len(txs) : off[m - 1] = offset
           starts == {off[m] : m \in 0..(Len(txs) - 1)}
<1>1. encodeMultiSend(txs).at = [offset \in starts |-> txs[where(offset)]]
  BY DEF encodeMultiSend
<1>2. off[n - 1] \in starts
  BY n - 1 \in 0..(Len(txs) - 1)
<1>3. where(off[n - 1]) = n
  <2>1. PICK m \in 1..Len(txs) : m = where(off[n - 1]) /\ off[m - 1] = off[n - 1]
    OBVIOUS
  <2>2. m - 1 \in 0..Len(txs) /\ n - 1 \in 0..Len(txs)
    OBVIOUS
  <2>3. ~(m - 1 < n - 1) /\ ~(n - 1 < m - 1)
    <3> HIDE DEF off
    <3>1. off[n - 1] \in Nat  BY <2>2, OffsetsGrow DEF off
    <3>2. m - 1 < n - 1 => off[m - 1] + 85 <= off[n - 1]  BY <2>2, OffsetsGrow DEF off
    <3>3. n - 1 < m - 1 => off[n - 1] + 85 <= off[m - 1]  BY <2>2, OffsetsGrow DEF off
    <3> QED  BY <2>1, <3>1, <3>2, <3>3
  <2> QED  BY <2>1, <2>3
<1> HIDE DEF off, where, starts
<1> QED  BY <1>1, <1>2, <1>3 DEF off

--------------------------------------------------------------------------------
(***************************************************************************)
(* Flattening, one sequence more at a time.                                *)
(***************************************************************************)
\* f is what FlattenSeq computes, up to sequence bound.
Flattens(f, seqs, bound) ==
  /\ f = [n \in 1..bound |-> f[n]]
  /\ \A n \in 1..bound : f[n] = IF n = 1 THEN seqs[n] ELSE f[n - 1] \o seqs[n]

\* There is such a function up to every sequence.
LEMMA FlatteningExists ==
  ASSUME NEW seqs, NEW bound \in Nat
  PROVE  \E f : Flattens(f, seqs, bound)
<1> DEFINE T == {b \in Nat : ~\E f : Flattens(f, seqs, b)}
<1>1. SUFFICES ASSUME T # {}  PROVE FALSE  OBVIOUS
<1>2. PICK x \in T : \A y \in T : x <= y
  <2>1. T \in SUBSET Nat  OBVIOUS
  <2> HIDE DEF T
  <2> QED  BY <1>1, <2>1, LeastElement
<1>3. x # 0
  <2> DEFINE f == [n \in 1..0 |-> 0]
  <2>1. f = [n \in 1..0 |-> f[n]] /\ 1..0 = {}  OBVIOUS
  <2> HIDE DEF f
  <2>2. Flattens(f, seqs, 0)  BY <2>1 DEF Flattens
  <2> QED  BY <1>2, <2>2
<1>4. x \in Nat /\ x - 1 \in Nat /\ ~(x <= x - 1)  BY <1>2, <1>3
<1>5. PICK f : Flattens(f, seqs, x - 1)  BY <1>2, <1>4
<1> DEFINE g == [n \in 1..x |-> IF n # x THEN f[n] ELSE
                                IF n = 1 THEN seqs[n] ELSE f[n - 1] \o seqs[n]]
<1>6. Flattens(g, seqs, x)
  <2>1. g = [n \in 1..x |-> g[n]]  OBVIOUS
  <2>2. \A n \in 1..(x - 1) : n \in 1..x /\ n # x /\ g[n] = f[n]  BY <1>4
  <2>3. x \in 1..x /\ g[x] = IF x = 1 THEN seqs[x] ELSE f[x - 1] \o seqs[x]  BY <1>3, <1>4
  <2> HIDE DEF g
  <2>4. ASSUME NEW n \in 1..x
        PROVE  g[n] = IF n = 1 THEN seqs[n] ELSE g[n - 1] \o seqs[n]
    <3>1. n = 1 \/ n - 1 \in 1..(x - 1)  BY <1>4
    <3>2. CASE n = x  BY <2>2, <2>3, <3>1, <3>2
    <3>3. CASE n # x
      <4>1. n \in 1..(x - 1)  BY <1>4, <3>3
      <4> QED  BY <1>5, <2>2, <3>1, <4>1 DEF Flattens
    <3> QED  BY <3>2, <3>3
  <2> QED  BY <2>1, <2>4 DEF Flattens
<1> HIDE DEF g
<1> QED  BY <1>2, <1>6

\* FlattenSeq of a sequence that is not empty is the last value of such a function.
LEMMA FlattenSeqFlattens ==
  ASSUME NEW seqs, Len(seqs) \in Nat, Len(seqs) # 0
  PROVE  \E f : Flattens(f, seqs, Len(seqs)) /\ FlattenSeq(seqs) = f[Len(seqs)]
<1> DEFINE bound == Len(seqs)
           Body(f) == [n \in 1..bound |-> IF n = 1 THEN seqs[n] ELSE f[n - 1] \o seqs[n]]
           flat == CHOOSE f : f = Body(f)
<1>1. PICK f : Flattens(f, seqs, bound)  BY FlatteningExists
<1>2. f = Body(f)
  <2>1. \A n \in 1..bound : f[n] = IF n = 1 THEN seqs[n] ELSE f[n - 1] \o seqs[n]
    BY <1>1 DEF Flattens
  <2>2. f = [n \in 1..bound |-> f[n]]  BY <1>1 DEF Flattens
  <2> QED  BY <2>1, <2>2
<1>3. flat = Body(flat)  BY <1>2
<1>4. FlattenSeq(seqs) = flat[bound]  BY DEF FlattenSeq
<1> HIDE DEF flat
<1>5. /\ flat = [n \in 1..bound |-> flat[n]]
      /\ \A n \in 1..bound : flat[n] = IF n = 1 THEN seqs[n] ELSE flat[n - 1] \o seqs[n]
  BY <1>3
<1> QED  BY <1>4, <1>5 DEF Flattens

\* Two such functions agree as far as both go, and have sequences as values.
LEMMA FlatteningsAgree ==
  ASSUME NEW S, NEW seqs, NEW more, NEW f, NEW g, NEW i \in Nat, NEW j \in Nat, i <= j,
         \A n \in 1..i : seqs[n] \in Seq(S) /\ more[n] = seqs[n],
         Flattens(f, seqs, i), Flattens(g, more, j), NEW n \in 1..i
  PROVE  f[n] = g[n] /\ f[n] \in Seq(S)
<1> DEFINE T == {m \in 1..i : ~(f[m] = g[m] /\ f[m] \in Seq(S))}
<1>1. T = {}
  <2>1. SUFFICES ASSUME T # {}  PROVE FALSE  OBVIOUS
  <2>2. T \in SUBSET Nat  OBVIOUS
  <2>3. PICK x \in T : \A y \in T : x <= y
    <3> HIDE DEF T
    <3> QED  BY <2>1, <2>2, LeastElement
  <2>4. x \in 1..i /\ x \in 1..j  BY <2>3
  <2>5. /\ f[x] = IF x = 1 THEN seqs[x] ELSE f[x - 1] \o seqs[x]
        /\ g[x] = IF x = 1 THEN more[x] ELSE g[x - 1] \o more[x]
    BY <2>4 DEF Flattens
  <2>6. CASE x = 1  BY <2>3, <2>4, <2>5, <2>6
  <2>7. CASE x # 1
    <3>1. x - 1 \in 1..i /\ ~(x <= x - 1)  BY <2>4, <2>7
    <3>2. f[x - 1] = g[x - 1] /\ f[x - 1] \in Seq(S)  BY <2>3, <3>1
    <3>3. f[x - 1] \o seqs[x] \in Seq(S)  BY <2>4, <3>2, ConcatProperties
    <3> QED  BY <2>3, <2>4, <2>5, <2>7, <3>2, <3>3
  <2> QED  BY <2>6, <2>7
<1> QED  BY <1>1

\* FlattenSeq makes sequences over S into one over S.
LEMMA FlattenType ==
  ASSUME NEW S, NEW seqs \in Seq(Seq(S))
  PROVE  FlattenSeq(seqs) \in Seq(S)
<1>1. CASE Len(seqs) = 0
  <2>1. seqs = <<>>  BY <1>1
  <2> QED  BY <2>1, <1>1 DEF FlattenSeq
<1>2. CASE Len(seqs) # 0
  <2>1. PICK f : Flattens(f, seqs, Len(seqs)) /\ FlattenSeq(seqs) = f[Len(seqs)]
    BY <1>2, FlattenSeqFlattens
  <2>2. Len(seqs) \in 1..Len(seqs) /\ Len(seqs) \in Nat  BY <1>2
  <2>3. \A n \in 1..Len(seqs) : seqs[n] \in Seq(S)  OBVIOUS
  <2>4. f[Len(seqs)] \in Seq(S)  BY <2>1, <2>2, <2>3, FlatteningsAgree
  <2> QED  BY <2>1, <2>4
<1> QED  BY <1>1, <1>2

\* One sequence more is one more piece at the end.
LEMMA FlattenAppend ==
  ASSUME NEW S, NEW seqs \in Seq(Seq(S)), NEW s \in Seq(S)
  PROVE  FlattenSeq(Append(seqs, s)) = FlattenSeq(seqs) \o s
<1> DEFINE more == Append(seqs, s)
           i == Len(seqs)
<1>1. /\ i \in Nat /\ Len(more) = i + 1 /\ more[i + 1] = s
      /\ \A n \in 1..i : seqs[n] \in Seq(S) /\ more[n] = seqs[n]
  BY AppendProperties
<1> HIDE DEF more, i
<1>2. PICK g : Flattens(g, more, i + 1) /\ FlattenSeq(more) = g[i + 1]
  <2>1. Len(more) \in Nat /\ Len(more) # 0  BY <1>1
  <2>2. PICK g : Flattens(g, more, Len(more)) /\ FlattenSeq(more) = g[Len(more)]
    BY <2>1, FlattenSeqFlattens
  <2> QED  BY <1>1, <2>2
<1>3. PICK n \in 1..(i + 1) : n = i + 1 /\ n - 1 = i
  BY <1>1
<1>4. g[n] = IF n = 1 THEN more[n] ELSE g[n - 1] \o more[n]
  BY <1>2 DEF Flattens
<1>5. CASE i = 0
  <2>1. seqs = <<>>  BY <1>5 DEF i
  <2>2. FlattenSeq(seqs) = <<>>  BY <2>1, <1>5 DEF FlattenSeq, i
  <2>3. <<>> \o s = s  BY ConcatEmptySeq
  <2> QED  BY <1>1, <1>2, <1>4, <1>5, <2>2, <2>3 DEF more
<1>6. CASE i # 0
  <2>1. PICK f : Flattens(f, seqs, i) /\ FlattenSeq(seqs) = f[i]
    <3>1. Len(seqs) \in Nat /\ Len(seqs) # 0  BY <1>6 DEF i
    <3> QED  BY <3>1, FlattenSeqFlattens DEF i
  <2>2. i \in 1..i /\ i <= i + 1 /\ i + 1 \in Nat /\ i + 1 # 1  BY <1>1, <1>6
  <2>3. f[i] = g[i]
    <3>1. \A m \in 1..i : seqs[m] \in Seq(S) /\ more[m] = seqs[m]  BY <1>1
    <3>2. i \in Nat  BY <1>1
    <3> HIDE <1>1
    <3> QED  BY <1>2, <2>1, <2>2, <3>1, <3>2, FlatteningsAgree
  <2> QED  BY <1>1, <1>2, <1>3, <1>4, <2>1, <2>2, <2>3 DEF more
<1> QED  BY <1>5, <1>6

--------------------------------------------------------------------------------
(***************************************************************************)
(* The meaning.  CallsOf is a recursive function, defined by CHOOSE; there *)
(* is one because a batch is longer than the data of what it contains.     *)
(***************************************************************************)
\* What CallsOf does once, with calls for what is within.
CallsBy(calls, item) ==
  IF ~Allowed(item) THEN <<"refused">>
  ELSE IF ItemReceiver(item) \in Library
  THEN FlattenSeq([n \in DOMAIN Within(item) |-> calls[Within(item)[n]]])
  ELSE <<CallOf(item)>>

\* What CallsOf descends into.
IsBatch(item) == Allowed(item) /\ ItemReceiver(item) \in Library

\* What is in a batch is again an item, of less data.
LEMMA WithinIsLess ==
  ASSUME NEW item \in Item, IsBatch(item)
  PROVE  /\ item.tx.to \in Library /\ ItemReceiver(item) = item.tx.to
         /\ item.tx.batch \in Seq(Transaction)
         /\ DOMAIN Within(item) = 1..Len(item.tx.batch)
         /\ \A n \in 1..Len(item.tx.batch) :
              /\ Within(item)[n] \in Item
              /\ Within(item)[n].tx = item.tx.batch[n]
              /\ Within(item)[n].tx.length < item.tx.length
<1>1. item.tx.to \in Library /\ ItemReceiver(item) = item.tx.to
  BY DEF IsBatch, Allowed, ItemReceiver
<1> DEFINE txs == item.tx.batch
           this == IF item.tx.operation = 1 THEN item.this ELSE item.tx.to
<1>2. item.tx \in Transaction /\ item.this \in Library \cup {SafeAddress}
  BY DEF Item
<1>3. txs \in Seq(Transaction) /\ item.tx.length = encodeMultiSend(txs).length
  BY <1>1, <1>2, BatchAssumption DEF BatchAssumption
<1>4. item.tx.length = Offsets(txs)[Len(txs)]
  BY <1>3 DEF encodeMultiSend
<1>5. Within(item) = [n \in 1..Len(txs) |-> [library |-> item.tx.to, this |-> this, tx |-> txs[n]]]
  BY DEF Within, Items
<1>6. this \in Library \cup {SafeAddress}
  BY <1>1, <1>2
<1>7. ASSUME NEW n \in 1..Len(txs)
      PROVE  /\ Within(item)[n] \in Item /\ Within(item)[n].tx = txs[n]
             /\ Within(item)[n].tx.length < item.tx.length
  <2>1. Within(item)[n] = [library |-> item.tx.to, this |-> this, tx |-> txs[n]]
    BY <1>5
  <2> HIDE DEF this
  <2>2. txs[n] \in Transaction  BY <1>3
  <2>3. Within(item)[n] \in Item /\ Within(item)[n].tx = txs[n]
    BY <1>1, <1>6, <2>1, <2>2 DEF Item
  <2>4. Len(txs) \in 0..Len(txs) /\ 0 \in 0..Len(txs) /\ 0 < Len(txs)
    BY <1>3
  <2>5. txs[n].length < Offsets(txs)[Len(txs)]
    <3> HIDE DEF txs
    <3> QED  BY <1>3, <2>4, OffsetsGrow
  <2> QED  BY <1>4, <2>3, <2>5
<1>8. DOMAIN Within(item) = 1..Len(txs)
  BY <1>5
<1> QED  BY <1>1, <1>3, <1>7, <1>8

\* CallsBy looks at no calls but those of what is within.
LEMMA CallsByWithin ==
  ASSUME NEW item \in Item, NEW f, NEW g,
         \A y \in Item : y.tx.length < item.tx.length => f[y] = g[y]
  PROVE  CallsBy(f, item) = CallsBy(g, item)
<1>1. CASE ~IsBatch(item)
  BY <1>1 DEF CallsBy, IsBatch
<1>2. CASE IsBatch(item)
  <2>1. \A n \in DOMAIN Within(item) : f[Within(item)[n]] = g[Within(item)[n]]
    BY <1>2, WithinIsLess
  <2>2. [n \in DOMAIN Within(item) |-> f[Within(item)[n]]]
          = [n \in DOMAIN Within(item) |-> g[Within(item)[n]]]
    BY <2>1
  <2> QED  BY <1>2, <2>2 DEF CallsBy, IsBatch
<1> QED  BY <1>1, <1>2

\* The items with no more than length bytes of data.
Short(length) == {item \in Item : item.tx.length <= length}

\* The data of every item has a length.
LEMMA ItemLength ==
  ASSUME NEW item \in Item
  PROVE  item.tx.length \in Nat
BY BatchAssumption DEF Item, BatchAssumption

\* A function that satisfies the equation for what has no more data than that.
LEMMA ShortCallsExist ==
  ASSUME NEW length \in Nat
  PROVE  \E f : f = [item \in Short(length) |-> CallsBy(f, item)]
<1> DEFINE Exists(d) == \E f : f = [item \in Short(d) |-> CallsBy(f, item)]
           T == {d \in Nat : ~Exists(d)}
<1>1. SUFFICES ASSUME T # {}  PROVE FALSE  OBVIOUS
<1>2. PICK d \in T : \A y \in T : d <= y
  <2>1. T \in SUBSET Nat  OBVIOUS
  <2> HIDE DEF T
  <2> QED  BY <1>1, <2>1, LeastElement
<1>3. PICK g : \A y \in Item : y.tx.length < d => g[y] = CallsBy(g, y)
  <2>1. CASE d = 0
    <3>1. \A y \in Item : ~(y.tx.length < d)  BY <2>1, ItemLength
    <3> QED  BY <3>1
  <2>2. CASE d # 0
    <3>1. d - 1 \in Nat /\ ~(d <= d - 1)  BY <1>2, <2>2
    <3>2. Exists(d - 1)
      <4> HIDE DEF Exists
      <4> QED  BY <1>2, <3>1
    <3>3. PICK g : g = [item \in Short(d - 1) |-> CallsBy(g, item)]  BY <3>2
    <3>4. \A y \in Item : y.tx.length < d => y \in Short(d - 1)
      BY <1>2, ItemLength DEF Short
    <3> QED  BY <3>3, <3>4
  <2> QED  BY <2>1, <2>2
<1> DEFINE f == [item \in Short(d) |-> CallsBy(g, item)]
<1>4. \A y \in Item : y.tx.length < d => f[y] = g[y]
  <2>1. \A y \in Item : y.tx.length < d => y \in Short(d)
    BY <1>2, ItemLength DEF Short
  <2> QED  BY <1>3, <2>1
<1>5. \A item \in Short(d) : CallsBy(f, item) = CallsBy(g, item)
  <2> SUFFICES ASSUME NEW item \in Short(d)
               PROVE  CallsBy(f, item) = CallsBy(g, item)
    OBVIOUS
  <2>1. item \in Item /\ item.tx.length <= d  BY DEF Short
  <2>2. \A y \in Item : y.tx.length < item.tx.length => f[y] = g[y]
    <3> HIDE DEF f
    <3> QED  BY <1>2, <1>4, <2>1, ItemLength
  <2> HIDE DEF f
  <2> QED  BY <2>1, <2>2, CallsByWithin
<1>6. f = [item \in Short(d) |-> CallsBy(f, item)]
  <2>1. \A item \in Short(d) : f[item] = CallsBy(g, item)  OBVIOUS
  <2>2. f = [item \in Short(d) |-> f[item]]  OBVIOUS
  <2> HIDE DEF f
  <2>3. \A item \in Short(d) : f[item] = CallsBy(f, item)  BY <1>5, <2>1
  <2> QED  BY <2>2, <2>3
<1> HIDE DEF f
<1> QED  BY <1>2, <1>6

\* What CallsOf is for short items.
ShortCalls(length) == CHOOSE f : f = [item \in Short(length) |-> CallsBy(f, item)]

\* It satisfies the equation of CallsOf for them.
LEMMA ShortCallsFit ==
  ASSUME NEW length \in Nat, NEW item \in Item, item.tx.length <= length
  PROVE  ShortCalls(length)[item] = CallsBy(ShortCalls(length), item)
<1>1. ShortCalls(length) = [y \in Short(length) |-> CallsBy(ShortCalls(length), y)]
  BY ShortCallsExist DEF ShortCalls
<1>2. item \in Short(length)  BY DEF Short
<1> QED  BY <1>1, <1>2

\* They agree with each other.
LEMMA ShortCallsAgree ==
  ASSUME NEW item \in Item, NEW length \in Nat, item.tx.length <= length
  PROVE  ShortCalls(length)[item] = ShortCalls(item.tx.length)[item]
<1> DEFINE Agree(d) ==
             \A y \in Item : \A e \in Nat :
               y.tx.length = d /\ d <= e => ShortCalls(e)[y] = ShortCalls(d)[y]
           T == {d \in Nat : ~Agree(d)}
<1>1. T = {}
  <2>1. SUFFICES ASSUME T # {}  PROVE FALSE  OBVIOUS
  <2>2. PICK d \in T : \A y \in T : d <= y
    <3>1. T \in SUBSET Nat  OBVIOUS
    <3> HIDE DEF T
    <3> QED  BY <2>1, <3>1, LeastElement
  <2>3. \A m \in Nat : m < d => Agree(m)
    <3> HIDE DEF Agree
    <3> QED  BY <2>2
  <2>4. Agree(d)
    <3> SUFFICES ASSUME NEW y \in Item, NEW e \in Nat, y.tx.length = d, d <= e
                 PROVE  ShortCalls(e)[y] = ShortCalls(d)[y]
      OBVIOUS
    <3>1. \A z \in Item : z.tx.length < d => ShortCalls(e)[z] = ShortCalls(d)[z]
      <4> SUFFICES ASSUME NEW z \in Item, z.tx.length < d
                   PROVE  ShortCalls(e)[z] = ShortCalls(d)[z]
        OBVIOUS
      <4> DEFINE m == z.tx.length
      <4>1. m \in Nat /\ m < d /\ m <= d /\ m <= e /\ d \in Nat
        BY <2>2, ItemLength
      <4>2. Agree(m)
        <5> HIDE DEF Agree, m
        <5> QED  BY <2>3, <4>1
      <4> QED  BY <4>1, <4>2
    <3>2. CallsBy(ShortCalls(e), y) = CallsBy(ShortCalls(d), y)
      BY <3>1, CallsByWithin
    <3>3. ShortCalls(e)[y] = CallsBy(ShortCalls(e), y)
      BY ShortCallsFit
    <3>4. ShortCalls(d)[y] = CallsBy(ShortCalls(d), y)
      BY <2>2, ShortCallsFit
    <3> QED  BY <3>2, <3>3, <3>4
  <2> HIDE DEF Agree
  <2> QED  BY <2>2, <2>4
<1>2. Agree(item.tx.length)
  <2> HIDE DEF Agree
  <2> QED  BY <1>1, ItemLength
<1> QED  BY <1>2

\* CallsOf satisfies its equation.
LEMMA CallsOfEquation ==
  CallsOf = [item \in Item |-> CallsBy(CallsOf, item)]
<1> DEFINE f == [item \in Item |-> ShortCalls(item.tx.length)[item]]
<1>1. ASSUME NEW item \in Item  PROVE f[item] = CallsBy(f, item)
  <2> DEFINE g == ShortCalls(item.tx.length)
  <2>1. item.tx.length \in Nat  BY ItemLength
  <2>2. \A y \in Item : y.tx.length < item.tx.length => f[y] = g[y]
    <3> SUFFICES ASSUME NEW y \in Item, y.tx.length < item.tx.length
                 PROVE  f[y] = g[y]
      OBVIOUS
    <3>1. y.tx.length <= item.tx.length  BY <2>1, ItemLength
    <3>2. g[y] = ShortCalls(y.tx.length)[y]  BY <2>1, <3>1, ShortCallsAgree
    <3> QED  BY <3>2
  <2>3. g[item] = CallsBy(g, item)  BY <2>1, ShortCallsFit
  <2>4. f[item] = g[item]  OBVIOUS
  <2> HIDE DEF f, g
  <2>5. CallsBy(f, item) = CallsBy(g, item)  BY <2>2, CallsByWithin
  <2> QED  BY <2>3, <2>4, <2>5
<1>2. f = [item \in Item |-> f[item]]  OBVIOUS
<1> HIDE DEF f
<1>3. f = [item \in Item |-> CallsBy(f, item)]  BY <1>1, <1>2
<1> DEFINE h == CHOOSE h : h = [item \in Item |-> CallsBy(h, item)]
<1>4. h = [item \in Item |-> CallsBy(h, item)]  BY <1>3
<1>5. CallsOf = h  BY DEF CallsOf, CallsBy
<1> HIDE DEF h
<1> QED  BY <1>4, <1>5

--------------------------------------------------------------------------------
\* What a meaning consists of.
Outcome == {"refused"} \cup {CallOf(item) : item \in Item}

\* The calls of the first n transactions of a batch.
Done(library, this, txs, n) ==
  FlattenSeq([m \in 1..n |-> CallsOf[Items(library, this, txs)[m]]])

\* What an item means is a sequence of calls.
LEMMA CallsOfType ==
  ASSUME NEW item \in Item
  PROVE  CallsOf[item] \in Seq(Outcome)
<1> DEFINE Fine(y) == CallsOf[y] \in Seq(Outcome)
           T == {d \in Nat : \E y \in Item : y.tx.length = d /\ ~Fine(y)}
<1>1. T = {}
  <2>1. SUFFICES ASSUME T # {}  PROVE FALSE  OBVIOUS
  <2>2. PICK d \in T : \A e \in T : d <= e
    <3>1. T \in SUBSET Nat  OBVIOUS
    <3> HIDE DEF T
    <3> QED  BY <2>1, <3>1, LeastElement
  <2>3. PICK y \in Item : y.tx.length = d /\ ~Fine(y)
    BY <2>2
  <2>4. \A z \in Item : z.tx.length < d => Fine(z)
    <3> SUFFICES ASSUME NEW z \in Item, z.tx.length < d, ~Fine(z)
                 PROVE  FALSE
      OBVIOUS
    <3>1. z.tx.length \in Nat /\ d \in Nat  BY <2>2, ItemLength
    <3>2. z.tx.length \in T
      <4> HIDE DEF Fine
      <4> QED  BY <3>1
    <3>3. d <= z.tx.length
      <4> HIDE DEF T
      <4> QED  BY <2>2, <3>2
    <3> QED  BY <3>1, <3>3
  <2>5. CallsOf[y] = CallsBy(CallsOf, y)
    BY CallsOfEquation
  <2>6. Fine(y)
    <3>1. CASE ~Allowed(y)
      BY <2>5, <3>1 DEF CallsBy, Outcome
    <3>2. CASE IsBatch(y)
      <4> DEFINE seqs == [n \in DOMAIN Within(y) |-> CallsOf[Within(y)[n]]]
                 bound == Len(y.tx.batch)
      <4>1. bound \in Nat /\ DOMAIN Within(y) = 1..bound
        BY <3>2, WithinIsLess
      <4>2. \A n \in 1..bound : CallsOf[Within(y)[n]] \in Seq(Outcome)
        BY <2>3, <2>4, <3>2, WithinIsLess
      <4>3. seqs \in Seq(Seq(Outcome))
        <5> HIDE DEF bound
        <5>1. seqs = [n \in 1..bound |-> CallsOf[Within(y)[n]]]  BY <4>1
        <5> QED  BY <4>1, <4>2, <5>1
      <4>4. FlattenSeq(seqs) \in Seq(Outcome)
        <5> HIDE DEF seqs
        <5> QED  BY <4>3, FlattenType
      <4>5. CallsOf[y] = FlattenSeq(seqs)
        BY <2>5, <3>2 DEF CallsBy, IsBatch
      <4> QED  BY <4>4, <4>5
    <3>3. CASE Allowed(y) /\ ItemReceiver(y) \notin Library
      <4>1. CallsOf[y] = <<CallOf(y)>>  BY <2>5, <3>3 DEF CallsBy
      <4>2. CallOf(y) \in Outcome  BY DEF Outcome
      <4> QED  BY <4>1, <4>2
    <3> QED  BY <3>1, <3>2, <3>3 DEF IsBatch
  <2> QED  BY <2>3, <2>6
<1>2. Fine(item)
  <2> HIDE DEF Fine
  <2> QED  BY <1>1, ItemLength
<1> QED  BY <1>2

\* A batch, transaction by transaction.
LEMMA DoneSteps ==
  ASSUME NEW library \in Library, NEW this \in Library \cup {SafeAddress},
         NEW txs \in Seq(Transaction)
  PROVE  /\ Done(library, this, txs, 0) = <<>>
         /\ \A n \in 0..Len(txs) : Done(library, this, txs, n) \in Seq(Outcome)
         /\ \A n \in 1..Len(txs) :
              /\ Items(library, this, txs)[n] \in Item
              /\ Done(library, this, txs, n)
                   = Done(library, this, txs, n - 1) \o CallsOf[Items(library, this, txs)[n]]
         /\ Meaning(library, this, txs) = Done(library, this, txs, Len(txs))
<1> DEFINE items == Items(library, this, txs)
           calls(n) == [m \in 1..n |-> CallsOf[items[m]]]
<1>1. \A n \in 1..Len(txs) : items[n] \in Item
  <2> SUFFICES ASSUME NEW n \in 1..Len(txs)  PROVE items[n] \in Item
    OBVIOUS
  <2>1. items[n] = [library |-> library, this |-> this, tx |-> txs[n]]  BY DEF Items
  <2>2. txs[n] \in Transaction  OBVIOUS
  <2> QED  BY <2>1, <2>2 DEF Item
<1>2. \A n \in 1..Len(txs) : CallsOf[items[n]] \in Seq(Outcome)
  BY <1>1, CallsOfType
<1> HIDE DEF items
<1>3. ASSUME NEW n \in 0..Len(txs)
      PROVE  calls(n) \in Seq(Seq(Outcome)) /\ Done(library, this, txs, n) \in Seq(Outcome)
  <2>1. \A m \in 1..n : CallsOf[items[m]] \in Seq(Outcome)  BY <1>2
  <2>2. calls(n) \in Seq(Seq(Outcome))  BY <2>1
  <2>3. FlattenSeq(calls(n)) \in Seq(Outcome)
    <3> HIDE DEF calls
    <3> QED  BY <2>2, FlattenType
  <2> QED  BY <2>2, <2>3 DEF Done, items
<1>4. ASSUME NEW n \in 1..Len(txs)
      PROVE  Done(library, this, txs, n) = Done(library, this, txs, n - 1) \o CallsOf[items[n]]
  <2>1. n - 1 \in 0..Len(txs)  OBVIOUS
  <2>2. calls(n - 1) \in Seq(Seq(Outcome))  BY <1>3, <2>1
  <2>3. CallsOf[items[n]] \in Seq(Outcome)  BY <1>2
  <2>4. calls(n) = Append(calls(n - 1), CallsOf[items[n]])
    <3>1. Len(calls(n - 1)) = n - 1  OBVIOUS
    <3> QED  BY <3>1
  <2>5. FlattenSeq(calls(n)) = FlattenSeq(calls(n - 1)) \o CallsOf[items[n]]
    <3> HIDE DEF calls
    <3> QED  BY <2>2, <2>3, <2>4, FlattenAppend
  <2> QED  BY <2>5 DEF Done, items
<1>5. Done(library, this, txs, 0) = <<>>
  <2>1. calls(0) = <<>>  OBVIOUS
  <2> QED  BY <2>1 DEF Done, items, FlattenSeq
<1>6. Meaning(library, this, txs) = Done(library, this, txs, Len(txs))
  BY DEF Meaning, Done
<1> QED  BY <1>1, <1>3, <1>4, <1>5, <1>6 DEF items

\* What a batch in a batch does is what its transactions do.
LEMMA BatchIsDone ==
  ASSUME NEW item \in Item, IsBatch(item)
  PROVE  CallsOf[item]
           = Done(item.tx.to, IF item.tx.operation = 1 THEN item.this ELSE item.tx.to,
                  item.tx.batch, Len(item.tx.batch))
<1>1. CallsOf[item] = FlattenSeq([n \in DOMAIN Within(item) |-> CallsOf[Within(item)[n]]])
  BY CallsOfEquation DEF CallsBy, IsBatch
<1>2. DOMAIN Within(item) = 1..Len(item.tx.batch)  BY WithinIsLess
<1> QED  BY <1>1, <1>2 DEF Done, Within

--------------------------------------------------------------------------------
(***************************************************************************)
(* What a sequence begins with.                                            *)
(***************************************************************************)
Begins(s, t) == \E u \in Seq(Outcome) : t = s \o u

\* Begins is IsPrefix, with the rest named.
LEMMA BeginsIsPrefix ==
  ASSUME NEW s \in Seq(Outcome), NEW t, Begins(s, t)
  PROVE  IsPrefix(s, t)
<1>1. PICK u \in Seq(Outcome) : t = s \o u  BY DEF Begins
<1>2. /\ t \in Seq(Outcome) /\ Len(s) \in Nat /\ Len(u) \in Nat /\ Len(t) = Len(s) + Len(u)
      /\ \A i \in 1..Len(s) : t[i] = s[i]
  BY <1>1, ConcatProperties
<1>3. Len(s) <= Len(t)  BY <1>2
<1>4. SubSeq(s, 1, Len(s)) = SubSeq(t, 1, Len(s))
  <2>1. SubSeq(s, 1, Len(s)) = [i \in 1..Len(s) |-> s[i]]  OBVIOUS
  <2>2. SubSeq(t, 1, Len(s)) = [i \in 1..Len(s) |-> t[i]]  BY <1>2, <1>3
  <2> QED  BY <1>2, <2>1, <2>2
<1> QED  BY <1>3, <1>4 DEF IsPrefix

\* A beginning of a beginning is one.
LEMMA BeginsTransitive ==
  ASSUME NEW s \in Seq(Outcome), NEW t, NEW v, Begins(s, t), Begins(t, v)
  PROVE  Begins(s, v)
<1>1. PICK u \in Seq(Outcome) : t = s \o u  BY DEF Begins
<1>2. PICK w \in Seq(Outcome) : v = t \o w  BY DEF Begins
<1>3. v = s \o (u \o w)  BY <1>1, <1>2, ConcatAssociative
<1>4. u \o w \in Seq(Outcome)  BY ConcatProperties
<1> QED  BY <1>3, <1>4 DEF Begins

\* The same sequence may go before both.
LEMMA BeginsAfter ==
  ASSUME NEW first \in Seq(Outcome), NEW s \in Seq(Outcome), NEW t, Begins(s, t)
  PROVE  Begins(first \o s, first \o t)
<1>1. PICK u \in Seq(Outcome) : t = s \o u  BY DEF Begins
<1>2. first \o t = (first \o s) \o u  BY <1>1, ConcatAssociative
<1> QED  BY <1>2 DEF Begins

\* A batch begins with the calls of its first transactions.
LEMMA DoneBegins ==
  ASSUME NEW library \in Library, NEW this \in Library \cup {SafeAddress},
         NEW txs \in Seq(Transaction), NEW n \in 0..Len(txs)
  PROVE  Begins(Done(library, this, txs, n), Done(library, this, txs, Len(txs)))
<1> DEFINE all == Len(txs)
           done(m) == Done(library, this, txs, m)
           Fine(i) == Begins(done(all - i), done(all))
           T == {i \in 0..all : ~Fine(i)}
<1>1. /\ \A m \in 0..all : done(m) \in Seq(Outcome)
      /\ \A m \in 1..all : /\ CallsOf[Items(library, this, txs)[m]] \in Seq(Outcome)
                           /\ done(m) = done(m - 1) \o CallsOf[Items(library, this, txs)[m]]
  BY DoneSteps, CallsOfType
<1>2. all \in Nat  OBVIOUS
<1> HIDE DEF done, all
<1>3. T = {}
  <2>1. SUFFICES ASSUME T # {}  PROVE FALSE  OBVIOUS
  <2>2. PICK x \in T : \A y \in T : x <= y
    <3>1. T \in SUBSET Nat  BY <1>2
    <3> HIDE DEF T
    <3> QED  BY <2>1, <3>1, LeastElement
  <2>3. CASE x = 0
    <3>1. all - x = all /\ all \in 0..all  BY <1>2, <2>3
    <3>2. done(all) = done(all) \o <<>>  BY <1>1, <3>1, ConcatEmptySeq
    <3>3. <<>> \in Seq(Outcome)  OBVIOUS
    <3>4. Begins(done(all), done(all))  BY <3>2, <3>3 DEF Begins
    <3> QED  BY <2>2, <3>1, <3>4
  <2>4. CASE x # 0
    <3>1. /\ x - 1 \in 0..all /\ ~(x <= x - 1) /\ all - (x - 1) \in 1..all
          /\ all - x \in 0..all /\ all - (x - 1) - 1 = all - x
      BY <1>2, <2>2, <2>4
    <3>2. Fine(x - 1)
      <4> HIDE DEF Fine
      <4> QED  BY <2>2, <3>1
    <3>3. done(all - (x - 1)) = done(all - x) \o CallsOf[Items(library, this, txs)[all - (x - 1)]]
      BY <1>1, <3>1
    <3>4. Begins(done(all - x), done(all - (x - 1)))
      BY <1>1, <3>1, <3>3 DEF Begins
    <3>5. Begins(done(all - x), done(all))
      BY <1>1, <3>1, <3>2, <3>4, BeginsTransitive
    <3> QED  BY <2>2, <3>5
  <2> QED  BY <2>3, <2>4
<1>4. all - n \in 0..all /\ all - (all - n) = n  BY <1>2 DEF all
<1>5. Fine(all - n)
  <2> HIDE DEF Fine
  <2> QED  BY <1>3, <1>4
<1>6. Begins(done(n), done(all))  BY <1>4, <1>5
<1> QED  BY <1>6 DEF done, all

--------------------------------------------------------------------------------
(***************************************************************************)
(* Where a loop is: in the batch txs, of which it has read some, and what  *)
(* had been executed when it began.                                        *)
(***************************************************************************)
Mark ==
  [library : Library, this : Library \cup {SafeAddress}, txs : Seq(Transaction), read : Nat,
   before : Seq(Outcome)]

\* The loop that is there.
FrameOf(m) ==
  [library |-> m.library, this |-> m.this, bytes |-> encodeMultiSend(m.txs),
   i |-> 32 + Offsets(m.txs)[m.read]]

\* What will have been executed when n transactions of the batch have been.
DoneBy(m, n) == m.before \o Done(m.library, m.this, m.txs, n)

\* The n-th transaction of the batch.
ItemAt(m, n) == Items(m.library, m.this, m.txs)[n]

\* What the batch makes is where it belongs in all that is to be executed.
MarkOK(m, total) ==
  m.read <= Len(m.txs) /\ Begins(DoneBy(m, Len(m.txs)), total)

\* The upper loop executes the transaction that the lower one has read last.
Executes(upper, lower) ==
  /\ lower.read > 0
  /\ LET item == ItemAt(lower, lower.read)
     IN /\ IsBatch(item)
        /\ upper.library = item.tx.to /\ upper.txs = item.tx.batch
        /\ upper.this = IF item.tx.operation = 1 THEN item.this ELSE item.tx.to
  /\ upper.before = DoneBy(lower, lower.read - 1)

\* The loops are where the marks say, each begun by the one below it, the lowest with the
\* batch that was asked for; the calls are those that the topmost loop has come to.
TrailFits(trail, asked, loops, calls) ==
  LET total == Meaning(asked.library, SafeAddress, asked.txs)
  IN /\ trail \in Seq(Mark) /\ Len(trail) > 0
     /\ loops = [k \in 1..Len(trail) |-> FrameOf(trail[k])]
     /\ \A k \in 1..Len(trail) : MarkOK(trail[k], total)
     /\ \A k \in 2..Len(trail) : Executes(trail[k], trail[k - 1])
     /\ trail[1].library = asked.library /\ trail[1].this = SafeAddress
     /\ trail[1].txs = asked.txs /\ trail[1].before = <<>>
     /\ calls = DoneBy(trail[Len(trail)], trail[Len(trail)].read)

\* While loops run there are marks for them; they are in no variable, for the code keeps
\* offsets only.  At the end everything has been executed, after a failure nothing.
BatchInv ==
  /\ batch \in [library : Library, txs : Batches]
  /\ \/ status = "running" /\ \E trail : TrailFits(trail, batch, stack, executed)
     \/ /\ status = "done" /\ stack = <<>>
        /\ executed = Meaning(batch.library, SafeAddress, batch.txs)
     \/ status = "reverted" /\ stack = <<>> /\ executed = <<>>

\* One transaction further.
NextMark(m) == [m EXCEPT !.read = m.read + 1]

\* What DoneSteps says, of a mark.
LEMMA DoneByMark ==
  ASSUME NEW m \in Mark
  PROVE  /\ DoneBy(m, 0) = m.before
         /\ \A n \in 0..Len(m.txs) : DoneBy(m, n) \in Seq(Outcome)
         /\ \A n \in 0..Len(m.txs) : Begins(DoneBy(m, n), DoneBy(m, Len(m.txs)))
         /\ \A n \in 1..Len(m.txs) :
              /\ ItemAt(m, n) \in Item
              /\ CallsOf[ItemAt(m, n)] \in Seq(Outcome)
              /\ DoneBy(m, n) = DoneBy(m, n - 1) \o CallsOf[ItemAt(m, n)]
<1> DEFINE done(n) == Done(m.library, m.this, m.txs, n)
<1>1. /\ m.library \in Library /\ m.this \in Library \cup {SafeAddress}
      /\ m.txs \in Seq(Transaction) /\ m.before \in Seq(Outcome)
  BY DEF Mark
<1>2. /\ done(0) = <<>>
      /\ \A n \in 0..Len(m.txs) : done(n) \in Seq(Outcome)
      /\ \A n \in 1..Len(m.txs) : /\ ItemAt(m, n) \in Item
                                  /\ done(n) = done(n - 1) \o CallsOf[ItemAt(m, n)]
  BY <1>1, DoneSteps DEF ItemAt
<1>3. \A n \in 0..Len(m.txs) : Begins(done(n), done(Len(m.txs)))
  BY <1>1, DoneBegins
<1>4. \A n \in 0..Len(m.txs) : DoneBy(m, n) = m.before \o done(n)
  BY DEF DoneBy
<1> HIDE DEF done
<1>5. DoneBy(m, 0) = m.before
  <2>1. 0 \in 0..Len(m.txs)  BY <1>1
  <2> QED  BY <1>1, <1>2, <1>4, <2>1, ConcatEmptySeq
<1>6. \A n \in 0..Len(m.txs) : DoneBy(m, n) \in Seq(Outcome)
  BY <1>1, <1>2, <1>4, ConcatProperties
<1>7. \A n \in 0..Len(m.txs) : Begins(DoneBy(m, n), DoneBy(m, Len(m.txs)))
  <2>1. Len(m.txs) \in 0..Len(m.txs)  BY <1>1
  <2> QED  BY <1>1, <1>2, <1>3, <1>4, <2>1, BeginsAfter
<1>8. ASSUME NEW n \in 1..Len(m.txs)
      PROVE  /\ CallsOf[ItemAt(m, n)] \in Seq(Outcome)
             /\ DoneBy(m, n) = DoneBy(m, n - 1) \o CallsOf[ItemAt(m, n)]
  <2>1. n \in 0..Len(m.txs) /\ n - 1 \in 0..Len(m.txs)  BY <1>1
  <2>2. CallsOf[ItemAt(m, n)] \in Seq(Outcome)  BY <1>2, CallsOfType
  <2>3. m.before \o (done(n - 1) \o CallsOf[ItemAt(m, n)])
          = (m.before \o done(n - 1)) \o CallsOf[ItemAt(m, n)]
    <3>1. m.before \in Seq(Outcome) /\ done(n - 1) \in Seq(Outcome)  BY <1>1, <1>2, <2>1
    <3>2. \A a, b, c \in Seq(Outcome) : a \o (b \o c) = (a \o b) \o c  BY ConcatAssociative
    <3> QED  BY <2>2, <3>1, <3>2, Zenon
  <2> QED  BY <1>2, <1>4, <2>1, <2>2, <2>3
<1> QED  BY <1>2, <1>5, <1>6, <1>7, <1>8

\* Reading one more transaction adds what it means.
LEMMA NextDone ==
  ASSUME NEW m \in Mark, m.read + 1 \in 1..Len(m.txs)
  PROVE  /\ ItemAt(m, m.read + 1) \in Item
         /\ DoneBy(m, m.read + 1) = DoneBy(m, m.read) \o CallsOf[ItemAt(m, m.read + 1)]
<1>1. PICK n \in 1..Len(m.txs) : n = m.read + 1  OBVIOUS
<1>2. n - 1 = m.read  BY <1>1 DEF Mark
<1>3. ItemAt(m, n) \in Item /\ DoneBy(m, n) = DoneBy(m, n - 1) \o CallsOf[ItemAt(m, n)]
  BY DoneByMark
<1> QED  BY <1>1, <1>2, <1>3

\* The loop of a mark ends when all is read, and otherwise reads the next transaction.
LEMMA FrameReads ==
  ASSUME NEW m \in Mark, m.read <= Len(m.txs)
  PROVE  /\ More(FrameOf(m)) <=> m.read < Len(m.txs)
         /\ More(FrameOf(m)) =>
              LET item == ItemAt(m, m.read + 1)
              IN /\ Read(FrameOf(m)) = item.tx
                 /\ item.this = FrameOf(m).this /\ item.library = FrameOf(m).library
                 /\ Receiver(FrameOf(m)) = ItemReceiver(item)
                 /\ Refused(FrameOf(m), item.tx) <=> ~Allowed(item)
                 /\ NextEntry(FrameOf(m)) = FrameOf(NextMark(m))
                 /\ NextMark(m) \in Mark
<1> DEFINE f == FrameOf(m)
           off == Offsets(m.txs)
           all == Len(m.txs)
<1>1. /\ m.library \in Library /\ m.this \in Library \cup {SafeAddress}
      /\ m.txs \in Seq(Transaction) /\ m.read \in 0..all /\ all \in Nat
      /\ m = [library |-> m.library, this |-> m.this, txs |-> m.txs, read |-> m.read,
              before |-> m.before]
  BY DEF Mark
<1>2. /\ f.bytes = encodeMultiSend(m.txs) /\ f.i = 32 + off[m.read]
      /\ f.library = m.library /\ f.this = m.this
  BY DEF FrameOf
<1>3. f.bytes.length = off[all]
  BY <1>2 DEF encodeMultiSend
<1> HIDE DEF f, off
<1>4. /\ off[m.read] \in Nat /\ off[all] \in Nat
      /\ m.read < all => off[m.read] + 85 <= off[all]
  <2>1. all \in 0..all  BY <1>1
  <2> HIDE DEF all
  <2> QED  BY <1>1, <2>1, OffsetsGrow DEF off, all
<1>5. More(f) <=> m.read < all
  BY <1>1, <1>2, <1>3, <1>4 DEF More
<1>6. ASSUME m.read < all
      PROVE  LET item == ItemAt(m, m.read + 1)
             IN /\ Read(f) = item.tx
                /\ item.this = f.this /\ item.library = f.library
                /\ Receiver(f) = ItemReceiver(item)
                /\ Refused(f, item.tx) <=> ~Allowed(item)
                /\ NextEntry(f) = FrameOf(NextMark(m))
                /\ NextMark(m) \in Mark
  <2> DEFINE item == ItemAt(m, m.read + 1)
             next == m.read + 1
  <2>1. next \in 1..all /\ next - 1 = m.read /\ next \in Nat  BY <1>1, <1>6
  <2>2. item = [library |-> m.library, this |-> m.this, tx |-> m.txs[next]]
    BY <2>1 DEF ItemAt, Items
  <2>3. f.i - 32 = off[m.read]  BY <1>2, <1>4
  <2>4. off[m.read] \in DOMAIN f.bytes.at /\ f.bytes.at[off[m.read]] = m.txs[next]
    <3> HIDE DEF next
    <3> QED  BY <1>1, <1>2, <2>1, ReadAtOffset DEF off
  <2>5. Read(f) = m.txs[next]  BY <2>3, <2>4 DEF Read
  <2>6. off[next] = off[m.read] + 85 + m.txs[next].length
    <3>1. AddsUp(off, m.txs, all)  BY <1>1, OffsetsAddUp DEF off
    <3> HIDE DEF next
    <3> QED  BY <2>1, <3>1 DEF AddsUp
  <2>7. m.txs[next].length \in Nat
    BY <1>1, <2>1, BatchAssumption DEF BatchAssumption
  <2> HIDE DEF item, next
  <2>8. /\ item.library = f.library /\ item.this = f.this /\ Read(f) = item.tx
    BY <1>2, <2>2, <2>5
  <2>9. Receiver(f) = ItemReceiver(item)
    BY <2>8 DEF Receiver, ItemReceiver
  <2>10. Refused(f, item.tx) <=> ~Allowed(item)
    <3>1. f.library \in Library  BY <1>1, <1>2
    <3>2. item.tx.to # AddressZero => ItemReceiver(item) = item.tx.to
      BY DEF ItemReceiver
    <3> QED  BY <2>8, <2>9, <3>1, <3>2 DEF Refused, Allowed, Library
  <2>11. NextMark(m) = [library |-> m.library, this |-> m.this, txs |-> m.txs,
                        read |-> next, before |-> m.before]
    BY <1>1 DEF NextMark, next
  <2>12. FrameOf(NextMark(m)) = [library |-> m.library, this |-> m.this,
                                 bytes |-> encodeMultiSend(m.txs), i |-> 32 + off[next]]
    BY <2>11 DEF FrameOf, off
  <2>13. f = [library |-> m.library, this |-> m.this, bytes |-> encodeMultiSend(m.txs),
              i |-> 32 + off[m.read]]
    BY DEF FrameOf, f, off
  <2>14. NextEntry(f) = FrameOf(NextMark(m))
    <3>1. 32 + off[m.read] + 85 + m.txs[next].length = 32 + off[next]
      BY <1>4, <2>6, <2>7
    <3> QED  BY <2>5, <2>12, <2>13, <3>1 DEF NextEntry
  <2>15. NextMark(m) \in Mark
    <3>1. m.before \in Seq(Outcome)  BY DEF Mark
    <3> QED  BY <1>1, <2>1, <2>11, <3>1 DEF Mark
  <2> QED  BY <2>8, <2>9, <2>10, <2>14, <2>15 DEF item
<1> QED  BY <1>5, <1>6 DEF f

--------------------------------------------------------------------------------
(***************************************************************************)
(* The steps.                                                              *)
(***************************************************************************)
LEMMA TrailBegins ==
  ASSUME NEW asked \in [library : Library, txs : Batches]
  PROVE  \E trail : TrailFits(trail, asked, buildMultiSendSafeTx(asked.library, asked.txs), <<>>)
<1> DEFINE m == [library |-> asked.library, this |-> SafeAddress, txs |-> asked.txs,
                 read |-> 0, before |-> <<>>]
           total == Meaning(asked.library, SafeAddress, asked.txs)
<1>1. asked.library \in Library /\ asked.txs \in Seq(Transaction)
  BY BatchAssumption DEF BatchAssumption
<1>2. m \in Mark
  BY <1>1 DEF Mark
<1>3. FrameOf(m) = Frame(asked.library, SafeAddress, asked.txs)
  <2>1. Offsets(asked.txs)[0] = 0
    BY <1>1, OffsetsAddUp DEF AddsUp
  <2> QED  BY <2>1 DEF FrameOf, Frame
<1>4. DoneBy(m, 0) = <<>> /\ m.read = 0 /\ m.read <= Len(m.txs)
  <2>1. DoneBy(m, 0) = m.before
    <3> HIDE DEF m
    <3> QED  BY <1>2, DoneByMark
  <2>2. m.before = <<>> /\ m.read = 0 /\ m.txs = asked.txs  OBVIOUS
  <2> QED  BY <1>1, <2>1, <2>2
<1>5. DoneBy(m, Len(m.txs)) = total /\ total \in Seq(Outcome)
  <2>1. SafeAddress \in Library \cup {SafeAddress}  OBVIOUS
  <2>2. /\ total = Done(asked.library, SafeAddress, asked.txs, Len(asked.txs))
        /\ \A n \in 0..Len(asked.txs) : Done(asked.library, SafeAddress, asked.txs, n) \in Seq(Outcome)
    BY <1>1, <2>1, DoneSteps
  <2>3. Len(asked.txs) \in 0..Len(asked.txs)  BY <1>1
  <2>4. total \in Seq(Outcome)  BY <2>2, <2>3
  <2>5. <<>> \o total = total  BY <2>4, ConcatEmptySeq
  <2> QED  BY <2>2, <2>4, <2>5 DEF DoneBy
<1>6. MarkOK(m, total)
  <2>1. total \o <<>> = total /\ <<>> \in Seq(Outcome)  BY <1>5, ConcatEmptySeq
  <2>2. Begins(total, total)  BY <2>1 DEF Begins
  <2> QED  BY <1>4, <1>5, <2>2 DEF MarkOK
<1>7. /\ m.library = asked.library /\ m.this = SafeAddress
      /\ m.txs = asked.txs /\ m.before = <<>>
  OBVIOUS
<1> HIDE DEF m, total
<1> DEFINE trail == <<m>>
<1>8. trail \in Seq(Mark) /\ Len(trail) = 1 /\ trail[1] = m
  BY <1>2
<1>9. buildMultiSendSafeTx(asked.library, asked.txs) = [k \in 1..Len(trail) |-> FrameOf(trail[k])]
  BY <1>3, <1>8 DEF buildMultiSendSafeTx
<1> HIDE DEF trail
<1>10. /\ Len(trail) > 0 /\ \A k \in 1..Len(trail) : k = 1
       /\ \A k \in 2..Len(trail) : FALSE
  BY <1>8
<1>11. <<>> = DoneBy(trail[Len(trail)], trail[Len(trail)].read)
  BY <1>4, <1>8
<1>12. \A k \in 1..Len(trail) : MarkOK(trail[k], total)
  BY <1>6, <1>8, <1>10
<1>13. TrailFits(trail, asked, buildMultiSendSafeTx(asked.library, asked.txs), <<>>)
  BY <1>7, <1>8, <1>9, <1>10, <1>11, <1>12 DEF TrailFits, total
<1> QED  BY <1>13

\* What TrailFits says of the loops, when the last one is to read one transaction more.
Advanced(next, trail, n, asked) ==
  /\ next \in Seq(Mark) /\ Len(next) = n
  /\ next[n] = NextMark(trail[n]) /\ next[n].read = trail[n].read + 1
  /\ \A k \in 1..(n - 1) : next[k] = trail[k]
  /\ \A k \in 1..n : MarkOK(next[k], Meaning(asked.library, SafeAddress, asked.txs))
  /\ \A k \in 2..n : Executes(next[k], next[k - 1])
  /\ next[1].library = asked.library /\ next[1].this = SafeAddress
  /\ next[1].txs = asked.txs /\ next[1].before = <<>>

\* The innermost loop has read one transaction more.
LEMMA TrailReads ==
  ASSUME NEW asked, NEW loops, NEW calls, NEW trail, TrailFits(trail, asked, loops, calls),
         NEW n, n = Len(trail), trail[n].read < Len(trail[n].txs),
         NEW next, next = [trail EXCEPT ![n] = NextMark(trail[n])]
  PROVE  Advanced(next, trail, n, asked)
<1> DEFINE m == trail[n]
           total == Meaning(asked.library, SafeAddress, asked.txs)
<1>1. trail \in Seq(Mark) /\ n \in Nat /\ n > 0 /\ n \in 1..n /\ m \in Mark
  BY DEF TrailFits
<1>2. /\ m.read \in Nat /\ Len(m.txs) \in Nat
      /\ m = [library |-> m.library, this |-> m.this, txs |-> m.txs, read |-> m.read,
              before |-> m.before]
  BY <1>1 DEF Mark
<1>3. NextMark(m) = [library |-> m.library, this |-> m.this, txs |-> m.txs,
                     read |-> m.read + 1, before |-> m.before]
  BY <1>2 DEF NextMark
<1>4. NextMark(m) \in Mark
  BY <1>1, <1>2, <1>3 DEF Mark
<1>5. /\ NextMark(m).library = m.library /\ NextMark(m).this = m.this
      /\ NextMark(m).txs = m.txs /\ NextMark(m).before = m.before
      /\ NextMark(m).read = m.read + 1
  BY <1>3
<1> HIDE DEF m
<1>6. next = [trail EXCEPT ![n] = NextMark(m)]
  BY DEF m
<1>7. next \in Seq(Mark) /\ Len(next) = n /\ next[n] = NextMark(m)
  BY <1>1, <1>4, <1>6
<1>8. \A k \in 1..n : k # n => next[k] = trail[k]
  BY <1>1, <1>6
<1>9. \A k \in 1..n : MarkOK(next[k], total)
  <2>1. \A k \in 1..n : MarkOK(trail[k], total)  BY DEF TrailFits
  <2>2. DoneBy(NextMark(m), Len(m.txs)) = DoneBy(m, Len(m.txs))  BY <1>5 DEF DoneBy
  <2>3. MarkOK(m, total)  BY <1>1, <2>1 DEF m
  <2>4. NextMark(m).read <= Len(m.txs)  BY <1>2, <1>5 DEF m
  <2>5. MarkOK(NextMark(m), total)
    <3> HIDE DEF total
    <3> QED  BY <1>5, <2>2, <2>3, <2>4 DEF MarkOK
  <2> QED  BY <1>7, <1>8, <2>1, <2>5
<1>10. \A k \in 2..n : Executes(next[k], next[k - 1])
  <2> SUFFICES ASSUME NEW k \in 2..n  PROVE Executes(next[k], next[k - 1])
    OBVIOUS
  <2>1. k \in 1..n /\ k - 1 \in 1..n /\ k - 1 # n  BY <1>1
  <2>2. Executes(trail[k], trail[k - 1])  BY DEF TrailFits
  <2>3. next[k - 1] = trail[k - 1]  BY <1>8, <2>1
  <2>4. CASE k # n  BY <1>8, <2>1, <2>2, <2>3, <2>4
  <2>5. CASE k = n
    <3>1. Executes(m, trail[k - 1])  BY <2>2, <2>5 DEF m
    <3>2. Executes(NextMark(m), trail[k - 1])  BY <1>5, <3>1 DEF Executes
    <3> QED  BY <1>7, <2>3, <2>5, <3>2
  <2> QED  BY <2>4, <2>5
<1>11. /\ next[1].library = asked.library /\ next[1].this = SafeAddress
       /\ next[1].txs = asked.txs /\ next[1].before = <<>>
  <2>1. /\ trail[1].library = asked.library /\ trail[1].this = SafeAddress
        /\ trail[1].txs = asked.txs /\ trail[1].before = <<>>
    BY DEF TrailFits
  <2>2. CASE n = 1  BY <1>5, <1>7, <2>1, <2>2 DEF m
  <2>3. CASE n # 1
    <3>1. 1 \in 1..n  BY <1>1
    <3> QED  BY <1>8, <2>1, <2>3, <3>1
  <2> QED  BY <2>2, <2>3
<1>12. \A k \in 1..(n - 1) : next[k] = trail[k]
  <2>1. \A k \in 1..(n - 1) : k \in 1..n /\ k # n  BY <1>1
  <2> QED  BY <1>8, <2>1
<1> QED  BY <1>1, <1>5, <1>7, <1>9, <1>10, <1>11, <1>12 DEF Advanced, m, total

\* The loop that runs is that of the last mark.
LEMMA TopOfTrail ==
  ASSUME NEW trail, TrailFits(trail, batch, stack, executed), NEW n, n = Len(trail)
  PROVE  /\ n \in Nat /\ n > 0 /\ Len(stack) = n /\ stack # <<>>
         /\ trail[n] \in Mark /\ trail[n].read \in Nat /\ Len(trail[n].txs) \in Nat
         /\ trail[n].read <= Len(trail[n].txs)
         /\ Top = FrameOf(trail[n])
         /\ Below = [k \in 1..(n - 1) |-> FrameOf(trail[k])]
         /\ executed = DoneBy(trail[n], trail[n].read) /\ executed \in Seq(Outcome)
<1>1. /\ trail \in Seq(Mark) /\ n \in Nat /\ n > 0 /\ n \in 1..n
      /\ stack = [k \in 1..n |-> FrameOf(trail[k])]
  BY DEF TrailFits
<1>2. trail[n] \in Mark /\ trail[n].read \in Nat /\ Len(trail[n].txs) \in Nat
  <2>1. trail[n] \in Mark  BY <1>1
  <2>2. \A m \in Mark : m.read \in Nat /\ Len(m.txs) \in Nat  BY DEF Mark
  <2> QED  BY <2>1, <2>2
<1>3. trail[n].read <= Len(trail[n].txs)
  BY <1>1 DEF TrailFits, MarkOK
<1>4. Len(stack) = n /\ stack # <<>> /\ stack[n] = FrameOf(trail[n])
  BY <1>1
<1>5. SubSeq(stack, 1, n - 1) = [k \in 1..(n - 1) |-> FrameOf(trail[k])]
  BY <1>1
<1>6. executed = DoneBy(trail[n], trail[n].read)
  BY <1>1 DEF TrailFits
<1>7. executed \in Seq(Outcome)
  <2>1. trail[n].read \in 0..Len(trail[n].txs)  BY <1>2, <1>3
  <2> QED  BY <1>2, <1>6, <2>1, DoneByMark
<1> QED  BY <1>1, <1>2, <1>3, <1>4, <1>5, <1>6, <1>7 DEF Top, Below

\* A call, and the loop is past it.
LEMMA CallKeeps ==
  ASSUME NEW trail, TrailFits(trail, batch, stack, executed),
         More(Top), ~Refused(Top, Read(Top)), Call(Top, Read(Top))
  PROVE  \E next : TrailFits(next, batch, stack', executed')
<1> DEFINE n == Len(trail)
           m == trail[n]
           item == ItemAt(m, m.read + 1)
           next == [trail EXCEPT ![n] = NextMark(m)]
<1>1. /\ n \in Nat /\ n > 0 /\ m \in Mark /\ m.read \in Nat /\ Len(m.txs) \in Nat
      /\ m.read <= Len(m.txs) /\ Top = FrameOf(m)
      /\ Below = [k \in 1..(n - 1) |-> FrameOf(trail[k])]
      /\ executed = DoneBy(m, m.read) /\ executed \in Seq(Outcome)
  BY TopOfTrail
<1> HIDE DEF m
<1>2. /\ m.read < Len(m.txs) /\ Read(Top) = item.tx /\ Receiver(Top) = ItemReceiver(item)
      /\ Top.this = item.this /\ Allowed(item) /\ NextEntry(Top) = FrameOf(NextMark(m))
  BY <1>1, FrameReads
<1> HIDE DEF n
<1> HIDE DEF next
<1>3. /\ next \in Seq(Mark) /\ Len(next) = n
      /\ next[n] = NextMark(m) /\ next[n].read = m.read + 1
      /\ \A k \in 1..(n - 1) : next[k] = trail[k]
      /\ \A k \in 1..n : MarkOK(next[k], Meaning(batch.library, SafeAddress, batch.txs))
      /\ \A k \in 2..n : Executes(next[k], next[k - 1])
      /\ next[1].library = batch.library /\ next[1].this = SafeAddress
      /\ next[1].txs = batch.txs /\ next[1].before = <<>>
  <2>1. n = Len(trail) /\ next = [trail EXCEPT ![n] = NextMark(trail[n])]
    BY DEF next, n, m
  <2>2. trail[n].read < Len(trail[n].txs)
    BY <1>2 DEF m
  <2>3. Advanced(next, trail, n, batch)  BY <2>1, <2>2, TrailReads
  <2> QED  BY <2>3 DEF Advanced, m
<1>4. stack' = [k \in 1..n |-> FrameOf(next[k])]
  <2>1. stack' = Append(Below, FrameOf(NextMark(m)))  BY <1>2 DEF Call
  <2>2. Len(Below) = n - 1  BY <1>1
  <2>3. Append(Below, FrameOf(NextMark(m)))
          = [k \in 1..n |-> IF k = n THEN FrameOf(NextMark(m)) ELSE FrameOf(trail[k])]
    BY <1>1, <2>2
  <2>4. \A k \in 1..n : k # n => next[k] = trail[k]  BY <1>1, <1>3
  <2> QED  BY <1>3, <2>1, <2>3, <2>4
<1>5. executed' = DoneBy(next[n], next[n].read)
  <2>1. m.read + 1 \in 1..Len(m.txs) /\ m.read + 1 - 1 = m.read  BY <1>1, <1>2
  <2>2. item \in Item /\ DoneBy(m, m.read + 1) = DoneBy(m, m.read) \o CallsOf[item]
    BY <1>1, <2>1, NextDone
  <2>3. CallsOf[item] = <<CallOf(item)>>
    <3>1. ItemReceiver(item) \notin Library  BY <1>2 DEF Call
    <3>2. CallsOf[item] = CallsBy(CallsOf, item)  BY <2>2, CallsOfEquation
    <3> HIDE DEF item
    <3> QED  BY <1>2, <3>1, <3>2 DEF CallsBy
  <2>4. executed' = Append(executed, CallOf(item))
    <3> HIDE DEF item
    <3> QED  BY <1>2 DEF Call, CallOf
  <2>5. Append(executed, CallOf(item)) = executed \o <<CallOf(item)>>
    <3>1. CallOf(item) \in Outcome  BY <2>2 DEF Outcome
    <3> HIDE DEF item
    <3> QED  BY <1>1, <3>1, AppendIsConcat
  <2>6. DoneBy(NextMark(m), m.read + 1) = DoneBy(m, m.read + 1)
    BY <1>1 DEF NextMark, DoneBy, Mark
  <2> QED  BY <1>1, <1>3, <2>2, <2>3, <2>4, <2>5, <2>6
<1>6. TrailFits(next, batch, stack', executed')
  BY <1>1, <1>3, <1>4, <1>5 DEF TrailFits
<1> QED  BY <1>6

\* A batch in the batch: its loop begins, and the one below is past it.
LEMMA CallBatchKeeps ==
  ASSUME NEW trail, TrailFits(trail, batch, stack, executed),
         More(Top), ~Refused(Top, Read(Top)), CallBatch(Top, Read(Top))
  PROVE  \E next : TrailFits(next, batch, stack', executed')
<1> DEFINE n == Len(trail)
           m == trail[n]
           item == ItemAt(m, m.read + 1)
           past == [trail EXCEPT ![n] = NextMark(m)]
           total == Meaning(batch.library, SafeAddress, batch.txs)
           this == IF item.tx.operation = 1 THEN item.this ELSE item.tx.to
           upper == [library |-> item.tx.to, this |-> this, txs |-> item.tx.batch,
                     read |-> 0, before |-> executed]
           next == Append(past, upper)
<1>1. /\ n \in Nat /\ n > 0 /\ m \in Mark /\ m.read \in Nat /\ Len(m.txs) \in Nat
      /\ m.read <= Len(m.txs) /\ Top = FrameOf(m)
      /\ Below = [k \in 1..(n - 1) |-> FrameOf(trail[k])]
      /\ executed = DoneBy(m, m.read) /\ executed \in Seq(Outcome)
  BY TopOfTrail
<1> HIDE DEF m
<1>2. /\ m.read < Len(m.txs) /\ Read(Top) = item.tx /\ Receiver(Top) = ItemReceiver(item)
      /\ Top.this = item.this /\ Allowed(item) /\ NextEntry(Top) = FrameOf(NextMark(m))
  BY <1>1, FrameReads
<1> HIDE DEF n
<1> HIDE DEF past
<1>3. /\ past \in Seq(Mark) /\ Len(past) = n
      /\ past[n] = NextMark(m) /\ past[n].read = m.read + 1
      /\ \A k \in 1..(n - 1) : past[k] = trail[k]
      /\ \A k \in 1..n : MarkOK(past[k], total)
      /\ \A k \in 2..n : Executes(past[k], past[k - 1])
      /\ past[1].library = batch.library /\ past[1].this = SafeAddress
      /\ past[1].txs = batch.txs /\ past[1].before = <<>>
  <2>1. n = Len(trail) /\ past = [trail EXCEPT ![n] = NextMark(trail[n])]
    BY DEF past, n, m
  <2>2. trail[n].read < Len(trail[n].txs)
    BY <1>2 DEF m
  <2>3. Advanced(past, trail, n, batch)  BY <2>1, <2>2, TrailReads
  <2> QED  BY <2>3 DEF Advanced, m, total
<1>4. m.read + 1 \in 1..Len(m.txs) /\ m.read + 1 - 1 = m.read
  BY <1>1, <1>2
<1>5. item \in Item /\ DoneBy(m, m.read + 1) = DoneBy(m, m.read) \o CallsOf[item]
  BY <1>1, <1>4, NextDone
<1>6. IsBatch(item)
  BY <1>2 DEF CallBatch, IsBatch
<1>7. /\ item.tx.to \in Library /\ ItemReceiver(item) = item.tx.to
      /\ item.tx.batch \in Seq(Transaction)
  <2> HIDE DEF item
  <2> QED  BY <1>5, <1>6, WithinIsLess
<1>8. this \in Library \cup {SafeAddress}
  <2>1. item.this \in Library \cup {SafeAddress}
    <3> HIDE DEF item
    <3> QED  BY <1>5 DEF Item
  <2> QED  BY <1>7, <2>1
<1>9. CallsOf[item] = Done(item.tx.to, this, item.tx.batch, Len(item.tx.batch))
  <2> HIDE DEF item
  <2> QED  BY <1>5, <1>6, BatchIsDone
<1>10. NextMark(m).library = m.library /\ NextMark(m).this = m.this
       /\ NextMark(m).txs = m.txs /\ NextMark(m).before = m.before
       /\ NextMark(m).read = m.read + 1
  BY <1>1 DEF NextMark, Mark
<1> HIDE DEF this
<1>11. upper \in Mark
  BY <1>1, <1>7, <1>8 DEF Mark
<1>12. Executes(upper, NextMark(m))
  <2>1. ItemAt(NextMark(m), m.read + 1) = item
    BY <1>10 DEF ItemAt
  <2>2. DoneBy(NextMark(m), m.read) = DoneBy(m, m.read)
    BY <1>10 DEF DoneBy
  <2>3. /\ upper.library = item.tx.to /\ upper.txs = item.tx.batch /\ upper.this = this
        /\ upper.before = executed
    OBVIOUS
  <2> HIDE DEF item, upper
  <2> QED  BY <1>1, <1>4, <1>6, <1>10, <2>1, <2>2, <2>3 DEF Executes, this
<1>13. MarkOK(upper, total)
  <2>1. DoneBy(upper, Len(upper.txs)) = DoneBy(m, m.read + 1)
    <3>1. DoneBy(upper, Len(upper.txs))
            = executed \o Done(item.tx.to, this, item.tx.batch, Len(item.tx.batch))
      BY DEF DoneBy
    <3> QED  BY <1>1, <1>5, <1>9, <3>1
  <2>2. m.read + 1 \in 0..Len(m.txs)  BY <1>1, <1>4
  <2>3. /\ Begins(DoneBy(m, m.read + 1), DoneBy(m, Len(m.txs)))
        /\ DoneBy(m, m.read + 1) \in Seq(Outcome)
    BY <1>1, <2>2, DoneByMark
  <2>4. Begins(DoneBy(m, Len(m.txs)), total)
    <3>1. n \in 1..Len(trail)  BY <1>1 DEF n
    <3> QED  BY <3>1 DEF TrailFits, MarkOK, m
  <2>5. Begins(DoneBy(m, m.read + 1), total)
    <3> HIDE DEF total
    <3> QED  BY <2>3, <2>4, BeginsTransitive
  <2>6. upper.read <= Len(upper.txs)  BY <1>7
  <2> HIDE DEF total, upper
  <2> QED  BY <2>1, <2>5, <2>6 DEF MarkOK
<1>14. /\ FrameOf(upper) = Frame(item.tx.to, this, item.tx.batch)
       /\ DoneBy(upper, upper.read) = executed
  <2>1. Offsets(item.tx.batch)[0] = 0
    <3> HIDE DEF item
    <3> QED  BY <1>7, OffsetsAddUp DEF AddsUp
  <2>2. upper.read = 0 /\ upper.before = executed  OBVIOUS
  <2>3. DoneBy(upper, 0) = upper.before
    <3> HIDE DEF upper
    <3> QED  BY <1>11, DoneByMark
  <2>4. FrameOf(upper) = Frame(item.tx.to, this, item.tx.batch)
    <3> HIDE DEF item
    <3> QED  BY <2>1 DEF FrameOf, Frame
  <2> QED  BY <2>2, <2>3, <2>4
<1> HIDE DEF upper
<1>15. /\ next \in Seq(Mark) /\ Len(next) = n + 1 /\ next[n + 1] = upper
       /\ \A k \in 1..n : next[k] = past[k]
  BY <1>3, <1>11, AppendProperties
<1>16. stack' = [k \in 1..(n + 1) |-> FrameOf(next[k])]
  <2>1. stack' = Below \o <<FrameOf(NextMark(m)), FrameOf(upper)>>
    <3>1. Frame(Receiver(Top), IF Read(Top).operation = 0 THEN Receiver(Top) ELSE Top.this, Read(Top).batch)
            = Frame(item.tx.to, this, item.tx.batch)
      <4>1. item.tx.operation \in {0, 1}
        <5> HIDE DEF item
        <5> QED  BY <1>6 DEF IsBatch, Allowed
      <4>2. (IF item.tx.operation = 0 THEN item.tx.to ELSE item.this) = this
        <5> HIDE DEF item
        <5> QED  BY <4>1 DEF this
      <4> HIDE DEF item
      <4> QED  BY <1>2, <1>7, <4>2
    <3> HIDE DEF item
    <3> QED  BY <1>2, <1>14, <3>1 DEF CallBatch
  <2>2. Len(Below) = n - 1 /\ \A k \in 1..(n - 1) : Below[k] = FrameOf(trail[k])
    BY <1>1
  <2>3. Below \o <<FrameOf(NextMark(m)), FrameOf(upper)>>
          = [k \in 1..(n + 1) |-> IF k = n + 1 THEN FrameOf(upper)
                                  ELSE IF k = n THEN FrameOf(NextMark(m)) ELSE FrameOf(trail[k])]
    BY <1>1, <2>2
  <2>4. \A k \in 1..(n + 1) : /\ k = n + 1 => next[k] = upper
                              /\ k = n => next[k] = NextMark(m)
                              /\ k # n + 1 /\ k # n => next[k] = trail[k]
    <3> HIDE DEF next
    <3> QED  BY <1>1, <1>3, <1>15
  <2>5. \A k \in 1..(n + 1) :
          FrameOf(next[k]) = IF k = n + 1 THEN FrameOf(upper)
                             ELSE IF k = n THEN FrameOf(NextMark(m)) ELSE FrameOf(trail[k])
    <3> HIDE DEF next
    <3> QED  BY <2>4
  <2> HIDE DEF next
  <2> QED  BY <2>1, <2>3, <2>5
<1> HIDE DEF next
<1>17. \A k \in 1..(n + 1) : MarkOK(next[k], total)
  <2>1. \A k \in 1..(n + 1) : k \in 1..n \/ k = n + 1  BY <1>1
  <2> QED  BY <1>3, <1>13, <1>15, <2>1
<1>18. \A k \in 2..(n + 1) : Executes(next[k], next[k - 1])
  <2> SUFFICES ASSUME NEW k \in 2..(n + 1)  PROVE Executes(next[k], next[k - 1])
    OBVIOUS
  <2>1. CASE k = n + 1
    <3>1. k - 1 = n /\ n \in 1..n  BY <1>1, <2>1
    <3> QED  BY <1>3, <1>12, <1>15, <2>1, <3>1
  <2>2. CASE k # n + 1
    <3>1. k \in 2..n /\ k \in 1..n /\ k - 1 \in 1..n  BY <1>1, <2>2
    <3> QED  BY <1>3, <1>15, <3>1
  <2> QED  BY <2>1, <2>2
<1>19. executed' = DoneBy(next[n + 1], next[n + 1].read)
  <2>1. executed' = executed  BY DEF CallBatch
  <2> QED  BY <1>14, <1>15, <2>1
<1>20. /\ next[1].library = batch.library /\ next[1].this = SafeAddress
       /\ next[1].txs = batch.txs /\ next[1].before = <<>>
  <2>1. 1 \in 1..n  BY <1>1
  <2> QED  BY <1>3, <1>15, <2>1
<1>21. TrailFits(next, batch, stack', executed')
  <2>1. Len(next) > 0 /\ Len(next) = n + 1  BY <1>1, <1>15
  <2> QED  BY <1>15, <1>16, <1>17, <1>18, <1>19, <1>20, <2>1 DEF TrailFits, total
<1> QED  BY <1>21

\* A loop that ends has done the transaction that the one below has read last.
LEMMA ReturnKeeps ==
  ASSUME NEW trail, TrailFits(trail, batch, stack, executed), ~More(Top), Return
  PROVE  \/ /\ Below = <<>> /\ stack' = <<>>
            /\ executed' = Meaning(batch.library, SafeAddress, batch.txs)
         \/ /\ Below # <<>>
            /\ \E next : TrailFits(next, batch, stack', executed')
<1> DEFINE n == Len(trail)
           m == trail[n]
           all == Len(m.txs)
           total == Meaning(batch.library, SafeAddress, batch.txs)
<1>1. /\ n \in Nat /\ n > 0 /\ m \in Mark /\ m.read \in Nat /\ all \in Nat
      /\ m.read <= all /\ Top = FrameOf(m)
      /\ Below = [k \in 1..(n - 1) |-> FrameOf(trail[k])]
      /\ executed = DoneBy(m, m.read) /\ executed \in Seq(Outcome)
  BY TopOfTrail
<1>2. m.read = all
  <2>1. ~(m.read < all)
    <3> HIDE DEF m
    <3> QED  BY <1>1, FrameReads
  <2> HIDE DEF m, all
  <2> QED  BY <1>1, <2>1
<1>3. stack' = Below /\ executed' = executed
  BY DEF Return
<1>4. CASE n = 1
  <2>1. /\ m.library = batch.library /\ m.this = SafeAddress
        /\ m.txs = batch.txs /\ m.before = <<>>
    BY <1>4 DEF TrailFits
  <2>2. Below = <<>>  BY <1>1, <1>4
  <2>3. executed = <<>> \o Done(batch.library, SafeAddress, batch.txs, Len(batch.txs))
    BY <1>1, <1>2, <2>1 DEF DoneBy
  <2>4. /\ total = Done(batch.library, SafeAddress, batch.txs, Len(batch.txs))
        /\ total \in Seq(Outcome)
    <3>1. /\ m.library \in Library /\ m.this \in Library \cup {SafeAddress}
          /\ m.txs \in Seq(Transaction)
      <4> HIDE DEF m
      <4> QED  BY <1>1 DEF Mark
    <3>2. /\ batch.library \in Library /\ SafeAddress \in Library \cup {SafeAddress}
          /\ batch.txs \in Seq(Transaction) /\ Len(batch.txs) \in 0..Len(batch.txs)
      BY <2>1, <3>1
    <3> QED  BY <3>2, DoneSteps
  <2>5. executed = total  BY <2>3, <2>4, ConcatEmptySeq
  <2> QED  BY <1>3, <2>2, <2>5
<1>5. CASE n # 1
  <2> DEFINE l == n - 1
             lower == trail[l]
             item == ItemAt(lower, lower.read)
             next == [k \in 1..l |-> trail[k]]
  <2>1. l \in Nat /\ l > 0 /\ l \in 1..n /\ n \in 2..n /\ n - 1 = l /\ l # n
    <3>1. n \in Nat /\ n > 0 /\ n # 1  BY <1>1, <1>5
    <3> HIDE DEF n
    <3> QED  BY <3>1
  <2>2. trail \in Seq(Mark) /\ lower \in Mark  BY <2>1 DEF TrailFits
  <2>3. Executes(m, lower)  BY <2>1 DEF TrailFits
  <2>4. lower.read \in Nat /\ lower.read <= Len(lower.txs) /\ Len(lower.txs) \in Nat
    <3>1. MarkOK(lower, total)  BY <2>1 DEF TrailFits
    <3> HIDE DEF lower, total
    <3> QED  BY <2>2, <3>1 DEF MarkOK, Mark
  <2> HIDE DEF lower, m
  <2>5. /\ lower.read > 0 /\ IsBatch(item)
        /\ m.library = item.tx.to /\ m.txs = item.tx.batch
        /\ m.this = IF item.tx.operation = 1 THEN item.this ELSE item.tx.to
        /\ m.before = DoneBy(lower, lower.read - 1)
    BY <2>3 DEF Executes
  <2>6. lower.read \in 1..Len(lower.txs)  BY <2>4, <2>5
  <2>7. item \in Item /\ DoneBy(lower, lower.read) = DoneBy(lower, lower.read - 1) \o CallsOf[item]
    BY <2>2, <2>6, DoneByMark
  <2>8. CallsOf[item] = Done(m.library, m.this, m.txs, all)
    <3> HIDE DEF item
    <3> QED  BY <2>5, <2>7, BatchIsDone
  <2>9. executed = DoneBy(lower, lower.read)
    <3>1. executed = m.before \o Done(m.library, m.this, m.txs, all)
      BY <1>1, <1>2 DEF DoneBy
    <3> QED  BY <2>5, <2>7, <2>8, <3>1
  <2>10. next \in Seq(Mark) /\ Len(next) = l /\ \A k \in 1..l : next[k] = trail[k]
    <3>1. \A k \in 1..l : trail[k] \in Mark
      <4>1. \A k \in 1..l : k \in 1..n  BY <2>1
      <4> QED  BY <2>2, <4>1
    <3> HIDE DEF l
    <3> QED  BY <2>1, <3>1
  <2> HIDE DEF next
  <2>11. stack' = [k \in 1..l |-> FrameOf(next[k])]
    BY <1>1, <1>3, <2>10
  <2>12. Below # <<>>
    <3>1. Below = [k \in 1..l |-> FrameOf(next[k])]  BY <1>3, <2>11
    <3>2. 1 \in 1..l  BY <2>1
    <3> HIDE DEF l
    <3>3. 1 \in DOMAIN Below  BY <3>1, <3>2
    <3> QED  BY <3>3
  <2>13. \A k \in 1..l : MarkOK(next[k], total)
    <3>1. \A k \in 1..l : k \in 1..n  BY <2>1
    <3> QED  BY <2>10, <3>1 DEF TrailFits
  <2>14. \A k \in 2..l : Executes(next[k], next[k - 1])
    <3>1. \A k \in 2..l : k \in 2..n /\ k \in 1..l /\ k - 1 \in 1..l  BY <2>1
    <3> QED  BY <2>10, <3>1 DEF TrailFits
  <2>15. /\ next[1].library = batch.library /\ next[1].this = SafeAddress
         /\ next[1].txs = batch.txs /\ next[1].before = <<>>
    <3>1. 1 \in 1..l  BY <2>1
    <3> QED  BY <2>10, <3>1 DEF TrailFits
  <2>16. executed' = DoneBy(next[Len(next)], next[Len(next)].read)
    <3>1. l \in 1..l  BY <2>1
    <3>2. next[l] = lower  BY <2>10, <3>1 DEF lower
    <3> QED  BY <1>3, <2>9, <2>10, <3>2
  <2>17. TrailFits(next, batch, stack', executed')
    <3>1. Len(next) > 0 /\ Len(next) = l  BY <2>1, <2>10
    <3> HIDE DEF l
    <3> QED  BY <2>10, <2>11, <2>13, <2>14, <2>15, <2>16, <3>1 DEF TrailFits, total
  <2> QED  BY <2>12, <2>17
<1> QED  BY <1>4, <1>5

\* Every round of the loop, nested call, return and failure preserves it.
LEMMA BatchStep ==
  ASSUME BatchInv, [Next]_vars
  PROVE  BatchInv'
<1>1. CASE UNCHANGED vars
  BY <1>1 DEF BatchInv, vars
<1>2. CASE Revert
  BY <1>2 DEF Revert, BatchInv
<1>3. ASSUME stack # <<>>
      PROVE  status = "running" /\ \E trail : TrailFits(trail, batch, stack, executed)
  BY <1>3 DEF BatchInv
<1>4. CASE /\ stack # <<>> /\ More(Top) /\ ~Refused(Top, Read(Top))
           /\ Call(Top, Read(Top)) \/ CallBatch(Top, Read(Top))
  <2>1. UNCHANGED <<batch, status>>  BY <1>4 DEF Call, CallBatch
  <2>2. PICK trail : TrailFits(trail, batch, stack, executed)  BY <1>3, <1>4
  <2>3. \E next : TrailFits(next, batch, stack', executed')
    BY <1>4, <2>2, CallKeeps, CallBatchKeeps
  <2> QED  BY <1>3, <1>4, <2>1, <2>3 DEF BatchInv
<1>5. CASE Return
  <2>1. /\ stack # <<>> /\ ~More(Top) /\ batch' = batch
        /\ status' = IF Below = <<>> THEN "done" ELSE status
    BY <1>5 DEF Return
  <2>2. PICK trail : TrailFits(trail, batch, stack, executed)  BY <1>3, <2>1
  <2>3. \/ /\ Below = <<>> /\ stack' = <<>>
           /\ executed' = Meaning(batch.library, SafeAddress, batch.txs)
        \/ /\ Below # <<>>
           /\ \E next : TrailFits(next, batch, stack', executed')
    BY <1>5, <2>1, <2>2, ReturnKeeps
  <2> QED  BY <1>3, <2>1, <2>3 DEF BatchInv
<1> QED  BY <1>1, <1>2, <1>4, <1>5 DEF Next, Execute

\* So it holds in every reachable state.
LEMMA BatchInvariant == Spec => []BatchInv
<1>1. Init => BatchInv
  <2> SUFFICES ASSUME Init  PROVE BatchInv
    OBVIOUS
  <2>1. \E trail : TrailFits(trail, batch, stack, executed)
    BY TrailBegins DEF Init
  <2> QED  BY <2>1 DEF Init, BatchInv
<1>2. BatchInv /\ [Next]_vars => BatchInv'  BY BatchStep
<1> QED  BY <1>1, <1>2, PTL DEF Spec

\* However deep batches are nested and whatever the lengths of their data: while the loops
\* run a first part of what the batch means has been executed, at their end all of it in
\* order, each call from the right account, and after a failure nothing (MultiSend.sol:19).
THEOREM AllOrNothingAlways == Spec => []AllOrNothing
<1>1. BatchInv => AllOrNothing
  <2> SUFFICES ASSUME BatchInv  PROVE AllOrNothing
    OBVIOUS
  <2>1. ASSUME NEW trail, TrailFits(trail, batch, stack, executed)
        PROVE  IsPrefix(executed, Meaning(batch.library, SafeAddress, batch.txs))
    <3> DEFINE n == Len(trail)
               m == trail[n]
               total == Meaning(batch.library, SafeAddress, batch.txs)
    <3>1. /\ n \in Nat /\ n > 0 /\ m \in Mark /\ m.read \in Nat /\ Len(m.txs) \in Nat
          /\ m.read <= Len(m.txs) /\ executed = DoneBy(m, m.read) /\ executed \in Seq(Outcome)
      BY <2>1, TopOfTrail
    <3>2. Begins(DoneBy(m, Len(m.txs)), total)
      <4>1. n \in 1..n  BY <3>1
      <4> QED  BY <2>1, <4>1 DEF TrailFits, MarkOK
    <3> HIDE DEF m, total
    <3>3. Begins(executed, DoneBy(m, Len(m.txs)))
      <4>1. m.read \in 0..Len(m.txs)  BY <3>1
      <4> QED  BY <3>1, <4>1, DoneByMark
    <3>4. Begins(executed, total)  BY <3>1, <3>2, <3>3, BeginsTransitive
    <3> QED  BY <3>1, <3>4, BeginsIsPrefix DEF total
  <2> QED  BY <2>1 DEF BatchInv, AllOrNothing
<1> QED  BY <1>1, BatchInvariant, PTL
================================================================================
