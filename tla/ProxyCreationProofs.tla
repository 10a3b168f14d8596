------------------------- MODULE ProxyCreationProofs --------------------------
(***************************************************************************)
(* Safes are what their addresses promise, for any chains, singletons,     *)
(* configurations and callbacks, and whatever the code does that setup,    *)
(* payment and callback run: ProxyCreation implements AccountRegistry.     *)
(***************************************************************************)
EXTENDS ProxyCreation, SequenceTheorems, FiniteSetTheorems, TLAPS

--------------------------------------------------------------------------------
(***************************************************************************)
(* The invariant.  A revert brings back a world of before, so all that is  *)
(* claimed of the world is claimed of each one that an open call would     *)
(* restore, for the n calls that stay open then.                           *)
(***************************************************************************)
Kind == {"setup", "createProxy", "createChainSpecificProxy", "createProxyWithCallback"}
Pc == {"initializer", "payment", "deployed", "callback"}

\* An account with its owners, before and after the initializer of its setup.
Half(config) ==
  [owners |-> config.owners, threshold |-> config.threshold,
   handler |-> config.handler, modules |-> {}]
Full(config) == Registry!Configured(config)

Setting ==
  {Fresh, SingletonStorage} \cup {Half(x) : x \in Config} \cup {Full(x) : x \in Config}

Place == Singleton \cup UNION {ProxyAddress(c) : c \in Chain}

Requests ==
  [singleton : Singleton, saltNonce : AnyNonce, callback : Callback \cup {NoCallback}]
    \cup {NoRequest}

Entry ==
  [type : {"setup", "initialized", "ProxyCreation", "proxyCreated"}, by : Kind,
   chain : Chain, at : Place, config : Initializer, request : Requests]

World ==
  [storage : [Chain -> UNION {[D -> Setting] : D \in SUBSET Place}], trace : Seq(Entry)]

Call ==
  [kind : Kind, chain : Chain, at : Place, config : Initializer,
   request : Requests, pc : Pc, entry : World]

TypeOK == world \in World /\ stack \in Seq(Call)

Logged(w, type, chain, at) ==
  {i \in DOMAIN w.trace :
     w.trace[i].type = type /\ w.trace[i].chain = chain /\ w.trace[i].at = at}

\* Nothing is but singletons and what the factory can create there; what is logged is there.
PlacesOK(w) ==
  /\ \A c \in Chain : DOMAIN w.storage[c] \subseteq Singleton \cup ProxyAddress(c)
  /\ \A i \in DOMAIN w.trace : w.trace[i].at \in DOMAIN w.storage[w.trace[i].chain]

SingletonsOK(w) ==
  \A c \in Chain : \A at \in DOMAIN w.storage[c] \cap Singleton :
    w.storage[c][at] = SingletonStorage /\ Logged(w, "setup", c, at) = {}

\* An account has never been set up, or once, and is half set up during an open call only.
SetBy(w, n, st, c, at, i) ==
  LET x == w.trace[i].config
  IN /\ Logged(w, "setup", c, at) = {i}
     /\ x \in Config /\ x.threshold \in Int \ {0}
     /\ at.initializer \in {Empty, x}
     /\ \/ w.storage[c][at] = Full(x)
        \/ /\ w.storage[c][at] = Half(x)
           /\ \E k \in 1..n : st[k].pc = "initializer" /\ st[k].chain = c /\ st[k].at = at

AccountsOK(w, n, st) ==
  \A c \in Chain : \A at \in DOMAIN w.storage[c] \ Singleton :
    \/ /\ at.initializer = Empty /\ w.storage[c][at] = Fresh
       /\ Logged(w, "setup", c, at) = {}
    \/ \E i \in DOMAIN w.trace : SetBy(w, n, st, c, at, i)

\* What a call of the factory is for is where its client expects it.
NamedOK(f) == f.at = ExpectedAddress(f.kind, f.request, f.config, f.chain)

\* What an open call knows without looking at the world.
CallOK(f) ==
  /\ f.at \notin Singleton
  /\ f.kind = "setup" => f.pc \in {"initializer", "payment"}
  /\ f.kind # "setup" => f.at.initializer = f.config /\ NamedOK(f)
  /\ f.pc \in {"initializer", "payment"} =>
       f.config \in Config /\ f.config.threshold \in Int \ {0}
  /\ f.at.initializer \in {Empty, f.config}
  /\ f.at \in DOMAIN f.entry.storage[f.chain] =>
       f.kind = "setup" /\ f.entry.storage[f.chain][f.at] = Fresh

\* What an open call can rely on, whatever the code does that it has called.
WaitsOK(w, f) ==
  /\ f.at \in DOMAIN w.storage[f.chain]
  /\ f.pc = "initializer" =>
       /\ w.storage[f.chain][f.at] = Half(f.config)
       /\ \A i \in Logged(w, "setup", f.chain, f.at) : w.trace[i].config = f.config
  /\ f.kind # "setup" /\ f.pc # "callback" =>
       /\ Logged(w, "ProxyCreation", f.chain, f.at) = {}
       /\ Logged(w, "proxyCreated", f.chain, f.at) = {}
  /\ f.pc = "deployed" /\ f.config # Empty =>
       Logged(w, "initialized", f.chain, f.at) # {}

CallsOK(w, n, st) == \A k \in 1..n : WaitsOK(w, st[k])

CalledBack(w, i) ==
  LET e == w.trace[i]
  IN /\ e.type = "ProxyCreation" => Logged(w, "ProxyCreation", e.chain, e.at) = {i}
     /\ e.type = "proxyCreated" =>
          /\ Logged(w, "proxyCreated", e.chain, e.at) = {i}
          /\ \E j \in Logged(w, "ProxyCreation", e.chain, e.at) : j < i
          /\ e.at.initializer # Empty =>
               \E j \in Logged(w, "initialized", e.chain, e.at) : j < i

CreatedWhere(e) ==
  e.type \in {"ProxyCreation", "proxyCreated"} =>
    e.at = ExpectedAddress(e.by, e.request, e.config, e.chain)

LogOK(w) == \A i \in DOMAIN w.trace : CalledBack(w, i) /\ CreatedWhere(w.trace[i])

\* The accounts of before the outermost call are there, and as they were if they were set up.
Extends(w, e) ==
  \A c \in Chain : \A at \in DOMAIN e.storage[c] \ Singleton :
    /\ at \in DOMAIN w.storage[c]
    /\ w.storage[c][at] = e.storage[c][at] \/ e.storage[c][at] = Fresh

WorldOK(w, n, st) ==
  /\ PlacesOK(w) /\ SingletonsOK(w) /\ AccountsOK(w, n, st)
  /\ CallsOK(w, n, st) /\ LogOK(w)
  /\ n > 0 => Extends(w, st[1].entry)

StackOK(n, st) ==
  \A k \in 1..n : st[k] \in Call /\ CallOK(st[k]) /\ WorldOK(st[k].entry, k - 1, st)

IndInv == StackOK(Len(stack), stack) /\ WorldOK(world, Len(stack), stack)

--------------------------------------------------------------------------------
(***************************************************************************)
(* How worlds change: an account gets a setting, the trace gets an entry.  *)
(***************************************************************************)
Put(w, c, at, v) ==
  [w EXCEPT !.storage[c] =
     [a \in DOMAIN w.storage[c] \cup {at} |-> IF a = at THEN v ELSE w.storage[c][a]]]

EntryOf(type, f) ==
  [type |-> type, by |-> f.kind, chain |-> f.chain, at |-> f.at, config |-> f.config,
   request |-> f.request]

LEMMA SettingsAre ==
  ASSUME NEW x \in Config
  PROVE  /\ Half(x) \in Setting /\ Full(x) \in Setting /\ Fresh \in Setting
         /\ SetOwners(Fresh, x) = Half(x)
         /\ [Half(x) EXCEPT !.modules = x.modules] = Full(x)
         /\ Half(x).threshold = x.threshold /\ Full(x).threshold = x.threshold
<1>1. SetOwners(Fresh, x) = Half(x)  BY DEF Half, Fresh, SetOwners
<1>2. [Half(x) EXCEPT !.modules = x.modules] = Full(x)
  BY DEF Half, Full, Registry!Configured
<1>3. Half(x).threshold = x.threshold /\ Full(x).threshold = x.threshold
  BY DEF Half, Full, Registry!Configured
<1>4. Half(x) \in Setting /\ Full(x) \in Setting /\ Fresh \in Setting
  BY DEF Setting
<1> QED  BY <1>1, <1>2, <1>3, <1>4

LEMMA StorageIs ==
  ASSUME NEW w \in World, NEW c \in Chain
  PROVE  /\ w.storage[c] \in [DOMAIN w.storage[c] -> Setting]
         /\ DOMAIN w.storage[c] \subseteq Place
<1>1. PICK D \in SUBSET Place : w.storage[c] \in [D -> Setting]
  BY DEF World
<1> QED  BY <1>1

LEMMA TraceIs ==
  ASSUME NEW w \in World
  PROVE  /\ w.trace \in Seq(Entry)
         /\ \A i \in DOMAIN w.trace : w.trace[i] \in Entry /\ w.trace[i].chain \in Chain
<1>1. w.trace \in Seq(Entry)  BY DEF World
<1>2. \A i \in DOMAIN w.trace : w.trace[i] \in Entry  BY <1>1
<1> QED  BY <1>1, <1>2 DEF Entry

LEMMA PutIs ==
  ASSUME NEW w \in World, NEW c \in Chain, NEW at \in Place, NEW v \in Setting
  PROVE  /\ Put(w, c, at, v) \in World
         /\ Put(w, c, at, v).trace = w.trace
         /\ \A d \in Chain \ {c} : Put(w, c, at, v).storage[d] = w.storage[d]
         /\ DOMAIN Put(w, c, at, v).storage[c] = DOMAIN w.storage[c] \cup {at}
         /\ Put(w, c, at, v).storage[c][at] = v
         /\ \A a \in DOMAIN w.storage[c] \ {at} :
              Put(w, c, at, v).storage[c][a] = w.storage[c][a]
<1> DEFINE s == [a \in DOMAIN w.storage[c] \cup {at} |->
                   IF a = at THEN v ELSE w.storage[c][a]]
<1>1. s \in UNION {[D -> Setting] : D \in SUBSET Place}
  <2>1. DOMAIN w.storage[c] \cup {at} \in SUBSET Place  BY StorageIs
  <2>2. s \in [DOMAIN w.storage[c] \cup {at} -> Setting]  BY StorageIs
  <2> QED  BY <2>1, <2>2
<1>2. Put(w, c, at, v) = [w EXCEPT !.storage = [w.storage EXCEPT ![c] = s]]
  BY DEF Put, World
<1>3. Put(w, c, at, v) \in World
  <2> HIDE DEF s
  <2> QED  BY <1>1, <1>2 DEF World
<1>4. Put(w, c, at, v).storage = [w.storage EXCEPT ![c] = s] /\ Put(w, c, at, v).trace = w.trace
  <2> HIDE DEF s
  <2> QED  BY <1>2 DEF World
<1>5. /\ \A d \in Chain \ {c} : Put(w, c, at, v).storage[d] = w.storage[d]
      /\ Put(w, c, at, v).storage[c] = s
  <2> HIDE DEF s
  <2> QED  BY <1>4 DEF World
<1> QED  BY <1>3, <1>4, <1>5

LEMMA DeployedIsPut ==
  ASSUME NEW w \in World, NEW c \in Chain, NEW at \in Place,
         at \notin DOMAIN w.storage[c]
  PROVE  Deployed(w, c, at) = Put(w, c, at, Fresh)
BY DEF Deployed, Put, World

LEMMA EditIsPut ==
  ASSUME NEW w \in World, NEW c \in Chain, NEW at \in DOMAIN w.storage[c], NEW v
  PROVE  [w EXCEPT !.storage[c][at] = v] = Put(w, c, at, v)
<1>1. [w.storage[c] EXCEPT ![at] = v]
        = [a \in DOMAIN w.storage[c] \cup {at} |-> IF a = at THEN v ELSE w.storage[c][a]]
  BY StorageIs
<1> QED  BY <1>1 DEF Put, World

LEMMA NoteIs ==
  ASSUME NEW w \in World, NEW f \in Call,
         NEW type \in {"setup", "initialized", "ProxyCreation", "proxyCreated"}
  PROVE  /\ Note(w, type, f) \in World
         /\ Note(w, type, f).storage = w.storage
         /\ Note(w, type, f).trace = Append(w.trace, EntryOf(type, f))
         /\ EntryOf(type, f) \in Entry
<1>1. EntryOf(type, f) \in Entry  BY DEF EntryOf, Call, Entry
<1>2. w.trace \in Seq(Entry)  BY DEF World
<1>3. Append(w.trace, EntryOf(type, f)) \in Seq(Entry)
  BY <1>1, <1>2, AppendProperties
<1>4. Note(w, type, f) = [w EXCEPT !.trace = Append(w.trace, EntryOf(type, f))]
  BY DEF Note, EntryOf
<1> QED  BY <1>1, <1>3, <1>4 DEF World

LEMMA NotedIs ==
  ASSUME NEW w \in World, NEW f \in Call,
         NEW type \in {"setup", "initialized", "ProxyCreation", "proxyCreated"},
         NEW v, v.trace = Append(w.trace, EntryOf(type, f))
  PROVE  /\ \A t, c, at :
              Logged(v, t, c, at) =
                IF t = type /\ c = f.chain /\ at = f.at
                THEN Logged(w, t, c, at) \cup {Len(w.trace) + 1} ELSE Logged(w, t, c, at)
         /\ DOMAIN v.trace = DOMAIN w.trace \cup {Len(w.trace) + 1}
         /\ \A i \in DOMAIN w.trace : v.trace[i] = w.trace[i]
         /\ v.trace[Len(w.trace) + 1] = EntryOf(type, f)
         /\ DOMAIN w.trace = 1..Len(w.trace) /\ Len(w.trace) \in Nat
<1>1. w.trace \in Seq(Entry)  BY DEF World
<1>2. EntryOf(type, f) \in Entry  BY DEF EntryOf, Call, Entry
<1>3. /\ DOMAIN w.trace = 1..Len(w.trace) /\ Len(w.trace) \in Nat
      /\ DOMAIN v.trace = 1..(Len(w.trace) + 1)
      /\ \A i \in DOMAIN w.trace : v.trace[i] = w.trace[i]
      /\ v.trace[Len(w.trace) + 1] = EntryOf(type, f)
  BY <1>1, <1>2, AppendProperties, LenProperties
<1>4. DOMAIN v.trace = DOMAIN w.trace \cup {Len(w.trace) + 1}  BY <1>3
<1>5. ASSUME NEW t, NEW c, NEW at
      PROVE  Logged(v, t, c, at) =
               IF t = type /\ c = f.chain /\ at = f.at
               THEN Logged(w, t, c, at) \cup {Len(w.trace) + 1} ELSE Logged(w, t, c, at)
  <2>1. /\ v.trace[Len(w.trace) + 1].type = type
        /\ v.trace[Len(w.trace) + 1].chain = f.chain
        /\ v.trace[Len(w.trace) + 1].at = f.at
    BY <1>3 DEF EntryOf
  <2> QED  BY <1>3, <1>4, <2>1 DEF Logged
<1> QED  BY <1>3, <1>4, <1>5

--------------------------------------------------------------------------------
(***************************************************************************)
(* Opening and closing calls, in a world that stays as it is.              *)
(***************************************************************************)
LEMMA SameCalls ==
  ASSUME NEW w, NEW n \in Nat, NEW st, NEW st2, WorldOK(w, n, st),
         \A k \in 1..n : st2[k] = st[k]
  PROVE  WorldOK(w, n, st2)
<1>1. AccountsOK(w, n, st2)  BY DEF WorldOK, AccountsOK, SetBy
<1>2. CallsOK(w, n, st2)  BY DEF WorldOK, CallsOK
<1>3. n > 0 => st2[1] = st[1]  OBVIOUS
<1> QED  BY <1>1, <1>2, <1>3 DEF WorldOK

LEMMA ClosedOK ==
  ASSUME NEW w, NEW n \in Nat \ {0}, NEW st, WorldOK(w, n, st), st[n].pc # "initializer"
  PROVE  WorldOK(w, n - 1, st)
<1>1. \A k \in 1..n : st[k].pc = "initializer" => k \in 1..(n - 1)  OBVIOUS
<1>2. AccountsOK(w, n - 1, st)
  <2> SUFFICES ASSUME NEW c \in Chain, NEW at \in DOMAIN w.storage[c] \ Singleton,
                      NEW i \in DOMAIN w.trace, SetBy(w, n, st, c, at, i)
               PROVE  SetBy(w, n - 1, st, c, at, i)
    BY DEF WorldOK, AccountsOK
  <2> QED  BY <1>1 DEF SetBy
<1>3. CallsOK(w, n - 1, st)  BY DEF WorldOK, CallsOK
<1> QED  BY <1>2, <1>3 DEF WorldOK

LEMMA OpenedOK ==
  ASSUME NEW w, NEW n \in Nat \ {0}, NEW st, NEW st2, WorldOK(w, n - 1, st),
         \A k \in 1..(n - 1) : st2[k] = st[k],
         WaitsOK(w, st2[n]), Extends(w, st2[1].entry)
  PROVE  WorldOK(w, n, st2)
<1>0. WorldOK(w, n - 1, st2)  BY SameCalls
<1>1. 1..(n - 1) \subseteq 1..n  OBVIOUS
<1>2. AccountsOK(w, n, st2)
  <2> SUFFICES ASSUME NEW c \in Chain, NEW at \in DOMAIN w.storage[c] \ Singleton,
                      NEW i \in DOMAIN w.trace, SetBy(w, n - 1, st2, c, at, i)
               PROVE  SetBy(w, n, st2, c, at, i)
    BY <1>0 DEF WorldOK, AccountsOK
  <2> QED  BY <1>1 DEF SetBy
<1>3. CallsOK(w, n, st2)
  <2>1. \A k \in 1..n : k \in 1..(n - 1) \/ k = n  OBVIOUS
  <2> QED  BY <1>0, <2>1 DEF WorldOK, CallsOK
<1> QED  BY <1>0, <1>2, <1>3 DEF WorldOK

\* The stack keeps its promises when a call opens, returns or goes on.
LEMMA StackGrows ==
  ASSUME NEW n \in Nat \ {0}, NEW st, NEW st2, StackOK(n - 1, st),
         \A k \in 1..(n - 1) : st2[k] = st[k],
         st2[n] \in Call, CallOK(st2[n]), WorldOK(st2[n].entry, n - 1, st)
  PROVE  StackOK(n, st2)
<1> SUFFICES ASSUME NEW k \in 1..n
             PROVE  st2[k] \in Call /\ CallOK(st2[k]) /\ WorldOK(st2[k].entry, k - 1, st2)
  BY DEF StackOK
<1>1. CASE k \in 1..(n - 1)
  <2>1. /\ st[k] \in Call /\ CallOK(st[k]) /\ st2[k] = st[k]
        /\ WorldOK(st[k].entry, k - 1, st)
    BY <1>1 DEF StackOK
  <2>2. k - 1 \in Nat /\ \A j \in 1..(k - 1) : st2[j] = st[j]  BY <1>1
  <2> QED  BY <2>1, <2>2, SameCalls
<1>2. CASE k = n  BY <1>2, SameCalls
<1> QED  BY <1>1, <1>2

--------------------------------------------------------------------------------
(***************************************************************************)
(* The trace gets longer: setup is over, the factory announces a proxy or  *)
(* calls back.                                                             *)
(***************************************************************************)
LEMMA NotedOK ==
  ASSUME NEW w \in World, NEW n \in Nat, NEW st, WorldOK(w, n, st), NEW f \in Call,
         NEW type \in {"initialized", "ProxyCreation", "proxyCreated"},
         f.at \in DOMAIN w.storage[f.chain],
         type # "initialized" =>
           \A k \in 1..n : st[k].kind # "setup" /\ st[k].pc # "callback" =>
                             ~(st[k].chain = f.chain /\ st[k].at = f.at),
         CalledBack(Note(w, type, f), Len(w.trace) + 1),
         CreatedWhere(EntryOf(type, f))
  PROVE  WorldOK(Note(w, type, f), n, st)
<1> DEFINE v == Note(w, type, f)
           z == Len(w.trace) + 1
<1>1. v \in World /\ v.storage = w.storage /\ v.trace = Append(w.trace, EntryOf(type, f))
  <2>1. type \in {"setup", "initialized", "ProxyCreation", "proxyCreated"}  OBVIOUS
  <2> QED  BY <2>1, NoteIs
<1>2. /\ \A t, c, at : Logged(w, t, c, at) \subseteq Logged(v, t, c, at)
      /\ \A c, at : Logged(v, "setup", c, at) = Logged(w, "setup", c, at)
      /\ \A t, c, at : t # type \/ ~(c = f.chain /\ at = f.at) =>
                         Logged(v, t, c, at) = Logged(w, t, c, at)
      /\ Logged(v, type, f.chain, f.at) = Logged(w, type, f.chain, f.at) \cup {z}
      /\ DOMAIN v.trace = DOMAIN w.trace \cup {z}
      /\ \A i \in DOMAIN w.trace : v.trace[i] = w.trace[i]
      /\ v.trace[z] = EntryOf(type, f)
      /\ z \notin DOMAIN w.trace
  <2> HIDE DEF v
  <2> QED  BY <1>1, NotedIs
<1> HIDE DEF v, z
<1>3. PlacesOK(v)
  <2>1. \A i \in DOMAIN v.trace : v.trace[i].at \in DOMAIN v.storage[v.trace[i].chain]
    <3>1. v.trace[z].at = f.at /\ v.trace[z].chain = f.chain  BY <1>2 DEF EntryOf
    <3> QED  BY <1>1, <1>2, <3>1 DEF WorldOK, PlacesOK
  <2> QED  BY <1>1, <2>1 DEF WorldOK, PlacesOK
<1>4. SingletonsOK(v)  BY <1>1, <1>2 DEF WorldOK, SingletonsOK
<1>5. AccountsOK(v, n, st)
  <2> SUFFICES ASSUME NEW c \in Chain, NEW at \in DOMAIN w.storage[c] \ Singleton,
                      NEW i \in DOMAIN w.trace, SetBy(w, n, st, c, at, i)
               PROVE  SetBy(v, n, st, c, at, i)
    BY <1>1, <1>2 DEF WorldOK, AccountsOK
  <2> QED  BY <1>1, <1>2 DEF SetBy
<1>6. CallsOK(v, n, st)
  <2> SUFFICES ASSUME NEW k \in 1..n  PROVE WaitsOK(v, st[k])
    BY DEF CallsOK
  <2>1. WaitsOK(w, st[k])  BY DEF WorldOK, CallsOK
  <2>2. st[k].kind # "setup" /\ st[k].pc # "callback" =>
          /\ Logged(v, "ProxyCreation", st[k].chain, st[k].at) = {}
          /\ Logged(v, "proxyCreated", st[k].chain, st[k].at) = {}
    BY <1>2, <2>1 DEF WaitsOK
  <2>3. \A i \in Logged(w, "setup", st[k].chain, st[k].at) : v.trace[i] = w.trace[i]
    BY <1>2 DEF Logged
  <2>4. Logged(w, "initialized", st[k].chain, st[k].at)
          \subseteq Logged(v, "initialized", st[k].chain, st[k].at)
    BY <1>2
  <2>5. st[k].pc = "initializer" =>
          /\ v.storage[st[k].chain][st[k].at] = Half(st[k].config)
          /\ \A i \in Logged(v, "setup", st[k].chain, st[k].at) :
               v.trace[i].config = st[k].config
    <3>1. Logged(v, "setup", st[k].chain, st[k].at) = Logged(w, "setup", st[k].chain, st[k].at)
      BY <1>2
    <3> QED  BY <1>1, <2>1, <2>3, <3>1 DEF WaitsOK
  <2>6. st[k].pc = "deployed" /\ st[k].config # Empty =>
          Logged(v, "initialized", st[k].chain, st[k].at) # {}
    BY <2>1, <2>4 DEF WaitsOK
  <2>7. st[k].at \in DOMAIN v.storage[st[k].chain]  BY <1>1, <2>1 DEF WaitsOK
  <2> QED  BY <2>2, <2>5, <2>6, <2>7 DEF WaitsOK
<1>7. LogOK(v)
  <2> SUFFICES ASSUME NEW i \in DOMAIN w.trace  PROVE CalledBack(v, i)
    <3>1. \A i \in DOMAIN w.trace : CreatedWhere(v.trace[i])
      BY <1>2 DEF WorldOK, LogOK
    <3>2. CalledBack(v, z) /\ CreatedWhere(v.trace[z])  BY <1>2 DEF v, z
    <3> QED  BY <1>2, <3>1, <3>2 DEF LogOK
  <2>1. CalledBack(w, i) /\ v.trace[i] = w.trace[i]  BY <1>2 DEF WorldOK, LogOK
  <2>2. ASSUME NEW t \in {"ProxyCreation", "proxyCreated"}, w.trace[i].type = t
        PROVE  Logged(v, t, w.trace[i].chain, w.trace[i].at) = {i}
    <3>0. Logged(w, t, w.trace[i].chain, w.trace[i].at) = {i}
      BY <2>1, <2>2 DEF CalledBack
    <3>1. SUFFICES ASSUME type = t, w.trace[i].chain = f.chain, w.trace[i].at = f.at
                   PROVE  FALSE
      BY <1>2, <3>0
    <3>2. Logged(v, type, f.chain, f.at) = {z}
      <4>1. CalledBack(v, z)  BY DEF v, z
      <4>2. v.trace[z].type = type /\ v.trace[z].chain = f.chain /\ v.trace[z].at = f.at
        BY <1>2 DEF EntryOf
      <4> QED  BY <2>2, <3>1, <4>1, <4>2 DEF CalledBack
    <3> QED  BY <1>2, <3>0, <3>1, <3>2
  <2>3. \A t, c, at : Logged(w, t, c, at) \subseteq Logged(v, t, c, at)  BY <1>2
  <2> QED  BY <2>1, <2>2, <2>3 DEF CalledBack
<1>8. n > 0 => Extends(v, st[1].entry)  BY <1>1 DEF WorldOK, Extends
<1> QED  BY <1>3, <1>4, <1>5, <1>6, <1>7, <1>8 DEF WorldOK, v

--------------------------------------------------------------------------------
(***************************************************************************)
(* The storage changes: an account is deployed, set up, or given modules.  *)
(***************************************************************************)
LEMMA ProxiesAre ==
  ASSUME NEW c \in Chain, NEW at \in ProxyAddress(c)
  PROVE  /\ at \in Place /\ at \notin Singleton
         /\ at.chain \in {NoChain, c}
BY HashAssumption DEF Place, ProxyAddress, Address

LEMMA NotFresh ==
  ASSUME NEW x, x.threshold \in Int \ {0}
  PROVE  Half(x) # Fresh /\ Full(x) # Fresh
<1>1. Half(x).threshold # 0 /\ Full(x).threshold # 0
  BY DEF Half, Full, Registry!Configured
<1> QED  BY <1>1 DEF Fresh

\* Nothing has happened where nothing is.
LEMMA NothingLogged ==
  ASSUME NEW w, NEW n, NEW st, WorldOK(w, n, st), NEW c \in Chain, NEW at,
         at \notin DOMAIN w.storage[c]
  PROVE  \A t : Logged(w, t, c, at) = {}
BY DEF WorldOK, PlacesOK, Logged

LEMMA FreshIsNew ==
  ASSUME NEW w, NEW n, NEW st, WorldOK(w, n, st), NEW c \in Chain,
         NEW at \in DOMAIN w.storage[c] \ Singleton, w.storage[c][at] = Fresh
  PROVE  at.initializer = Empty /\ Logged(w, "setup", c, at) = {}
<1>1. ASSUME NEW i \in DOMAIN w.trace, SetBy(w, n, st, c, at, i)  PROVE FALSE
  BY <1>1, NotFresh DEF SetBy
<1> QED  BY <1>1 DEF WorldOK, AccountsOK

\* Two open calls for one account: the later one found it, not yet set up.
LEMMA LaterCall ==
  ASSUME NEW n \in Nat, NEW st, StackOK(n, st), NEW k \in 1..n, NEW j \in 1..n, k < j,
         st[k].chain = st[j].chain, st[k].at = st[j].at
  PROVE  st[j].kind = "setup" /\ st[k].pc # "initializer"
<1>1. k \in 1..(j - 1)  OBVIOUS
<1>2. CallOK(st[j]) /\ CallOK(st[k]) /\ WaitsOK(st[j].entry, st[k])
  BY <1>1 DEF StackOK, WorldOK, CallsOK
<1>3. /\ st[j].kind = "setup"
      /\ st[j].entry.storage[st[j].chain][st[j].at] = Fresh
  BY <1>2 DEF WaitsOK, CallOK
<1>4. ASSUME st[k].pc = "initializer"  PROVE FALSE
  <2>1. st[k].config.threshold \in Int \ {0}  BY <1>2, <1>4 DEF CallOK
  <2>2. Half(st[k].config) = Fresh  BY <1>2, <1>3, <1>4 DEF WaitsOK
  <2> QED  BY <2>1, <2>2, NotFresh
<1> QED  BY <1>3, <1>4

LEMMA DeployedOK ==
  ASSUME NEW w \in World, NEW n \in Nat, NEW st, StackOK(n, st), WorldOK(w, n, st),
         NEW c \in Chain, NEW at \in ProxyAddress(c), at \notin DOMAIN w.storage[c],
         at.initializer = Empty
  PROVE  WorldOK(Put(w, c, at, Fresh), n, st)
<1> DEFINE v == Put(w, c, at, Fresh)
<1>0. at \in Place /\ at \notin Singleton  BY ProxiesAre
<1>1. /\ v \in World /\ v.trace = w.trace
      /\ \A d \in Chain \ {c} : v.storage[d] = w.storage[d]
      /\ DOMAIN v.storage[c] = DOMAIN w.storage[c] \cup {at}
      /\ v.storage[c][at] = Fresh
      /\ \A a \in DOMAIN w.storage[c] \ {at} : v.storage[c][a] = w.storage[c][a]
  BY <1>0, PutIs DEF Setting
<1>2. \A t : Logged(w, t, c, at) = {}  BY NothingLogged
<1>3. \A t, d, a : Logged(v, t, d, a) = Logged(w, t, d, a)  BY <1>1 DEF Logged
<1>4. \A d \in Chain : \A a \in DOMAIN w.storage[d] :
        a \in DOMAIN v.storage[d] /\ v.storage[d][a] = w.storage[d][a]
  BY <1>1
<1> HIDE DEF v
<1>5. PlacesOK(v)
  <2>1. \A i \in DOMAIN w.trace : w.trace[i].chain \in Chain  BY TraceIs
  <2>2. \A i \in DOMAIN v.trace : v.trace[i].at \in DOMAIN v.storage[v.trace[i].chain]
    BY <1>1, <1>4, <2>1 DEF WorldOK, PlacesOK
  <2> QED  BY <1>1, <2>2 DEF WorldOK, PlacesOK
<1>6. SingletonsOK(v)
  <2> SUFFICES ASSUME NEW d \in Chain, NEW a \in DOMAIN v.storage[d] \cap Singleton
               PROVE  v.storage[d][a] = SingletonStorage /\ Logged(v, "setup", d, a) = {}
    BY DEF SingletonsOK
  <2>1. a \in DOMAIN w.storage[d]  BY <1>0, <1>1
  <2> QED  BY <1>3, <1>4, <2>1 DEF WorldOK, SingletonsOK
<1>7. AccountsOK(v, n, st)
  <2> SUFFICES ASSUME NEW d \in Chain, NEW a \in DOMAIN v.storage[d] \ Singleton
               PROVE  \/ /\ a.initializer = Empty /\ v.storage[d][a] = Fresh
                         /\ Logged(v, "setup", d, a) = {}
                      \/ \E i \in DOMAIN v.trace : SetBy(v, n, st, d, a, i)
    BY DEF AccountsOK
  <2>1. CASE d = c /\ a = at  BY <1>1, <1>2, <1>3, <2>1
  <2>2. CASE ~(d = c /\ a = at)
    <3>1. a \in DOMAIN w.storage[d] \ Singleton  BY <1>1, <2>2
    <3>2. \A i \in DOMAIN w.trace : SetBy(w, n, st, d, a, i) => SetBy(v, n, st, d, a, i)
      BY <1>1, <1>3, <1>4, <3>1 DEF SetBy
    <3> QED  BY <1>1, <1>3, <1>4, <3>1, <3>2 DEF WorldOK, AccountsOK
  <2> QED  BY <2>1, <2>2
<1>8. CallsOK(v, n, st)
  <2> SUFFICES ASSUME NEW k \in 1..n  PROVE WaitsOK(v, st[k])
    BY DEF CallsOK
  <2>1. WaitsOK(w, st[k])  BY DEF WorldOK, CallsOK
  <2>2. st[k].chain \in Chain  BY DEF StackOK, Call
  <2> QED  BY <1>1, <1>3, <1>4, <2>1, <2>2 DEF WaitsOK
<1>9. LogOK(v)  BY <1>1, <1>3 DEF WorldOK, LogOK, CalledBack
<1>10. n > 0 => Extends(v, st[1].entry)
  BY <1>4 DEF WorldOK, Extends
<1> QED  BY <1>5, <1>6, <1>7, <1>8, <1>9, <1>10 DEF WorldOK, v

\* The owners of f's account are set, in a world where it is not yet or is still fresh, and
\* the initializer of its setup is called.
LEMMA SetUpOK ==
  ASSUME NEW w \in World, NEW n \in Nat, NEW st, StackOK(n, st), WorldOK(w, n, st),
         NEW st2, \A k \in 1..n : st2[k] = st[k],
         NEW f \in Call, st2[n + 1] = f, CallOK(f), f.pc = "initializer", f.entry = w,
         f.at \in ProxyAddress(f.chain),
         f.kind = "setup" => f.at \in DOMAIN w.storage[f.chain]
  PROVE  WorldOK(Note(Put(w, f.chain, f.at, Half(f.config)), "setup", f), n + 1, st2)
<1> DEFINE c == f.chain
           at == f.at
           u == Put(w, c, at, Half(f.config))
           v == Note(u, "setup", f)
           z == Len(w.trace) + 1
<1>0. /\ at \in Place /\ at \notin Singleton /\ c \in Chain
      /\ f.config \in Config /\ f.config.threshold \in Int \ {0}
      /\ Half(f.config) \in Setting /\ Half(f.config) # Fresh
  <2>1. c \in Chain  BY DEF Call
  <2>2. f.config \in Config /\ f.config.threshold \in Int \ {0}  BY DEF CallOK
  <2> QED  BY <2>1, <2>2, ProxiesAre, SettingsAre, NotFresh
<1> HIDE DEF c, at
<1>1. /\ u \in World /\ u.trace = w.trace
      /\ \A d \in Chain \ {c} : u.storage[d] = w.storage[d]
      /\ DOMAIN u.storage[c] = DOMAIN w.storage[c] \cup {at}
      /\ u.storage[c][at] = Half(f.config)
      /\ \A a \in DOMAIN w.storage[c] \ {at} : u.storage[c][a] = w.storage[c][a]
  BY <1>0, PutIs
<1> HIDE DEF u
<1>2. v \in World /\ v.storage = u.storage /\ v.trace = Append(w.trace, EntryOf("setup", f))
  <2>1. "setup" \in {"setup", "initialized", "ProxyCreation", "proxyCreated"}  OBVIOUS
  <2>2. /\ v \in World /\ v.storage = u.storage
        /\ v.trace = Append(u.trace, EntryOf("setup", f))
    BY <1>1, <2>1, NoteIs, Zenon
  <2> QED  BY <1>1, <2>2
<1> HIDE DEF v
<1>3. /\ \A t, d, a : t # "setup" \/ ~(d = c /\ a = at) =>
                        Logged(v, t, d, a) = Logged(w, t, d, a)
      /\ Logged(v, "setup", c, at) = Logged(w, "setup", c, at) \cup {z}
      /\ DOMAIN v.trace = DOMAIN w.trace \cup {z}
      /\ \A i \in DOMAIN w.trace : v.trace[i] = w.trace[i]
      /\ v.trace[z] = EntryOf("setup", f)
      /\ z \notin DOMAIN w.trace
  <2>1. /\ \A t, d, a :
             Logged(v, t, d, a) =
               IF t = "setup" /\ d = f.chain /\ a = f.at
               THEN Logged(w, t, d, a) \cup {z} ELSE Logged(w, t, d, a)
        /\ DOMAIN v.trace = DOMAIN w.trace \cup {z}
        /\ \A i \in DOMAIN w.trace : v.trace[i] = w.trace[i]
        /\ v.trace[z] = EntryOf("setup", f)
        /\ DOMAIN w.trace = 1..Len(w.trace) /\ Len(w.trace) \in Nat
    BY <1>2, NotedIs
  <2> QED  BY <2>1 DEF c, at
<1> HIDE DEF z
<1>4. /\ at \in DOMAIN v.storage[c] /\ v.storage[c][at] = Half(f.config)
      /\ \A d \in Chain : DOMAIN w.storage[d] \subseteq DOMAIN v.storage[d]
      /\ \A d \in Chain : \A a \in DOMAIN v.storage[d] :
           ~(d = c /\ a = at) =>
             a \in DOMAIN w.storage[d] /\ v.storage[d][a] = w.storage[d][a]
  BY <1>0, <1>1, <1>2
<1>5. at \in DOMAIN w.storage[c] => f.kind = "setup" /\ w.storage[c][at] = Fresh
  BY DEF CallOK, c, at
<1>6. Logged(w, "setup", c, at) = {}
  BY <1>0, <1>5, NothingLogged, FreshIsNew
<1>7. PlacesOK(v)
  <2>1. \A i \in DOMAIN v.trace : v.trace[i].at \in DOMAIN v.storage[v.trace[i].chain]
    <3>1. v.trace[z].at = at /\ v.trace[z].chain = c  BY <1>3 DEF EntryOf, c, at
    <3>2. \A i \in DOMAIN w.trace : w.trace[i].chain \in Chain  BY TraceIs
    <3>3. \A i \in DOMAIN w.trace : v.trace[i].at \in DOMAIN v.storage[v.trace[i].chain]
      BY <1>3, <1>4, <3>2 DEF WorldOK, PlacesOK
    <3> QED  BY <1>3, <1>4, <3>1, <3>3
  <2>2. at \in ProxyAddress(c)  BY DEF c, at
  <2> QED  BY <1>1, <1>2, <2>1, <2>2 DEF WorldOK, PlacesOK
<1>8. SingletonsOK(v)
  <2> SUFFICES ASSUME NEW d \in Chain, NEW a \in DOMAIN v.storage[d] \cap Singleton
               PROVE  v.storage[d][a] = SingletonStorage /\ Logged(v, "setup", d, a) = {}
    BY DEF SingletonsOK
  <2> QED  BY <1>0, <1>3, <1>4 DEF WorldOK, SingletonsOK
<1>9. AccountsOK(v, n + 1, st2)
  <2> SUFFICES ASSUME NEW d \in Chain, NEW a \in DOMAIN v.storage[d] \ Singleton
               PROVE  \/ /\ a.initializer = Empty /\ v.storage[d][a] = Fresh
                         /\ Logged(v, "setup", d, a) = {}
                      \/ \E i \in DOMAIN v.trace : SetBy(v, n + 1, st2, d, a, i)
    BY DEF AccountsOK
  <2>1. CASE d = c /\ a = at
    <3>1. Logged(v, "setup", c, at) = {z} /\ z \in DOMAIN v.trace  BY <1>3, <1>6
    <3>2. v.trace[z].config = f.config  BY <1>3 DEF EntryOf
    <3>3. at.initializer \in {Empty, f.config}  BY DEF CallOK, at
    <3>4. n + 1 \in 1..(n + 1)  OBVIOUS
    <3>5. SetBy(v, n + 1, st2, c, at, z)
      BY <1>0, <1>4, <3>1, <3>2, <3>3, <3>4 DEF SetBy, c, at
    <3> QED  BY <2>1, <3>1, <3>5
  <2>2. CASE ~(d = c /\ a = at)
    <3>1. /\ a \in DOMAIN w.storage[d] \ Singleton
          /\ v.storage[d][a] = w.storage[d][a]
          /\ Logged(v, "setup", d, a) = Logged(w, "setup", d, a)
      BY <1>3, <1>4, <2>2
    <3>2. ASSUME NEW i \in DOMAIN w.trace, SetBy(w, n, st, d, a, i)
          PROVE  SetBy(v, n + 1, st2, d, a, i)
      <4>1. \A k \in 1..n : k \in 1..(n + 1) /\ st2[k] = st[k]  OBVIOUS
      <4> QED  BY <1>3, <3>1, <3>2, <4>1 DEF SetBy
    <3> QED  BY <1>3, <3>1, <3>2 DEF WorldOK, AccountsOK
  <2> QED  BY <2>1, <2>2
<1>10. CallsOK(v, n + 1, st2)
  <2>1. WaitsOK(v, f)
    <3>1. \A i \in Logged(v, "setup", c, at) : v.trace[i].config = f.config
      BY <1>3, <1>6 DEF EntryOf
    <3>2. f.kind # "setup" => /\ Logged(v, "ProxyCreation", c, at) = {}
                              /\ Logged(v, "proxyCreated", c, at) = {}
      BY <1>0, <1>3, <1>5, NothingLogged
    <3> QED  BY <1>4, <3>1, <3>2 DEF WaitsOK, c, at
  <2>2. ASSUME NEW k \in 1..n  PROVE WaitsOK(v, st[k])
    <3>1. WaitsOK(w, st[k]) /\ st[k].chain \in Chain /\ CallOK(st[k])
      BY DEF WorldOK, CallsOK, StackOK, Call
    <3>2. /\ st[k].at \in DOMAIN v.storage[st[k].chain]
          /\ \A t : t # "setup" =>
               Logged(v, t, st[k].chain, st[k].at) = Logged(w, t, st[k].chain, st[k].at)
      BY <1>3, <1>4, <3>1 DEF WaitsOK
    <3>3. ASSUME st[k].pc = "initializer"
          PROVE  /\ v.storage[st[k].chain][st[k].at] = Half(st[k].config)
                 /\ \A i \in Logged(v, "setup", st[k].chain, st[k].at) :
                      v.trace[i].config = st[k].config
      <4>1. ~(st[k].chain = c /\ st[k].at = at)
        <5>1. Half(st[k].config) # Fresh  BY <3>1, <3>3, NotFresh DEF CallOK
        <5> QED  BY <1>5, <3>1, <3>3, <5>1 DEF WaitsOK
      <4>2. Logged(v, "setup", st[k].chain, st[k].at) = Logged(w, "setup", st[k].chain, st[k].at)
        BY <1>3, <4>1
      <4>3. \A i \in Logged(w, "setup", st[k].chain, st[k].at) : v.trace[i] = w.trace[i]
        BY <1>3 DEF Logged
      <4>4. v.storage[st[k].chain][st[k].at] = w.storage[st[k].chain][st[k].at]
        BY <1>4, <3>1, <3>2, <4>1
      <4> QED  BY <3>1, <3>3, <4>2, <4>3, <4>4 DEF WaitsOK
    <3>4. /\ Logged(v, "ProxyCreation", st[k].chain, st[k].at)
               = Logged(w, "ProxyCreation", st[k].chain, st[k].at)
          /\ Logged(v, "proxyCreated", st[k].chain, st[k].at)
               = Logged(w, "proxyCreated", st[k].chain, st[k].at)
          /\ Logged(v, "initialized", st[k].chain, st[k].at)
               = Logged(w, "initialized", st[k].chain, st[k].at)
      BY <3>2
    <3> QED  BY <3>1, <3>2, <3>3, <3>4 DEF WaitsOK
  <2>3. \A k \in 1..(n + 1) : k \in 1..n \/ k = n + 1  OBVIOUS
  <2> QED  BY <2>1, <2>2, <2>3 DEF CallsOK
<1>11. LogOK(v)
  <2>1. ASSUME NEW i \in DOMAIN w.trace  PROVE CalledBack(v, i)
    <3>1. CalledBack(w, i)  BY DEF WorldOK, LogOK
    <3>2. \A t, d, a : t # "setup" => Logged(v, t, d, a) = Logged(w, t, d, a)
      BY <1>3
    <3>3. /\ Logged(v, "proxyCreated", w.trace[i].chain, w.trace[i].at)
               = Logged(w, "proxyCreated", w.trace[i].chain, w.trace[i].at)
          /\ Logged(v, "ProxyCreation", w.trace[i].chain, w.trace[i].at)
               = Logged(w, "ProxyCreation", w.trace[i].chain, w.trace[i].at)
          /\ Logged(v, "initialized", w.trace[i].chain, w.trace[i].at)
               = Logged(w, "initialized", w.trace[i].chain, w.trace[i].at)
      BY <3>2
    <3> QED  BY <1>3, <3>1, <3>3 DEF CalledBack
  <2>2. \A i \in DOMAIN w.trace : CreatedWhere(v.trace[i])
    BY <1>3 DEF WorldOK, LogOK
  <2>3. v.trace[z].type = "setup"  BY <1>3 DEF EntryOf
  <2>4. CalledBack(v, z)  BY <2>3 DEF CalledBack
  <2>5. CreatedWhere(v.trace[z])  BY <2>3 DEF CreatedWhere
  <2> QED  BY <1>3, <2>1, <2>2, <2>4, <2>5 DEF LogOK
<1>12. Extends(v, st2[1].entry)
  <2>1. Extends(w, st2[1].entry)
    <3>1. CASE n = 0
      BY <3>1 DEF Extends
    <3>2. CASE n > 0
      <4>1. st2[1] = st[1]  BY <3>2
      <4> QED  BY <3>2, <4>1 DEF WorldOK
    <3> QED  BY <3>1, <3>2
  <2> QED  BY <1>4, <1>5, <2>1 DEF Extends
<1> QED  BY <1>7, <1>8, <1>9, <1>10, <1>11, <1>12 DEF WorldOK, v, u, c, at

\* The initializer leaves its modules in the account of the innermost call.
LEMMA InitializedOK ==
  ASSUME NEW w \in World, NEW n \in Nat \ {0}, NEW st, StackOK(n, st), WorldOK(w, n, st),
         NEW f, f = st[n], f.pc = "initializer"
  PROVE  /\ WorldOK(Put(w, f.chain, f.at, Full(f.config)), n - 1, st)
         /\ Extends(Put(w, f.chain, f.at, Full(f.config)), st[1].entry)
<1> DEFINE c == f.chain
           at == f.at
           v == Put(w, c, at, Full(f.config))
<1>0. /\ f \in Call /\ CallOK(f) /\ WaitsOK(w, f)
      /\ WorldOK(f.entry, n - 1, st) /\ f.entry \in World
      /\ at \in DOMAIN w.storage[c] /\ at \in Place /\ at \notin Singleton /\ c \in Chain
      /\ f.config \in Config /\ f.config.threshold \in Int \ {0}
      /\ Full(f.config) \in Setting
  <2>1. n \in 1..n  OBVIOUS
  <2>2. f \in Call /\ CallOK(f) /\ WaitsOK(w, f) /\ WorldOK(f.entry, n - 1, st)
    BY <2>1 DEF StackOK, WorldOK, CallsOK
  <2>3. c \in Chain /\ at \in Place /\ f.entry \in World  BY <2>2 DEF Call
  <2>4. f.config \in Config /\ f.config.threshold \in Int \ {0} /\ at \notin Singleton
    BY <2>2 DEF CallOK
  <2>5. at \in DOMAIN w.storage[c]  BY <2>2 DEF WaitsOK
  <2> QED  BY <2>2, <2>3, <2>4, <2>5, SettingsAre
<1>1. /\ v \in World /\ v.trace = w.trace
      /\ \A d \in Chain \ {c} : v.storage[d] = w.storage[d]
      /\ DOMAIN v.storage[c] = DOMAIN w.storage[c] \cup {at}
      /\ v.storage[c][at] = Full(f.config)
      /\ \A a \in DOMAIN w.storage[c] \ {at} : v.storage[c][a] = w.storage[c][a]
  <2> HIDE DEF c, at
  <2> QED  BY <1>0, PutIs
<1> HIDE DEF c, at, v
<1>2. \A t, d, a : Logged(v, t, d, a) = Logged(w, t, d, a)  BY <1>1 DEF Logged
<1>3. /\ \A d \in Chain : DOMAIN v.storage[d] = DOMAIN w.storage[d]
      /\ \A d \in Chain : \A a \in DOMAIN w.storage[d] :
           ~(d = c /\ a = at) => v.storage[d][a] = w.storage[d][a]
  BY <1>0, <1>1
<1>4. PlacesOK(v)
  <2>1. \A i \in DOMAIN w.trace : w.trace[i].chain \in Chain  BY TraceIs
  <2> QED  BY <1>1, <1>3, <2>1 DEF WorldOK, PlacesOK
<1>5. SingletonsOK(v)  BY <1>0, <1>2, <1>3 DEF WorldOK, SingletonsOK
<1>6. \A k \in 1..(n - 1) :
        st[k].pc = "initializer" => ~(st[k].chain = c /\ st[k].at = at)
  <2> SUFFICES ASSUME NEW k \in 1..(n - 1), st[k].pc = "initializer",
                      st[k].chain = c, st[k].at = at
               PROVE  FALSE
    OBVIOUS
  <2>1. k \in 1..n /\ n \in 1..n /\ k < n  OBVIOUS
  <2> QED  BY <2>1, LaterCall DEF c, at
<1>7. AccountsOK(v, n - 1, st)
  <2> SUFFICES ASSUME NEW d \in Chain, NEW a \in DOMAIN w.storage[d] \ Singleton
               PROVE  \/ /\ a.initializer = Empty /\ v.storage[d][a] = Fresh
                         /\ Logged(v, "setup", d, a) = {}
                      \/ \E i \in DOMAIN v.trace : SetBy(v, n - 1, st, d, a, i)
    BY <1>3 DEF AccountsOK
  <2>1. CASE d = c /\ a = at
    <3>1. w.storage[c][at] # Fresh  BY <1>0, NotFresh DEF WaitsOK, c, at
    <3>2. PICK i \in DOMAIN w.trace : SetBy(w, n, st, c, at, i)
      BY <2>1, <3>1 DEF WorldOK, AccountsOK
    <3>3. w.trace[i].config = f.config  BY <1>0, <3>2 DEF SetBy, WaitsOK, c, at
    <3>4. SetBy(v, n - 1, st, c, at, i)  BY <1>1, <1>2, <3>2, <3>3 DEF SetBy
    <3> QED  BY <1>1, <2>1, <3>4
  <2>2. CASE ~(d = c /\ a = at)
    <3>1. v.storage[d][a] = w.storage[d][a]  BY <1>3, <2>2
    <3>2. ASSUME NEW i \in DOMAIN w.trace, SetBy(w, n, st, d, a, i)
          PROVE  SetBy(v, n - 1, st, d, a, i)
      <4>1. \A k \in 1..n : st[k].chain = d /\ st[k].at = a => k \in 1..(n - 1)
        <5>1. st[n].chain = c /\ st[n].at = at  BY DEF c, at
        <5> QED  BY <2>2, <5>1
      <4> QED  BY <1>1, <1>2, <3>1, <3>2, <4>1 DEF SetBy
    <3> QED  BY <1>1, <1>2, <3>1, <3>2 DEF WorldOK, AccountsOK
  <2> QED  BY <2>1, <2>2
<1>8. CallsOK(v, n - 1, st)
  <2> SUFFICES ASSUME NEW k \in 1..(n - 1)  PROVE WaitsOK(v, st[k])
    BY DEF CallsOK
  <2>1. k \in 1..n  OBVIOUS
  <2>2. WaitsOK(w, st[k]) /\ st[k].chain \in Chain
    BY <2>1 DEF WorldOK, CallsOK, StackOK, Call
  <2>3. st[k].pc = "initializer" =>
          v.storage[st[k].chain][st[k].at] = w.storage[st[k].chain][st[k].at]
    BY <1>3, <1>6, <2>2 DEF WaitsOK
  <2> QED  BY <1>1, <1>2, <1>3, <2>2, <2>3 DEF WaitsOK
<1>9. LogOK(v)  BY <1>1, <1>2 DEF WorldOK, LogOK, CalledBack
<1>10. Extends(v, st[1].entry)
  <2> DEFINE e == st[1].entry
  <2>1. Extends(w, e)  BY DEF WorldOK
  <2>2. at \in DOMAIN e.storage[c] => e.storage[c][at] = Fresh
    <3>1. at \in DOMAIN f.entry.storage[c] => f.entry.storage[c][at] = Fresh
      BY <1>0 DEF CallOK, c, at
    <3>2. CASE n = 1  BY <3>1, <3>2
    <3>3. CASE n > 1
      <4>1. Extends(f.entry, e)  BY <1>0, <3>3 DEF WorldOK
      <4> QED  BY <1>0, <3>1, <4>1 DEF Extends
    <3> QED  BY <3>2, <3>3
  <2> HIDE DEF e
  <2>3. Extends(v, e)  BY <1>1, <1>3, <2>1, <2>2 DEF Extends
  <2> QED  BY <2>3 DEF e
<1> QED  BY <1>4, <1>5, <1>7, <1>8, <1>9, <1>10 DEF WorldOK, v, c, at

--------------------------------------------------------------------------------
(***************************************************************************)
(* Every step keeps the invariant.                                         *)
(***************************************************************************)
LEMMA StackIs ==
  ASSUME TypeOK, stack # <<>>
  PROVE  /\ Len(stack) \in Nat \ {0} /\ Top \in Call
         /\ Below \in Seq(Call) /\ Len(Below) = Len(stack) - 1
         /\ \A k \in 1..(Len(stack) - 1) : Below[k] = stack[k]
<1>1. stack \in Seq(Call) /\ Len(stack) \in Nat \ {0}
  BY EmptySeq, LenProperties DEF TypeOK
<1>2. Len(stack) \in 1..Len(stack) /\ DOMAIN stack = 1..Len(stack)
  BY <1>1, LenProperties
<1>3. Top \in Call  BY <1>1, <1>2, ElementOfSeq DEF Top
<1>4. /\ Below \in Seq(Call) /\ Len(Below) = Len(stack) - 1
      /\ \A k \in 1..(Len(stack) - 1) : Below[k] = stack[k]
  <2> DEFINE m == Len(stack) - 1
  <2>0. m \in Int /\ 1 \in Int /\ \A i \in 1..m : stack[i] \in Call
    BY <1>1, ElementOfSeq
  <2>1. /\ Below \in Seq(Call)
        /\ Len(Below) = IF 1 <= m THEN m - 1 + 1 ELSE 0
        /\ \A i \in 1..(m - 1 + 1) : Below[i] = stack[1 + i - 1]
    BY <2>0, SubSeqProperties DEF Below
  <2>2. m \in Nat /\ m - 1 + 1 = m  BY <1>1
  <2>3. \A i \in 1..m : 1 + i - 1 = i  BY <2>2
  <2> HIDE DEF m
  <2>4. Len(Below) = m  BY <2>1, <2>2
  <2>5. \A i \in 1..m : Below[i] = stack[i]  BY <2>1, <2>2, <2>3
  <2> QED  BY <2>1, <2>4, <2>5 DEF m
<1> QED  BY <1>1, <1>3, <1>4

LEMMA Returned ==
  ASSUME TypeOK, IndInv, stack # <<>>, NEW w \in World, Return(w),
         WorldOK(w, Len(stack) - 1, stack)
  PROVE  TypeOK' /\ IndInv'
<1> DEFINE n == Len(stack)
<1>1. /\ n \in Nat \ {0} /\ stack' \in Seq(Call) /\ Len(stack') = n - 1 /\ world' = w
      /\ \A k \in 1..(n - 1) : stack'[k] = stack[k]
  BY StackIs DEF Return
<1> HIDE DEF n
<1>2. WorldOK(world', n - 1, stack')  BY <1>1, SameCalls DEF n
<1>3. StackOK(n - 1, stack')
  <2> SUFFICES ASSUME NEW k \in 1..(n - 1)
               PROVE  /\ stack'[k] \in Call /\ CallOK(stack'[k])
                      /\ WorldOK(stack'[k].entry, k - 1, stack')
    BY DEF StackOK
  <2>1. k \in 1..n /\ k - 1 \in Nat /\ \A j \in 1..(k - 1) : stack'[j] = stack[j]
    BY <1>1
  <2>2. /\ stack[k] \in Call /\ CallOK(stack[k]) /\ WorldOK(stack[k].entry, k - 1, stack)
    BY <2>1 DEF IndInv, StackOK, n
  <2> QED  BY <1>1, <2>1, <2>2, SameCalls
<1>4. TypeOK'  BY <1>1 DEF TypeOK
<1> QED  BY <1>1, <1>2, <1>3, <1>4 DEF IndInv

LEMMA Continued ==
  ASSUME TypeOK, IndInv, stack # <<>>, NEW w \in World, NEW f \in Call, Continue(f, w),
         f.entry = Top.entry, CallOK(f), WaitsOK(w, f),
         WorldOK(w, Len(stack) - 1, stack), Extends(w, stack[1].entry)
  PROVE  TypeOK' /\ IndInv'
<1> DEFINE n == Len(stack)
<1>1. /\ n \in Nat \ {0} /\ stack' \in Seq(Call) /\ Len(stack') = n /\ world' = w
      /\ \A k \in 1..(n - 1) : stack'[k] = stack[k]
      /\ stack'[n] = f
  <2>1. /\ Below \in Seq(Call) /\ Len(Below) = n - 1 /\ n \in Nat \ {0}
        /\ \A k \in 1..(n - 1) : Below[k] = stack[k]
    BY StackIs
  <2>2. stack' = Append(Below, f) /\ world' = w  BY DEF Continue
  <2> HIDE DEF n
  <2> QED  BY <2>1, <2>2, AppendProperties
<1> HIDE DEF n
<1>2. n \in 1..n /\ StackOK(n, stack)  BY <1>1 DEF IndInv, n
<1>3. StackOK(n - 1, stack) /\ WorldOK(f.entry, n - 1, stack)
  <2>1. \A k \in 1..(n - 1) : k \in 1..n  BY <1>1
  <2>2. f.entry = stack[n].entry  BY DEF Top, n
  <2> QED  BY <1>2, <2>1, <2>2 DEF StackOK
<1>4. StackOK(n, stack')  BY <1>1, <1>3, StackGrows
<1>5. Extends(w, stack'[1].entry)
  <2>1. CASE n = 1  BY <1>1, <2>1 DEF Top, n
  <2>2. CASE n > 1  BY <1>1, <2>2
  <2> QED  BY <1>1, <2>1, <2>2
<1>6. WorldOK(world', n, stack')  BY <1>1, <1>5, OpenedOK DEF n
<1>7. TypeOK'  BY <1>1 DEF TypeOK
<1> QED  BY <1>1, <1>4, <1>6, <1>7 DEF IndInv

\* A call is opened: nothing but the new world has to be looked at.
LEMMA Opened ==
  ASSUME TypeOK, IndInv, NEW f \in Call, stack' = Append(stack, f), world' \in World,
         CallOK(f), f.entry = world,
         \A st2 : st2 = stack' => WorldOK(world', Len(stack) + 1, st2)
  PROVE  TypeOK' /\ IndInv'
<1> DEFINE n == Len(stack)
<1>1. /\ n \in Nat /\ stack' \in Seq(Call) /\ Len(stack') = n + 1
      /\ \A k \in 1..n : stack'[k] = stack[k]
      /\ stack'[n + 1] = f
  BY AppendProperties, LenProperties DEF TypeOK
<1>2. StackOK(n, stack) /\ WorldOK(world, n, stack)  BY DEF IndInv
<1> HIDE DEF n
<1>3. StackOK(n + 1, stack')
  <2>1. n + 1 \in Nat \ {0} /\ (n + 1) - 1 = n  BY <1>1
  <2> QED  BY <1>1, <1>2, <2>1, StackGrows
<1>4. WorldOK(world', n + 1, stack')  BY DEF n
<1>5. TypeOK'  BY <1>1 DEF TypeOK
<1> QED  BY <1>1, <1>3, <1>4, <1>5 DEF IndInv

LEMMA SetupStep ==
  ASSUME TypeOK, IndInv, NEW c \in Chain, NEW config \in Config,
         NEW at \in DOMAIN world.storage[c], setup(c, at, config)
  PROVE  TypeOK' /\ IndInv'
<1> DEFINE f == Frame("setup", c, at, config, NoRequest)
           n == Len(stack)
           v == Put(world, c, at, Half(config))
<1>1. /\ world \in World /\ stack \in Seq(Call) /\ n \in Nat
      /\ StackOK(n, stack) /\ WorldOK(world, n, stack)
  BY LenProperties DEF TypeOK, IndInv
<1>2. /\ world.storage[c][at].threshold = 0 /\ ValidConfig(config)
      /\ world' = Note([world EXCEPT !.storage[c][at] = SetOwners(@, config)], "setup", f)
      /\ stack' = Append(stack, f)
  <2>1. f.chain = c /\ f.at = at /\ f.config = config  BY DEF Frame
  <2>2. SetUp(f, world)  BY DEF setup
  <2> HIDE DEF f
  <2> QED  BY <2>1, <2>2 DEF SetUp
<1>3. config.threshold \in Int \ {0}  BY <1>2 DEF ValidConfig
<1>4. at \notin Singleton
  BY <1>1, <1>2 DEF WorldOK, SingletonsOK, SingletonStorage, Fresh
<1>5. world.storage[c][at] = Fresh
  <2>1. ASSUME NEW i \in DOMAIN world.trace, SetBy(world, n, stack, c, at, i)
        PROVE  FALSE
    <3>1. PICK x \in Config : /\ x.threshold \in Int \ {0}
                              /\ world.storage[c][at] \in {Full(x), Half(x)}
      BY <2>1 DEF SetBy
    <3> QED  BY <1>2, <3>1, SettingsAre
  <2> QED  BY <1>1, <1>4, <2>1 DEF WorldOK, AccountsOK
<1>6. at \in ProxyAddress(c) /\ at.initializer = Empty /\ at \in Place
  <2>1. at \in ProxyAddress(c)  BY <1>1, <1>4 DEF WorldOK, PlacesOK
  <2> QED  BY <1>1, <1>4, <1>5, <2>1, FreshIsNew, ProxiesAre
<1>7. f \in Call /\ CallOK(f) /\ f.entry = world /\ f.pc = "initializer"
      /\ f.chain = c /\ f.at = at /\ f.config = config /\ f.kind = "setup"
  <2>1. f \in Call  BY <1>1, <1>6 DEF Frame, Call, Kind, Pc, Initializer, Requests
  <2> QED  BY <1>3, <1>4, <1>5, <1>6, <2>1 DEF Frame, CallOK
<1> HIDE DEF f
<1>8. world' = Note(v, "setup", f)
  <2>1. [world EXCEPT !.storage[c][at] = SetOwners(@, config)]
          = [world EXCEPT !.storage[c][at] = Half(config)]
    <3>1. SetOwners(world.storage[c][at], config) = Half(config)  BY <1>5, SettingsAre
    <3> QED  BY <3>1
  <2> QED  BY <1>1, <1>2, <2>1, EditIsPut
<1>9. world' \in World
  <2>1. v \in World  BY <1>1, <1>6, SettingsAre, PutIs
  <2>2. "setup" \in {"setup", "initialized", "ProxyCreation", "proxyCreated"}  OBVIOUS
  <2> HIDE DEF v
  <2> QED  BY <1>7, <1>8, <2>1, <2>2, NoteIs
<1>10. ASSUME NEW st2, st2 = stack'  PROVE WorldOK(world', n + 1, st2)
  <2>1. st2[n + 1] = f /\ \A k \in 1..n : st2[k] = stack[k]
    BY <1>1, <1>2, <1>7, <1>10, AppendProperties
  <2> HIDE DEF n
  <2>2. WorldOK(Note(Put(world, f.chain, f.at, Half(f.config)), "setup", f), n + 1, st2)
    BY <1>1, <1>6, <1>7, <2>1, SetUpOK
  <2> QED  BY <1>7, <1>8, <2>2
<1> QED  BY <1>2, <1>7, <1>9, <1>10, Opened

LEMMA PutTwice ==
  ASSUME NEW w \in World, NEW c \in Chain, NEW at \in Place, NEW u \in Setting, NEW v \in Setting
  PROVE  Put(Put(w, c, at, u), c, at, v) = Put(w, c, at, v)
<1> DEFINE p == Put(w, c, at, u)
           s == [a \in DOMAIN w.storage[c] \cup {at} |-> IF a = at THEN v ELSE w.storage[c][a]]
<1>1. /\ p \in World /\ p.trace = w.trace
      /\ \A d \in Chain \ {c} : p.storage[d] = w.storage[d]
      /\ DOMAIN p.storage[c] = DOMAIN w.storage[c] \cup {at}
      /\ \A a \in DOMAIN w.storage[c] \ {at} : p.storage[c][a] = w.storage[c][a]
  BY PutIs
<1> HIDE DEF p
<1>2. s = [a \in DOMAIN p.storage[c] \cup {at} |-> IF a = at THEN v ELSE p.storage[c][a]]
  BY <1>1
<1> HIDE DEF s
<1>3. Put(p, c, at, v) = [p EXCEPT !.storage[c] = s]  BY <1>2 DEF Put
<1>4. Put(w, c, at, v) = [w EXCEPT !.storage[c] = s]  BY DEF Put, s
<1>5. [p.storage EXCEPT ![c] = s] = [w.storage EXCEPT ![c] = s]
  BY <1>1 DEF World
<1>6. [p EXCEPT !.storage[c] = s] = [storage |-> [p.storage EXCEPT ![c] = s], trace |-> p.trace]
  BY <1>1 DEF World
<1>7. [w EXCEPT !.storage[c] = s] = [storage |-> [w.storage EXCEPT ![c] = s], trace |-> w.trace]
  BY DEF World
<1> QED  BY <1>1, <1>3, <1>4, <1>5, <1>6, <1>7 DEF p

\* Whatever function of the factory, it deploys where its client expects it.
LEMMA DeployStep ==
  ASSUME TypeOK, IndInv, NEW c \in Chain, NEW kind \in Kind \ {"setup"},
         NEW initializer \in Initializer, NEW at \in ProxyAddress(c), at.initializer = initializer,
         NEW request \in Requests, NamedOK(Frame(kind, c, at, initializer, request)),
         deployProxy(kind, c, initializer, at, request)
  PROVE  TypeOK' /\ IndInv'
<1> DEFINE f == Frame(kind, c, at, initializer, request)
           n == Len(stack)
<1>1. /\ world \in World /\ stack \in Seq(Call) /\ n \in Nat
      /\ StackOK(n, stack) /\ WorldOK(world, n, stack)
  BY LenProperties DEF TypeOK, IndInv
<1>2. at \in Place /\ at \notin Singleton /\ at \notin DOMAIN world.storage[c]
  BY ProxiesAre DEF deployProxy
<1>3. Fresh \in Setting /\ Deployed(world, c, at) = Put(world, c, at, Fresh)
  BY <1>1, <1>2, DeployedIsPut DEF Setting
<1>4. /\ f \in Call /\ f.entry = world /\ f.pc = "initializer" /\ f.request = request
      /\ f.chain = c /\ f.at = at /\ f.config = initializer /\ f.kind = kind /\ kind # "setup"
  <2>1. f \in Call  BY <1>1, <1>2 DEF Frame, Call, Kind, Pc
  <2> QED  BY <2>1 DEF Frame, Kind
<1>5. \/ initializer # Empty /\ SetUp(f, Deployed(world, c, at))
      \/ /\ initializer = Empty
         /\ world' = Deployed(world, c, at)
         /\ stack' = Append(stack, [f EXCEPT !.pc = "deployed"])
  BY DEF deployProxy
<1>6. NamedOK(f)  OBVIOUS
<1> HIDE DEF f
<1>7. CASE initializer # Empty /\ SetUp(f, Deployed(world, c, at))
  <2> DEFINE u == Put(world, c, at, Fresh)
             v == Put(world, c, at, Half(initializer))
  <2>1. /\ ValidConfig(initializer) /\ stack' = Append(stack, f)
        /\ world' = Note([u EXCEPT !.storage[c][at] = SetOwners(@, initializer)], "setup", f)
    BY <1>3, <1>4, <1>7 DEF SetUp
  <2>2. initializer \in Config /\ initializer.threshold \in Int \ {0}
    BY <1>7, <2>1 DEF Initializer, ValidConfig
  <2>3. CallOK(f)  BY <1>2, <1>4, <1>6, <2>2 DEF CallOK
  <2>4. u \in World /\ at \in DOMAIN u.storage[c] /\ u.storage[c][at] = Fresh
    BY <1>1, <1>2, <1>3, PutIs
  <2>5. v \in World /\ Half(initializer) \in Setting
    BY <1>1, <1>2, <2>2, SettingsAre, PutIs
  <2>6. [u EXCEPT !.storage[c][at] = SetOwners(@, initializer)] = v
    <3>1. SetOwners(u.storage[c][at], initializer) = Half(initializer)
      BY <2>2, <2>4, SettingsAre
    <3>2. [u EXCEPT !.storage[c][at] = SetOwners(@, initializer)]
            = [u EXCEPT !.storage[c][at] = Half(initializer)]
      <4> HIDE DEF u
      <4> QED  BY <3>1
    <3>3. Put(u, c, at, Half(initializer)) = v  BY <1>1, <1>2, <1>3, <2>5, PutTwice
    <3> HIDE DEF u, v
    <3> QED  BY <2>4, <3>2, <3>3, EditIsPut
  <2>7. world' = Note(v, "setup", f)  BY <2>1, <2>6
  <2>8. world' \in World
    <3>1. "setup" \in {"setup", "initialized", "ProxyCreation", "proxyCreated"}  OBVIOUS
    <3> HIDE DEF v
    <3> QED  BY <1>4, <2>5, <2>7, <3>1, NoteIs
  <2>9. ASSUME NEW st2, st2 = stack'  PROVE WorldOK(world', n + 1, st2)
    <3>1. st2[n + 1] = f /\ \A k \in 1..n : st2[k] = stack[k]
      BY <1>1, <1>4, <2>1, <2>9, AppendProperties
    <3> HIDE DEF n
    <3>2. WorldOK(Note(Put(world, f.chain, f.at, Half(f.config)), "setup", f), n + 1, st2)
      BY <1>1, <1>4, <2>3, <3>1, SetUpOK
    <3> QED  BY <1>4, <2>7, <3>2
  <2> QED  BY <1>4, <2>1, <2>3, <2>8, <2>9, Opened
<1>8. CASE /\ initializer = Empty
           /\ world' = Deployed(world, c, at)
           /\ stack' = Append(stack, [f EXCEPT !.pc = "deployed"])
  <2> DEFINE g == [f EXCEPT !.pc = "deployed"]
  <2>1. /\ g \in Call /\ g.entry = world /\ g.pc = "deployed" /\ g.request = request
        /\ g.chain = c /\ g.at = at /\ g.config = initializer /\ g.kind = kind
    BY <1>4 DEF Call, Pc
  <2>2. CallOK(g)
    <3>1. NamedOK(g)  BY <1>4, <1>6, <2>1 DEF NamedOK
    <3> HIDE DEF g
    <3> QED  BY <1>2, <1>4, <2>1, <3>1 DEF CallOK
  <2>3. stack' = Append(stack, g)  BY <1>8
  <2> HIDE DEF g
  <2>4. /\ world' \in World /\ world'.trace = world.trace
        /\ DOMAIN world'.storage[c] = DOMAIN world.storage[c] \cup {at}
        /\ \A d \in Chain : \A a \in DOMAIN world.storage[d] :
             a \in DOMAIN world'.storage[d] /\ world'.storage[d][a] = world.storage[d][a]
    BY <1>1, <1>2, <1>3, <1>8, PutIs
  <2>5. WorldOK(world', n, stack)
    <3> HIDE DEF n
    <3> QED  BY <1>1, <1>2, <1>3, <1>8, DeployedOK
  <2>6. WaitsOK(world', g)
    <3>1. \A t : Logged(world', t, c, at) = {}
      <4>1. \A t : Logged(world, t, c, at) = {}
        <5> HIDE DEF n
        <5> QED  BY <1>1, <1>2, NothingLogged
      <4> QED  BY <2>4, <4>1 DEF Logged
    <3> QED  BY <1>8, <2>1, <2>4, <3>1 DEF WaitsOK
  <2>7. ASSUME NEW st2, st2 = stack'  PROVE WorldOK(world', n + 1, st2)
    <3>1. st2[n + 1] = g /\ \A k \in 1..n : st2[k] = stack[k]
      BY <1>1, <2>1, <2>3, <2>7, AppendProperties
    <3> HIDE DEF n
    <3>2. Extends(world', st2[1].entry)
      <4>1. CASE n = 0
        <5>1. st2[1].entry = world  BY <2>1, <3>1, <4>1
        <5> QED  BY <2>4, <5>1 DEF Extends
      <4>2. CASE n > 0
        <5>1. st2[1] = stack[1]  BY <1>1, <3>1, <4>2
        <5> QED  BY <2>5, <4>2, <5>1 DEF WorldOK
      <4> QED  BY <1>1, <4>1, <4>2
    <3>3. n + 1 \in Nat \ {0} /\ (n + 1) - 1 = n  BY <1>1
    <3>4. WaitsOK(world', st2[n + 1])  BY <2>6, <3>1
    <3> QED  BY <2>5, <3>1, <3>2, <3>3, <3>4, OpenedOK
  <2> QED  BY <2>1, <2>2, <2>3, <2>4, <2>7, Opened
<1> QED  BY <1>5, <1>7, <1>8

\* What the invariant says of the innermost call.
LEMMA TopIs ==
  ASSUME TypeOK, IndInv, stack # <<>>
  PROVE  /\ Len(stack) \in Nat \ {0} /\ world \in World /\ Top \in Call /\ Top.entry \in World
         /\ CallOK(Top) /\ WaitsOK(world, Top)
         /\ WorldOK(Top.entry, Len(stack) - 1, stack)
         /\ WorldOK(world, Len(stack), stack) /\ StackOK(Len(stack), stack)
         /\ Extends(world, stack[1].entry)
<1> DEFINE n == Len(stack)
<1>1. n \in Nat \ {0} /\ Top \in Call /\ Top.entry \in World  BY StackIs DEF Call
<1>2. StackOK(n, stack) /\ WorldOK(world, n, stack) /\ Top = stack[n]  BY DEF IndInv, Top
<1> HIDE DEF n
<1>3. n \in 1..n  BY <1>1
<1>4. CallOK(Top) /\ WorldOK(Top.entry, n - 1, stack)  BY <1>2, <1>3 DEF StackOK
<1>5. WaitsOK(world, Top)  BY <1>2, <1>3 DEF WorldOK, CallsOK
<1>6. Extends(world, stack[1].entry)  BY <1>1, <1>2 DEF WorldOK
<1> QED  BY <1>1, <1>2, <1>4, <1>5, <1>6 DEF n, TypeOK

LEMMA InitializerStep ==
  ASSUME TypeOK, IndInv, InitializerReturns
  PROVE  TypeOK' /\ IndInv'
<1> DEFINE f == [Top EXCEPT !.pc = "payment"]
           w == Put(world, Top.chain, Top.at, Full(Top.config))
<1>1. /\ stack # <<>> /\ Top.pc = "initializer"
      /\ Continue(f, [world EXCEPT !.storage[Top.chain][Top.at].modules = Top.config.modules])
  BY DEF InitializerReturns
<1>2. /\ Len(stack) \in Nat \ {0} /\ world \in World /\ Top \in Call
      /\ CallOK(Top) /\ WaitsOK(world, Top)
      /\ WorldOK(world, Len(stack), stack) /\ StackOK(Len(stack), stack)
      /\ Extends(world, stack[1].entry)
  BY <1>1, TopIs
<1>3. /\ f \in Call /\ f.pc = "payment" /\ f.kind = Top.kind /\ f.chain = Top.chain
      /\ f.at = Top.at /\ f.config = Top.config /\ f.request = Top.request
      /\ f.entry = Top.entry
  BY <1>2 DEF Call, Pc
<1>4. /\ Top.chain \in Chain /\ Top.at \in DOMAIN world.storage[Top.chain]
      /\ Top.at \in Place /\ Top.config \in Config
      /\ world.storage[Top.chain][Top.at] = Half(Top.config)
  BY <1>1, <1>2 DEF CallOK, WaitsOK, Call
<1>5. [world EXCEPT !.storage[Top.chain][Top.at].modules = Top.config.modules] = w
  <2> DEFINE c == Top.chain
             at == Top.at
             x == Top.config
  <2>1. [world.storage[c][at] EXCEPT !.modules = x.modules] = Full(x)
    BY <1>4, SettingsAre
  <2> HIDE DEF c, at, x
  <2>2. [world EXCEPT !.storage[c][at].modules = x.modules]
          = [world EXCEPT !.storage[c][at] = Full(x)]
    BY <2>1
  <2> QED  BY <1>2, <1>4, <2>2, EditIsPut DEF c, at, x
<1>6. w \in World /\ w.trace = world.trace /\ Top.at \in DOMAIN w.storage[Top.chain]
  BY <1>2, <1>4, SettingsAre, PutIs
<1>7. WorldOK(w, Len(stack) - 1, stack) /\ Extends(w, stack[1].entry)
  BY <1>1, <1>2, InitializedOK DEF Top
<1>8. Continue(f, w)  BY <1>1, <1>5
<1>9. CallOK(f)  BY <1>1, <1>2, <1>3 DEF CallOK, NamedOK
<1> HIDE DEF f, w
<1>10. WaitsOK(w, f)
  <2>1. \A t, d, a : Logged(w, t, d, a) = Logged(world, t, d, a)  BY <1>6 DEF Logged
  <2> QED  BY <1>1, <1>2, <1>3, <1>6, <2>1 DEF WaitsOK
<1> QED  BY <1>1, <1>3, <1>6, <1>7, <1>8, <1>9, <1>10, Continued

\* No call below the innermost one still has to announce the same account.
LEMMA OnlyCreation ==
  ASSUME TypeOK, IndInv, stack # <<>>, Top.kind # "setup",
         NEW k \in 1..(Len(stack) - 1)
  PROVE  ~(stack[k].chain = Top.chain /\ stack[k].at = Top.at)
<1>1. Len(stack) \in Nat \ {0} /\ StackOK(Len(stack), stack)  BY TopIs
<1>2. k \in 1..Len(stack) /\ Len(stack) \in 1..Len(stack) /\ k < Len(stack)  BY <1>1
<1> QED  BY <1>1, <1>2, LaterCall DEF Top

LEMMA PaymentStep ==
  ASSUME TypeOK, IndInv, PaymentReturns
  PROVE  TypeOK' /\ IndInv'
<1> DEFINE f == [Top EXCEPT !.pc = "deployed"]
           w == Note(world, "initialized", Top)
           n == Len(stack)
<1>1. /\ stack # <<>> /\ Top.pc = "payment"
      /\ IF Top.kind = "setup" THEN Return(w) ELSE Continue(f, w)
  BY DEF PaymentReturns
<1>2. /\ n \in Nat \ {0} /\ world \in World /\ Top \in Call
      /\ CallOK(Top) /\ WaitsOK(world, Top)
      /\ WorldOK(world, n, stack) /\ Extends(world, stack[1].entry)
  BY <1>1, TopIs
<1>3. "initialized" \in {"initialized", "ProxyCreation", "proxyCreated"}
      /\ "initialized" \in {"setup", "initialized", "ProxyCreation", "proxyCreated"}
  OBVIOUS
<1>4. /\ w \in World /\ w.storage = world.storage
      /\ w.trace = Append(world.trace, EntryOf("initialized", Top))
  BY <1>2, <1>3, NoteIs, Zenon
<1>5. /\ \A t, c, at : t # "initialized" => Logged(w, t, c, at) = Logged(world, t, c, at)
      /\ Logged(w, "initialized", Top.chain, Top.at) # {}
      /\ w.trace[Len(world.trace) + 1] = EntryOf("initialized", Top)
  <2> HIDE DEF w
  <2>1. /\ \A t, c, at :
             Logged(w, t, c, at) =
               IF t = "initialized" /\ c = Top.chain /\ at = Top.at
               THEN Logged(world, t, c, at) \cup {Len(world.trace) + 1}
               ELSE Logged(world, t, c, at)
        /\ w.trace[Len(world.trace) + 1] = EntryOf("initialized", Top)
    BY <1>2, <1>3, <1>4, NotedIs
  <2> QED  BY <2>1
<1>6. WorldOK(w, n - 1, stack)
  <2>1. stack[n].pc # "initializer"  BY <1>1 DEF Top
  <2>2. WorldOK(world, n - 1, stack)
    <3> HIDE DEF n
    <3> QED  BY <1>2, <2>1, ClosedOK
  <2>3. CalledBack(w, Len(world.trace) + 1)  BY <1>5 DEF CalledBack, EntryOf
  <2>4. CreatedWhere(EntryOf("initialized", Top))  BY DEF CreatedWhere, EntryOf
  <2>5. Top.at \in DOMAIN world.storage[Top.chain]  BY <1>2 DEF WaitsOK
  <2>6. n - 1 \in Nat  BY <1>2
  <2> HIDE DEF n
  <2> QED  BY <1>2, <1>3, <2>2, <2>3, <2>4, <2>5, <2>6, NotedOK
<1>7. CASE Top.kind = "setup"
  <2>1. Return(w)  BY <1>1, <1>7
  <2> HIDE DEF w
  <2> QED  BY <1>1, <1>4, <1>6, <2>1, Returned
<1>8. CASE Top.kind # "setup"
  <2>1. /\ f \in Call /\ f.pc = "deployed" /\ f.kind = Top.kind /\ f.chain = Top.chain
        /\ f.at = Top.at /\ f.config = Top.config /\ f.request = Top.request
        /\ f.entry = Top.entry
    BY <1>2 DEF Call, Pc
  <2>2. CallOK(f)  BY <1>2, <1>8, <2>1 DEF CallOK, NamedOK
  <2>3. Continue(f, w)  BY <1>1, <1>8
  <2> HIDE DEF f, w
  <2>4. WaitsOK(w, f)
    <3>1. /\ Logged(w, "ProxyCreation", f.chain, f.at) = Logged(world, "ProxyCreation", f.chain, f.at)
          /\ Logged(w, "proxyCreated", f.chain, f.at) = Logged(world, "proxyCreated", f.chain, f.at)
      BY <1>5
    <3> QED  BY <1>1, <1>2, <1>4, <1>5, <2>1, <3>1 DEF WaitsOK
  <2>5. Extends(w, stack[1].entry)  BY <1>2, <1>4 DEF Extends
  <2> QED  BY <1>1, <1>4, <1>6, <2>1, <2>2, <2>3, <2>4, <2>5, Continued
<1> QED  BY <1>7, <1>8

LEMMA AnnounceStep ==
  ASSUME TypeOK, IndInv, AnnounceProxy
  PROVE  TypeOK' /\ IndInv'
<1> DEFINE f == [Top EXCEPT !.pc = "callback"]
           w == Note(world, "ProxyCreation", Top)
           v == Note(w, "proxyCreated", Top)
           n == Len(stack)
           z == Len(world.trace) + 1
<1>1. /\ stack # <<>> /\ Top.pc = "deployed"
      /\ IF Top.request.callback = NoCallback THEN Return(w) ELSE Continue(f, v)
  BY DEF AnnounceProxy
<1>2. /\ n \in Nat \ {0} /\ world \in World /\ Top \in Call
      /\ CallOK(Top) /\ WaitsOK(world, Top)
      /\ WorldOK(world, n, stack) /\ Extends(world, stack[1].entry)
  BY <1>1, TopIs
<1>3. Top.kind \in {"createProxy", "createChainSpecificProxy", "createProxyWithCallback"}
      /\ Top.at.initializer = Top.config /\ NamedOK(Top)
      /\ Top.at \in DOMAIN world.storage[Top.chain]
  <2>1. Top.kind \in Kind  BY <1>2 DEF Call
  <2>2. Top.kind # "setup"  BY <1>1, <1>2 DEF CallOK
  <2> QED  BY <1>1, <1>2, <2>1, <2>2 DEF CallOK, WaitsOK, Kind
<1>4. /\ "ProxyCreation" \in {"initialized", "ProxyCreation", "proxyCreated"}
      /\ "proxyCreated" \in {"initialized", "ProxyCreation", "proxyCreated"}
      /\ "ProxyCreation" \in {"setup", "initialized", "ProxyCreation", "proxyCreated"}
      /\ "proxyCreated" \in {"setup", "initialized", "ProxyCreation", "proxyCreated"}
  OBVIOUS
<1>5. /\ w \in World /\ w.storage = world.storage
      /\ w.trace = Append(world.trace, EntryOf("ProxyCreation", Top))
  BY <1>2, <1>4, NoteIs, Zenon
<1>6. /\ \A t, c, at :
           Logged(w, t, c, at) =
             IF t = "ProxyCreation" /\ c = Top.chain /\ at = Top.at
             THEN Logged(world, t, c, at) \cup {z} ELSE Logged(world, t, c, at)
      /\ w.trace[z] = EntryOf("ProxyCreation", Top)
      /\ DOMAIN w.trace = DOMAIN world.trace \cup {z}
      /\ DOMAIN world.trace = 1..Len(world.trace) /\ Len(world.trace) \in Nat
  <2> HIDE DEF w
  <2> QED  BY <1>2, <1>4, <1>5, NotedIs
<1>7. \A k \in 1..(n - 1) : ~(stack[k].chain = Top.chain /\ stack[k].at = Top.at)
  BY <1>1, <1>3, OnlyCreation
<1>8. WorldOK(w, n - 1, stack)
  <2>1. stack[n].pc # "initializer"  BY <1>1 DEF Top
  <2>2. WorldOK(world, n - 1, stack)
    <3> HIDE DEF n
    <3> QED  BY <1>2, <2>1, ClosedOK
  <2>3. CalledBack(w, z)
    <3>1. Logged(w, "ProxyCreation", Top.chain, Top.at) = {z}
      BY <1>1, <1>2, <1>3, <1>6 DEF WaitsOK
    <3> QED  BY <1>6, <3>1 DEF CalledBack, EntryOf
  <2>4. CreatedWhere(EntryOf("ProxyCreation", Top))
    BY <1>3 DEF CreatedWhere, EntryOf, NamedOK
  <2>5. n - 1 \in Nat  BY <1>2
  <2> HIDE DEF n
  <2> QED  BY <1>2, <1>3, <1>4, <1>7, <2>2, <2>3, <2>4, <2>5, NotedOK
<1>9. CASE Top.request.callback = NoCallback
  <2>1. Return(w)  BY <1>1, <1>9
  <2> HIDE DEF w
  <2> QED  BY <1>1, <1>5, <1>8, <2>1, Returned
<1>10. CASE Top.request.callback # NoCallback
  <2>1. /\ f \in Call /\ f.pc = "callback" /\ f.kind = Top.kind /\ f.chain = Top.chain
        /\ f.at = Top.at /\ f.config = Top.config /\ f.request = Top.request
        /\ f.entry = Top.entry
    BY <1>2 DEF Call, Pc
  <2>2. CallOK(f)  BY <1>2, <1>3, <2>1 DEF CallOK, NamedOK
  <2>3. Continue(f, v)  BY <1>1, <1>10
  <2> HIDE DEF f, w
  <2>4. /\ v \in World /\ v.storage = world.storage
        /\ v.trace = Append(w.trace, EntryOf("proxyCreated", Top))
    BY <1>2, <1>4, <1>5, NoteIs, Zenon
  <2>5. Len(w.trace) = z /\ z \in Nat /\ z \notin DOMAIN world.trace
    BY <1>5, <1>6, TraceIs, LenProperties, AppendProperties DEF World
  <2>6. WorldOK(v, n - 1, stack)
    <3>1. /\ \A t, c, at :
               Logged(v, t, c, at) =
                 IF t = "proxyCreated" /\ c = Top.chain /\ at = Top.at
                 THEN Logged(w, t, c, at) \cup {z + 1} ELSE Logged(w, t, c, at)
          /\ v.trace[z + 1] = EntryOf("proxyCreated", Top)
      <4>1. /\ \A t, c, at :
                 Logged(v, t, c, at) =
                   IF t = "proxyCreated" /\ c = Top.chain /\ at = Top.at
                   THEN Logged(w, t, c, at) \cup {Len(w.trace) + 1} ELSE Logged(w, t, c, at)
            /\ v.trace[Len(w.trace) + 1] = EntryOf("proxyCreated", Top)
        <5> HIDE DEF v
        <5> QED  BY <1>2, <1>4, <1>5, <2>4, NotedIs
      <4> HIDE DEF v
      <4> QED  BY <2>5, <4>1
    <3>2. CalledBack(v, z + 1)
      <4>1. Logged(v, "proxyCreated", Top.chain, Top.at) = {z + 1}
        BY <1>1, <1>2, <1>3, <1>6, <3>1 DEF WaitsOK
      <4>2. z \in Logged(v, "ProxyCreation", Top.chain, Top.at) /\ z < z + 1
        BY <1>6, <2>5, <3>1
      <4>3. Top.config # Empty =>
              \E j \in Logged(v, "initialized", Top.chain, Top.at) : j < z + 1
        <5>1. Logged(v, "initialized", Top.chain, Top.at)
                = Logged(world, "initialized", Top.chain, Top.at)
          BY <1>6, <3>1
        <5>2. Logged(world, "initialized", Top.chain, Top.at) \subseteq DOMAIN world.trace
          BY DEF Logged
        <5>3. \A j \in DOMAIN world.trace : j < z + 1  BY <1>6
        <5> QED  BY <1>1, <1>2, <5>1, <5>2, <5>3 DEF WaitsOK
      <4> QED  BY <1>3, <3>1, <4>1, <4>2, <4>3 DEF CalledBack, EntryOf
    <3>3. CreatedWhere(EntryOf("proxyCreated", Top))
      BY <1>3 DEF CreatedWhere, EntryOf, NamedOK
    <3>4. n - 1 \in Nat  BY <1>2
    <3>5. Top.at \in DOMAIN w.storage[Top.chain]  BY <1>3, <1>5
    <3> HIDE DEF n
    <3> QED  BY <1>2, <1>4, <1>5, <1>7, <1>8, <2>5, <3>2, <3>3, <3>4, <3>5, NotedOK
  <2> HIDE DEF v
  <2>7. WaitsOK(v, f)  BY <1>3, <2>1, <2>4 DEF WaitsOK
  <2>8. Extends(v, stack[1].entry)  BY <1>2, <2>4 DEF Extends
  <2> QED  BY <1>1, <2>1, <2>2, <2>3, <2>4, <2>6, <2>7, <2>8, Continued
<1> QED  BY <1>9, <1>10

LEMMA CallbackStep ==
  ASSUME TypeOK, IndInv, CallbackReturns
  PROVE  TypeOK' /\ IndInv'
<1> DEFINE n == Len(stack)
<1>1. stack # <<>> /\ Top.pc = "callback" /\ Return(world)  BY DEF CallbackReturns
<1>2. n \in Nat \ {0} /\ world \in World /\ WorldOK(world, n, stack)  BY <1>1, TopIs
<1>3. stack[n].pc # "initializer"  BY <1>1 DEF Top
<1>4. WorldOK(world, n - 1, stack)
  <2> HIDE DEF n
  <2> QED  BY <1>2, <1>3, ClosedOK
<1> QED  BY <1>1, <1>2, <1>4, Returned

LEMMA RevertStep ==
  ASSUME TypeOK, IndInv, Reverts
  PROVE  TypeOK' /\ IndInv'
BY TopIs, Returned DEF Reverts

LEMMA AddressIs ==
  ASSUME NEW c \in Chain, NEW s \in Singleton, NEW i \in Initializer, NEW m \in AnyNonce,
         NEW ch \in {NoChain, c}
  PROVE  /\ Address(s, i, m, ch) \in ProxyAddress(c)
         /\ Address(s, i, m, ch).initializer = i
BY DEF ProxyAddress, Address

LEMMA CreateStep ==
  ASSUME TypeOK, IndInv, NEW c \in Chain, NEW s \in Singleton, NEW i \in Initializer,
         NEW m \in AnyNonce, createProxyWithNonce(c, s, i, m)
  PROVE  TypeOK' /\ IndInv'
<1> DEFINE at == Address(s, i, m, NoChain)
           request == Request(s, m, NoCallback)
<1>1. at \in ProxyAddress(c) /\ at.initializer = i  BY AddressIs
<1>2. deployProxy("createProxy", c, i, at, request)
  BY DEF createProxyWithNonce, Create2
<1>3. NamedOK(Frame("createProxy", c, at, i, request))
  BY DEF NamedOK, Frame, ExpectedAddress, Request, calculateProxyAddress
<1>4. "createProxy" \in Kind \ {"setup"} /\ request \in Requests
  BY DEF Kind, Requests, Request
<1> HIDE DEF at, request
<1> QED  BY <1>1, <1>2, <1>3, <1>4, DeployStep

LEMMA CreateChainSpecificStep ==
  ASSUME TypeOK, IndInv, NEW c \in Chain, NEW s \in Singleton, NEW i \in Initializer,
         NEW m \in SaltNonce, createChainSpecificProxyWithNonce(c, s, i, m)
  PROVE  TypeOK' /\ IndInv'
<1> DEFINE at == Address(s, i, m, c)
           request == Request(s, m, NoCallback)
<1>0. m \in AnyNonce  BY DEF AnyNonce
<1>1. at \in ProxyAddress(c) /\ at.initializer = i  BY <1>0, AddressIs
<1>2. deployProxy("createChainSpecificProxy", c, i, at, request)
  BY DEF createChainSpecificProxyWithNonce, Create2
<1>3. NamedOK(Frame("createChainSpecificProxy", c, at, i, request))
  BY DEF NamedOK, Frame, ExpectedAddress, Request, calculateChainSpecificProxyAddress
<1>4. "createChainSpecificProxy" \in Kind \ {"setup"} /\ request \in Requests
  BY <1>0 DEF Kind, Requests, Request
<1> HIDE DEF at, request
<1> QED  BY <1>1, <1>2, <1>3, <1>4, DeployStep

LEMMA CreateWithCallbackStep ==
  ASSUME TypeOK, IndInv, NEW c \in Chain, NEW s \in Singleton, NEW i \in Initializer,
         NEW m \in SaltNonce, NEW cb \in Callback \cup {NoCallback},
         createProxyWithCallback(c, s, i, m, cb)
  PROVE  TypeOK' /\ IndInv'
<1> DEFINE nonce == SaltNonceWithCallback(m, cb)
           at == Address(s, i, nonce, NoChain)
           request == Request(s, m, cb)
<1>0. nonce \in AnyNonce /\ m \in AnyNonce  BY DEF AnyNonce
<1>1. at \in ProxyAddress(c) /\ at.initializer = i
  <2> HIDE DEF nonce
  <2> QED  BY <1>0, AddressIs
<1>2. deployProxy("createProxyWithCallback", c, i, at, request)
  BY DEF createProxyWithCallback, Create2
<1>3. NamedOK(Frame("createProxyWithCallback", c, at, i, request))
  BY DEF NamedOK, Frame, ExpectedAddress, Request, calculateProxyAddressWithCallback,
         calculateProxyAddress
<1>4. "createProxyWithCallback" \in Kind \ {"setup"} /\ request \in Requests
  BY <1>0 DEF Kind, Requests, Request
<1> HIDE DEF at, request
<1> QED  BY <1>1, <1>2, <1>3, <1>4, DeployStep

LEMMA InitOK ==
  ASSUME Init
  PROVE  TypeOK /\ IndInv
<1>1. PICK deployed \in [Chain -> SUBSET Singleton] :
        world = [storage |-> [c \in Chain |-> [s \in deployed[c] |-> SingletonStorage]],
                 trace |-> <<>>]
  BY DEF Init
<1>2. stack = <<>> /\ Len(stack) = 0  BY DEF Init
<1>3. /\ \A c \in Chain : /\ DOMAIN world.storage[c] \subseteq Singleton
                          /\ \A s \in DOMAIN world.storage[c] :
                               world.storage[c][s] = SingletonStorage
      /\ world.trace = <<>> /\ DOMAIN world.trace = {}
  <2>1. world.trace = <<>> /\ world.storage = [c \in Chain |-> [s \in deployed[c] |-> SingletonStorage]]
    BY <1>1
  <2>2. \A c \in Chain : world.storage[c] = [s \in deployed[c] |-> SingletonStorage]
    BY <2>1
  <2>3. DOMAIN <<>> = {}  OBVIOUS
  <2>4. \A c \in Chain : deployed[c] \subseteq Singleton  OBVIOUS
  <2> QED  BY <2>1, <2>2, <2>3, <2>4
<1>4. world \in World
  <2>1. \A c \in Chain : [s \in deployed[c] |-> SingletonStorage] \in
                           UNION {[D -> Setting] : D \in SUBSET Place}
    <3> SUFFICES ASSUME NEW c \in Chain
                 PROVE  /\ deployed[c] \in SUBSET Place
                        /\ [s \in deployed[c] |-> SingletonStorage] \in [deployed[c] -> Setting]
      OBVIOUS
    <3>1. SingletonStorage \in Setting  BY DEF Setting
    <3>2. deployed[c] \in SUBSET Place  BY DEF Place
    <3> QED  BY <3>1, <3>2
  <2>2. [c \in Chain |-> [s \in deployed[c] |-> SingletonStorage]] \in
          [Chain -> UNION {[D -> Setting] : D \in SUBSET Place}]
    BY <2>1
  <2>3. <<>> \in Seq(Entry)  OBVIOUS
  <2> QED  BY <1>1, <2>2, <2>3 DEF World
<1>5. TypeOK  BY <1>2, <1>4 DEF TypeOK
<1>6. \A t, c, at : Logged(world, t, c, at) = {}  BY <1>3 DEF Logged
<1>7. PlacesOK(world) /\ SingletonsOK(world) /\ LogOK(world)
  BY <1>3, <1>6 DEF PlacesOK, SingletonsOK, LogOK
<1>8. AccountsOK(world, 0, stack)  BY <1>3 DEF AccountsOK
<1>9. CallsOK(world, 0, stack) /\ StackOK(0, stack)  BY DEF CallsOK, StackOK
<1> QED  BY <1>2, <1>5, <1>7, <1>8, <1>9 DEF IndInv, WorldOK

LEMMA StepOK ==
  ASSUME TypeOK, IndInv, [Next]_vars
  PROVE  TypeOK' /\ IndInv'
<1>1. CASE UNCHANGED vars
  <2>1. world' = world /\ stack' = stack  BY <1>1 DEF vars
  <2> QED  BY <2>1 DEF TypeOK, IndInv, StackOK, WorldOK
<1>2. CASE Next
  BY <1>2, SetupStep, CreateStep, CreateChainSpecificStep, CreateWithCallbackStep,
     InitializerStep, PaymentStep, AnnounceStep, CallbackStep, RevertStep DEF Next
<1> QED  BY <1>1, <1>2

LEMMA IndInvAlways == Spec => [](TypeOK /\ IndInv)
BY InitOK, StepOK, PTL DEF Spec

LEMMA EntriesAre == \A t, c, at : Entries(t, c, at) = Logged(world, t, c, at)
BY DEF Entries, Logged

\* A Safe is set up once, with what its address contains, whatever code runs in between
\* and whoever calls setup (Safe.sol:73-78, 84-96).
THEOREM SetUpOnceAlways == Spec => []SetUpOnce
<1>1. TypeOK /\ IndInv => SetUpOnce
  <2> SUFFICES ASSUME TypeOK, IndInv, NEW c \in Chain, NEW at \in DOMAIN world.storage[c]
               PROVE  IF at \in Singleton THEN Logged(world, "setup", c, at) = {}
                      ELSE /\ Cardinality(Logged(world, "setup", c, at))
                                = IF world.storage[c][at] = Fresh THEN 0 ELSE 1
                           /\ at.initializer # Empty =>
                                \E i \in Logged(world, "setup", c, at) :
                                  world.trace[i].config = at.initializer
    BY EntriesAre DEF SetUpOnce
  <2>1. WorldOK(world, Len(stack), stack)  BY DEF IndInv
  <2>2. CASE at \in Singleton  BY <2>1, <2>2 DEF WorldOK, SingletonsOK
  <2>3. CASE at \notin Singleton
    <3>1. CASE /\ at.initializer = Empty /\ world.storage[c][at] = Fresh
               /\ Logged(world, "setup", c, at) = {}
      BY <2>3, <3>1, FS_EmptySet
    <3>2. ASSUME NEW i \in DOMAIN world.trace, SetBy(world, Len(stack), stack, c, at, i)
          PROVE  /\ Logged(world, "setup", c, at) = {i}
                 /\ world.storage[c][at] # Fresh
                 /\ at.initializer # Empty => world.trace[i].config = at.initializer
      BY <3>2, NotFresh DEF SetBy
    <3>3. \A i : Cardinality({i}) = 1  BY FS_Singleton
    <3>4. CASE \E i \in DOMAIN world.trace : SetBy(world, Len(stack), stack, c, at, i)
      BY <2>3, <3>2, <3>3, <3>4
    <3> QED  BY <2>1, <2>3, <3>1, <3>4 DEF WorldOK, AccountsOK
  <2> QED  BY <2>2, <2>3
<1> QED  BY <1>1, IndInvAlways, PTL

\* A callback hears of a Safe once, after the event, and after its setup is over
\* (SafeProxyFactory.sol:88-99).
THEOREM CalledBackAfterCreationAlways == Spec => []CalledBackAfterCreation
<1>1. TypeOK /\ IndInv => CalledBackAfterCreation
  BY EntriesAre DEF IndInv, WorldOK, LogOK, CalledBack, CalledBackAfterCreation
<1> QED  BY <1>1, IndInvAlways, PTL

\* A Safe is where the client's helper for the function that created it computes it, with
\* the arguments of this creation, and is announced once (proxies.ts:4-36).
THEOREM CreatedWhereExpectedAlways == Spec => []CreatedWhereExpected
<1>1. TypeOK /\ IndInv => CreatedWhereExpected
  BY EntriesAre DEF IndInv, WorldOK, LogOK, CalledBack, CreatedWhere, CreatedWhereExpected
<1> QED  BY <1>1, IndInvAlways, PTL

--------------------------------------------------------------------------------
(***************************************************************************)
(* The refinement.  What an observer of the chains sees between two        *)
(* transactions is the world below the outermost call.                     *)
(***************************************************************************)
AtRest == IF stack = <<>> THEN world ELSE stack[1].entry

LEMMA AccountsAre ==
  \A w, x : x \in Accounts(w) <=>
    \E c \in Chain : \E at \in DOMAIN w.storage[c] \ Singleton :
      x = [chain |-> c, at |-> at, setting |-> w.storage[c][at]]
BY DEF Accounts

LEMMA AtRestStays ==
  ASSUME TypeOK, IndInv, [Next]_vars
  PROVE  AtRest' = AtRest \/ (stack' = <<>> /\ Extends(world', AtRest))
<1>1. ASSUME NEW f, stack' = Append(stack, f), f.entry = world
      PROVE  AtRest' = AtRest
  <2>1. stack \in Seq(Call)  BY DEF TypeOK
  <2>2. CASE stack = <<>>
    <3>1. stack' # <<>> /\ stack'[1] = f  BY <1>1, <2>2
    <3> QED  BY <1>1, <2>2, <3>1 DEF AtRest
  <2>3. CASE stack # <<>>
    <3>1. stack' # <<>> /\ stack'[1] = stack[1]  BY <1>1, <2>1, <2>3
    <3> QED  BY <2>3, <3>1 DEF AtRest
  <2> QED  BY <2>2, <2>3
<1>2. ASSUME stack # <<>>, NEW f, NEW w, Continue(f, w), f.entry = Top.entry
      PROVE  AtRest' = AtRest
  <2>1. /\ Len(stack) \in Nat \ {0} /\ Below \in Seq(Call) /\ Len(Below) = Len(stack) - 1
        /\ \A k \in 1..(Len(stack) - 1) : Below[k] = stack[k]
    BY <1>2, StackIs
  <2>2. stack' = Append(Below, f)  BY <1>2 DEF Continue
  <2>3. stack' # <<>>  BY <2>1, <2>2
  <2>4. stack'[1].entry = stack[1].entry
    <3>1. CASE Len(stack) = 1
      <4>1. stack'[1] = f  BY <2>1, <2>2, <3>1
      <4> QED  BY <1>2, <3>1, <4>1 DEF Top
    <3>2. CASE Len(stack) > 1
      <4>1. stack'[1] = stack[1]  BY <2>1, <2>2, <3>2
      <4> QED  BY <4>1
    <3> QED  BY <2>1, <3>1, <3>2
  <2> QED  BY <1>2, <2>3, <2>4 DEF AtRest
<1>3. ASSUME stack # <<>>, NEW w, Return(w), w = Top.entry \/ w.storage = world.storage
      PROVE  AtRest' = AtRest \/ (stack' = <<>> /\ Extends(world', AtRest))
  <2>1. /\ Len(stack) \in Nat \ {0} /\ Below \in Seq(Call) /\ Len(Below) = Len(stack) - 1
        /\ \A k \in 1..(Len(stack) - 1) : Below[k] = stack[k]
    BY <1>3, StackIs
  <2>2. stack' = Below /\ world' = w  BY <1>3 DEF Return
  <2>3. CASE Len(stack) > 1
    <3>1. Below # <<>> /\ Below[1] = stack[1]  BY <2>1, <2>3
    <3> QED  BY <1>3, <2>2, <3>1 DEF AtRest
  <2>4. CASE Len(stack) = 1
    <3>1. stack' = <<>> /\ AtRest' = w
      <4>1. Below = <<>>  BY <2>1, <2>4, EmptySeq
      <4> QED  BY <2>2, <4>1 DEF AtRest
    <3>2. AtRest = stack[1].entry /\ Top = stack[1]  BY <1>3, <2>4 DEF AtRest, Top
    <3>3. Extends(world, stack[1].entry)  BY <1>3, TopIs
    <3> QED  BY <1>3, <2>2, <3>1, <3>2, <3>3 DEF Extends
  <2> QED  BY <2>1, <2>3, <2>4
<1>4. CASE UNCHANGED vars  BY <1>4 DEF vars, AtRest
<1>5. ASSUME NEW c, NEW at, NEW config, setup(c, at, config)  PROVE AtRest' = AtRest
  <2>1. \E f : stack' = Append(stack, f) /\ f.entry = world
    BY <1>5 DEF setup, SetUp, Frame
  <2> QED  BY <1>1, <2>1
<1>6. ASSUME NEW kind, NEW c, NEW i, NEW at, NEW request, deployProxy(kind, c, i, at, request)
      PROVE  AtRest' = AtRest
  <2>1. \E f : stack' = Append(stack, f) /\ f.entry = world
    BY <1>6 DEF deployProxy, SetUp, Frame
  <2> QED  BY <1>1, <2>1
<1>7. CASE InitializerReturns
  <2>1. stack # <<>> /\ Top \in Call  BY <1>7, TopIs DEF InitializerReturns
  <2>2. [Top EXCEPT !.pc = "payment"].entry = Top.entry  BY <2>1 DEF Call
  <2> QED  BY <1>2, <1>7, <2>1, <2>2 DEF InitializerReturns
<1>8. ASSUME NEW t, NEW f  PROVE Note(world, t, f).storage = world.storage
  BY DEF Note, TypeOK, World
<1>9. CASE PaymentReturns
  <2>1. stack # <<>> /\ Top \in Call  BY <1>9, TopIs DEF PaymentReturns
  <2>2. [Top EXCEPT !.pc = "deployed"].entry = Top.entry  BY <2>1 DEF Call
  <2> QED  BY <1>2, <1>3, <1>8, <1>9, <2>1, <2>2 DEF PaymentReturns
<1>10. CASE AnnounceProxy
  <2>1. stack # <<>> /\ Top \in Call  BY <1>10, TopIs DEF AnnounceProxy
  <2>2. [Top EXCEPT !.pc = "callback"].entry = Top.entry  BY <2>1 DEF Call
  <2> QED  BY <1>2, <1>3, <1>8, <1>10, <2>1, <2>2 DEF AnnounceProxy
<1>11. CASE CallbackReturns  BY <1>3, <1>11 DEF CallbackReturns
<1>12. CASE Reverts  BY <1>3, <1>12 DEF Reverts
<1> QED
  BY <1>4, <1>5, <1>6, <1>7, <1>9, <1>10, <1>11, <1>12
  DEF Next, createProxyWithNonce, createChainSpecificProxyWithNonce, createProxyWithCallback

\* With no call open every account is what its address promises.
LEMMA AllKept ==
  ASSUME NEW w, NEW st, WorldOK(w, 0, st), NEW x \in Accounts(w)
  PROVE  Registry!Kept(x) /\ x.at.chain \in {NoChain, x.chain}
<1>0. PICK c \in Chain : \E a \in DOMAIN w.storage[c] \ Singleton :
        x = [chain |-> c, at |-> a, setting |-> w.storage[c][a]]
  BY AccountsAre
<1>1. PICK at \in DOMAIN w.storage[c] \ Singleton :
        x = [chain |-> c, at |-> at, setting |-> w.storage[c][at]]
  BY <1>0
<1>2. at.chain \in {NoChain, c}  BY ProxiesAre DEF WorldOK, PlacesOK
<1>3. at.initializer = Empty \/ w.storage[c][at] = Full(at.initializer)
  <2>1. ASSUME NEW i \in DOMAIN w.trace, SetBy(w, 0, st, c, at, i)
        PROVE  at.initializer = Empty \/ w.storage[c][at] = Full(at.initializer)
    BY <2>1 DEF SetBy
  <2> QED  BY <2>1 DEF WorldOK, AccountsOK
<1> QED  BY <1>1, <1>2, <1>3 DEF Registry!Kept, Full

\* A transaction of the chain founds accounts and keeps those that are founded.
LEMMA TransactionFounds ==
  ASSUME NEW w, NEW e, NEW st, WorldOK(w, 0, st), Extends(w, e)
  PROVE  /\ \A old \in Accounts(e) :
              \/ old \in Accounts(w)
              \/ /\ old.setting = Registry!Fresh
                 /\ \E new \in Accounts(w) : new.chain = old.chain /\ new.at = old.at
         /\ \A new, other \in Accounts(w) :
              new.chain = other.chain /\ new.at = other.at => new = other
         /\ \A new \in Accounts(w) :
              Registry!Kept(new) /\ new.at.chain \in {NoChain, new.chain}
<1>1. ASSUME NEW old \in Accounts(e)
      PROVE  \/ old \in Accounts(w)
             \/ /\ old.setting = Registry!Fresh
                /\ \E new \in Accounts(w) : new.chain = old.chain /\ new.at = old.at
  <2>0. PICK c \in Chain : \E a \in DOMAIN e.storage[c] \ Singleton :
          old = [chain |-> c, at |-> a, setting |-> e.storage[c][a]]
    BY AccountsAre
  <2>1. PICK at \in DOMAIN e.storage[c] \ Singleton :
          old = [chain |-> c, at |-> at, setting |-> e.storage[c][at]]
    BY <2>0
  <2>2. /\ at \in DOMAIN w.storage[c] \ Singleton
        /\ w.storage[c][at] = e.storage[c][at] \/ e.storage[c][at] = Fresh
    BY DEF Extends
  <2>3. [chain |-> c, at |-> at, setting |-> w.storage[c][at]] \in Accounts(w)
    BY <2>2, AccountsAre
  <2> QED  BY <2>1, <2>2, <2>3 DEF Fresh, Registry!Fresh
<1>2. ASSUME NEW new \in Accounts(w), NEW other \in Accounts(w),
             new.chain = other.chain, new.at = other.at
      PROVE  new = other
  <2>1. PICK c \in Chain : \E at \in DOMAIN w.storage[c] \ Singleton :
          new = [chain |-> c, at |-> at, setting |-> w.storage[c][at]]
    BY AccountsAre
  <2>2. PICK d \in Chain : \E at \in DOMAIN w.storage[d] \ Singleton :
          other = [chain |-> d, at |-> at, setting |-> w.storage[d][at]]
    BY AccountsAre
  <2> QED  BY <1>2, <2>1, <2>2
<1> QED  BY <1>1, <1>2, AllKept

\* At rest, accounts are what their addresses promise, whatever transactions do: the
\* factory and setup implement AccountRegistry (SafeProxyFactory.sol:57).
THEOREM Implementation == Spec => KeepsPromises
<1>1. Init => Registry!Init
  <2> SUFFICES ASSUME Init  PROVE Accounts(world) = {} /\ stack = <<>>
    BY DEF Registry!Init
  <2>1. PICK deployed \in [Chain -> SUBSET Singleton] :
          world = [storage |-> [c \in Chain |-> [s \in deployed[c] |-> SingletonStorage]],
                   trace |-> <<>>]
    BY DEF Init
  <2>2. \A c \in Chain : DOMAIN world.storage[c] = deployed[c]  BY <2>1
  <2>3. \A c \in Chain : DOMAIN world.storage[c] \ Singleton = {}  BY <2>2
  <2> QED  BY <2>3, AccountsAre DEF Init
<1>2. TypeOK /\ IndInv /\ TypeOK' /\ IndInv' /\ [Next]_vars
        => [Registry!Next]_(Accounts(AtRest))
  <2> SUFFICES ASSUME TypeOK, IndInv, TypeOK', IndInv', [Next]_vars,
                      ~(AtRest' = AtRest)
               PROVE  Registry!Next
    BY DEF AtRest
  <2>1. stack' = <<>> /\ Extends(world', AtRest)  BY AtRestStays
  <2>2. AtRest' = world'  BY <2>1 DEF AtRest
  <2>3. WorldOK(world', 0, stack')  BY <2>1 DEF IndInv
  <2> QED  BY <2>1, <2>2, <2>3, TransactionFounds
           DEF Registry!Next, Registry!Found, AtRest
<1>3. TypeOK /\ IndInv /\ [Next]_vars => TypeOK' /\ IndInv'  BY StepOK
<1> QED  BY <1>1, <1>2, <1>3, IndInvAlways, PTL DEF Spec, KeepsPromises, Registry!Spec, AtRest
================================================================================
