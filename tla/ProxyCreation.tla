----------------------------- MODULE ProxyCreation ------------------------------
(***************************************************************************)
(* How Safes come into being: SafeProxyFactory deploys a proxy at an       *)
(* address that it computes from the singleton, the initializer and a      *)
(* number (CREATE2), and calls it with the initializer, which is a call of *)
(* Safe.setup.  The initializer of the setup, the receiver of its payment  *)
(* and the callback of the creation are code that nobody here knows; it    *)
(* may call factory and Safes again, and whatever reverts takes back all   *)
(* that happened since its call.  Anybody may create anybody's Safe, on    *)
(* any chain, before its owner does.                                       *)
(*                                                                         *)
(* Chains share no state.  So it is enough that one transaction runs at a  *)
(* time, on any chain.                                                     *)
(***************************************************************************)
EXTENDS Integers, Sequences, FiniteSets, SequencesExt

CONSTANTS
  Chain,
  Singleton,      \* contracts of Safe, deployed on some chains
  Config,         \* arguments of setup: owners, threshold, handler, to, modules, payment
  Self, NoHandler,  \* handlers: the Safe itself, none
  NoInitializer,  \* to = address(0)
  SaltNonce, Callback, NoCallback,
  Empty, NoChain, \* the empty initializer; address that holds on every chain
  MaxAccounts, MaxDepth   \* bounds: proxies on all chains, open calls

VARIABLES
  world,   \* what a revert restores: the storage of the accounts, and a trace
  stack    \* the open calls of the factory and of setup

vars == <<world, stack>>

Initializer == Config \cup {Empty}

Fresh == [owners |-> {}, threshold |-> 0, handler |-> NoHandler, modules |-> {}]

\* The constructor of Safe makes the singleton itself a Safe that nobody owns.
SingletonStorage == [Fresh EXCEPT !.threshold = 1]

Init ==
  /\ \E deployed \in [Chain -> SUBSET Singleton] :
       world = [storage |-> [c \in Chain |-> [s \in deployed[c] |-> SingletonStorage]],
                trace |-> <<>>]
  /\ stack = <<>>

Top == stack[Len(stack)]
Below == SubSeq(stack, 1, Len(stack) - 1)
Continue(f, w) == world' = w /\ stack' = Append(Below, f)
Return(w) == world' = w /\ stack' = Below

Note(w, type, f) ==
  [w EXCEPT !.trace =
     Append(@, [type |-> type, by |-> f.kind, chain |-> f.chain, at |-> f.at,
                config |-> f.config, request |-> f.request])]

\* A call waits for foreign code.  Every other pc is passed at once.
CallsOut(f) ==
  \/ f.pc = "initializer" /\ f.config.to # NoInitializer
  \/ f.pc = "payment" /\ f.config.payment > 0
  \/ f.pc = "callback"

CanCall(chain) ==
  /\ stack # <<>> => CallsOut(Top) /\ Top.chain = chain
  /\ Len(stack) < MaxDepth

\* What a function of the factory was called with, next to the chain and the initializer.
Request(singleton, saltNonce, callback) ==
  [singleton |-> singleton, saltNonce |-> saltNonce, callback |-> callback]

NoRequest == <<>>

Frame(kind, chain, at, config, request) ==
  [kind |-> kind, chain |-> chain, at |-> at, config |-> config,
   request |-> request, pc |-> "initializer", entry |-> world]

--------------------------------------------------------------------------------
(***************************************************************************)
(* Safe.setup up to its first external call: the owners, whose threshold   *)
(* closes the door for any other setup, and the fallback handler.  owners  *)
(* is a set of legal owners; OwnerManager has the checks of the array.     *)
(***************************************************************************)
ValidConfig(config) ==
  /\ config.threshold \in 1..Cardinality(config.owners)   \* GS201, GS202
  /\ config.handler # Self                                \* GS400

SetOwners(setting, config) ==
  [owners |-> config.owners, threshold |-> config.threshold,
   handler |-> config.handler, modules |-> setting.modules]

\* Does not ask whether there are owners already.
SetUpSlip(f, w) ==
  /\ ValidConfig(f.config)
  /\ world' = Note([w EXCEPT !.storage[f.chain][f.at] = SetOwners(@, f.config)],
                   "setup", f)
  /\ stack' = Append(stack, f)

SetUp(f, w) ==
  /\ w.storage[f.chain][f.at].threshold = 0               \* GS200
  /\ ValidConfig(f.config)
  /\ world' = Note([w EXCEPT !.storage[f.chain][f.at] = SetOwners(@, f.config)],
                   "setup", f)
  /\ stack' = Append(stack, f)

setup(chain, at, config) ==
  /\ CanCall(chain)
  /\ at \in DOMAIN world.storage[chain]
  /\ SetUp(Frame("setup", chain, at, config, NoRequest), world)

\* setupModules: what the initializer leaves behind are the modules it enables.
InitializerReturns ==
  /\ stack # <<>> /\ Top.pc = "initializer"
  /\ Continue([Top EXCEPT !.pc = "payment"],
              [world EXCEPT !.storage[Top.chain][Top.at].modules = Top.config.modules])

\* handlePayment, at the end of setup.
PaymentReturns ==
  /\ stack # <<>> /\ Top.pc = "payment"
  /\ LET w == Note(world, "initialized", Top)
     IN IF Top.kind = "setup" THEN Return(w)
        ELSE Continue([Top EXCEPT !.pc = "deployed"], w)

--------------------------------------------------------------------------------
(***************************************************************************)
(* The factory.  An address stands for what CREATE2 hashes.                *)
(***************************************************************************)
Address(singleton, initializer, saltNonce, chain) ==
  [singleton |-> singleton, initializer |-> initializer, saltNonce |-> saltNonce,
   chain |-> chain]

Create2(singleton, initializer, saltNonce, chain) ==
  Address(singleton, initializer, saltNonce, chain)

Accounts(w) ==
  UNION {{[chain |-> c, at |-> a, setting |-> w.storage[c][a]] :
            a \in DOMAIN w.storage[c] \ Singleton} : c \in Chain}

Deployed(w, chain, at) ==
  [w EXCEPT !.storage[chain] =
     [a \in DOMAIN @ \cup {at} |-> IF a = at THEN Fresh ELSE @[a]]]

deployProxy(kind, chain, initializer, at, request) ==
  /\ Cardinality(Accounts(world)) < MaxAccounts
  /\ request.singleton \in DOMAIN world.storage[chain]    \* Singleton contract not deployed
  /\ at \notin DOMAIN world.storage[chain]                \* Create2 call failed
  /\ LET f == Frame(kind, chain, at, initializer, request)
         w == Deployed(world, chain, at)
     IN \/ initializer # Empty /\ SetUp(f, w)
        \/ /\ initializer = Empty
           /\ world' = w /\ stack' = Append(stack, [f EXCEPT !.pc = "deployed"])

createProxyWithNonce(chain, singleton, initializer, saltNonce) ==
  /\ CanCall(chain)
  /\ deployProxy("createProxy", chain, initializer,
                 Create2(singleton, initializer, saltNonce, NoChain),
                 Request(singleton, saltNonce, NoCallback))

createChainSpecificProxyWithNonce(chain, singleton, initializer, saltNonce) ==
  /\ CanCall(chain)
  /\ deployProxy("createChainSpecificProxy", chain, initializer,
                 Create2(singleton, initializer, saltNonce, chain),
                 Request(singleton, saltNonce, NoCallback))

SaltNonceWithCallback(saltNonce, callback) ==
  [saltNonce |-> saltNonce, callback |-> callback]

createProxyWithCallback(chain, singleton, initializer, saltNonce, callback) ==
  /\ CanCall(chain)
  /\ deployProxy("createProxyWithCallback", chain, initializer,
                 Create2(singleton, initializer,
                         SaltNonceWithCallback(saltNonce, callback), NoChain),
                 Request(singleton, saltNonce, callback))

\* Calls back first, so that the callback may do anything before the event.
AnnounceProxySlip ==
  /\ stack # <<>> /\ Top.pc = "deployed"
  /\ LET called == IF Top.request.callback = NoCallback THEN world
                   ELSE Note(world, "proxyCreated", Top)
         w == Note(called, "ProxyCreation", Top)
     IN IF Top.request.callback = NoCallback THEN Return(w)
        ELSE Continue([Top EXCEPT !.pc = "callback"], w)

\* The event, before anybody is called back.
AnnounceProxy ==
  /\ stack # <<>> /\ Top.pc = "deployed"
  /\ LET w == Note(world, "ProxyCreation", Top)
     IN IF Top.request.callback = NoCallback THEN Return(w)
        ELSE Continue([Top EXCEPT !.pc = "callback"], Note(w, "proxyCreated", Top))

CallbackReturns ==
  /\ stack # <<>> /\ Top.pc = "callback"
  /\ Return(world)

\* The factory does not look whether the initializer failed.
RevertsSlip ==
  /\ stack # <<>>
  /\ IF Top.kind = "setup" THEN Return(Top.entry)
     ELSE Return(Deployed(Top.entry, Top.chain, Top.at))

\* The initializer fails (GS000, GS002), the payment does (GS011, GS012), the callback
\* reverts, or gas runs out: all of it is taken back.
Reverts == stack # <<>> /\ Return(Top.entry)

\* A number that anybody can pass, the one of a creation with a callback included.
AnyNonce ==
  SaltNonce \cup {SaltNonceWithCallback(n, cb) : n \in SaltNonce, cb \in Callback \cup {NoCallback}}

\* Where the factory can create a Safe on the chain: no hash is the address of a singleton.
ProxyAddress(chain) ==
  {Address(s, i, n, ch) :
     s \in Singleton, i \in Initializer, n \in AnyNonce, ch \in {NoChain, chain}}

ASSUME HashAssumption == \A chain \in Chain : Singleton \cap ProxyAddress(chain) = {}

--------------------------------------------------------------------------------
(***************************************************************************)
(* src/utils/proxies.ts: where a client expects its Safe, before it is     *)
(* created.                                                                *)
(***************************************************************************)
calculateProxyAddress(singleton, initializer, nonce) ==
  Address(singleton, initializer, nonce, NoChain)

\* The salt leaves out the callback.
calculateProxyAddressWithCallbackSlip(singleton, initializer, nonce, callback) ==
  calculateProxyAddress(singleton, initializer, nonce)

calculateProxyAddressWithCallback(singleton, initializer, nonce, callback) ==
  calculateProxyAddress(singleton, initializer, SaltNonceWithCallback(nonce, callback))

calculateChainSpecificProxyAddress(singleton, initializer, nonce, chainId) ==
  Address(singleton, initializer, nonce, chainId)

--------------------------------------------------------------------------------
Next ==
  \/ \E c \in Chain, s \in Singleton, i \in Initializer :
       \/ \E n \in AnyNonce : createProxyWithNonce(c, s, i, n)
       \/ \E n \in SaltNonce : createChainSpecificProxyWithNonce(c, s, i, n)
       \/ \E n \in SaltNonce, cb \in Callback \cup {NoCallback} :
            createProxyWithCallback(c, s, i, n, cb)
  \/ \E c \in Chain, config \in Config : \E at \in DOMAIN world.storage[c] :
       setup(c, at, config)
  \/ InitializerReturns \/ PaymentReturns
  \/ AnnounceProxy \/ CallbackReturns \/ Reverts

Spec == Init /\ [][Next]_vars

--------------------------------------------------------------------------------
Entries(type, chain, at) ==
  {i \in DOMAIN world.trace :
     world.trace[i].type = type /\ world.trace[i].chain = chain /\ world.trace[i].at = at}

\* A Safe is set up once, with the initializer that its address contains if there is
\* one, and is never seen deployed without it, not by the code that runs in the middle
\* of setup either; a singleton is never set up (Safe.sol:73-78, "By setting the
\* threshold it is not possible to call setup anymore").
SetUpOnce ==
  \A c \in Chain : \A at \in DOMAIN world.storage[c] :
    LET setups == Entries("setup", c, at)
    IN IF at \in Singleton THEN setups = {}
       ELSE /\ Cardinality(setups) = IF world.storage[c][at] = Fresh THEN 0 ELSE 1
            /\ at.initializer # Empty =>
                 \E i \in setups : world.trace[i].config = at.initializer

\* A callback hears of a Safe after its setup is over, and so after the modules are
\* enabled and the payment is made, after the event, and once; whoever else called the
\* factory in between (SafeProxyFactory.sol:88, "after the new proxy contract has
\* been successfully deployed and initialized").
CalledBackAfterCreation ==
  \A i \in DOMAIN world.trace : LET e == world.trace[i] IN
    e.type = "proxyCreated" =>
      /\ Entries("proxyCreated", e.chain, e.at) = {i}
      /\ \E j \in Entries("ProxyCreation", e.chain, e.at) : j < i
      /\ e.at.initializer # Empty =>
           \E j \in Entries("initialized", e.chain, e.at) : j < i

\* Whoever created it and whatever ran in between, a Safe is where the client computes it
\* with the arguments of its creation, by the helper for the function that created it, and
\* is announced once.  A callback that computes the address from what it is given and its
\* own address finds the Safe there (proxies.ts:4-36, SafeProxyFactory.sol:96-98).
ExpectedAddress(function, request, initializer, chain) ==
  CASE function = "createProxy" ->
         calculateProxyAddress(request.singleton, initializer, request.saltNonce)
    [] function = "createChainSpecificProxy" ->
         calculateChainSpecificProxyAddress(request.singleton, initializer,
                                            request.saltNonce, chain)
    [] function = "createProxyWithCallback" ->
         calculateProxyAddressWithCallback(request.singleton, initializer,
                                           request.saltNonce, request.callback)

CreatedWhereExpected ==
  \A i \in DOMAIN world.trace : LET e == world.trace[i] IN
    /\ e.type \in {"ProxyCreation", "proxyCreated"} =>
         e.at = ExpectedAddress(e.by, e.request, e.config, e.chain)
    /\ e.type = "ProxyCreation" => Entries("ProxyCreation", e.chain, e.at) = {i}

\* At rest, accounts are what their addresses promise (SafeProxyFactory.sol:57, "If the
\* initializer changes the proxy address should change too").
Registry == INSTANCE AccountRegistry WITH
  accounts <- Accounts(IF stack = <<>> THEN world ELSE stack[1].entry)

KeepsPromises == Registry!Spec
================================================================================
