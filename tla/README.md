# A TLA+ model of the Safe smart account

This directory holds TLA+ specifications of the Safe contracts (`contracts/`), of the clients
that build, sign and relay their transactions (`src/utils/`, `tests_deprecated/utils/`) and of
the tools that deploy them (`src/deploy/`, `src/tasks/`), TLC configurations that check them on
small instances, and TLAPS proofs of what holds for every instance.

Run everything from this directory:

    tlc -config OwnerManager.cfg MCOwnerManager     # one of the runs below
    tlapm DataStructureProofs.tla                   # one of the proof modules

## 1. The system

A Safe is an account on Ethereum that acts when enough of its owners agree. One deployed
`Safe` contract (the singleton) holds the code; each account is a `SafeProxy` that
delegates to it and holds the storage.

| Part | State | Operations | Talks to |
|---|---|---|---|
| Owners (`base/OwnerManager.sol`) | `owners` (linked list in a mapping), `ownerCount`, `threshold` | `setupOwners`, `addOwnerWithThreshold`, `removeOwner`, `swapOwner`, `changeThreshold`; `isOwner`, `getOwners` | called by `setup`, and by the Safe itself (`authorized`); read by the signature check |
| Modules (`base/ModuleManager.sol`) | `modules` (linked list), module guard slot | `setupModules`, `enableModule`, `disableModule`, `setModuleGuard`, `execTransactionFromModule(ReturnData)`; `getModulesPaginated` | called by modules and by the Safe itself; calls the module guard and any target |
| Execution (`Safe.sol`, `base/Executor.sol`) | `nonce` | `execTransaction` with `handlePayment` | signature check, guard, target, refund receiver or token |
| Signatures (`Safe.sol`, `common/SignatureDecoder.sol`, `src/utils/execution.ts`) | `approvedHashes` | `checkSignatures`, `checkNSignatures`, `approveHash`; `buildSignatureBytes` off chain | owner contracts (EIP-1271), `ecrecover` |
| Guards (`base/GuardManager.sol`, `examples/guards/*`) | guard slot; each guard's own storage | `setGuard`; hooks before and after each execution | called by execution |
| Fallback (`base/FallbackManager.sol`, `handler/*`) | handler slot | `setFallbackHandler`, `fallback` | forwards unknown calls, answers `isValidSignature` for the Safe |
| Proxies (`proxies/*`) | singleton slot | `createProxyWithNonce`, `createChainSpecificProxyWithNonce`, `createProxyWithCallback` | deploy, initialise (`setup`), call back |
| Libraries (`libraries/*`) | the Safe's storage, through delegatecall | `multiSend`, `signMessage`, migrations, `CreateCall` | called by transactions |
| `SafeL2`, accessors, storage access | none of their own | events; simulation that always reverts | wrap execution |
| Clients (`src/utils/execution.ts`, `src/utils/proxies.ts`, `tests_deprecated/utils/`) | what a script has read, signed and sent | build, hash, sign, estimate, relay; compute addresses in advance | the chain, through awaits; signers; the token |
| Deployment (`src/deploy`, `src/tasks`, `hardhat.config.ts`) | code on the chain, `deployments/*.json`, an operator's checkout | `deploy` by tags, `deploy-contracts`, `local-verify`, the deterministic factory | the chain, downloads of compilers, other operators |

Everything happens inside Ethereum transactions, which run one after the other and take
effect as a whole or not at all. The hard behaviour is inside one of them and between them:

- **Reentrancy.** Guard, target, refund receiver and token are foreign code that runs in the
  middle of the Safe's functions and may call the Safe again.
- **Partial failure.** An inner call that fails is undone and execution goes on; a revert
  anywhere undoes a whole subtree of calls, and the caller may go on.
- **Configuration changed by what it governs.** A transaction may replace the guard that
  checked it, disable the module that sent it, or change owners and threshold under
  signatures that wait to be relayed.
- **Stale input.** `prevOwner`, page cursors, signature arrays and approvals are computed
  from a state that may be gone when they are used.
- **Awaits.** A client reads, lets owners sign, and sends; between any two of these the nonce,
  the owners, the target, the price or the chain may have moved on, and whatever is signed
  anybody may send.
- **Safes that own Safes**: a confirmation is itself a transaction, of an account whose owners change.
- **Unchecked and checked arithmetic** in one function: the gas check may wrap, the payment may not.
- **Crashes of tools.** A deployment is several commands, each may die and is started again, on a
  chain where somebody else deploys the same.
- **Byte and list arithmetic** that only fits together when several functions agree:
  the linked lists, the offsets in signature arrays, the page cursor, the offsets of packed batches.

What makes each part correct, in a sentence: *owners* - the list, its count and the threshold
are at any time a set with a quorum it can reach; *modules* - the list is a set, and reading it
by pages misses nothing; *execution* - one confirmed transaction per nonce, events, refunds and
guard calls that tell the truth about it; *signatures* - exactly what enough current owners
confirmed passes; *guards* - hooks come in pairs; *proxies* - an address means a setting, and a
Safe is set up once; *batches* - all or nothing; *clients* - what executes is what was signed, and
whoever loses a race knows it; *refunds* - the call gets its gas, the Safe pays no more than was agreed;
*deployment* - what is verified is what was deployed.

`PROJECT.json` lists the hazards with their lines and the properties that cover each.

## 2. The modules

    SentinelList ----+---- OwnerManager  --refines--> OwnerRegistry
      (list in a     |
       mapping)      +---- ModuleManager --refines--> ModuleSet
                                 |
                           ModulePaging (a client that reads pages)

    SafeExecution  --refines--> ExecutionLedger
    SafeSignatures --refines--> Multisig, both over OwnerRegistry
    ProxyCreation  --refines--> AccountRegistry

    GasRules ------- RefundedExecution (gas, refunds and their clients)
    SafeL2, NestedSafes, MultiSend, SafeClient, Deployment: each on its own

`execTransaction` appears in several modules, each with the part of it that is at stake: the stack of calls
in SafeExecution, the signature check in SafeSignatures, the gas in RefundedExecution, the
events in SafeL2, the nonce that clients race for in SafeClient, owners that are Safes in NestedSafes. One module of
all would have more states than can be searched, and the parts meet in few places: SafeExecution takes from SafeSignatures
that what is executed is confirmed; NestedSafes and SafeClient take from both that nonces are used in order.

`MC*` modules give the constants of a TLC run, `*Proofs` modules hold theorems. Operators whose names end in `Slip` are plausible
mistakes in the definition that follows them. No specification uses them; substituting one
must break the property it was written for, which shows that the property says something
about the code.

### SentinelList, OwnerManager, OwnerRegistry

`owners` is the Solidity mapping, a function on a finite set of addresses; `PushFront`,
`Unlink` and `Replace` are the two or three assignments of the operations, with the claimed
predecessor as it was passed. Addresses are numbers, 0 the zero address and 1 the sentinel.
An operation is an action whose guards are the checks that do not revert (the error code is
on the line), for any arguments: `\E` ranges over all `prevOwner`, owners and
thresholds, the senseless ones included. `setupOwners` is written over the whole array:
`LinkedBefore` says which entries the mapping knows at iteration *i*, which is how the code
finds repetitions. `SelfCall` is the `authorized` modifier: a call of the Safe to itself,
which only a Safe with a threshold can come to make. Events are left out.

`OwnerRegistry` is the abstract specification: a set of members and a quorum.

### ModuleManager, ModuleSet, ModulePaging

As above for modules. `setupModules` opens the list and delegatecalls an initializer; the
model lets the initializer enable any of a set of module sequences, and fails as a whole if
one of them fails. `getModulesPaginated` is the loop over the mapping, the correction of
`next` included. `ModulePaging` adds a client outside the chain that reads page after page
until `next` is the sentinel and starts over if a page is refused (GS105), while the Safe
changes its modules between two pages. `cursor`, `seen` are the client's variables; `repeated`,
`before`, `removed` and `finished` only record what the properties speak of.

### SafeExecution, ExecutionLedger

`world` is the storage (nonce, guards, modules, the reentrancy guard's flag `busy`) with a `trace` of
what contracts and events record and, in `strangers`, the calls of that guard's hooks that others made. `stack` holds the open calls of `execTransaction` and
`execTransactionFromModule`, each with the external call it waits for (`pc`: `check`,
`execute`, `refund`, `after`), the guard in its local variable, and the storage to go back to
if it reverts (`entry`) or if only what it executes fails (`before`). An action is the code
between two external calls:

| Code | Action |
|---|---|
| entry up to the guard's check, `nonce++` included | `execTransaction`, `execTransactionFromModule` (through `Enter`) |
| the guard returned | `GuardApproves` |
| a call (of the batch) returned | `CallReturns`: a self-call is applied, any other leaves an `effect` |
| `execute` returned true, false | `ExecutionSucceeds`, `ExecutionFails` (undoes to `before`) |
| `handlePayment` returned | `RefundPaid` |
| event, after-check | `Emit`, `GuardAccepts`; the module functions do them in the other order |
| any `require`, `revertWithError`, out of gas, a refusal by guard, receiver or token | `Reverts` (undoes to `entry`, and pops) |

Whenever foreign code is on top of the stack (`CallsOut`), it may call `execTransaction` with
anything the owners have signed, or any module may call its function. That the caller of a
reverting call goes on is implied: the frame below is simply on top again.

The hooks of `ReentrancyTransactionGuard` are external, ask for no caller, and share one flag. So `strangerChecks` and
`strangerAfterChecks` may happen whenever foreign code runs, and between transactions: code that a transaction calls, the
guard itself as its target, or another Safe with the same guard, which blocks this one while it executes and frees it at
its end. What they did is part of the storage that a revert takes back. `OnlyStrangersInterfere` says how far the guard
can be relied upon: reentrance or a lock is always their doing, never that of this Safe's own checks and reverts.

Assumptions: `Signed` stands for what `checkSignatures` accepts (SafeSignatures is about that),
fixed during a behaviour (SafeClient and NestedSafes let it grow); delegatecalls go to code like `MultiSend` that keeps to the Safe's own functions; setGuard's interface check is
left out; a module transaction is identified by its module, its calls and its
place, which stands for the hash a guard makes of it.

`ExecutionLedger` is what owners rely on: one entry per nonce, without gaps, each a transaction
that was confirmed for that nonce. The refinement looks at the storage at the entry of the
outermost open call, which is what the chain shows while an Ethereum transaction runs.

### SafeSignatures, Multisig

Byte arrays keep their offsets and lose their contents: 65-byte slots, then dynamic
parts of 32 + 65 bytes at offsets. `Layout` and `buildSignatureBytes` are the off-chain builder,
`checkNSignatures` the loop of the contract; slot kinds are `v = 0` (contract), `1` (approved
hash or the relayer itself), above `30` (`eth_sign`) and the rest (ECDSA). Signatures cannot be
forged: an ECDSA slot that can be submitted comes from `signed`, and may be relabelled with
another `v`. Arrays may have slots in any order, repeated, too many, and their end cut
off. Bytes read from where no slot or dynamic part begins are noise that no check accepts. `accepts` is what
owner contracts would answer now, and they may change their minds. Owners change by
OwnerRegistry's steps, which OwnerManager implements, within an execution or by a module.

`Multisig` is the same without bytes: a transaction is executed if `quorum` of the current
members stand behind its hash, which contains the current nonce; nobody confirms for another.

### ProxyCreation, AccountRegistry

The factory's three create functions and `setup`, with the same structure as SafeExecution:
`world` is the storage of every proxy and singleton on every chain, `stack` the open calls, `pc` the
foreign code they wait for (`initializer`, `payment`, `callback`). A creation and the `setup` it calls are one frame,
because the failure of one is the failure of the other. An address is the record of what CREATE2 hashes; hashes do
not collide. Chains share nothing but the addresses, so one transaction at a time, on any chain, loses no behaviour.
`Next` has no callers' names: anyone may send a creation that somebody else has announced, on another
chain, or with the number that a creation with callback would compute.

Assumptions: initializers are empty or calls of `setup`; the delegatecall of `setup` enables modules and keeps
to itself what it does elsewhere; owners who change their Safe afterwards are OwnerManager's business.

`calculateProxyAddress` and its two variants for chain-specific Safes and creations with callback (`src/utils/proxies.ts`)
are operators over the same records; they compute from the client's arguments what the factory computes from its own. Each
creation keeps its arguments (`Request`) in its frame and in what it announces, so that `CreatedWhereExpected` compares the
address with that of the helper for the function called, with these arguments and no others.

`AccountRegistry` is what someone who computes an address in advance relies on: it promises a setting.

### SafeClient

The scripts of `src/utils/execution.ts`. A client's variables are what it has in its locals
between two awaits: `Step(c)` is `executeContractCallWithSigners` up to its first signature, with its read of the
nonce, then one `safeSignTypedData` after the other in any order, `executeTx`, whose estimation of gas throws if the
transaction would revert now, and `Mined`; a script that fails is run again from the start. `safe` is, for each
chain, the nonce of the Safe at that address and the log of what was executed. What a signature covers is the record of
the EIP-712 domain (chain, Safe) and all fields. A signer's provider is on one chain, not
always the script's. Strangers copy what is pending and send it first, to either chain. What is sent is mined in any order.

### GasRules, RefundedExecution

`GasRules` is the arithmetic, with `Word` for 2^256: the check of GS010, which computes modulo `Word`, EIP-150's
rule that a call gets all but a 64th, the limit and the price. `RefundedExecution` is `execTransaction` from the gas check to the
payment, once with a relayer who chooses gas and price (`Relay`) and once with the legacy client
`executeTransactionWithSigner`, whose steps are separated where it awaits: `Estimate` by
`requiredTxGas`, `ReadNonce` and compute `baseGas` from the call data, `Simulate` in a loop with more and more gas, `Sign`,
`EstimateGas` for the transaction to send, and `Mined` with the assertions about what came of it. The cost of the code up to the call and of the call itself is any member of `Overhead`, chosen
at each execution. The target may change between two steps; the nonce may be taken by someone else; the token
answers as tokens do (`TokenMode`: a Boolean, nothing, something longer, false, revert, no code). `executor` is the account of those
who relay, with the cost of each of their Ethereum transactions (`BaseCost` around the execution) and each refund.
`requiredTxGas` belongs to the contracts before 1.3; the current ones compute the same number by simulation.

### SafeL2

What an indexer learns from events. `safe` holds the singleton, nonce, guard, the storage of
`DebugTransactionGuard` (`txNonces`) and the log: all that a revert takes back. `stack` is the executions under way,
with what each restores if its call fails or it reverts. Within a transaction, calls may execute further transactions, let modules
execute, set or remove the guard, or delegatecall `SafeToL2Migration`, with its conditions on address, version and nonce. A
singleton is a contract with an address, a version, and whether it is a SafeL2; a SafeL2 may migrate to another of its version.
The hooks of the debug guard ask for no caller, either: at any time, within executions and between them, `strangerChecks` stores any nonce of `Claims`
for any hash (a caller's own `nonce()` and `getTransactionHash()` answer what it likes) and `strangerAfterChecks` clears what is stored.
What the log keeps of the hooks names who called, the Safe or a stranger.

### NestedSafes

A parent Safe whose owners are Safes, and people own those, as in `gnosisSafeNestedSafes.js`: `checkSignatures` is on
two levels, what a Safe that is an owner accepts (`Confirms`, `isValidSignature`) and what its parent then accepts. Safes nested
deeper are not modelled. A child confirms by its owners' signatures of the
message hash, by `SignMessageLib.signMessage`, or by `approveHash` on the parent; the parent asks
`CompatibilityFallbackHandler.isValidSignature` of a child that has the handler. Signing, approving, executing, replacing owners and
removing the handler interleave in any order. `agreed` and `decided` record what people and Safes meant; the code does not see them.
A hash is the record of what is hashed, including the domain and the type.

### MultiSend

`encodeMultiSend` lays transactions out by lengths; `Execute` is one round of the assembly loop, which reads them back by
offset, with `i` that counts from the word with the length and is compared with the length alone; any call may fail. The data of a `Transaction`
may be a batch again for either contract, to any depth; delegate-called, the library runs another loop in the same account, called it runs as itself. `Meaning` is
the reference: what the list of transactions says, without bytes. It flattens the calls of each transaction, `CallsOf`, a recursive
function that ends because a batch has more bytes than the batches in it.

### Deployment

`chain` is the code at the deterministic addresses and the factory of `hardhat.config.ts` with its deployer's funds; `files` the
records of `hardhat-deploy`; each operator runs `Commands`, whose tasks go step by step: the contracts of the tags in the scripts' order
(`Look` whether the code is there, `FundFactory` and `CreateFactory` if need be, `Send`, `Save` the record), then `local-verify`
(`Verify`, a record at a time, in the order of their files, which matters to no one; with `loadSolc` for the recorded compiler). hardhat-deploy itself is external and modelled from how it is used.
An exception ends the process, for instance when another operator's transaction has come first, and the command is run again. Faults:
a process dies, a compiler cannot be downloaded, the sources are edited between commands, a development chain is restarted with its files
left behind. `known` says whether the installed package knows a factory for the chain; if not, nothing is ever deployed.

## 3. The runs

| Run | Question | Bounds, and why they are enough |
|---|---|---|
| `owner_list` | Does any sequence of owner operations break the list, the counts, or the registry? | 4 possible owners plus zero, sentinel, Safe: lists with an inner node on both sides of which something can go wrong. All thresholds up to one too many. Complete: no bound on steps. |
| `module_paging` | Is the module list a set, are pages exact, and what does a reader miss or repeat while the list changes? | lists of up to 5, `MaxEdits = 5` changes: enough to remove and re-add two modules around the cursor. Pages of every size are compared in every state. |
| `safe_execution` | Do nonces, events, refunds and guard calls agree under reentrancy, modules and reverts? | four transactions (one strict, one batch that replaces the guard, one with a refund, one that installs the reentrancy guard while it runs), several signed per nonce; three module batches, among them one that removes both guards and one that disables its own module; 5 initial settings of guards and modules. `MaxNonce = 3`, `MaxDepth = 3` open calls, no further call entered after `MaxTrace = 5` entries, `MaxStrangers = 2` calls of the reentrancy guard by others: enough to lock it and free it again, or to free it and lock it; 1.6 million states. All holds as well for a Safe whose module alone has a guard of others' code, with `MaxTrace = 4` in 6.9 million. |
| `signatures` | Does exactly what enough owners confirmed pass? | 3 accounts, two of them contracts around a key, two nonces, `MaxConfirmations = 3`, arrays of `MaxSlots = 2` submitted in any order, arrays of 3 built by the builder. |
| `proxy_creation` | Is a Safe set up once, where it is expected, with what its address promises? | two chains that have a singleton or not, a full setup, a plain and a refused one and the empty initializer, two singletons, one number without callback and with each of two; `MaxAccounts = 2` (same address on two chains, or one created inside the other), `MaxDepth = 3`. |
| `clients` | Does a race between clients, copies and chains execute anything nobody meant, or lose anything? | four scripts: two that race on one chain, the same call on the other chain, and one signed ahead with an explicit nonce; two owners, both needed, each with a provider that may be on the wrong chain; one stranger's copy (`MaxCopies = 1`). |
| `refunds` | Does the call get its gas, and does the refund stay within what was agreed? | one client that is refunded in ether or in tokens, transactions signed elsewhere, without a refund and with a high one, four targets (two gas needs that an estimate covers or not, more than its margin, and one that reverts; at first it is a cheap one), six kinds of token, gas on both sides of the check, `Word = 2^24` (far above every amount that occurs). `MaxLoops = 3` rounds of the simulation (100 in the source): enough for no, one and too few rounds. `MaxChanges = 1`. |
| `deployment` | Is what is verified what was deployed, and does every command succeed in the end? | two operators with three commands or fewer each, two versions of the sources with different compilers, `MaxFaults = 2`: a crash and a failed download, or an edit and a reset, at any two points. |
| `nested_safes` | Does a parent execute only what the owners behind its owners back? | a parent with two child Safes that share an owner, one newcomer, `MaxNonce = 2` transactions of each Safe, `MaxAgreed = 6` signatures. |
| `multi_send` | Does the loop execute what was packed? | all batches of up to three plain transactions, of up to two with batches of up to two nested in them, and a batch in a batch in a batch, data of 0, 31 and 68 bytes, an unknown operation, both contracts. |
| `safe_l2` | Can an indexer and a guard keep the books from hooks and events? | four singletons: 1.1.1, 1.3.0 and two SafeL2 of 1.3.0, whose addresses are interchangeable (`SYMMETRY`); `MaxNonce = 3`, `MaxDepth = 3`, `MaxLog = 4` events before nothing more is entered, `MaxStrangers = 1` call of the guard's hooks by others, at any place, which tells nonce 0 or 2 (`Claims`: none, a wrong one, or the right one of the third transaction); 3.2 million states. |
| `debug_status` | Does the debug guard report the status of every transaction it announced? | as `safe_l2`, without strangers; a **violation**, see below. |

Deadlock is checked in `owner_list`, `module_paging` and `signatures`, which never stop. In the others nobody has to
act, or scripts, loops and commands come to their end, or the bounds end a behaviour.

What the passing runs show:

- `OwnersListedOnce`, `ImplementsRegistry`: with any arguments, an owner operation reverts or
  makes exactly the intended change at one place.
- `PagesFollow`, `ReadsEveryModule`, `RepeatsAfterRemoval`, `ReadEnds`, `ImplementsModuleSet`: pages are
  exact; a finished read contains each module enabled throughout; repetition needs a removal.
- `NonceUsedOnce`, `KeepsLedger`: reentrancy, failures and retries never reuse or skip a nonce.
- `GuardBrackets`, `OnlyStrangersInterfere`: the guard that checked is the guard that is told the
  outcome, even when the transaction replaces it; the reentrancy guard keeps its promise and never stays locked as long as
  nobody else calls its hooks. Anybody may: a call of `checkAfterExecution` within a transaction opens the Safe to reentrance,
  and after a `checkTransaction` it executes nothing under this guard until somebody calls `checkAfterExecution`.
- `OutcomesAreTrue`, `RefundedOnce`: events tell what happened, batches are all or nothing, a
  priced transaction is paid for once whether or not its call fails.
- `ImplementsMultisig`, `EnoughIsAccepted`, `StaysRelayable`: soundness and completeness of
  signature checking, and that a waiting array survives added owners and a lower threshold.
  (It does not survive the removal of an owner whose slot is among the first `threshold`,
  although enough others signed: the array has to be laid out again.)
- `SetUpOnce`, `CalledBackAfterCreation`, `CreatedWhereExpected`, `KeepsPromises`: nobody can get between the deployment
  of a Safe and its setup, from inside neither; an address computed in advance is where the Safe appears, and means the
  same on every chain, and each creation is where the helper finds it from the arguments of the call. (What the callback does not learn: whether somebody has created its Safe before, by
  `createProxyWithNonce`; then the creation with callback reverts.)
- `OnlyWhatWasSigned`, `OneWinnerPerNonce`, `EveryCallLands`: no signature counts on another chain or for another
  nonce; of the scripts that read the same nonce one wins and the others are told; run again, they all get through, if their
  signers' providers are on the right chain and no override fixes the nonce.
- `CallGetsItsGas`: the least gas the check lets pass suffices for the call, as long as `safeTxGas` is not so near to
  2^256 that the check wraps around; `docs/safe_tx_gas.md:33` promises the gas without that condition.
- `PaymentBounded`, `EstimateCovers`: the refund exceeds the signed maximum by the cost of the code around the call at most,
  and not at all while the target is what it was at the estimate. The legacy helper asserts "Should not pay more than
  signed" (`tests_deprecated/utils/execution.js:145`); that is so in the second case only.
- `RelayerNotOutOfPocket`, `PaymentsAreReal`, `HelperEnds`: those who relay only what is signed with a base gas that covers what
  the Safe does not measure, in ether, and pay no higher price than signed, do not lose in the end, failed calls included;
  tokens that the events speak of have moved (a token without code excepted); the client ends. (That the helper's own
  estimate of the base gas covers that cost is not claimed: it is a table of prices, which changes with the EVM.)
- `DeployedBeforeVerifying`, `VerdictsAreTrue`, `EveryCommandSucceeds`: whatever crashes and is run again, what
  `local-verify` calls verified is the recorded version, and on a chain with a known factory no operator is stuck for good.
  (`deploy-contracts` runs `local-verify` before it publishes, where `README.md:63-71` lists it last.)
- `ExecutesWhatOwnersBack`, `StaysAccepted`: a parent's transaction needs enough children, each by its current owners or by
  what it has put on the chain itself; messages are no transactions; nothing that the owners execute, short of changing
  owners or handlers, takes a confirmation back.
- `AllOrNothing`, `BatchEnds`: the loop's offsets meet the encoder's, at every length and depth.
- `EachNonceAnnouncedOnce`, `EventsNest`: SafeL2's events of nested, failed and reverted executions can be told apart, over
  migrations too; only nonce 0 comes again, when a SafeL2 migrates to another. `SafeToL2Migration` reads nonce 1 as "this is the first transaction"
  (`SafeToL2Migration.sol:61-66`); it is also the nonce after the first one, when a module delegatecalls.
- `PendingExactly`, `UsageIsTrue`: unless others call its hooks, the debug guard remembers exactly what is under way, and reports
  truly. If they do, it is the last of them whose word counts, for one transaction and no other: a nonce they left is what
  the guard reports of it, and an entry they cleared makes its after-check take the transaction back.

The violation: `StatusTracked` says what `CHANGELOG.md:537` says of `DebugTransactionGuard`, one event with the
details and one for the status of the nonce. The guard stores the nonce under the hash and takes 0 for "not there", so
the after-check of nonce 0 reverts with "Could not get nonce" (`DebugTransactionGuard.sol:85`). A Safe whose setup
installs the guard can execute nothing by signatures until a module removes it (or somebody else calls the guard's check between the
two hooks, and has another nonce stored for that hash). The test sets the guard with the first
transaction, whose after-check nobody makes, and does not meet the case.

**Fairness** is assumed of what has begun: a reader who has begun reads on
(`WF(Reading)` in ModulePaging), a script that was started goes on and what it sent is mined (`WF(Step(c))` in SafeClient,
`WF(executeTransactionWithSigner(c))` in RefundedExecution), the EVM executes the loop it is in (`WF(Next)` in MultiSend). In two
places it includes a person: `Step(c)` has the rerun of a script whose call has not landed yet, and `WF(Run(p))` in Deployment the
restart of a command until it is done. `EveryCallLands` and `EveryCommandSucceeds` are about those who do try again. Faults are bounded, not fair. Nobody is obliged to relay
or to sign for others, so the contracts have no liveness of their own.

## 4. The proofs

All theorems hold for every value of the constants under the assumptions named in the modules
(`AddressAssumption`, `SelfAssumption`, `OwnerListAssumption`, `ModuleAssumption`, `AccountAssumption`,
`ContractAssumption`, `InitialAssumption`, `GuardAssumption`, `WordAssumption`, `GasAssumption`, `PayloadAssumption`, `PagingAssumption`,
`CallsAssumption`, `BoundAssumption`, `ClientAssumption`, `OverheadAssumption`, `TokenAssumption`, `HashAssumption`, `CommandAssumption`,
`NestingAssumption`, `BatchAssumption`),
which TLC evaluates in the runs. Five of them say something about the world and not only about types:
`OverheadAssumption` (the Safe's own code gets no costlier, between estimation and execution, than the 10000 gas the helper adds),
`HashAssumption` (what CREATE2 hashes to is never the address of a singleton), `CommandAssumption` (operators run the commands there are), `NestingAssumption`
(the parent does not own itself, which `OwnerManager.sol:38` sees to, and people own the Safes that own it) and `BatchAssumption` (data that is a batch has the length of that
batch's encoding).

- **DataStructureProofs**, first what the list operations do to a mapping that `Spells` a sequence.
  `Predecessor`: only the true predecessor passes the check of `prevOwner`. `HopsFollow`: the
  walk visits the sequence and then the sentinel.
  For owners, `OwnersInv` says that the mapping spells some sequence of `ownerCount` legal
  owners, with a threshold between 1 and the count once set up. The properties alone are not
  inductive: that the walk closes does not say which nodes point where. From it: `OwnersTypeCorrect`,
  `OwnersListedOnceAlways`, `ThresholdReachableAlways` and `OwnersImplementation` (refinement of OwnerRegistry).
  For modules the same with `ModulesListOK`; `ModulesImplementation` refines ModuleSet.
  `PageFollows` computes a page from the list (`HopsFrom`: the walk from any node), and `PagesFollowAlways` follows.
  `ReadsEveryModuleAlways` and `RepeatsAfterRemovalAlways` rest on `ReadInv`, about a reader between two pages: if the cursor is
  still in the list, all that is due at or before it was seen, and nothing behind it was, as long as nothing that was seen has gone. If it has
  left the list nothing is claimed, because it can only come back in front of all others. Each edit maps to the list with a node more in
  front (`EnabledReadOK`) or one less (`DisabledReadOK`).
  For batches `AllOrNothingAlways`, at every depth of nesting and for every length of the data. First the bytes: offsets grow
  (`OffsetsGrow`), so the loop reads at the offset of a transaction that one and no other (`ReadAtOffset`), and it ends exactly behind the last.
  Then the meaning: `CallsOf` is a recursive function over items that contain items; that its equation has a solution (`CallsOfEquation`)
  is shown along the number of bytes, of which a batch has more than anything in it. `BatchInv` says that there is a trail of marks, one for
  each running loop: the transactions its bytes stand for, how many of them it has read, and what had been executed when it began.
  `TrailFits` ties marks to loops, each to the transaction of the loop below that began it, and the topmost to what has been executed. The property alone is not
  inductive, since it does not say what the offsets on the stack still lead to. One lemma for each step: a call (`CallKeeps`), a batch in the batch
  (`CallBatchKeeps`), and the end of a loop (`ReturnKeeps`), whose batch has then made exactly the calls of one transaction below.
- **SafeSignaturesProofs**: `Implementation` refines Multisig. `SlotIsConfirmed`: a slot that
  passes stands for a member who confirmed. `AscendingIsInjective`: ascending addresses are
  different, so as many members as slots (`EnoughBehind`). `StaysRelayableAlways`: the check asks for less when the
  threshold sinks and for nothing that is taken away.
  `EnoughIsAcceptedAlways`: a finite set of claims can be sorted (`SortedExists`, least claim first, because
  `SortedBySigner` is a CHOOSE); a collection is one to one with its signers (`OneOfEach`), so the sorted signers ascend
  strictly; the cardinalities that `Layout` adds up put each blob behind the slots and before the end (`Offsets`).
- **SafeExecutionProofs**: `Implementation` refines ExecutionLedger, for any calls, guards, modules and
  depth. What the storage says now is not inductive, because a revert brings back an
  older storage: `IndInv` says that the current storage *and* each one that a frame would restore
  are `Good`, each for the frames that stay on the stack when it is restored. `Good`: the executions in the events
  and the open transactions have one nonce each, all below `nonce` and without gaps, and extend
  what is committed. `EmitStep` moves a transaction from open to done, `ReturnStep` commits.
  `OnlyStrangersInterfereAlways` has an invariant of the same shape, `FlagInv`: in the storage now and in each to be restored, while
  the flag is clear a stranger has cleared it since each guarded frame below began, and while it is set one of these holds it
  or a stranger set it last. The property alone is not inductive: the after-check of a call clears the flag for those below it, and
  it takes `Follows` (what strangers did is only added to while nothing reverts, `ClearedStays`) to know that what let that call in still counts.
  `NonceUsedOnceAlways` and `RefundedOnceAlways` come from `AccountInv`, which counts in each of these storages: for each
  nonce the executions in the events and the open frames, for each transaction the refunds. The refund needs the nonce:
  a transaction that is open is in no event yet (`OpenNotDone`), so its event and its refund are the first ones
  (`EventAccounts`).
  `OutcomesAreTrueAlways`: in each storage the reports and the effects agree (`Told`): what was reported has all of its effects or
  none, an open call those of the operations it has done, nothing else has any. It holds because ids
  are unique, for owners by the nonce and for modules by the place where they were called.
  `GuardBracketsAlways`: each storage `Leaves` open exactly the checks of the frames that stay. The model matches checks
  and reports with a recursive function over the trace (`Brackets`), and the lemmas say what one more mark does to it
  (`UnmatchedAppend`, `OneMoreMark`).
- **SafeL2Proofs**: `PendingExactlyAlways`, again over every storage a frame would restore: what the guard remembers
  `Fits` the frames that remain, or is what the last stranger left (`Remembers`, over the log of the hooks). That two frames never claim the same nonce rests on nonces growing up the stack.
  The events have an invariant of the same shape, `LogInv`: each storage that is or may be restored has a log that
  is `LogOK` for the frames that stay. `AnnouncedOK`: what was announced lies below
  the nonce, each nonce at one place but for what migrations announced, which is nonce 0; and a SafeL2 has announced all of them. `EndsOK`: only nonces below have ended, each
  after its announcement. `NestOK` and `OpenOK`: of what was announced after an open transaction, each has ended or is itself open
  further up; so what is announced now lies within the innermost one, and nothing nested is left open when that one ends.
  `UsageOK`: outcomes that the guard checked and its reports to the Safe stand next to each other, with the nonce of the transaction or of a stranger's
  word between the two hooks. From it
  `EachNonceAnnouncedOnceAlways`, `EventsNestAlways` and `UsageIsTrueAlways`. The case that needs most care is the
  migration (`MigrateLogged`): it announces nonce 0 within the very transaction that has nonce 0.
- **RefundedExecutionProofs**: `CallGetsItsGasAlways` and `PaymentBoundedAlways`, for every amount of gas and price.
  Its `IndInv` is about each entry of the log (`EventOK`) and about what clients hold, because the numbers in a log entry are those that a
  client estimated many steps before. The arithmetic is in lemmas: `CheckSuffices` (the check implies the gas after
  the 64th is taken off), `AllBut64thOf64ths`, `Products` (the payment's products, one inequality at a time).
  `EstimateCoversAlways`: `Estimated` says of each client that the gas it found `Covers` the target it
  estimated for, for any cost of the Safe's code; no later step lowers it. `RelayerNotOutOfPocketAlways`: each entry of the log
  that was worth relaying adds no loss to the account (`EtherOK`), as the payment's product has both the measured gas and the base gas.
  `PaymentsAreRealAlways`: `TokensOK` compares the balances with the sum over the log, a recursive function of
  which the lemmas say that it exists and what one more entry does (`SumsSummed`, `OneMoreSummed`); `PaidMoves` is what
  `transferToken`'s reading of the answer is for.
- **ConfirmationProofs**, about clients: `OnlyWhatWasSignedAlways` and `OneWinnerPerNonceAlways`, for any number of scripts, chains, owners
  and copies. `IndInv` ties what a script holds to what was signed (`ScriptOK`), each log entry to enough signatures for
  its chain and place (`ChainOK`), and each script to the outcome of its race (`RaceOK`: what is pending would be accepted
  now or has lost its nonce). `Accepted`: what a chain accepts was built with its nonce and signed for it; it is where the
  domain and the nonce in the hash are needed.
  About nested Safes: `ExecutesWhatOwnersBackAlways` and `StaysAcceptedAlways`, for any number of children, owners, thresholds and
  transactions. `NestedInv`: every signature was meant by its signer and every approval and signed message by its Safe, as what it is a hash of. So
  whoever is counted backs the transaction (`CountedIsBacked`), for a Safe that confirms with the signatures of its owners because as many of them signed its message of that hash and no
  other's. The second holds because without new owners or handlers a step only adds to what is confirmed (`OnlyMoreConfirmations`).
- **ProxyCreationProofs**: `SetUpOnceAlways`, `CalledBackAfterCreationAlways`, `CreatedWhereExpectedAlways`, and `Implementation`
  (refinement of AccountRegistry). `IndInv` says of the world now and of each one that an open call would restore that it is
  `WorldOK` for the calls that stay open then. Its part `AccountsOK`: an account was never set up and is fresh, or was set up once
  and has what its log entry says, or only the half that `setup` writes before the initializer's delegatecall, which is so during an open call
  only. SetUpOnce by itself is not inductive: it says nothing of the world that a revert brings back. `LaterCall`: of two open calls that concern
  one account the later found it fresh, so the earlier has not begun to set it up. For the refinement the registry is the world
  below the outermost call, so a whole Ethereum transaction is one step of the registry (`TransactionFounds`); `Extends` says
  what that transaction has done so far to the accounts that were there before, and `AtRestStays` that those set up are as they were.
- **DeploymentProofs**: `DeployedBeforeVerifyingAlways` and `VerdictsAreTrueAlways`. `ProgramOK` says which tasks of its command a process has
  still to do, `DeployedOK` that all contracts which are not on its list any more are recorded and on the chain. Code never goes away
  while a process runs (`MoreCode`) and a process writes only its own records, so it suffices to look at the one that steps
  (`StepOfOne`). The verdicts need that each compiler is kept under its own version (`WorkOK`).

Induction over numbers is done with a least counterexample (`LeastElement`), because the
library's induction theorems take an operator as parameter, which the installed provers cannot
instantiate. Every safety and action property and every refinement of the passing runs is a theorem. Only liveness is model-checked and no more, because
fairness and ENABLED are out of the prover's reach: `ReadEnds`, `EveryCallLands`, `HelperEnds`, `EveryCommandSucceeds`,
`BatchEnds`.

## 5. Not modelled

Abstracted throughout: amounts of ether but for refunds, calldata but for its lengths where they matter, events that no
property needs, hashing (a hash is the record of what is hashed), address arithmetic beyond order.

Left out, with the reason:

- `StorageAccessible`, `SimulateTxAccessor`, `simulate` of the handler: they always revert or only read; what they return is a layout of words.
- `FallbackManager.setFallbackHandler`, `TokenCallbackHandler`, the module views of the handler, `NativeCurrencyPaymentFallback`:
  one assignment, constants, a forwarded read, an event. That a Safe may lose its handler is in NestedSafes.
- The interface checks of `setGuard` and `setModuleGuard` (GS300, GS301): an assertion about a contract's answer to one call.
- `OnlyOwnersGuard`, `DelegateCallTransactionGuard`: one condition on the arguments each, without storage; SafeExecution has
  guards that refuse as they like.
- `Safe150Migration`, `Safe130To141Migration`, `Migrate_1_3_0_to_1_2_0`: constants assigned to the singleton and the handler.
- `CreateCall`, `Enum`, `SafeStorage`, `ErrorMessage`, the interfaces: one opcode, or declarations.
- `show_codesize`, the networks and compiler settings of `hardhat.config.ts`, gas printing and the compiling of Yul snippets
  for tests: no state of the system.
- The Certora specifications and the tests check the same code by other means; they were read as statements of what it is to do.

What is left has no state, no order of steps and no interleaving that a model could get wrong in an interesting way: it would restate
assignments. Larger instances of the runs with liveness, and Safes nested deeper than two levels, are the places to go on.
