------------------------------- MODULE Deployment --------------------------------
(***************************************************************************)
(* Deploying the contracts: the scripts of src/deploy, the tasks           *)
(* deploy-contracts and local-verify, and what hardhat-deploy does for     *)
(* them.  Operators with a checkout each work on one chain at the same     *)
(* time.  A command may be killed or fail at any point and is then run     *)
(* again from its beginning; between commands the source may change, and a *)
(* development chain may be started anew while the files of the            *)
(* deployments stay.                                                       *)
(***************************************************************************)
EXTENDS Integers, Sequences, Functions

CONSTANTS
  Operator, Version,
  CompilerOf,    \* the compiler a version of the source is compiled with
  Commands,      \* what each operator runs, one command after the other
  None,          \* no record
  MaxFaults      \* bound: crashes, failed downloads, edits and resets together

VARIABLES
  chain,    \* what has code; whether the factory and the money for it are there
  files,    \* deployments/<network>/*.json: the version each contract was deployed in
  source,   \* the version of each operator's checkout
  known,    \* whether the installed package knows the chain's factory
  proc,     \* the process of each operator's command
  verdicts, \* what local-verify has printed, and what was so
  faults

vars == <<chain, files, source, known, proc, verdicts, faults>>

--------------------------------------------------------------------------------
(***************************************************************************)
(* The scripts, in the order of their files.                               *)
(***************************************************************************)
deploy_accessors ==
  [deploys |-> <<"SimulateTxAccessor">>, tags |-> {"accessors", "l2-suite", "main-suite"}]
deploy_factories ==
  [deploys |-> <<"SafeProxyFactory">>, tags |-> {"factory", "l2-suite", "main-suite"}]
deploy_handlers ==
  [deploys |-> <<"TokenCallbackHandler", "CompatibilityFallbackHandler">>,
   tags |-> {"handlers", "l2-suite", "main-suite"}]
deploy_libraries ==
  [deploys |-> <<"CreateCall", "MultiSend", "MultiSendCallOnly", "SignMessageLib">>,
   tags |-> {"libraries", "l2-suite", "main-suite"}]
deploy_migrations ==
  [deploys |-> <<"SafeToL2Migration">>, tags |-> {"not-l2-to-l2-migration", "migration"}]
deploy_safe_l2 == [deploys |-> <<"SafeL2">>, tags |-> {"l2", "l2-suite"}]
deploy_safe_singleton == [deploys |-> <<"Safe">>, tags |-> {"singleton", "main-suite"}]

\* hardhat deploy runs the scripts that have one of the tags, or all.
Runs(tags, script) ==
  IF tags = {} \/ tags \cap script.tags # {} THEN script.deploys ELSE <<>>

Deployed(tags) ==
  Runs(tags, deploy_accessors) \o Runs(tags, deploy_factories)
  \o Runs(tags, deploy_handlers) \o Runs(tags, deploy_libraries)
  \o Runs(tags, deploy_migrations) \o Runs(tags, deploy_safe_l2)
  \o Runs(tags, deploy_safe_singleton)

Contract == Range(Deployed({}))
Tag == {"accessors", "factory", "handlers", "libraries", "migration",
        "not-l2-to-l2-migration", "l2", "singleton", "l2-suite", "main-suite"}

\* A command is a sequence of tasks.
Task(name) == [name |-> name, tags |-> {}]
deploy(tags) == <<[name |-> "deploy", tags |-> tags]>>
localVerify == <<Task("local-verify")>>
deployContracts ==
  deploy({}) \o localVerify \o <<Task("sourcify"), Task("etherscan-verify")>>

ASSUME CommandAssumption ==
  /\ Commands \in
       [Operator -> Seq({deployContracts, localVerify} \cup {deploy(t) : t \in SUBSET Tag})]
  /\ None \notin Version

--------------------------------------------------------------------------------
(***************************************************************************)
(* Code.  An immutable holds the contract's own address once it is         *)
(* deployed; the compiler leaves zeros there.                              *)
(***************************************************************************)
HasImmutable == {"MultiSend", "SafeToL2Migration", "SimulateTxAccessor"}

Code(c, version, compiler, word) ==
  [contract |-> c, version |-> version, compiler |-> compiler,
   immutable |-> IF c \in HasImmutable THEN word ELSE "none"]

OnChain(c, version) == Code(c, version, CompilerOf[version], "itself")

Masked(code) == [code EXCEPT !.immutable = IF @ = "itself" THEN "zero" ELSE @]

\* loadSolc takes the compiler from the cache, or loads it.
loadSolcSlip(cache, version) ==
  IF cache # <<>> THEN cache[CHOOSE v \in DOMAIN cache : TRUE] ELSE version
loadSolc(cache, version) ==
  IF version \in DOMAIN cache THEN cache[version] ELSE version

--------------------------------------------------------------------------------
At(p, point) == proc[p].at = point
Go(p, point) == proc' = [proc EXCEPT ![p].at = point]
Fault == faults < MaxFaults /\ faults' = faults + 1

\* A command starts, with the sources as they are and nothing in memory.
Begin(p) ==
  /\ At(p, "stopped") /\ proc[p].commands # <<>>
  /\ proc' = [proc EXCEPT ![p] =
       [@ EXCEPT !.at = "task", !.tasks = Head(proc[p].commands), !.version = source[p]]]
  /\ UNCHANGED <<chain, files, source, known, verdicts, faults>>

\* All is done; the process ends.
End(p) ==
  /\ At(p, "task") /\ proc[p].tasks = <<>>
  /\ proc' = [proc EXCEPT ![p] =
       [@ EXCEPT !.at = "stopped", !.commands = Tail(proc[p].commands), !.cache = <<>>]]
  /\ UNCHANGED <<chain, files, source, known, verdicts, faults>>

\* An exception ends the process; the operator runs the command again.
Throw(p) ==
  proc' = [proc EXCEPT ![p] =
    [@ EXCEPT !.at = "stopped", !.todo = <<>>, !.unverified = {}, !.cache = <<>>]]

StartTask(p) ==
  /\ At(p, "task") /\ proc[p].tasks # <<>>
  /\ LET task == Head(proc[p].tasks)
         at == CASE task.name = "deploy" -> "look"
                 [] task.name = "local-verify" -> "get"
                 [] OTHER -> "task"
     IN proc' = [proc EXCEPT ![p] =
          [@ EXCEPT !.at = at, !.tasks = Tail(proc[p].tasks),
             !.todo = IF at = "look" THEN Deployed(task.tags) ELSE <<>>,
             !.unverified = IF at = "get" THEN {c \in Contract : files[p][c] # None} ELSE {}]]
  /\ UNCHANGED <<chain, files, source, known, verdicts, faults>>

EndTask(p) ==
  /\ proc[p].at \in {"look", "get"} /\ proc[p].todo = <<>> /\ proc[p].unverified = {}
  /\ Go(p, "task")
  /\ UNCHANGED <<chain, files, source, known, verdicts, faults>>

--------------------------------------------------------------------------------
(***************************************************************************)
(* deploy(name, {deterministicDeployment: true}): the address is that of   *)
(* the code, through the factory that deterministicDeployment names.       *)
(***************************************************************************)
\* Trusts the records.
LookSlip(p) ==
  /\ At(p, "look") /\ proc[p].todo # <<>>
  /\ LET c == Head(proc[p].todo)
     IN Go(p, IF files[p][c] = proc[p].version THEN "save"
              ELSE IF chain.factory THEN "send" ELSE "fund")
  /\ UNCHANGED <<chain, files, source, known, verdicts, faults>>

\* Deploys whatever is there.
LookTwiceSlip(p) ==
  /\ At(p, "look") /\ proc[p].todo # <<>>
  /\ Go(p, IF chain.factory THEN "send" ELSE "fund")
  /\ UNCHANGED <<chain, files, source, known, verdicts, faults>>

Look(p) ==
  /\ At(p, "look") /\ proc[p].todo # <<>>
  /\ LET c == Head(proc[p].todo)
     IN IF ~known THEN Throw(p)
        ELSE Go(p, IF OnChain(c, proc[p].version) \in chain.code THEN "save"
                   ELSE IF chain.factory THEN "send" ELSE "fund")
  /\ UNCHANGED <<chain, files, source, known, verdicts, faults>>

\* The factory's deployer gets its gas, then its signed transaction is sent, which is
\* valid once.
FundFactory(p) ==
  /\ At(p, "fund")
  /\ chain' = [chain EXCEPT !.funded = TRUE]
  /\ Go(p, "factory")
  /\ UNCHANGED <<files, source, known, verdicts, faults>>

CreateFactory(p) ==
  /\ At(p, "factory")
  /\ chain' = [chain EXCEPT !.factory = TRUE]
  /\ IF chain.factory THEN Throw(p) ELSE Go(p, "send")
  /\ UNCHANGED <<files, source, known, verdicts, faults>>

\* The factory reverts if the address is taken by now.
Send(p) ==
  /\ At(p, "send")
  /\ LET code == OnChain(Head(proc[p].todo), proc[p].version)
     IN /\ chain' = [chain EXCEPT !.code = @ \cup {code}]
        /\ IF code \in chain.code THEN Throw(p) ELSE Go(p, "save")
  /\ UNCHANGED <<files, source, known, verdicts, faults>>

Save(p) ==
  /\ At(p, "save")
  /\ files' = [files EXCEPT ![p][Head(proc[p].todo)] = proc[p].version]
  /\ proc' = [proc EXCEPT ![p] = [@ EXCEPT !.at = "look", !.todo = Tail(proc[p].todo)]]
  /\ UNCHANGED <<chain, source, known, verdicts, faults>>

--------------------------------------------------------------------------------
\* Records are read in some order, that of their files.
NextUnverified(p) == CHOOSE c \in proc[p].unverified : TRUE

\* A round of local-verify: compiles what the record says and compares.
Verify(p) ==
  /\ At(p, "get") /\ proc[p].unverified # {}
  /\ LET c == NextUnverified(p)
         version == files[p][c]
         cache == proc[p].cache
         solcjs == loadSolc(cache, CompilerOf[version])
         onChain == {d \in chain.code : d.contract = c /\ d.version = version}
     IN /\ verdicts' = verdicts \cup
             {[contract |-> c, there |-> onChain # {},
               success |-> \E code \in onChain :
                             Masked(code) = Code(c, version, solcjs, "zero")]}
        /\ proc' = [proc EXCEPT ![p] =
             [@ EXCEPT !.unverified = proc[p].unverified \ {c},
                !.cache = [v \in DOMAIN cache \cup {CompilerOf[version]} |->
                             loadSolc(cache, v)]]]
  /\ UNCHANGED <<chain, files, source, known, faults>>

\* The compiler cannot be loaded: what is cached is undefined, and the task rejects.
LoadFails(p) ==
  /\ At(p, "get") /\ proc[p].unverified # {}
  /\ CompilerOf[files[p][NextUnverified(p)]] \notin DOMAIN proc[p].cache
  /\ Fault /\ Throw(p)
  /\ UNCHANGED <<chain, files, source, known, verdicts>>

Crash(p) ==
  /\ ~At(p, "stopped")
  /\ Fault /\ Throw(p)
  /\ UNCHANGED <<chain, files, source, known, verdicts>>

Edit(p) ==
  /\ At(p, "stopped")
  /\ Fault
  /\ \E v \in Version \ {source[p]} : source' = [source EXCEPT ![p] = v]
  /\ UNCHANGED <<chain, files, known, proc, verdicts>>

Reset ==
  /\ \A p \in Operator : At(p, "stopped")
  /\ Fault
  /\ chain' = [code |-> {}, funded |-> FALSE, factory |-> FALSE]
  /\ UNCHANGED <<files, source, known, proc, verdicts>>

--------------------------------------------------------------------------------
Init ==
  /\ chain = [code |-> {}, funded |-> FALSE, factory |-> FALSE]
  /\ files = [p \in Operator |-> [c \in Contract |-> None]]
  /\ source \in [Operator -> Version]
  /\ known \in BOOLEAN
  /\ proc = [p \in Operator |->
       [at |-> "stopped", commands |-> Commands[p], tasks |-> <<>>, todo |-> <<>>,
        unverified |-> {}, version |-> source[p], cache |-> <<>>]]
  /\ verdicts = {}
  /\ faults = 0

Run(p) ==
  \/ Begin(p) \/ StartTask(p) \/ EndTask(p) \/ End(p)
  \/ Look(p) \/ FundFactory(p) \/ CreateFactory(p) \/ Send(p) \/ Save(p) \/ Verify(p)

Next ==
  \/ \E p \in Operator : Run(p) \/ LoadFails(p) \/ Crash(p) \/ Edit(p)
  \/ Reset

Spec == Init /\ [][Next]_vars /\ \A p \in Operator : WF_vars(Run(p))

--------------------------------------------------------------------------------
\* When deploy-contracts goes on to local-verify, every contract is on this chain in the
\* version that was compiled and recorded so, whatever the records said before, whoever
\* else deploys at the same time, and however often it had to be started.
DeployedBeforeVerifying ==
  \A p \in Operator :
    At(p, "get") /\ Task("deploy") \in Range(Head(proc[p].commands))
    => \A c \in Contract :
         /\ files[p][c] = proc[p].version
         /\ OnChain(c, proc[p].version) \in chain.code

\* local-verify prints SUCCESS exactly if the code that the record promises is there,
\* whatever other records need other compilers.
VerdictsAreTrue == \A v \in verdicts : v.success <=> v.there

\* If the chain's factory is known, all commands succeed in the end.
EveryCommandSucceeds ==
  known => <>(\A p \in Operator : proc[p].commands = <<>>)
================================================================================
