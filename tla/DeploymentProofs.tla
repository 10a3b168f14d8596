---------------------------- MODULE DeploymentProofs ----------------------------
(***************************************************************************)
(* What deploy-contracts has deployed when it verifies, and what           *)
(* local-verify finds, for any operators, commands and versions and any    *)
(* number of crashes, failed downloads, edits and resets.                  *)
(***************************************************************************)
EXTENDS Deployment, SequenceTheorems, TLAPS

--------------------------------------------------------------------------------
(***************************************************************************)
(* The invariant.                                                          *)
(***************************************************************************)
Command == {deployContracts, localVerify} \cup {deploy(t) : t \in SUBSET Tag}
TaskOf == [name : {"deploy", "local-verify", "sourcify", "etherscan-verify"}, tags : SUBSET Tag]
Compiler == {CompilerOf[v] : v \in Version}
Deploying == {"look", "fund", "factory", "send", "save"}

Cache == UNION {[D -> Compiler] : D \in SUBSET Compiler}

Process ==
  [at : Deploying \cup {"stopped", "task", "get"}, commands : Seq(Command),
   tasks : Seq(TaskOf), todo : Seq(Contract), unverified : SUBSET Contract,
   version : Version, cache : Cache]

CodeOfAny == {OnChain(c, v) : c \in Contract, v \in Version}
Chain == [code : SUBSET CodeOfAny, funded : BOOLEAN, factory : BOOLEAN]
Record == [Contract -> Version \cup {None}]

TypeOK ==
  /\ chain \in Chain
  /\ files \in [Operator -> Record]
  /\ source \in [Operator -> Version]
  /\ proc \in [Operator -> Process]

\* Where a process is in its command, and which tasks are left.
InDeployContracts(f) ==
  \/ f.at = "task" /\ f.tasks = deployContracts
  \/ f.at \in Deploying \cup {"task"} /\ f.tasks = Tail(deployContracts)
  \/ f.at \in {"get", "task"} /\ f.tasks = Tail(Tail(deployContracts))
  \/ f.at = "task" /\ f.tasks \in {Tail(Tail(Tail(deployContracts))), <<>>}

ProgramOK(f) ==
  f.at # "stopped" =>
    /\ f.commands # <<>>
    /\ \/ Head(f.commands) = deployContracts /\ InDeployContracts(f)
       \/ /\ Head(f.commands) = localVerify
          /\ \/ f.at = "task" /\ f.tasks = localVerify
             \/ f.at \in {"get", "task"} /\ f.tasks = <<>>
       \/ /\ \E t \in SUBSET Tag :
               /\ Head(f.commands) = deploy(t)
               /\ \/ f.at = "task" /\ f.tasks = deploy(t)
                  \/ f.at \in Deploying \cup {"task"} /\ f.tasks = <<>>

\* The lists are those of the task at hand; each compiler is kept under its own version.
WorkOK(f) ==
  /\ f.at \notin Deploying => f.todo = <<>>
  /\ f.at \in Deploying \ {"look"} => f.todo # <<>>
  /\ f.at # "get" => f.unverified = {}
  /\ \A v \in DOMAIN f.cache : f.cache[v] = v

InPlace(c, version, record, code) == record[c] = version /\ OnChain(c, version) \in code

\* What deploy-contracts is through with is in place, until it has verified everything.
MustBeInPlace(f) ==
  /\ \/ f.at \in Deploying \cup {"get"}
     \/ f.at = "task" /\ f.tasks = Tail(deployContracts)
  /\ Head(f.commands) = deployContracts

DeployedOK(f, record, code) ==
  /\ f.at = "save" => OnChain(Head(f.todo), f.version) \in code
  /\ MustBeInPlace(f) =>
       \A c \in Contract \ Range(f.todo) : InPlace(c, f.version, record, code)
  /\ \A c \in f.unverified : record[c] # None

ProcessOK(f, record, code) == ProgramOK(f) /\ WorkOK(f) /\ DeployedOK(f, record, code)

IndInv ==
  /\ TypeOK
  /\ \A p \in Operator : ProcessOK(proc[p], files[p], chain.code)
  /\ VerdictsAreTrue

--------------------------------------------------------------------------------
(***************************************************************************)
(* Scripts and commands.                                                   *)
(***************************************************************************)
\* The sequences of tasks that are left of deploy-contracts.
LEMMA FourInARow ==
  ASSUME NEW x, NEW y, NEW z, NEW w
  PROVE  <<x>> \o <<y>> \o <<z, w>> = <<x, y, z, w>>
<1> DEFINE S == {x, y, z, w}
           r == <<x>> \o <<y>> \o <<z, w>>
<1>1. x \in S /\ y \in S /\ z \in S /\ w \in S  OBVIOUS
<1> HIDE DEF S
<1>2. <<x>> \in Seq(S) /\ <<y>> \in Seq(S) /\ <<z, w>> \in Seq(S)  BY <1>1
<1>3. r \in Seq(S) /\ Len(r) = 4 /\ r[1] = x /\ r[2] = y /\ r[3] = z /\ r[4] = w  BY <1>2
<1> HIDE DEF r
<1>4. r = <<x, y, z, w>>  BY <1>3
<1> QED  BY <1>4 DEF r

LEMMA TailsOfFour ==
  ASSUME NEW x, NEW y, NEW z, NEW w
  PROVE  /\ Tail(<<x, y, z, w>>) = <<y, z, w>>
         /\ Tail(<<y, z, w>>) = <<z, w>>
         /\ Tail(<<z, w>>) = <<w>>
OBVIOUS

\* Short sequences are sequences.
LEMMA ShortSequences ==
  ASSUME NEW S
  PROVE  /\ \A x \in S : <<x>> \in Seq(S)
         /\ \A x, y \in S : <<x, y>> \in Seq(S)
         /\ \A x, y, z, w \in S : <<x, y, z, w>> \in Seq(S)
OBVIOUS

LEMMA DeployContractsIs ==
  /\ deployContracts =
       <<Task("deploy"), Task("local-verify"), Task("sourcify"), Task("etherscan-verify")>>
  /\ Tail(deployContracts) =
       <<Task("local-verify"), Task("sourcify"), Task("etherscan-verify")>>
  /\ Tail(Tail(deployContracts)) = <<Task("sourcify"), Task("etherscan-verify")>>
  /\ Tail(Tail(Tail(deployContracts))) = <<Task("etherscan-verify")>>
<1>1. deploy({}) = <<Task("deploy")>> /\ localVerify = <<Task("local-verify")>>
  BY DEF deploy, Task, localVerify
<1> DEFINE d == Task("deploy")
           v == Task("local-verify")
           c == Task("sourcify")
           e == Task("etherscan-verify")
<1> HIDE DEF d, v, c, e
<1>2. deployContracts = <<d>> \o <<v>> \o <<c, e>>  BY <1>1 DEF deployContracts, d, v, c, e
<1>3. <<d>> \o <<v>> \o <<c, e>> = <<d, v, c, e>>  BY FourInARow
<1>4. /\ Tail(<<d, v, c, e>>) = <<v, c, e>> /\ Tail(<<v, c, e>>) = <<c, e>>
      /\ Tail(<<c, e>>) = <<e>>
  BY TailsOfFour
<1>5. /\ deployContracts = <<d, v, c, e>> /\ Tail(deployContracts) = <<v, c, e>>
      /\ Tail(Tail(deployContracts)) = <<c, e>> /\ Tail(Tail(Tail(deployContracts))) = <<e>>
  BY <1>2, <1>3, <1>4
<1> QED  BY <1>5 DEF d, v, c, e

\* Every script, whatever the tags, deploys contracts.
LEMMA RunsContracts ==
  ASSUME NEW tags
  PROVE  Deployed(tags) \in Seq(Contract)
<1> DEFINE a == deploy_accessors.deploys
           b == deploy_factories.deploys
           c == deploy_handlers.deploys
           d == deploy_libraries.deploys
           e == deploy_migrations.deploys
           f == deploy_safe_l2.deploys
           g == deploy_safe_singleton.deploys
           Names == {"SimulateTxAccessor", "SafeProxyFactory", "TokenCallbackHandler",
                     "CompatibilityFallbackHandler", "CreateCall", "MultiSend",
                     "MultiSendCallOnly", "SignMessageLib", "SafeToL2Migration",
                     "SafeL2", "Safe"}
           All == a \o b \o c \o d \o e \o f \o g
<1>1. /\ a \in Seq(Names) /\ b \in Seq(Names) /\ c \in Seq(Names) /\ d \in Seq(Names)
      /\ e \in Seq(Names) /\ f \in Seq(Names) /\ g \in Seq(Names)
  <2>1. a \in Seq(Names)  BY ShortSequences DEF deploy_accessors
  <2>2. b \in Seq(Names)  BY ShortSequences DEF deploy_factories
  <2>3. c \in Seq(Names)  BY ShortSequences DEF deploy_handlers
  <2>4. d \in Seq(Names)  BY ShortSequences DEF deploy_libraries
  <2>5. e \in Seq(Names)  BY ShortSequences DEF deploy_migrations
  <2>6. f \in Seq(Names)  BY ShortSequences DEF deploy_safe_l2
  <2>7. g \in Seq(Names)  BY ShortSequences DEF deploy_safe_singleton
  <2> QED  BY <2>1, <2>2, <2>3, <2>4, <2>5, <2>6, <2>7
<1>2. Deployed({}) = All  BY DEF Deployed, Runs
<1>3. ASSUME NEW x \in Seq(Names), NEW y \in Seq(Names)
      PROVE  /\ Range(x) \subseteq Range(x \o y) /\ Range(y) \subseteq Range(x \o y)
             /\ x \o y \in Seq(Names)
  <2>1. ASSUME NEW i \in 1..Len(x)  PROVE  (x \o y)[i] = x[i] /\ i \in 1..Len(x \o y)  OBVIOUS
  <2>2. ASSUME NEW i \in 1..Len(y)
        PROVE  (x \o y)[Len(x) + i] = y[i] /\ Len(x) + i \in 1..Len(x \o y)
    OBVIOUS
  <2>3. x \o y \in Seq(Names)  OBVIOUS
  <2>4. DOMAIN (x \o y) = 1..Len(x \o y) /\ DOMAIN x = 1..Len(x) /\ DOMAIN y = 1..Len(y)
    BY <2>3
  <2> QED  BY <2>1, <2>2, <2>3, <2>4 DEF Range
<1> HIDE DEF Names, a, b, c, d, e, f, g
<1>4. /\ Range(a) \subseteq Contract /\ Range(b) \subseteq Contract /\ Range(c) \subseteq Contract
      /\ Range(d) \subseteq Contract /\ Range(e) \subseteq Contract /\ Range(f) \subseteq Contract
      /\ Range(g) \subseteq Contract
  <2>1. a \o b \in Seq(Names) /\ Range(a) \subseteq Range(a \o b) /\ Range(b) \subseteq Range(a \o b)
    BY <1>1, <1>3
  <2>2. LET x == a \o b IN x \o c \in Seq(Names) /\ Range(x) \subseteq Range(x \o c)
                           /\ Range(c) \subseteq Range(x \o c)
    BY <1>1, <1>3, <2>1
  <2>3. LET x == a \o b \o c IN x \o d \in Seq(Names) /\ Range(x) \subseteq Range(x \o d)
                           /\ Range(d) \subseteq Range(x \o d)
    BY <1>1, <1>3, <2>2
  <2>4. LET x == a \o b \o c \o d IN x \o e \in Seq(Names) /\ Range(x) \subseteq Range(x \o e)
                           /\ Range(e) \subseteq Range(x \o e)
    BY <1>1, <1>3, <2>3
  <2>5. LET x == a \o b \o c \o d \o e IN x \o f \in Seq(Names) /\ Range(x) \subseteq Range(x \o f)
                           /\ Range(f) \subseteq Range(x \o f)
    BY <1>1, <1>3, <2>4
  <2>6. LET x == a \o b \o c \o d \o e \o f IN Range(x) \subseteq Range(x \o g)
                           /\ Range(g) \subseteq Range(x \o g)
    BY <1>1, <1>3, <2>5
  <2>7. Contract = Range(All)  BY <1>2 DEF Contract
  <2> QED  BY <2>1, <2>2, <2>3, <2>4, <2>5, <2>6, <2>7
<1>5. ASSUME NEW x \in Seq(Names), Range(x) \subseteq Contract
      PROVE  x \in Seq(Contract)
  <2>1. \A i \in 1..Len(x) : x[i] \in Contract  BY <1>5 DEF Range
  <2> QED  BY <2>1
<1>6. /\ a \in Seq(Contract) /\ b \in Seq(Contract) /\ c \in Seq(Contract) /\ d \in Seq(Contract)
      /\ e \in Seq(Contract) /\ f \in Seq(Contract) /\ g \in Seq(Contract)
  BY <1>1, <1>4, <1>5
<1> DEFINE R(s) == Runs(tags, s)
<1>7. /\ R(deploy_accessors) \in Seq(Contract) /\ R(deploy_factories) \in Seq(Contract)
      /\ R(deploy_handlers) \in Seq(Contract) /\ R(deploy_libraries) \in Seq(Contract)
      /\ R(deploy_migrations) \in Seq(Contract) /\ R(deploy_safe_l2) \in Seq(Contract)
      /\ R(deploy_safe_singleton) \in Seq(Contract)
  BY <1>6 DEF Runs, a, b, c, d, e, f, g
<1> HIDE DEF R
<1>8. Deployed(tags) = R(deploy_accessors) \o R(deploy_factories) \o R(deploy_handlers)
        \o R(deploy_libraries) \o R(deploy_migrations) \o R(deploy_safe_l2)
        \o R(deploy_safe_singleton)
  BY DEF Deployed, R
<1> QED  BY <1>7, <1>8

\* What the commands begin with, and what then is left of them.
LEMMA CommandsAre ==
  LET d1 == Tail(deployContracts)
      d2 == Tail(d1)
      d3 == Tail(d2)
  IN /\ deployContracts \in Seq(TaskOf) /\ Len(deployContracts) = 4
     /\ Head(deployContracts) = Task("deploy")
     /\ d1 \in Seq(TaskOf) /\ Len(d1) = 3 /\ Head(d1) = Task("local-verify")
     /\ d2 \in Seq(TaskOf) /\ Len(d2) = 2 /\ Head(d2) = Task("sourcify")
     /\ d3 \in Seq(TaskOf) /\ Len(d3) = 1 /\ Head(d3) = Task("etherscan-verify")
     /\ Tail(d3) = <<>>
     /\ localVerify \in Seq(TaskOf) /\ Len(localVerify) = 1 /\ Tail(localVerify) = <<>>
     /\ Head(localVerify) = Task("local-verify")
     /\ \A t \in SUBSET Tag :
          /\ deploy(t) \in Seq(TaskOf) /\ Len(deploy(t)) = 1 /\ Tail(deploy(t)) = <<>>
          /\ Head(deploy(t)) = [name |-> "deploy", tags |-> t]
<1>1. /\ Task("deploy") \in TaskOf /\ Task("local-verify") \in TaskOf
      /\ Task("sourcify") \in TaskOf /\ Task("etherscan-verify") \in TaskOf
      /\ \A t \in SUBSET Tag : [name |-> "deploy", tags |-> t] \in TaskOf
  BY DEF Task, TaskOf
<1>2. ASSUME NEW x \in TaskOf, NEW y \in TaskOf, NEW z \in TaskOf, NEW w \in TaskOf
      PROVE  /\ <<x, y, z, w>> \in Seq(TaskOf) /\ Len(<<x, y, z, w>>) = 4
             /\ Head(<<x, y, z, w>>) = x
             /\ <<y, z, w>> \in Seq(TaskOf) /\ Len(<<y, z, w>>) = 3 /\ Head(<<y, z, w>>) = y
             /\ <<z, w>> \in Seq(TaskOf) /\ Len(<<z, w>>) = 2 /\ Head(<<z, w>>) = z
             /\ <<w>> \in Seq(TaskOf) /\ Len(<<w>>) = 1 /\ Head(<<w>>) = w /\ Tail(<<w>>) = <<>>
  OBVIOUS
<1> DEFINE d == Task("deploy")
           v == Task("local-verify")
           c == Task("sourcify")
           e == Task("etherscan-verify")
<1>3. /\ deployContracts = <<d, v, c, e>> /\ Tail(deployContracts) = <<v, c, e>>
      /\ Tail(Tail(deployContracts)) = <<c, e>> /\ Tail(Tail(Tail(deployContracts))) = <<e>>
  BY DeployContractsIs
<1>4. localVerify = <<v>> /\ \A t : deploy(t) = <<[name |-> "deploy", tags |-> t]>>
  BY DEF localVerify, deploy
<1> HIDE DEF d, v, c, e
<1>5. d \in TaskOf /\ v \in TaskOf /\ c \in TaskOf /\ e \in TaskOf  BY <1>1 DEF d, v, c, e
<1>6. /\ <<d, v, c, e>> \in Seq(TaskOf) /\ Len(<<d, v, c, e>>) = 4 /\ Head(<<d, v, c, e>>) = d
      /\ <<v, c, e>> \in Seq(TaskOf) /\ Len(<<v, c, e>>) = 3 /\ Head(<<v, c, e>>) = v
      /\ <<c, e>> \in Seq(TaskOf) /\ Len(<<c, e>>) = 2 /\ Head(<<c, e>>) = c
      /\ <<e>> \in Seq(TaskOf) /\ Len(<<e>>) = 1 /\ Head(<<e>>) = e /\ Tail(<<e>>) = <<>>
  BY <1>2, <1>5
<1>7. <<v>> \in Seq(TaskOf) /\ Len(<<v>>) = 1 /\ Head(<<v>>) = v /\ Tail(<<v>>) = <<>>
  BY <1>2, <1>5
<1>8. ASSUME NEW t \in SUBSET Tag
      PROVE  /\ deploy(t) \in Seq(TaskOf) /\ Len(deploy(t)) = 1 /\ Tail(deploy(t)) = <<>>
             /\ Head(deploy(t)) = [name |-> "deploy", tags |-> t]
  <2> DEFINE x == [name |-> "deploy", tags |-> t]
  <2>1. x \in TaskOf /\ deploy(t) = <<x>>  BY <1>1, <1>4
  <2> HIDE DEF x
  <2>2. <<x>> \in Seq(TaskOf) /\ Len(<<x>>) = 1 /\ Head(<<x>>) = x /\ Tail(<<x>>) = <<>>
    BY <2>1, <1>2
  <2>3. /\ deploy(t) \in Seq(TaskOf) /\ Len(deploy(t)) = 1 /\ Tail(deploy(t)) = <<>>
        /\ Head(deploy(t)) = x
    BY <2>1, <2>2
  <2> QED  BY <2>3 DEF x
<1>9. /\ deployContracts \in Seq(TaskOf) /\ Len(deployContracts) = 4
      /\ Head(deployContracts) = d
      /\ Tail(deployContracts) \in Seq(TaskOf) /\ Len(Tail(deployContracts)) = 3
      /\ Head(Tail(deployContracts)) = v
      /\ Tail(Tail(deployContracts)) \in Seq(TaskOf) /\ Len(Tail(Tail(deployContracts))) = 2
      /\ Head(Tail(Tail(deployContracts))) = c
      /\ Tail(Tail(Tail(deployContracts))) \in Seq(TaskOf)
      /\ Len(Tail(Tail(Tail(deployContracts)))) = 1
      /\ Head(Tail(Tail(Tail(deployContracts)))) = e
      /\ Tail(Tail(Tail(Tail(deployContracts)))) = <<>>
  BY <1>3, <1>6
<1>10. /\ localVerify \in Seq(TaskOf) /\ Len(localVerify) = 1 /\ Tail(localVerify) = <<>>
       /\ Head(localVerify) = v
  BY <1>4, <1>7
<1> QED  BY <1>8, <1>9, <1>10 DEF d, v, c, e

\* A command is none of the others.
LEMMA CommandsDiffer ==
  /\ deployContracts # localVerify
  /\ \A t \in SUBSET Tag : deployContracts # deploy(t) /\ localVerify # deploy(t)
  /\ Task("deploy") \notin Range(localVerify)
<1>1. Task("local-verify") # Task("deploy")  BY DEF Task
<1>2. localVerify \in Seq(TaskOf) /\ Len(localVerify) = 1 /\ Head(localVerify) = Task("local-verify")
  BY CommandsAre
<1>3. \A x \in Range(localVerify) : x = Task("local-verify")
  BY <1>2 DEF Range
<1>4. \A t \in SUBSET Tag : Head(deploy(t)).name = "deploy"  BY CommandsAre
<1>5. Head(localVerify).name = "local-verify"  BY <1>2 DEF Task
<1>6. \A t \in SUBSET Tag : localVerify # deploy(t)  BY <1>4, <1>5
<1>7. Len(deployContracts) = 4 /\ \A t \in SUBSET Tag : Len(deploy(t)) = 1
  BY CommandsAre
<1>8. deployContracts # localVerify /\ \A t \in SUBSET Tag : deployContracts # deploy(t)
  BY <1>2, <1>7
<1> QED  BY <1>1, <1>3, <1>6, <1>8

\* What local-verify finds of a contract in the version it was deployed in.
LEMMA WhatIsCompared ==
  ASSUME NEW c, NEW v
  PROVE  /\ OnChain(c, v).contract = c /\ OnChain(c, v).version = v
         /\ Masked(OnChain(c, v)) = Code(c, v, CompilerOf[v], "zero")
BY DEF OnChain, Code, Masked

--------------------------------------------------------------------------------
(***************************************************************************)
(* A step of one process.                                                  *)
(***************************************************************************)
\* Code that comes to the chain disturbs no process.
LEMMA MoreCode ==
  ASSUME NEW f, NEW record, NEW code, NEW more, code \subseteq more,
         ProcessOK(f, record, code)
  PROVE  ProcessOK(f, record, more)
BY DEF ProcessOK, DeployedOK, InPlace

\* It suffices to look at the process p that steps, from its state to f.
LEMMA StepOfOne ==
  ASSUME IndInv, NEW p \in Operator, NEW f \in Process,
         NEW record \in Record,
         proc' = [proc EXCEPT ![p] = f], files' = [files EXCEPT ![p] = record],
         chain' \in Chain,
         chain.code \subseteq chain'.code, source' = source,
         ProcessOK(f, record, chain'.code), VerdictsAreTrue'
  PROVE  IndInv'
<1>1. TypeOK'  BY DEF IndInv, TypeOK
<1>2. ASSUME NEW q \in Operator
      PROVE  ProcessOK(proc'[q], files'[q], chain'.code)
  <2>1. CASE q = p  BY <2>1 DEF IndInv, TypeOK
  <2>2. CASE q # p
    <3>1. proc'[q] = proc[q] /\ files'[q] = files[q]  BY <2>2 DEF IndInv, TypeOK
    <3> QED  BY <3>1, MoreCode DEF IndInv
  <2> QED  BY <2>1, <2>2
<1> QED  BY <1>1, <1>2 DEF IndInv

\* The same where neither chain nor records change.
LEMMA QuietStep ==
  ASSUME IndInv, NEW p \in Operator, NEW f \in Process,
         proc' = [proc EXCEPT ![p] = f], UNCHANGED <<chain, files, source, verdicts>>,
         ProcessOK(f, files[p], chain.code)
  PROVE  IndInv'
<1>1. files[p] \in Record /\ files' = [files EXCEPT ![p] = files[p]]
  BY DEF IndInv, TypeOK
<1>2. VerdictsAreTrue'  BY DEF IndInv, VerdictsAreTrue
<1>3. chain' \in Chain
      /\ chain.code \subseteq chain'.code
  BY DEF IndInv, TypeOK
<1> QED  BY <1>1, <1>2, <1>3, StepOfOne

LEMMA InitOK == Init => IndInv
<1> SUFFICES ASSUME Init  PROVE IndInv  OBVIOUS
<1>1. Commands \in [Operator -> Seq(Command)]  BY CommandAssumption DEF Command
<1>2. <<>> \in [{} -> Compiler]  OBVIOUS
<1>3. <<>> \in Cache  BY <1>2 DEF Cache
<1>4. ASSUME NEW p \in Operator  PROVE  proc[p] \in Process
  <2>1. proc[p] = [at |-> "stopped", commands |-> Commands[p], tasks |-> <<>>, todo |-> <<>>,
                   unverified |-> {}, version |-> source[p], cache |-> <<>>]
    BY DEF Init
  <2>2. source[p] \in Version /\ Commands[p] \in Seq(Command)  BY <1>1 DEF Init
  <2>3. <<>> \in Seq(TaskOf) /\ <<>> \in Seq(Contract)  OBVIOUS
  <2> QED  BY <1>3, <2>1, <2>2, <2>3 DEF Process
<1>5. TypeOK
  <2>1. chain \in Chain  BY DEF Init, Chain
  <2>2. files \in [Operator -> Record]  BY DEF Init, Record
  <2>3. source \in [Operator -> Version]  BY DEF Init
  <2>4. proc \in [Operator -> Process]  BY <1>4 DEF Init
  <2> QED  BY <2>1, <2>2, <2>3, <2>4 DEF TypeOK
<1>6. ASSUME NEW p \in Operator  PROVE  ProcessOK(proc[p], files[p], chain.code)
  <2>1. /\ proc[p].at = "stopped" /\ proc[p].todo = <<>> /\ proc[p].unverified = {}
        /\ proc[p].cache = <<>>
    BY DEF Init
  <2> QED  BY <2>1 DEF ProcessOK, ProgramOK, WorkOK, DeployedOK, MustBeInPlace, Deploying
<1> QED  BY <1>5, <1>6 DEF IndInv, Init, VerdictsAreTrue

\* An exception, whenever it comes, leaves nothing in memory that could be wrong.
LEMMA ThrowOK ==
  ASSUME IndInv, NEW p \in Operator, Throw(p), UNCHANGED <<files, source, verdicts>>,
         chain' \in Chain,
         chain.code \subseteq chain'.code
  PROVE  IndInv'
<1> DEFINE f == [proc[p] EXCEPT !.at = "stopped", !.todo = <<>>, !.unverified = {}, !.cache = <<>>]
<1>1. proc[p] \in Process /\ files[p] \in Record
  BY DEF IndInv, TypeOK
<1>2. <<>> \in [{} -> Compiler]  OBVIOUS
<1>3. <<>> \in Cache  BY <1>2 DEF Cache
<1>4. f \in Process
  <2>1. <<>> \in Seq(Contract) /\ {} \in SUBSET Contract  OBVIOUS
  <2>2. "stopped" \in Deploying \cup {"stopped", "task", "get"}  OBVIOUS
  <2> QED  BY <1>1, <1>3, <2>1, <2>2 DEF Process
<1>5. f.at = "stopped" /\ f.todo = <<>> /\ f.unverified = {} /\ f.cache = <<>>
  BY <1>1 DEF Process
<1>6. proc' = [proc EXCEPT ![p] = f]  BY DEF Throw
<1> HIDE DEF f
<1>7. ProcessOK(f, files[p], chain'.code)
  BY <1>5 DEF ProcessOK, ProgramOK, WorkOK, DeployedOK, MustBeInPlace, Deploying
<1>8. files' = [files EXCEPT ![p] = files[p]]  BY DEF IndInv, TypeOK
<1>9. VerdictsAreTrue'  BY DEF IndInv, VerdictsAreTrue
<1> QED  BY <1>1, <1>4, <1>6, <1>7, <1>8, <1>9, StepOfOne

\* A process that only goes on to the next point of its task.
LEMMA GoTo ==
  ASSUME IndInv, NEW p \in Operator, NEW point \in Deploying \cup {"stopped", "task", "get"},
         Go(p, point)
  PROVE  \E f \in Process :
           /\ proc' = [proc EXCEPT ![p] = f]
           /\ f.at = point
           /\ f.commands = proc[p].commands /\ f.tasks = proc[p].tasks
           /\ f.todo = proc[p].todo /\ f.unverified = proc[p].unverified
           /\ f.version = proc[p].version /\ f.cache = proc[p].cache
<1> DEFINE f == [proc[p] EXCEPT !.at = point]
<1>1. proc[p] \in Process  BY DEF IndInv, TypeOK
<1>2. f \in Process  BY <1>1 DEF Process
<1>3. /\ f.at = point
      /\ f.commands = proc[p].commands /\ f.tasks = proc[p].tasks
      /\ f.todo = proc[p].todo /\ f.unverified = proc[p].unverified
      /\ f.version = proc[p].version /\ f.cache = proc[p].cache
  BY <1>1 DEF Process
<1>4. proc' = [proc EXCEPT ![p] = f]  BY DEF Go, IndInv, TypeOK
<1> QED  BY <1>2, <1>3, <1>4

\* Within a deployment, ProgramOK and the list of compilers do not change.
LEMMA WithinDeploy ==
  ASSUME NEW f, NEW g, ProgramOK(f), WorkOK(f), f.at \in Deploying, g.at \in Deploying,
         g.commands = f.commands, g.tasks = f.tasks, g.unverified = f.unverified,
         g.cache = f.cache, g.at # "look" => g.todo # <<>>
  PROVE  ProgramOK(g) /\ WorkOK(g) /\ (MustBeInPlace(f) <=> MustBeInPlace(g))
<1>1. ProgramOK(g)
  <2>1. f.commands # <<>>  BY DEF ProgramOK, Deploying
  <2>2. InDeployContracts(f) => InDeployContracts(g)
    BY DEF InDeployContracts, Deploying
  <2> QED  BY <2>1, <2>2 DEF ProgramOK, Deploying
<1> QED  BY <1>1 DEF WorkOK, MustBeInPlace, Deploying

LEMMA BeginOK ==
  ASSUME IndInv, NEW p \in Operator, Begin(p)
  PROVE  IndInv'
<1> DEFINE f == [proc[p] EXCEPT !.at = "task", !.tasks = Head(proc[p].commands),
                                !.version = source[p]]
<1>1. /\ proc[p] \in Process /\ proc[p].commands \in Seq(Command) /\ source[p] \in Version
      /\ proc[p].commands # <<>>
  BY DEF IndInv, TypeOK, Process, Begin
<1>2. Head(proc[p].commands) \in Command  BY <1>1
<1>3. Head(proc[p].commands) \in Seq(TaskOf)  BY <1>2, CommandsAre DEF Command
<1>4. f \in Process
  <2>1. "task" \in Deploying \cup {"stopped", "task", "get"}  OBVIOUS
  <2> QED  BY <1>1, <1>3, <2>1 DEF Process
<1>5. /\ f.at = "task" /\ f.commands = proc[p].commands /\ f.tasks = Head(f.commands)
      /\ f.todo = proc[p].todo /\ f.unverified = proc[p].unverified /\ f.cache = proc[p].cache
  BY <1>1 DEF Process
<1>6. proc' = [proc EXCEPT ![p] = f]  BY DEF Begin
<1> HIDE DEF f
<1>7. WorkOK(proc[p]) /\ proc[p].at = "stopped"  BY DEF Begin, At, IndInv, ProcessOK
<1>8. WorkOK(f)  BY <1>5, <1>7 DEF WorkOK, Deploying
<1>9. ProgramOK(f)  BY <1>1, <1>2, <1>5 DEF ProgramOK, InDeployContracts, Command
<1>10. deployContracts # Tail(deployContracts)
  <2>1. Len(deployContracts) = 4 /\ Len(Tail(deployContracts)) = 3 /\ 4 # 3  BY CommandsAre
  <2> QED  BY <2>1, Zenon
<1>11. ~MustBeInPlace(f)  BY <1>5, <1>10 DEF MustBeInPlace, Deploying
<1>12. f.unverified = {}  BY <1>5, <1>7 DEF WorkOK
<1>13. ProcessOK(f, files[p], chain.code)
  BY <1>5, <1>8, <1>9, <1>11, <1>12 DEF ProcessOK, DeployedOK
<1>14. UNCHANGED <<chain, files, source, verdicts>>  BY DEF Begin
<1> QED  BY <1>4, <1>6, <1>13, <1>14, QuietStep

LEMMA EndOK ==
  ASSUME IndInv, NEW p \in Operator, End(p)
  PROVE  IndInv'
<1> DEFINE f == [proc[p] EXCEPT !.at = "stopped", !.commands = Tail(proc[p].commands),
                                !.cache = <<>>]
<1>1. /\ proc[p] \in Process /\ proc[p].commands \in Seq(Command) /\ proc[p].at = "task"
      /\ ProgramOK(proc[p]) /\ WorkOK(proc[p])
  BY DEF IndInv, TypeOK, Process, End, At, ProcessOK
<1>2. Tail(proc[p].commands) \in Seq(Command)  BY <1>1 DEF ProgramOK
<1>3. <<>> \in [{} -> Compiler]  OBVIOUS
<1>4. <<>> \in Cache  BY <1>3 DEF Cache
<1>5. f \in Process
  <2>1. "stopped" \in Deploying \cup {"stopped", "task", "get"}  OBVIOUS
  <2> QED  BY <1>1, <1>2, <1>4, <2>1 DEF Process
<1>6. /\ f.at = "stopped" /\ f.cache = <<>>
      /\ f.todo = proc[p].todo /\ f.unverified = proc[p].unverified
  BY <1>1 DEF Process
<1>7. proc' = [proc EXCEPT ![p] = f]  BY DEF End
<1> HIDE DEF f
<1>8. f.todo = <<>> /\ f.unverified = {}  BY <1>1, <1>6 DEF WorkOK, Deploying
<1>9. ProcessOK(f, files[p], chain.code)
  BY <1>6, <1>8 DEF ProcessOK, ProgramOK, WorkOK, DeployedOK, MustBeInPlace, Deploying
<1>10. UNCHANGED <<chain, files, source, verdicts>>  BY DEF End
<1> QED  BY <1>5, <1>7, <1>9, <1>10, QuietStep

LEMMA EndTaskOK ==
  ASSUME IndInv, NEW p \in Operator, EndTask(p)
  PROVE  IndInv'
<1>1. Go(p, "task") /\ UNCHANGED <<chain, files, source, verdicts>>  BY DEF EndTask
<1>2. PICK f \in Process :
        /\ proc' = [proc EXCEPT ![p] = f]
        /\ f.at = "task"
        /\ f.commands = proc[p].commands /\ f.tasks = proc[p].tasks
        /\ f.todo = proc[p].todo /\ f.unverified = proc[p].unverified
        /\ f.version = proc[p].version /\ f.cache = proc[p].cache
  BY <1>1, GoTo
<1>3. /\ ProgramOK(proc[p]) /\ WorkOK(proc[p]) /\ DeployedOK(proc[p], files[p], chain.code)
      /\ proc[p].at \in {"look", "get"} /\ proc[p].todo = <<>> /\ proc[p].unverified = {}
  BY DEF IndInv, ProcessOK, EndTask
<1>4. ProgramOK(f)
  <2>1. InDeployContracts(proc[p]) => InDeployContracts(f)
    BY <1>2, <1>3 DEF InDeployContracts, Deploying
  <2> QED  BY <1>2, <1>3, <2>1 DEF ProgramOK, Deploying
<1>5. WorkOK(f)  BY <1>2, <1>3 DEF WorkOK, Deploying
<1>6. MustBeInPlace(f) => MustBeInPlace(proc[p])
  BY <1>2, <1>3 DEF MustBeInPlace, Deploying
<1>7. DeployedOK(f, files[p], chain.code)  BY <1>2, <1>3, <1>6 DEF DeployedOK
<1> QED  BY <1>1, <1>2, <1>4, <1>5, <1>7, QuietStep DEF ProcessOK

LEMMA StartTaskOK ==
  ASSUME IndInv, NEW p \in Operator, StartTask(p)
  PROVE  IndInv'
<1> DEFINE o == proc[p]
           task == Head(o.tasks)
           at == CASE task.name = "deploy" -> "look"
                   [] task.name = "local-verify" -> "get"
                   [] OTHER -> "task"
           f == [o EXCEPT !.at = at, !.tasks = Tail(o.tasks),
                          !.todo = IF at = "look" THEN Deployed(task.tags) ELSE <<>>,
                          !.unverified = IF at = "get" THEN {c \in Contract : files[p][c] # None}
                                         ELSE {}]
<1>1. /\ o \in Process /\ o.at = "task" /\ o.tasks # <<>> /\ o.tasks \in Seq(TaskOf)
      /\ ProgramOK(o) /\ WorkOK(o) /\ DeployedOK(o, files[p], chain.code)
  BY DEF IndInv, TypeOK, Process, StartTask, At, ProcessOK
<1>2. proc' = [proc EXCEPT ![p] = f]  BY DEF StartTask
<1>3. at \in {"look", "get", "task"}  OBVIOUS
<1>4. /\ task.name = "deploy" => at = "look"
      /\ task.name = "local-verify" => at = "get"
      /\ task.name \notin {"deploy", "local-verify"} => at = "task"
  OBVIOUS
<1>5. task \in TaskOf /\ Tail(o.tasks) \in Seq(TaskOf)  BY <1>1
<1> HIDE DEF o, at, task
<1>6. f \in Process
  <2>1. at \in Deploying \cup {"stopped", "task", "get"}  BY <1>3 DEF Deploying
  <2>2. Deployed(task.tags) \in Seq(Contract) /\ <<>> \in Seq(Contract)  BY RunsContracts
  <2>3. {c \in Contract : files[p][c] # None} \subseteq Contract  OBVIOUS
  <2> QED  BY <1>1, <1>5, <2>1, <2>2, <2>3 DEF Process
<1>7. /\ f.at = at /\ f.commands = o.commands /\ f.tasks = Tail(o.tasks)
      /\ f.todo = IF at = "look" THEN Deployed(task.tags) ELSE <<>>
      /\ f.unverified = IF at = "get" THEN {c \in Contract : files[p][c] # None} ELSE {}
      /\ f.version = o.version /\ f.cache = o.cache
  BY <1>1 DEF Process
<1> HIDE DEF f
<1>8. WorkOK(f)  BY <1>1, <1>3, <1>7 DEF WorkOK, Deploying
<1>9. \A c \in f.unverified : files[p][c] # None  BY <1>7
<1>10. ASSUME f.at # "save",
              MustBeInPlace(f) => \A c \in Contract \ Range(f.todo) :
                                    InPlace(c, f.version, files[p], chain.code),
              ProgramOK(f)
       PROVE  IndInv'
  <2>1. DeployedOK(f, files[p], chain.code)  BY <1>9, <1>10 DEF DeployedOK
  <2>2. UNCHANGED <<chain, files, source, verdicts>>  BY DEF StartTask
  <2> QED  BY <1>2, <1>6, <1>8, <1>10, <2>1, <2>2, QuietStep DEF ProcessOK
<1>11. f.at # "save"  BY <1>3, <1>7
<1>12. CASE Head(o.commands) = deployContracts
  <2> DEFINE d0 == deployContracts
             d1 == Tail(d0)
             d2 == Tail(d1)
             d3 == Tail(d2)
  <2>1. \/ o.tasks = d0 \/ o.tasks = d1 \/ o.tasks = d2 \/ o.tasks = d3
    <3>1. InDeployContracts(o)
      BY <1>1, <1>12, CommandsDiffer DEF ProgramOK
    <3> QED  BY <1>1, <3>1 DEF InDeployContracts, Deploying
  <2>2. /\ Head(d0) = Task("deploy") /\ Head(d1) = Task("local-verify")
        /\ Head(d2) = Task("sourcify") /\ Head(d3) = Task("etherscan-verify")
        /\ Len(d1) = 3 /\ Len(d3) = 1 /\ Tail(d3) = <<>>
    BY CommandsAre
  <2> HIDE DEF d0, d1, d2, d3
  <2>3. o.commands # <<>>  BY <1>1 DEF ProgramOK
  <2>4. CASE o.tasks = d0
    <3>1. f.at = "look" /\ f.tasks = d1 /\ f.todo = Deployed({})
      <4>1. task.name = "deploy" /\ task.tags = {}  BY <2>2, <2>4 DEF task, Task
      <4> QED  BY <1>4, <1>7, <2>4, <4>1 DEF d1
    <3>2. ProgramOK(f)
      BY <1>7, <1>12, <2>3, <3>1 DEF ProgramOK, InDeployContracts, d0, d1, Deploying
    <3>3. Contract \ Range(f.todo) = {}  BY <3>1 DEF Contract
    <3> QED  BY <1>10, <1>11, <3>2, <3>3
  <2>5. CASE o.tasks = d1
    <3>1. f.at = "get" /\ f.tasks = d2 /\ f.todo = <<>>
      BY <1>4, <1>7, <2>2, <2>5 DEF task, Task, d2
    <3>2. ProgramOK(f)
      BY <1>7, <1>12, <2>3, <3>1 DEF ProgramOK, InDeployContracts, d0, d1, d2, Deploying
    <3>3. o.todo = <<>>  BY <1>1 DEF WorkOK, Deploying
    <3>4. MustBeInPlace(o)  BY <1>1, <1>12, <2>5 DEF MustBeInPlace, d0, d1
    <3>5. \A c \in Contract \ Range(f.todo) : InPlace(c, f.version, files[p], chain.code)
      BY <1>1, <1>7, <3>1, <3>3, <3>4 DEF DeployedOK
    <3> QED  BY <1>10, <1>11, <3>2, <3>5
  <2>6. CASE o.tasks = d2
    <3>1. f.at = "task" /\ f.tasks = d3
      BY <1>4, <1>7, <2>2, <2>6 DEF task, Task, d3
    <3>2. ProgramOK(f)
      BY <1>7, <1>12, <2>3, <3>1 DEF ProgramOK, InDeployContracts, d0, d1, d2, d3
    <3>3. d3 # d1
      <4>1. Len(d1) = 3 /\ Len(d3) = 1 /\ 3 # 1  BY <2>2
      <4> QED  BY <4>1, Zenon
    <3>4. ~MustBeInPlace(f)  BY <3>1, <3>3 DEF MustBeInPlace, Deploying, d0, d1
    <3> QED  BY <1>10, <1>11, <3>2, <3>4
  <2>7. CASE o.tasks = d3
    <3>1. f.at = "task" /\ f.tasks = <<>>
      BY <1>4, <1>7, <2>2, <2>7 DEF task, Task
    <3>2. ProgramOK(f)
      BY <1>7, <1>12, <2>3, <3>1 DEF ProgramOK, InDeployContracts, d0
    <3>3. d1 # <<>>
      <4>1. Len(d1) = 3 /\ Len(<<>>) # 3  BY <2>2
      <4> QED  BY <4>1, Zenon
    <3>4. ~MustBeInPlace(f)  BY <3>1, <3>3 DEF MustBeInPlace, Deploying, d0, d1
    <3> QED  BY <1>10, <1>11, <3>2, <3>4
  <2> QED  BY <2>1, <2>4, <2>5, <2>6, <2>7
<1>13. CASE Head(o.commands) = localVerify
  <2>1. o.commands # <<>> /\ o.tasks = localVerify
    BY <1>1, <1>13, CommandsDiffer DEF ProgramOK
  <2>2. Head(localVerify) = Task("local-verify") /\ Tail(localVerify) = <<>>
    BY CommandsAre
  <2>3. f.at = "get" /\ f.tasks = <<>>  BY <1>4, <1>7, <2>1, <2>2 DEF task, Task
  <2>4. ProgramOK(f)  BY <1>7, <1>13, <2>1, <2>3 DEF ProgramOK
  <2>5. ~MustBeInPlace(f)  BY <1>7, <1>13, CommandsDiffer DEF MustBeInPlace
  <2> QED  BY <1>10, <1>11, <2>4, <2>5
<1>14. CASE \E t \in SUBSET Tag : Head(o.commands) = deploy(t)
  <2>1. PICK t \in SUBSET Tag : Head(o.commands) = deploy(t)  BY <1>14
  <2>2. /\ o.commands # <<>>
        /\ \E u \in SUBSET Tag : Head(o.commands) = deploy(u) /\ o.tasks = deploy(u)
    BY <1>1, <2>1, CommandsDiffer DEF ProgramOK
  <2>3. PICK u \in SUBSET Tag : Head(o.commands) = deploy(u) /\ o.tasks = deploy(u)
    BY <2>2
  <2>4. Head(deploy(u)) = [name |-> "deploy", tags |-> u] /\ Tail(deploy(u)) = <<>>
    BY CommandsAre
  <2>5. f.at = "look" /\ f.tasks = <<>>  BY <1>4, <1>7, <2>3, <2>4 DEF task
  <2>6. ProgramOK(f)  BY <1>7, <2>2, <2>3, <2>5 DEF ProgramOK, Deploying
  <2>7. ~MustBeInPlace(f)  BY <1>7, <2>3, CommandsDiffer DEF MustBeInPlace
  <2> QED  BY <1>10, <1>11, <2>6, <2>7
<1> QED  BY <1>1, <1>12, <1>13, <1>14 DEF ProgramOK

LEMMA LookOK ==
  ASSUME IndInv, NEW p \in Operator, Look(p)
  PROVE  IndInv'
<1> DEFINE o == proc[p]
           there == OnChain(Head(o.todo), o.version) \in chain.code
<1>1. /\ o \in Process /\ o.at = "look" /\ o.todo # <<>>
      /\ ProgramOK(o) /\ WorkOK(o) /\ DeployedOK(o, files[p], chain.code)
  BY DEF IndInv, TypeOK, Look, At, ProcessOK
<1>2. UNCHANGED <<chain, files, source, verdicts>>  BY DEF Look
<1>3. CASE Throw(p)
  <2>1. chain' \in Chain /\ chain.code \subseteq chain'.code  BY <1>2 DEF IndInv, TypeOK
  <2> QED  BY <1>2, <1>3, <2>1, ThrowOK
<1>4. CASE ~Throw(p)
  <2>1. PICK point \in {"save", "send", "fund"} : Go(p, point) /\ (point = "save" => there)
    BY <1>4 DEF Look
  <2>2. PICK f \in Process :
          /\ proc' = [proc EXCEPT ![p] = f]
          /\ f.at = point
          /\ f.commands = o.commands /\ f.tasks = o.tasks
          /\ f.todo = o.todo /\ f.unverified = o.unverified
          /\ f.version = o.version /\ f.cache = o.cache
    BY <2>1, GoTo DEF Deploying
  <2>3. f.at \in Deploying /\ o.at \in Deploying  BY <1>1, <2>2 DEF Deploying
  <2>4. ProgramOK(f) /\ WorkOK(f) /\ (MustBeInPlace(o) <=> MustBeInPlace(f))
    BY <1>1, <2>2, <2>3, WithinDeploy
  <2>5. DeployedOK(f, files[p], chain.code)  BY <1>1, <2>1, <2>2, <2>4 DEF DeployedOK
  <2> QED  BY <1>2, <2>2, <2>4, <2>5, QuietStep DEF ProcessOK
<1> QED  BY <1>3, <1>4

\* A step of the deployment that may add to the chain and keeps the list of contracts.
LEMMA SendsOK ==
  ASSUME IndInv, NEW p \in Operator, proc[p].at \in Deploying \ {"look"},
         NEW point \in {"factory", "send", "save"}, Go(p, point),
         UNCHANGED <<files, source, verdicts>>,
         chain' \in Chain, chain.code \subseteq chain'.code,
         point = "save" => OnChain(Head(proc[p].todo), proc[p].version) \in chain'.code
  PROVE  IndInv'
<1> DEFINE o == proc[p]
<1>1. /\ ProgramOK(o) /\ WorkOK(o) /\ DeployedOK(o, files[p], chain.code)
      /\ files[p] \in Record /\ files' = [files EXCEPT ![p] = files[p]]
  BY DEF IndInv, TypeOK, ProcessOK
<1>2. PICK f \in Process :
        /\ proc' = [proc EXCEPT ![p] = f]
        /\ f.at = point
        /\ f.commands = o.commands /\ f.tasks = o.tasks
        /\ f.todo = o.todo /\ f.unverified = o.unverified
        /\ f.version = o.version /\ f.cache = o.cache
  BY GoTo DEF Deploying
<1>3. f.at \in Deploying /\ o.at \in Deploying  BY <1>2 DEF Deploying
<1>4. f.todo # <<>>  BY <1>1, <1>2 DEF WorkOK
<1>5. ProgramOK(f) /\ WorkOK(f) /\ (MustBeInPlace(o) <=> MustBeInPlace(f))
  BY <1>1, <1>2, <1>3, <1>4, WithinDeploy
<1>6. DeployedOK(f, files[p], chain'.code)
  <2>1. f.at = "save" => OnChain(Head(f.todo), f.version) \in chain'.code  BY <1>2
  <2>2. MustBeInPlace(f) =>
          \A c \in Contract \ Range(f.todo) : InPlace(c, f.version, files[p], chain'.code)
    BY <1>1, <1>2, <1>5 DEF DeployedOK, InPlace
  <2>3. \A c \in f.unverified : files[p][c] # None  BY <1>1, <1>2 DEF DeployedOK
  <2> QED  BY <2>1, <2>2, <2>3 DEF DeployedOK
<1>7. VerdictsAreTrue'  BY DEF IndInv, VerdictsAreTrue
<1> QED  BY <1>1, <1>2, <1>5, <1>6, <1>7, StepOfOne DEF ProcessOK

LEMMA FactoryOK ==
  ASSUME IndInv, NEW p \in Operator, FundFactory(p) \/ CreateFactory(p)
  PROVE  IndInv'
<1>1. chain \in Chain  BY DEF IndInv, TypeOK
<1>2. CASE FundFactory(p)
  <2>1. proc[p].at = "fund" /\ chain' = [chain EXCEPT !.funded = TRUE] /\ Go(p, "factory")
    BY <1>2 DEF FundFactory, At
  <2>2. chain' \in Chain /\ chain'.code = chain.code  BY <1>1, <2>1 DEF Chain
  <2>3. UNCHANGED <<files, source, verdicts>>  BY <1>2 DEF FundFactory
  <2>4. proc[p].at \in Deploying \ {"look"}  BY <2>1 DEF Deploying
  <2>5. chain.code \subseteq chain'.code /\ "factory" # "save"  BY <2>2
  <2>6. "factory" \in {"factory", "send", "save"}  OBVIOUS
  <2> QED  BY <2>1, <2>2, <2>3, <2>4, <2>5, <2>6, SendsOK
<1>3. CASE CreateFactory(p)
  <2>1. proc[p].at = "factory" /\ chain' = [chain EXCEPT !.factory = TRUE]
    BY <1>3 DEF CreateFactory, At
  <2>2. chain' \in Chain /\ chain'.code = chain.code  BY <1>1, <2>1 DEF Chain
  <2>3. UNCHANGED <<files, source, verdicts>> /\ (Throw(p) \/ Go(p, "send"))
    BY <1>3 DEF CreateFactory
  <2>4. CASE Throw(p)  BY <2>2, <2>3, <2>4, ThrowOK
  <2>5. CASE Go(p, "send")
    <3>1. proc[p].at \in Deploying \ {"look"}  BY <2>1 DEF Deploying
    <3>2. chain.code \subseteq chain'.code /\ "send" # "save"  BY <2>2
    <3>3. "send" \in {"factory", "send", "save"}  OBVIOUS
    <3> QED  BY <2>2, <2>3, <2>5, <3>1, <3>2, <3>3, SendsOK
  <2> QED  BY <2>3, <2>4, <2>5
<1> QED  BY <1>2, <1>3

LEMMA SendOK ==
  ASSUME IndInv, NEW p \in Operator, Send(p)
  PROVE  IndInv'
<1> DEFINE o == proc[p]
           code == OnChain(Head(o.todo), o.version)
<1>1. /\ chain \in Chain /\ o.at = "send" /\ o \in Process /\ o.todo \in Seq(Contract)
      /\ o.version \in Version /\ WorkOK(o)
  BY DEF IndInv, TypeOK, Send, At, Process, ProcessOK
<1>2. Head(o.todo) \in Contract  BY <1>1 DEF WorkOK, Deploying
<1>3. chain' = [chain EXCEPT !.code = chain.code \cup {code}]  BY DEF Send
<1>4. code \in CodeOfAny  BY <1>1, <1>2 DEF CodeOfAny
<1> HIDE DEF code
<1>5. chain' \in Chain /\ chain'.code = chain.code \cup {code}  BY <1>1, <1>3, <1>4 DEF Chain
<1>6. UNCHANGED <<files, source, verdicts>> /\ (Throw(p) \/ Go(p, "save"))  BY DEF Send
<1>7. CASE Throw(p)  BY <1>5, <1>6, <1>7, ThrowOK
<1>8. CASE Go(p, "save")
  <2>1. code \in chain'.code  BY <1>5
  <2> QED  BY <1>1, <1>5, <1>6, <1>8, <2>1, SendsOK DEF Deploying, code
<1> QED  BY <1>6, <1>7, <1>8

LEMMA SaveOK ==
  ASSUME IndInv, NEW p \in Operator, Save(p)
  PROVE  IndInv'
<1> DEFINE o == proc[p]
           f == [o EXCEPT !.at = "look", !.todo = Tail(o.todo)]
           c == Head(o.todo)
           record == [files[p] EXCEPT ![c] = o.version]
<1>1. /\ o \in Process /\ o.at = "save" /\ files[p] \in Record /\ o.todo \in Seq(Contract)
      /\ ProgramOK(o) /\ WorkOK(o) /\ DeployedOK(o, files[p], chain.code)
      /\ o.version \in Version
  BY DEF IndInv, TypeOK, Process, Save, At, ProcessOK
<1>2. o.todo # <<>>  BY <1>1 DEF WorkOK, Deploying
<1>3. c \in Contract /\ Tail(o.todo) \in Seq(Contract)  BY <1>1, <1>2
<1>4. record \in Record  BY <1>1, <1>3 DEF Record
<1>5. f \in Process
  <2>1. "look" \in Deploying \cup {"stopped", "task", "get"}  BY DEF Deploying
  <2> QED  BY <1>1, <1>3, <2>1 DEF Process
<1>6. /\ f.at = "look" /\ f.commands = o.commands /\ f.tasks = o.tasks
      /\ f.todo = Tail(o.todo) /\ f.unverified = o.unverified
      /\ f.version = o.version /\ f.cache = o.cache
  BY <1>1 DEF Process
<1>7. proc' = [proc EXCEPT ![p] = f]  BY DEF Save
<1>8. files' = [files EXCEPT ![p] = record]  BY DEF Save, IndInv, TypeOK
<1>9. record[c] = o.version /\ \A d \in Contract \ {c} : record[d] = files[p][d]
  BY <1>1, <1>3 DEF Record
<1> HIDE DEF f, record
<1>10. f.at \in Deploying /\ o.at \in Deploying  BY <1>1, <1>6 DEF Deploying
<1>11. ProgramOK(f) /\ WorkOK(f) /\ (MustBeInPlace(o) <=> MustBeInPlace(f))
  BY <1>1, <1>6, <1>10, WithinDeploy
<1>12. DeployedOK(f, record, chain.code)
  <2>1. ASSUME NEW d \in Contract \ Range(f.todo), d # c  PROVE  d \notin Range(o.todo)
    <3> SUFFICES ASSUME NEW i \in 1..Len(o.todo), o.todo[i] = d  PROVE FALSE
      BY <1>1 DEF Range
    <3>1. i # 1  BY <1>1, <1>2, <2>1
    <3>2. i - 1 \in 1..Len(Tail(o.todo)) /\ Tail(o.todo)[i - 1] = d
      BY <1>1, <1>2, <3>1
    <3> QED  BY <1>3, <1>6, <3>2, <2>1 DEF Range
  <2>2. ASSUME MustBeInPlace(f), NEW d \in Contract \ Range(f.todo)
        PROVE  InPlace(d, f.version, record, chain.code)
    <3>1. CASE d = c  BY <1>1, <1>6, <1>9, <3>1 DEF InPlace, DeployedOK
    <3>2. CASE d # c  BY <1>1, <1>6, <1>9, <1>11, <2>1, <2>2, <3>2 DEF InPlace, DeployedOK
    <3> QED  BY <3>1, <3>2
  <2>3. f.unverified = {}  BY <1>1, <1>6 DEF WorkOK
  <2> QED  BY <1>6, <2>2, <2>3 DEF DeployedOK
<1>13. chain' \in Chain /\ chain' = chain /\ source' = source /\ VerdictsAreTrue'
  BY DEF Save, IndInv, TypeOK, VerdictsAreTrue
<1> QED  BY <1>4, <1>5, <1>7, <1>8, <1>11, <1>12, <1>13, StepOfOne DEF ProcessOK

LEMMA VerifyOK ==
  ASSUME IndInv, NEW p \in Operator, Verify(p)
  PROVE  IndInv'
<1> DEFINE o == proc[p]
           c == NextUnverified(p)
           version == files[p][c]
           solcjs == loadSolc(o.cache, CompilerOf[version])
           onChain == {d \in chain.code : d.contract = c /\ d.version = version}
           success == \E code \in onChain : Masked(code) = Code(c, version, solcjs, "zero")
           loaded == [v \in DOMAIN o.cache \cup {CompilerOf[version]} |-> loadSolc(o.cache, v)]
           f == [o EXCEPT !.unverified = o.unverified \ {c}, !.cache = loaded]
<1>1. /\ o \in Process /\ o.at = "get" /\ files[p] \in Record /\ o.unverified \subseteq Contract
      /\ o.unverified # {} /\ o.cache \in Cache /\ chain \in Chain
      /\ ProgramOK(o) /\ WorkOK(o) /\ DeployedOK(o, files[p], chain.code)
  BY DEF IndInv, TypeOK, Process, Verify, At, ProcessOK
<1>2. /\ proc' = [proc EXCEPT ![p] = f]
      /\ verdicts' = verdicts \cup {[contract |-> c, there |-> onChain # {}, success |-> success]}
      /\ UNCHANGED <<chain, files, source>>
  BY DEF Verify
<1>3. c \in o.unverified  BY <1>1 DEF NextUnverified
<1>4. version \in Version  BY <1>1, <1>3 DEF DeployedOK, Record
<1> HIDE DEF c
<1>5. ASSUME NEW v \in DOMAIN o.cache \cup {CompilerOf[version]}
      PROVE  loadSolc(o.cache, v) = v
  BY <1>1 DEF WorkOK, loadSolc
<1>6. \A v \in DOMAIN loaded : loaded[v] = v  BY <1>5
<1>7. loaded \in Cache
  <2>1. PICK D \in SUBSET Compiler : o.cache \in [D -> Compiler]  BY <1>1 DEF Cache
  <2>2. CompilerOf[version] \in Compiler  BY <1>4 DEF Compiler
  <2> DEFINE E == D \cup {CompilerOf[version]}
  <2>3. E \in SUBSET Compiler /\ DOMAIN o.cache \cup {CompilerOf[version]} = E  BY <2>1, <2>2
  <2>4. DOMAIN loaded = E /\ \A v \in E : loaded[v] \in Compiler  BY <1>6, <2>3
  <2> HIDE DEF E
  <2>5. loaded \in [E -> Compiler]  BY <2>3, <2>4
  <2> QED  BY <2>3, <2>5 DEF Cache
<1>8. solcjs = CompilerOf[version]  BY <1>5
<1>9. \A d \in onChain : d = OnChain(c, version)
  BY <1>1, WhatIsCompared DEF Chain, CodeOfAny
<1> HIDE DEF loaded, solcjs
<1>10. success <=> onChain # {}
  BY <1>8, <1>9, WhatIsCompared
<1>11. VerdictsAreTrue'
  <2> DEFINE verdict == [contract |-> c, there |-> onChain # {}, success |-> success]
  <2>1. \A v \in verdicts : v.success <=> v.there  BY DEF IndInv, VerdictsAreTrue
  <2>2. verdict.success <=> verdict.there
    <3> HIDE DEF success, onChain
    <3>1. verdict.there = (onChain # {}) /\ verdict.success = success  OBVIOUS
    <3> QED  BY <1>10, <3>1, Zenon
  <2>3. verdicts' = verdicts \cup {verdict}  BY <1>2
  <2> HIDE DEF verdict
  <2> QED  BY <2>1, <2>2, <2>3 DEF VerdictsAreTrue
<1>12. f \in Process  BY <1>1, <1>7 DEF Process
<1>13. /\ f.at = "get" /\ f.commands = o.commands /\ f.tasks = o.tasks
       /\ f.todo = o.todo /\ f.unverified = o.unverified \ {c}
       /\ f.version = o.version /\ f.cache = loaded
  BY <1>1 DEF Process
<1> HIDE DEF f
<1>14. ProgramOK(f) /\ (MustBeInPlace(o) <=> MustBeInPlace(f))
  BY <1>1, <1>13 DEF ProgramOK, InDeployContracts, MustBeInPlace
<1>15. WorkOK(f)  BY <1>1, <1>6, <1>13 DEF WorkOK, Deploying
<1>16. DeployedOK(f, files[p], chain.code)  BY <1>1, <1>13, <1>14 DEF DeployedOK
<1>17. /\ files' = [files EXCEPT ![p] = files[p]] /\ source' = source
       /\ chain' \in Chain /\ chain'.code = chain.code
  BY <1>1, <1>2 DEF IndInv, TypeOK
<1>18. ProcessOK(f, files[p], chain'.code)  BY <1>14, <1>15, <1>16, <1>17 DEF ProcessOK
<1> QED  BY <1>1, <1>2, <1>11, <1>12, <1>17, <1>18, StepOfOne

LEMMA OthersOK ==
  ASSUME IndInv, NEW p \in Operator, LoadFails(p) \/ Crash(p) \/ Edit(p)
  PROVE  IndInv'
<1>1. CASE LoadFails(p) \/ Crash(p)
  <2>1. Throw(p) /\ UNCHANGED <<chain, files, source, verdicts>>
    BY <1>1 DEF LoadFails, Crash
  <2>2. chain' \in Chain /\ chain.code \subseteq chain'.code  BY <2>1 DEF IndInv, TypeOK
  <2> QED  BY <2>1, <2>2, ThrowOK
<1>2. CASE Edit(p)
  <2>1. UNCHANGED <<chain, files, proc, verdicts>>  BY <1>2 DEF Edit
  <2>2. source' \in [Operator -> Version]  BY <1>2 DEF Edit, IndInv, TypeOK
  <2>3. TypeOK'  BY <2>1, <2>2 DEF IndInv, TypeOK
  <2> QED  BY <2>1, <2>3 DEF IndInv, VerdictsAreTrue
<1> QED  BY <1>1, <1>2

\* No process runs while the chain is started anew, so nothing is claimed of it.
LEMMA ResetOK ==
  ASSUME IndInv, Reset
  PROVE  IndInv'
<1>1. /\ UNCHANGED <<files, source, proc, verdicts>>
      /\ chain' = [code |-> {}, funded |-> FALSE, factory |-> FALSE]
  BY DEF Reset
<1>2. TypeOK'  BY <1>1 DEF IndInv, TypeOK, Chain
<1>3. ASSUME NEW q \in Operator  PROVE  ProcessOK(proc[q], files[q], chain'.code)
  <2>1. proc[q].at = "stopped" /\ ProgramOK(proc[q]) /\ WorkOK(proc[q])
    BY DEF Reset, At, IndInv, ProcessOK
  <2>2. proc[q].unverified = {}  BY <2>1 DEF WorkOK
  <2> QED  BY <2>1, <2>2 DEF ProcessOK, DeployedOK, MustBeInPlace, Deploying
<1> QED  BY <1>1, <1>2, <1>3 DEF IndInv, VerdictsAreTrue

--------------------------------------------------------------------------------
(***************************************************************************)
(* The theorems.                                                           *)
(***************************************************************************)
LEMMA NextOK == IndInv /\ [Next]_vars => IndInv'
<1> SUFFICES ASSUME IndInv, [Next]_vars  PROVE IndInv'  OBVIOUS
<1>1. ASSUME NEW p \in Operator, Run(p)  PROVE  IndInv'
  BY <1>1, BeginOK, StartTaskOK, EndTaskOK, EndOK, LookOK, FactoryOK, SendOK, SaveOK, VerifyOK
     DEF Run
<1>2. ASSUME NEW p \in Operator, LoadFails(p) \/ Crash(p) \/ Edit(p)  PROVE  IndInv'
  BY <1>2, OthersOK
<1>3. ASSUME Reset  PROVE  IndInv'  BY <1>3, ResetOK
<1>4. CASE UNCHANGED vars  BY <1>4 DEF vars, IndInv, TypeOK, VerdictsAreTrue
<1> QED  BY <1>1, <1>2, <1>3, <1>4 DEF Next

LEMMA InvariantOK == Spec => []IndInv
BY InitOK, NextOK, PTL DEF Spec

\* When deploy-contracts goes on to local-verify, all contracts are on this chain and
\* recorded, in the version that was compiled.
THEOREM DeployedBeforeVerifyingAlways == Spec => []DeployedBeforeVerifying
<1>1. IndInv => DeployedBeforeVerifying
  <2> SUFFICES ASSUME IndInv, NEW p \in Operator, proc[p].at = "get",
                      Task("deploy") \in Range(Head(proc[p].commands)),
                      NEW c \in Contract
               PROVE  InPlace(c, proc[p].version, files[p], chain.code)
    BY DEF DeployedBeforeVerifying, At, InPlace
  <2>1. /\ ProgramOK(proc[p]) /\ WorkOK(proc[p]) /\ DeployedOK(proc[p], files[p], chain.code)
    BY DEF IndInv, ProcessOK
  <2>2. Head(proc[p].commands) = deployContracts
    BY <2>1, CommandsDiffer DEF ProgramOK, Deploying
  <2>3. MustBeInPlace(proc[p])  BY <2>2 DEF MustBeInPlace
  <2>4. proc[p].todo = <<>>  BY <2>1 DEF WorkOK, Deploying
  <2>5. c \notin Range(proc[p].todo)  BY <2>4 DEF Range
  <2> QED  BY <2>1, <2>3, <2>5 DEF DeployedOK
<1> QED  BY <1>1, InvariantOK, PTL

\* local-verify prints SUCCESS exactly if the code that the record promises is there.
THEOREM VerdictsAreTrueAlways == Spec => []VerdictsAreTrue
<1>1. IndInv => VerdictsAreTrue  BY DEF IndInv
<1> QED  BY <1>1, InvariantOK, PTL
================================================================================
