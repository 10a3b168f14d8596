----------------------------- MODULE ModuleManager ------------------------------
(***************************************************************************)
(* contracts/base/ModuleManager.sol: the list of modules and its pages.    *)
(* (Executing a module's transaction is in SafeExecution.)                 *)
(***************************************************************************)
EXTENDS SentinelList, Sequences, Functions, FiniteSets

CONSTANT InitialModules \* what an initializer may enable during setup

ASSUME ModuleAssumption ==
  IsFiniteSet(Address) /\ InitialModules \subseteq Seq(Address)

VARIABLE modules

moduleVars == <<modules>>

\* The storage of a new proxy.
ModulesInit == modules = [a \in Address |-> Zero]

isModuleEnabled(a) == IsNode(modules, a)

EnabledModules == Nodes(modules)

CanBeModule(a) == a \notin {Zero, Sentinel}         \* GS101

--------------------------------------------------------------------------------
(***************************************************************************)
(* setupModules opens the list and delegatecalls the initializer, which    *)
(* runs in the Safe's context and so may call enableModule: here, on the   *)
(* modules ms one after the other.  If one of the calls fails setup fails  *)
(* as a whole (GS000).                                                     *)
(***************************************************************************)
EnabledInTurn(ms) ==
  [a \in Address |->
     IF a = Sentinel THEN (IF ms = <<>> THEN Sentinel ELSE ms[Len(ms)])
     ELSE IF \E i \in DOMAIN ms : ms[i] = a
          THEN LET i == CHOOSE i \in DOMAIN ms : ms[i] = a
               IN IF i = 1 THEN Sentinel ELSE ms[i - 1]
          ELSE Zero]

\* Opens the list without asking whether it is open.
setupModulesSlip(ms) ==
  /\ \A i \in DOMAIN ms : CanBeModule(ms[i])
  /\ IsInjective(ms)
  /\ modules' = EnabledInTurn(ms)

setupModules(ms) ==
  /\ modules[Sentinel] = Zero                       \* GS100
  /\ \A i \in DOMAIN ms : CanBeModule(ms[i])        \* GS101 inside, then GS000
  /\ IsInjective(ms)                                \* GS102 inside, then GS000
  /\ modules' = EnabledInTurn(ms)

\* Does not ask whether the module is enabled already: the list closes to a ring.
enableModuleSlip(module) ==
  /\ CanBeModule(module)
  /\ modules' = PushFront(modules, module)

enableModule(module) ==
  /\ CanBeModule(module)                            \* GS101
  /\ modules[module] = Zero                         \* GS102
  /\ modules' = PushFront(modules, module)

disableModule(prevModule, module) ==
  /\ CanBeModule(module)                            \* GS101
  /\ modules[prevModule] = module                   \* GS103
  /\ modules' = Unlink(modules, prevModule, module)

--------------------------------------------------------------------------------
(***************************************************************************)
(* getModulesPaginated.  The loop takes pageSize steps at most and stops   *)
(* at the sentinel, or at zero in a list that setup has not opened.        *)
(***************************************************************************)
moduleCount(hop, pageSize) ==
  CHOOSE i \in 0..pageSize :
    /\ i = pageSize \/ hop[i] \in {Zero, Sentinel}
    /\ \A j \in 0..(i - 1) : hop[j] \notin {Zero, Sentinel}

\* The first module that is not on the page: the next page starts after it.
getModulesPaginatedSlip(start, pageSize) ==
  LET hop == Hops(modules, start, pageSize)
      n == moduleCount(hop, pageSize)
  IN [array |-> [i \in 1..n |-> hop[i - 1]], next |-> hop[n]]

\* A full page tells where it began, not where it ended.
getModulesPaginatedRestartSlip(start, pageSize) ==
  LET hop == Hops(modules, start, pageSize)
      n == moduleCount(hop, pageSize)
  IN [array |-> [i \in 1..n |-> hop[i - 1]],
      next |-> IF hop[n] # Sentinel THEN start ELSE Sentinel]

getModulesPaginated(start, pageSize) ==
  LET hop == Hops(modules, start, pageSize)
      n == moduleCount(hop, pageSize)
      array == [i \in 1..n |-> hop[i - 1]]
  IN [array |-> array,
      next |-> IF hop[n] # Sentinel THEN array[n] ELSE Sentinel]

\* GS105, GS106, and array[moduleCount - 1] of an empty page.
PageAvailable(start, pageSize) ==
  /\ start = Sentinel \/ isModuleEnabled(start)
  /\ pageSize # 0
  /\ modules[start] # Zero

--------------------------------------------------------------------------------
\* enableModule and disableModule are `authorized`: called by the Safe itself, which
\* acts only once setup is over.
ModulesSelfCall(call) == modules[Sentinel] # Zero /\ call

ModulesNext ==
  \/ \E ms \in InitialModules : setupModules(ms)
  \/ \E m \in Address : ModulesSelfCall(enableModule(m))
  \/ \E p, m \in Address : ModulesSelfCall(disableModule(p, m))

ModulesSpec == ModulesInit /\ [][ModulesNext]_moduleVars

--------------------------------------------------------------------------------
ModulesTypeOK == modules \in [Address -> Address]

\* A page as long as the list can get.
WholeList == getModulesPaginated(Sentinel, Cardinality(Address)).array

\* Reading page after page is reading the list: started after any enabled module, a
\* page of any size holds the modules that follow it in the list, as many as fit, and
\* `next` is the sentinel exactly when the page reaches the end
\* (ModuleManager.sol:215-225, IModuleManager.sol's "start of the next page").
PagesFollow ==
  modules[Sentinel] # Zero =>
    /\ Range(WholeList) = EnabledModules
    /\ IsInjective(WholeList)
    /\ \A from \in 0..Len(WholeList), pageSize \in 1..Cardinality(Address) :
         LET start == IF from = 0 THEN Sentinel ELSE WholeList[from]
             page == getModulesPaginated(start, pageSize)
             last == IF from + pageSize < Len(WholeList) THEN from + pageSize
                                                         ELSE Len(WholeList)
         IN /\ PageAvailable(start, pageSize)
            /\ page.array = SubSeq(WholeList, from + 1, last)
            /\ page.next = IF last = Len(WholeList) THEN Sentinel ELSE WholeList[last]

\* The linked list is a set of modules that is opened once and changes by one module
\* at a time.
Abstract == INSTANCE ModuleSet WITH
  Candidate <- Address \ {Zero, Sentinel},
  open <- modules[Sentinel] # Zero,
  enabled <- EnabledModules

ImplementsModuleSet == Abstract!Spec
================================================================================
