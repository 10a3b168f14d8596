------------------------------ MODULE ModulePaging ------------------------------
(***************************************************************************)
(* An off-chain client reads the modules of a Safe page by page, as        *)
(* getModulesPaginated is meant to be used: from the sentinel, then from   *)
(* each page's `next` until that is the sentinel.  Every page is a call of *)
(* its own, and the Safe may enable and disable modules in between.        *)
(***************************************************************************)
EXTENDS ModuleManager, Integers

CONSTANTS PageSizes,    \* the page sizes the client asks for
          MaxEdits      \* bound: changes of the module list in a behaviour

ASSUME PagingAssumption == PageSizes \subseteq Nat /\ MaxEdits \in Nat

VARIABLES
  cursor,     \* where the next page starts; the zero address between two reads
  seen,       \* the modules returned so far
  repeated,   \* those of them that were returned more than once
  before,     \* the modules that were enabled when the read began
  removed,    \* the modules that were disabled at some moment of the read
  finished,   \* the last read reached the end and nothing was begun since
  edits

readVars == <<cursor, seen, repeated, before, removed, finished>>
pagingVars == <<modules, readVars, edits>>

PagingInit ==
  /\ ModulesInit
  /\ cursor = Zero /\ seen = {} /\ repeated = {} /\ before = {} /\ removed = {}
  /\ finished = FALSE
  /\ edits = 0

BeginRead ==
  /\ cursor' = Sentinel /\ seen' = {} /\ repeated' = {}
  /\ before' = EnabledModules /\ removed' = {}
  /\ finished' = FALSE
  /\ UNCHANGED <<modules, edits>>

StartReading == cursor = Zero /\ modules[Sentinel] # Zero /\ BeginRead

ReadPage(size) ==
  /\ cursor # Zero
  /\ PageAvailable(cursor, size)
  /\ LET page == getModulesPaginated(cursor, size)
         Earlier(i) == {page.array[j] : j \in 1..(i - 1)}
     IN /\ seen' = seen \cup Range(page.array)
        /\ repeated' = repeated \cup
             {page.array[i] : i \in {i \in DOMAIN page.array :
                                      page.array[i] \in seen \cup Earlier(i)}}
        /\ finished' = (page.next = Sentinel)
        /\ cursor' = IF page.next = Sentinel THEN Zero ELSE page.next
  /\ UNCHANGED <<modules, before, removed, edits>>

\* The module that ended the last page is gone (GS105): read again from the start.
StartOver(size) ==
  /\ cursor # Zero
  /\ ~PageAvailable(cursor, size)
  /\ BeginRead

\* Any call that changes the list.  A finished read stays as it was.
EditList ==
  /\ edits < MaxEdits /\ edits' = edits + 1
  /\ ModulesNext
  /\ removed' = IF finished THEN removed
                ELSE removed \cup (EnabledModules \ EnabledModules')
  /\ UNCHANGED <<cursor, seen, repeated, before, finished>>

Reading == \E size \in PageSizes : ReadPage(size) \/ StartOver(size)

PagingNext == StartReading \/ Reading \/ EditList

\* The client goes on with a read that it has begun.
PagingSpec ==
  PagingInit /\ [][PagingNext]_pagingVars /\ WF_pagingVars(Reading)

--------------------------------------------------------------------------------
\* A read that reaches the end has returned every module that was enabled from its
\* beginning to its end, however the list changed between the pages: new modules go
\* to the front, and a cursor that is no longer a module is refused rather than
\* followed (ModuleManager.sol:201).
ReadsEveryModule == finished => before \ removed \subseteq seen

\* A module is returned twice only when a module that had been returned was disabled
\* during the read (and enabled again, which moves it to the front).
RepeatsAfterRemoval == repeated # {} => seen \cap removed # {}

\* Once the list stops changing, a read ends: every page moves the cursor towards
\* the sentinel.
ReadEnds == cursor # Zero ~> cursor = Zero
================================================================================
