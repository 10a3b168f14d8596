-------------------------------- MODULE MCSafeL2 ---------------------------------
EXTENDS SafeL2, TLC

CONSTANTS l2A, l2B  \* the addresses of two contracts that are a SafeL2 of one version

\* Versions from which and to which the migration may go.
MCSingletons ==
  {[at |-> "1.1.1", version |-> "1.1.1", l2 |-> FALSE],
   [at |-> "1.3.0", version |-> "1.3.0", l2 |-> FALSE]}
    \cup {[at |-> address, version |-> "1.3.0", l2 |-> TRUE] : address \in {l2A, l2B}}

Interchangeable == Permutations({l2A, l2B})
================================================================================
