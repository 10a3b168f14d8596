------------------------------ MODULE MCDeployment -------------------------------
EXTENDS Deployment

(* One operator deploys all and checks again later; the other deploys SafeL2 at *)
(* the same time, and later, perhaps from other sources, the migration.         *)
MCCommands ==
  [p \in Operator |-> IF p = "alice" THEN <<deployContracts, localVerify>>
                      ELSE <<deploy({"l2"}), deploy({"migration"}), localVerify>>]
MCCompilerOf == [v \in Version |-> IF v = "v1" THEN "0.7.6" ELSE "0.8.19"]
================================================================================
