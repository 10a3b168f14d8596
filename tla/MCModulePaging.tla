----------------------------- MODULE MCModulePaging -----------------------------
(* Five possible modules, the Safe itself (2) among them, and initializers that  *)
(* enable none, some, the same twice or a reserved address.  Five changes are    *)
(* enough to disable the module the cursor is on, enable it again, and do the    *)
(* same to another.                                                              *)
EXTENDS ModulePaging

MCAddress == 0..6
MCInitialModules ==
  {<<>>, <<3, 4>>, <<3, 4, 5, 6>>, <<2, 3, 4, 5, 6>>, <<3, 4, 3>>, <<4, 1>>, <<0>>}
MCPageSizes == {1, 2}
================================================================================
