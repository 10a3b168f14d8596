---------------------------- MODULE MCProxyCreation -----------------------------
EXTENDS ProxyCreation

(* A setup whose initializer enables a module and which pays, a plain one with  *)
(* another owner, and one that is refused.                                      *)
Setup(owners, handler, to, modules, payment) ==
  [owners |-> owners, threshold |-> 1, handler |-> handler, to |-> to,
   modules |-> modules, payment |-> payment]

MCConfig ==
  {Setup({"o1"}, "h1", "to", {"m1"}, 1),
   Setup({"o2"}, "none", "none", {}, 0),
   Setup({"o1"}, "self", "none", {}, 0)}
================================================================================
