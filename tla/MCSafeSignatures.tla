---------------------------- MODULE MCSafeSignatures ----------------------------
EXTENDS SafeSignatures

(* Two contracts around a key in the order of addresses, so that an array can   *)
(* hold two blobs and a slot between theirs; confirmations for two nonces.      *)
MCAccount == {2, 3, 4}
MCContract == {2, 4}
================================================================================
