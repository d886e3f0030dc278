-------------------------- MODULE MCRpcConnection --------------------------
(* RpcConnection for model checking.                                        *)
EXTENDS RpcConnection, TLC

(* Calls are interchangeable: no definition tells one from another. *)
CallSymmetry == Permutations(Calls)
=============================================================================
