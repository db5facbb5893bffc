---------------------------- MODULE MCRpcClient -----------------------------
(* RpcClient for model checking: the configurations MCRpcClient*.cfg.      *)
EXTENDS RpcClient
=============================================================================
