---------------------------- MODULE MCWriteCache ----------------------------
(* WriteCache for model checking: the configurations MCWriteCache*.cfg.    *)
EXTENDS WriteCache
=============================================================================
