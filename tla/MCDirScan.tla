----------------------------- MODULE MCDirScan ------------------------------
(* DirScan for model checking: the configurations MCDirScan*.cfg.          *)
EXTENDS DirScan
=============================================================================
