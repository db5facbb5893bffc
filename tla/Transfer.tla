------------------------------ MODULE Transfer ------------------------------
(***************************************************************************)
(* What the file operations of the handler may expect of the routines that *)
(* talk to the server (nfs.c on top of the RPC client).  One operation at  *)
(* a time asks the server to carry out a set of units: the bytes of a      *)
(* write, or the single effect of a procedure such as REMOVE.  Delivery is *)
(* unreliable: each unit may be carried out or not, early, late or twice;  *)
(* a success means that all of them have been carried out.                 *)
(*                                                                         *)
(* `trust' is FALSE while calls of an abandoned operation are still        *)
(* attached to the client handle.  A pipelined write that runs in that     *)
(* state may take their answers for its own.                               *)
(***************************************************************************)
CONSTANT Units          \* what an operation can ask for

VARIABLES op,           \* the operation that runs, or "none"
          want,         \* what it asked for
          done,         \* what the server has carried out of it
          res,          \* how the last operation ended
          trust

vars == <<op, want, done, res, trust>>

Ops == {"MAWrite", "MARead", "MWrite", "MRead", "Proc"}
Asking == {"MAWrite", "MWrite", "Proc"}

Init ==
    /\ op = "none" /\ want = {} /\ done = {} /\ res = "none" /\ trust = TRUE

\* An operation starts.
Begin ==
    /\ op = "none"
    /\ op' \in Ops
    /\ want' \in SUBSET Units
    /\ op' \notin Asking => want' = {}
    /\ done' = {}
    /\ res' = "none"
    /\ UNCHANGED trust

\* The server carries out some of what was asked for, perhaps again.
Store ==
    /\ done' \in {done \cup u : u \in SUBSET want}
    /\ UNCHANGED <<op, want, res, trust>>

\* The operation reports success: everything was carried out, unless it is a
\* pipelined write that runs behind an abandoned one.
Succeed ==
    /\ op # "none"
    /\ want \subseteq done \/ (op = "MAWrite" /\ ~trust)
    /\ op = "MARead" => trust
    /\ op' = "none"
    /\ res' = "ok"
    /\ want' = {} /\ done' = {}
    /\ UNCHANGED trust

\* The operation reports an error.  Only a pipelined write can leave calls
\* behind, and every pipelined read that fails cleans up.
Fail ==
    /\ op # "none"
    /\ op' = "none"
    /\ res' = "failed"
    /\ trust' \in (CASE op = "MAWrite" -> BOOLEAN
                     [] op = "MARead" -> {TRUE}
                     [] OTHER -> {trust})
    /\ want' = {} /\ done' = {}

Next == Begin \/ Store \/ Succeed \/ Fail

Spec == Init /\ [][Next]_vars
=============================================================================
