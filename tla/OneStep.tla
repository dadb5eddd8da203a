-------------------------------- MODULE OneStep --------------------------------
(***************************************************************************)
(* The pure algorithms of the browser's code are checked one step at a     *)
(* time: an input of a small set, and what the code makes of it.           *)
(***************************************************************************)
VARIABLES alg,          \* what was computed, "none" before
          arg,          \* from what
          res           \* with which result

algVars == <<alg, arg, res>>
AlgoInit == alg = "none" /\ arg = <<>> /\ res = <<>>
Computes(name, in, out) == alg = "none" /\ alg' = name /\ arg' = in /\ res' = out
================================================================================
