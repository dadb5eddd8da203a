----------------------------- MODULE NewestAnswer -----------------------------
(***************************************************************************)
(* What a page that loads promises: whatever was asked before, only the    *)
(* answer to the newest question is ever put on the screen, and nothing    *)
(* once the page is gone.                                                  *)
(***************************************************************************)
CONSTANT Questions, None

VARIABLES wanted,       \* the newest question, None when the page is closed
          shown         \* the question whose answer is on the screen, or None

Init == wanted = None /\ shown = None
\* The old answer may stay while the new one is on its way.
Want(q) == wanted' = q /\ UNCHANGED shown
Show == wanted # None /\ shown' = wanted /\ UNCHANGED wanted
Blank == shown' = None /\ UNCHANGED wanted
Leave == wanted' = None /\ shown' = None
Next == (\E q \in Questions : Want(q)) \/ Show \/ Blank \/ Leave
Spec == Init /\ [][Next]_<<wanted, shown>>
================================================================================
