------------------------------ MODULE Session ------------------------------
(***************************************************************************)
(* What a debugging session promises to whoever waits for it (fWait): the  *)
(* parts of the session start and end one by one, each at most once, and   *)
(* "Finished" is reported once, when every part has started and ended.     *)
(***************************************************************************)
CONSTANT Parts  \* threads and processes

VARIABLES begun, alive, finished

vars == <<begun, alive, finished>>

Init == begun \subseteq Parts /\ alive = begun /\ finished = FALSE

Begin(p) ==
  /\ p \notin begun
  /\ begun' = begun \cup {p}
  /\ alive' = alive \cup {p}
  /\ UNCHANGED finished

End(ps) ==
  /\ alive' = alive \ ps
  /\ UNCHANGED <<begun, finished>>

Finish ==
  /\ begun = Parts
  /\ alive = {}
  /\ ~finished
  /\ finished' = TRUE
  /\ UNCHANGED <<begun, alive>>

Next == (\E p \in Parts : Begin(p)) \/ (\E ps \in SUBSET Parts : End(ps)) \/ Finish

Spec == Init /\ [][Next]_vars
=============================================================================
