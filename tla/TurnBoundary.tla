---------------------------- MODULE TurnBoundary ----------------------------
(***************************************************************************)
(* What a rollout drain promises about an agent's turns: somebody may hold *)
(* the boundary between two turns, and while it is held no turn begins.    *)
(* Whoever holds it cannot tell how, or by whom, it is released.           *)
(***************************************************************************)

VARIABLES
  held,       (* The boundary is reserved: the agent may be replaced.      *)
  working     (* A turn is under way.                                      *)

Init == held = FALSE /\ working = FALSE

\* Only the boundary between turns can be held.
Hold ==
  /\ ~held /\ ~working
  /\ held' = TRUE
  /\ UNCHANGED working

Release ==
  /\ held
  /\ held' = FALSE
  /\ UNCHANGED working

\* A turn begins only if nobody holds the boundary, or as it is released.
Begin ==
  /\ ~working
  /\ working' = TRUE
  /\ held' = FALSE

End ==
  /\ working
  /\ working' = FALSE
  /\ UNCHANGED held

Next == Hold \/ Release \/ Begin \/ End

Spec == Init /\ [][Next]_<<held, working>>
=============================================================================
