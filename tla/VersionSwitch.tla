---------------------------- MODULE VersionSwitch ----------------------------
(***************************************************************************)
(* What an update of the agent promises, without the way it is done: the   *)
(* agent moves to the version that was asked for, or goes back to the one  *)
(* it had; it never ends anywhere else unless the update is interrupted.   *)
(* SelfUpdate is shown to implement this.                                  *)
(***************************************************************************)

CONSTANTS Tag, NoPlan

VARIABLES
  running,   \* the version of the agent
  plan,      \* NoPlan or [target, fallback, way]
  drift      \* an update was broken off: the agent may be anywhere

svars == <<running, plan, drift>>

SInit == running \in Tag /\ plan = NoPlan /\ drift = FALSE

Begin(target, fallback) ==
  /\ plan = NoPlan
  /\ fallback = running \/ drift
  /\ plan' = [target |-> target, fallback |-> fallback, way |-> "forward"]
  /\ UNCHANGED <<running, drift>>

Move ==
  /\ plan # NoPlan
  /\ \/ plan.way = "forward" /\ running' = plan.target
     \/ plan.way = "back"    /\ running' = plan.fallback
     \/ plan.way = "back"    /\ drift /\ running' = plan.target
  /\ UNCHANGED <<plan, drift>>

GiveUp ==
  /\ plan # NoPlan /\ plan.way = "forward"
  /\ running' \in {running, plan.target}
  /\ plan' = [plan EXCEPT !.way = "back"]
  /\ UNCHANGED drift

End ==
  /\ plan # NoPlan
  /\ \/ plan.way = "forward" /\ running = plan.target
     \/ plan.way = "back"    /\ (drift \/ running = plan.fallback)
  /\ plan' = NoPlan /\ drift' = FALSE
  /\ UNCHANGED running

\* The way back is blocked, or the update is broken off: nobody goes on.
Slip  == plan # NoPlan /\ plan.way = "back" /\ drift' = TRUE /\ UNCHANGED <<running, plan>>
Break == plan # NoPlan /\ plan' = NoPlan /\ drift' = TRUE /\ running' \in {running, plan.target, plan.fallback}

\* Somebody puts it right by hand.
Repair == plan = NoPlan /\ drift /\ running' \in Tag /\ drift' = FALSE /\ UNCHANGED plan

SNext ==
  \/ \E target, fallback \in Tag : Begin(target, fallback)
  \/ Move \/ GiveUp \/ End \/ Slip \/ Break \/ Repair

SSpec == SInit /\ [][SNext]_svars
=============================================================================
