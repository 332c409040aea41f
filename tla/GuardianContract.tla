-------------------------- MODULE GuardianContract --------------------------
(* What DynamoService assumes of one rank's guardian: the guardian steps of  *)
(* that module, for a single rank, with the launch line and the actor's end  *)
(* of the pipe left to the environment.                                      *)
VARIABLES guardian,   \* "booting", "running", "stopping" or "exited"
          tree,       \* the live processes it owns
          receipt     \* whether a receipt says they are gone
vars == <<guardian, tree, receipt>>

Init == guardian = "booting" /\ tree = "none" /\ receipt = "none"

StartsEngine == /\ guardian = "booting"
                /\ \/ guardian' = "running" /\ tree' = "serving"
                   \/ guardian' = "stopping" /\ UNCHANGED tree
                /\ UNCHANGED receipt

NeverLaunched == /\ guardian = "booting"
                 /\ guardian' = "exited"
                 /\ UNCHANGED <<tree, receipt>>

Stops == /\ guardian = "running"
         /\ guardian' = "stopping"
         /\ UNCHANGED <<tree, receipt>>

Finishes == /\ guardian = "stopping" /\ tree \notin {"serving", "exited"}
            /\ guardian' = "exited"
            /\ receipt' = "stopped"
            /\ UNCHANGED tree

GivesUp == /\ guardian = "stopping"
           /\ guardian' = "exited"
           /\ UNCHANGED <<tree, receipt>>

EngineExits == /\ tree = "serving"
               /\ tree' = "exited"
               /\ UNCHANGED <<guardian, receipt>>

TreeGone == /\ tree \in {"serving", "exited"}
            /\ tree' = "gone"
            /\ UNCHANGED <<guardian, receipt>>

Next == StartsEngine \/ NeverLaunched \/ Stops \/ Finishes \/ GivesUp \/ EngineExits \/ TreeGone

Spec == Init /\ [][Next]_vars
=============================================================================
