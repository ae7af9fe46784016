-------------------------------- MODULE OCI --------------------------------
(***************************************************************************)
(* What an orchestrator may rely on about ONE container id: its life as    *)
(* the OCI runtime commands create, start and delete shape it.  Nothing    *)
(* here knows about helper processes, pid files or pipes; Lifecycle shows  *)
(* that runu provides this behaviour when its caller is well behaved.      *)
(***************************************************************************)

VARIABLE status     \* the life-cycle phase of the container

\* "failed" is a container whose create failed but left its guest behind,
\* alive: not started, not to be started, and out of everybody's sight.
Phases == {"absent", "creating", "created", "running", "stopped", "failed"}

Init == status = "absent"

\* A create command claimed the id.
Claim == /\ status = "absent"
         /\ status' = "creating"

\* The create command came back: with a container that waits to be started,
\* with one that is already dead (nothing was executed, or the guest quit), or
\* with an error after the guest had been executed.
Finish == /\ status = "creating"
          /\ status' \in {"created", "stopped", "failed"}

Start == /\ status = "created"
         /\ status' = "running"

\* The guest ended, by itself or by a signal, started or not.
Exit == /\ status \in {"created", "running", "failed"}
        /\ status' = "stopped"

\* Only a dead container is forgotten, or one that never came to be: of the
\* latter the guest may stay, and nobody can name it any more.
Remove == /\ status \in {"stopped", "failed"}
          /\ status' = "absent"

Next == Claim \/ Finish \/ Start \/ Exit \/ Remove

\* A create never hangs; nobody is obliged to start, end or delete anything.
Spec == Init /\ [][Next]_status /\ WF_status(Finish)
=============================================================================
