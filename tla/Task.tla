-------------------------------- MODULE Task --------------------------------
(***************************************************************************)
(* What containerd may rely on about the container behind ONE shim: what   *)
(* State answers, what the guest really does, and when the exit is         *)
(* announced.  Nothing here knows about handlers, mutexes, signals or      *)
(* channels; ShimService shows that the shim provides this behaviour.      *)
(***************************************************************************)

VARIABLES status,    \* what State answers
          guest,     \* the container's init process
          starting,  \* a Start is under way: its command, and what it does
                     \* until it lets the announcements go on
          told       \* the exit is announced

task == <<status, guest, starting, told>>

Init == status = "none" /\ guest = "none" /\ starting = FALSE /\ told = FALSE

Boot == /\ guest = "none" /\ status = "none"
        /\ guest' = "alive"
        /\ UNCHANGED <<status, starting, told>>

Die == /\ guest = "alive"
       /\ guest' = "gone"
       /\ UNCHANGED <<status, starting, told>>

Create == /\ status = "none" /\ guest # "none"
          /\ status' = "created"
          /\ UNCHANGED <<guest, starting, told>>

BeginStart == /\ status = "created" /\ ~starting
              /\ starting' = TRUE
              /\ UNCHANGED <<status, guest, told>>

Start == /\ status = "created" /\ starting
         /\ status' = "running"
         /\ UNCHANGED <<guest, starting, told>>

\* The Start is over, with or without success; its response is yet to leave.
EndStart == /\ starting
            /\ starting' = FALSE
            /\ UNCHANGED <<status, guest, told>>

\* Nothing comes between a Start and what it makes of a created container.
Settled == starting => status # "created"

\* A container counts as stopped when its guest has gone.
Stop == /\ status \in {"created", "running"} /\ Settled /\ guest = "gone"
        /\ status' = "stopped"
        /\ UNCHANGED <<guest, starting, told>>

\* A container that was never started may be deleted with its guest alive.
Delete == /\ status \in {"created", "stopped"} /\ Settled
          /\ status' = "deleted"
          /\ UNCHANGED <<guest, starting, told>>

\* The exit comes after the status has settled and not during a Start; it may
\* come before the response of that Start.
Tell == /\ status \in {"stopped", "deleted"} /\ guest = "gone" /\ ~starting
        /\ told' = TRUE
        /\ UNCHANGED <<status, guest, starting>>

Next == \/ Boot \/ Die \/ Create \/ BeginStart \/ Start \/ EndStart
        \/ Stop \/ Delete \/ Tell

Spec == Init /\ [][Next]_task
=============================================================================
