--------------------------- MODULE ExitBroadcast ---------------------------
(***************************************************************************)
(* What the reaper promises: an exit that is announced reaches each member *)
(* at most once, members come and go, and nothing is handed to one that    *)
(* has left.                                                               *)
(***************************************************************************)
EXTENDS Sequences

CONSTANTS Subs,    \* subscribers
          Exits    \* exits that may be announced

VARIABLES members,    \* subscribers that have joined and not left
          announced,  \* exits announced so far
          inbox       \* what each subscriber has been handed, in order

Holds(s, e) == \E i \in DOMAIN inbox[s] : inbox[s][i] = e

Init == /\ members \in SUBSET Subs
        /\ announced = {}
        /\ inbox = [s \in Subs |-> <<>>]

Join(s) == /\ s \notin members /\ inbox[s] = <<>>
           /\ members' = members \cup {s}
           /\ UNCHANGED <<announced, inbox>>

Leave(s) == /\ s \in members
            /\ members' = members \ {s}
            /\ UNCHANGED <<announced, inbox>>

Announce(e) == /\ e \notin announced
               /\ announced' = announced \cup {e}
               /\ UNCHANGED <<members, inbox>>

Deliver(s, e) == /\ s \in members /\ e \in announced /\ ~Holds(s, e)
                 /\ inbox' = [inbox EXCEPT ![s] = Append(@, e)]
                 /\ UNCHANGED <<members, announced>>

Next == \/ \E s \in Subs : Join(s) \/ Leave(s)
        \/ \E e \in Exits : Announce(e)
        \/ \E s \in Subs, e \in Exits : Deliver(s, e)

Spec == Init /\ [][Next]_<<members, announced, inbox>>
=============================================================================
