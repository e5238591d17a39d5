---------------------------- MODULE JobLifecycle ----------------------------
(***************************************************************************)
(* What the factory promises about each job, with no protocol in sight: it *)
(* is released, admitted to its input, carried by a vehicle to a station   *)
(* that can execute its next operation, worked on there, and carried on    *)
(* until its route is complete; only then may it reach an output.  Many    *)
(* jobs may move in one step; a machine or a vehicle holds one at a time.  *)
(***************************************************************************)
EXTENDS Naturals, Sequences

CONSTANTS Jobs, Machines, Vehicles, Inputs, Outputs, Pre, Post, Route, Capable, InputOf

VARIABLES place, done

NotReleased == "unreleased"
InQueue == "queue"

NextOpOn(j, s, m) == s < Len(Route[j]) /\ Route[j][s + 1] \in Capable[m]

Stay(j) == place'[j] = place[j] /\ done'[j] = done[j]

Arrive(j) ==
    /\ \/ place[j] = NotReleased /\ place'[j] = InQueue
       \/ place[j] \in {NotReleased, InQueue} /\ place'[j] = InputOf[j]
    /\ done'[j] = done[j]

\* Only inputs and post buffers give jobs to vehicles.
Collect(j) ==
    /\ place[j] \in Inputs \cup {Post[m] : m \in Machines}
    /\ place'[j] \in Vehicles
    /\ done'[j] = done[j]

Deliver(j) ==
    /\ place[j] \in Vehicles
    /\ \/ done[j] = Len(Route[j]) /\ place'[j] \in Outputs
       \/ \E m \in Machines : NextOpOn(j, done[j], m) /\ place'[j] = Pre[m]
    /\ done'[j] = done[j]

Start(j) ==
    /\ \E m \in Machines :
          place[j] = Pre[m] /\ place'[j] = m /\ NextOpOn(j, done[j], m)
    /\ done'[j] = done[j]

\* An operation completes on a machine capable of it; the job may be released
\* to the post buffer at the same boundary or later, but not while its next
\* operation can be executed by the same machine.
Work(j) ==
    \E m \in Machines :
        /\ place[j] = m
        /\ NextOpOn(j, done[j], m)
        /\ done'[j] = done[j] + 1
        /\ \/ place'[j] = m
           \/ place'[j] = Post[m] /\ ~NextOpOn(j, done[j] + 1, m)

Leave(j) ==
    /\ \E m \in Machines :
          place[j] = m /\ place'[j] = Post[m] /\ ~NextOpOn(j, done[j], m)
    /\ done'[j] = done[j]

Exclusive(where) ==
    \A j, k \in Jobs : where[j] = where[k] /\ where[j] \in Machines \cup Vehicles => j = k

Init ==
    /\ \A j \in Jobs : place[j] \in {NotReleased, InQueue, InputOf[j]} /\ done[j] = 0
    /\ Exclusive(place)

Next ==
    /\ \A j \in Jobs :
          \/ Stay(j) \/ Arrive(j) \/ Collect(j) \/ Deliver(j)
          \/ Start(j) \/ Work(j) \/ Leave(j)
    /\ Exclusive(place')

Spec == Init /\ [][Next]_<<place, done>>
=============================================================================
