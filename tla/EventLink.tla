------------------------------- MODULE EventLink -------------------------------
(***************************************************************************)
(* What the services expect of the link between two of them, and what      *)
(* EventBus.tla builds on: an event is live from the commit that has       *)
(* written it; its operation runs at least once unless the event is given  *)
(* up; nothing else ever ends the life of an event, and once it has ended  *)
(* the operation does not run again.                                       *)
(***************************************************************************)
CONSTANT Ids       \* event ids

VARIABLES
  live,            \* committed events that may still be handled
  applied,         \* events whose operation has committed, once or more
  dead             \* events of which a copy is in the dead-letter queue

linkVars == <<live, applied, dead>>

Init ==
  /\ live = {}
  /\ applied = {}
  /\ dead = {}

Commit(e) ==
  /\ e \notin live /\ e \notin applied /\ e \notin dead
  /\ live' = live \cup {e}
  /\ UNCHANGED <<applied, dead>>

Apply(e) ==
  /\ e \in live
  /\ applied' = applied \cup {e}
  /\ live' \in {live, live \ {e}}
  /\ UNCHANGED dead

(* A copy of an event that has been applied may be given up as well.       *)
GiveUp(e) ==
  /\ e \in live \/ e \in applied
  /\ dead' = dead \cup {e}
  /\ live' \in {live, live \ {e}}
  /\ UNCHANGED applied

(* Never before the operation has committed or the event is given up; a    *)
(* worker that dies may be the last to know of several events.             *)
Forget(some) ==
  /\ some \subseteq live
  /\ \A e \in some : e \in applied \/ e \in dead
  /\ live' = live \ some
  /\ UNCHANGED <<applied, dead>>

Next ==
  \/ \E e \in Ids : Commit(e) \/ Apply(e) \/ GiveUp(e)
  \/ \E some \in SUBSET Ids : Forget(some)

Spec == Init /\ [][Next]_linkVars
===============================================================================
