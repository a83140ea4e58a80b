-------------------------- MODULE MCNotifications --------------------------
(* A small instance of Notifications for TLC: an event with a cap for each *)
(* recipient that can be muted, one that cannot, and one with a cap for    *)
(* all of them, in a category nobody can mute.                             *)
EXTENDS Notifications, TLC

CONSTANTS overdue, filed, nudge, item, survey

\* Recipients and handlers are interchangeable; ids are ordered.
CallSymmetry == Permutations(Actors) \cup Permutations(Calls)

MCCategoryOf == [e \in Events |-> IF e = nudge THEN survey ELSE item]
=============================================================================
