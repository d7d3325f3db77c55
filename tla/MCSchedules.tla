--------------------------- MODULE MCSchedules ---------------------------
(* Two rigs of a group, ann and bob, cat who covers for ann, and a floor   *)
(* west of its server.                                                     *)
EXTENDS Schedules
CONSTANTS r1, r2, ann, bob, cat

Rotates(a, b) == [r \in Rig |-> IF r = r1 THEN <<a, b>> ELSE <<b, a>>]
Empty == [r \in Rig |-> [t \in Turn |-> Nobody]]
(* As planned; corrected, with cat for ann in the Night, the two the other *)
(* way round in the Morning and ann alone in the Day; and a roster of      *)
(* plain names.                                                            *)
MCSheet == {
    [l \in Label |-> IF l = "Day" THEN Empty ELSE Rotates(ann, bob)],
    [l \in Label |-> CASE l = "Night" -> Rotates(cat, bob)
                       [] l = "Morning" -> Rotates(bob, ann)
                       [] l = "Day" -> Rotates(ann, Nobody)],
    [l \in Label |-> Empty]}
MCOffset == -2
MCSeat == [p \in Person \cup {Nobody} |-> IF p = cat THEN ann ELSE p]
============================================================================
