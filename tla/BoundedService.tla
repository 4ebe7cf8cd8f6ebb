--------------------------- MODULE BoundedService ---------------------------
(***************************************************************************)
(* What the context pool promises its users: at most MaxConcurrent         *)
(* operations run at a time, it is shut down only while none runs, and     *)
(* none starts afterwards.                                                 *)
(***************************************************************************)
EXTENDS Naturals, FiniteSets

CONSTANTS Workers, MaxConcurrent

VARIABLES busy, stopped

Init == busy = {} /\ stopped = FALSE

Enter(p) ==
    /\ ~stopped
    /\ p \notin busy
    /\ Cardinality(busy) < MaxConcurrent
    /\ busy' = busy \cup {p}
    /\ UNCHANGED stopped

Leave(p) ==
    /\ p \in busy
    /\ busy' = busy \ {p}
    /\ UNCHANGED stopped

Stop ==
    /\ busy = {}
    /\ stopped' = TRUE
    /\ UNCHANGED busy

Next == Stop \/ \E p \in Workers : Enter(p) \/ Leave(p)

Spec == Init /\ [][Next]_<<busy, stopped>>

=============================================================================
