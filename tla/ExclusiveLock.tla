--------------------------- MODULE ExclusiveLock ---------------------------
(***************************************************************************)
(* What the installation lock promises to the code that runs under it: at  *)
(* most one process is inside, and it gets in only when nobody else is.    *)
(***************************************************************************)
CONSTANTS Processes, None

VARIABLE holder

Init == holder = None

Acquire(p) == holder = None /\ holder' = p

Release(p) == holder = p /\ holder' = None

Next == \E p \in Processes : Acquire(p) \/ Release(p)

Spec == Init /\ [][Next]_holder
=============================================================================
