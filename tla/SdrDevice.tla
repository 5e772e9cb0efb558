----------------------------- MODULE SdrDevice -----------------------------
(***************************************************************************)
(* What every user of the RTL-SDR receiver relies on: the USB device is    *)
(* held by one process at a time, and is released before it is taken       *)
(* again.  ("The SDR can only be used by one process at a time", server.ts) *)
(***************************************************************************)
CONSTANTS
    Uses,   \* what the device can be held for
    None    \* nobody holds it

VARIABLE holder

Init == holder = None

Acquire(u) ==
    /\ holder = None
    /\ holder' = u

Release ==
    /\ holder # None
    /\ holder' = None

Next == Release \/ \E u \in Uses : Acquire(u)

Spec == Init /\ [][Next]_holder
=============================================================================
