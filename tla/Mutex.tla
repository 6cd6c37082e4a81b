------------------------------- MODULE Mutex -------------------------------
(* What the LifecycleLock promises to the commands that use it: one holder  *)
(* at a time, and nobody takes the lock over without it having been free.   *)
CONSTANTS Threads, Nobody
VARIABLE holder

Init == holder = Nobody

Enter(t) == holder = Nobody /\ holder' = t

\* By __exit__ or by the death of the holder's process.
Leave == holder # Nobody /\ holder' = Nobody

Next == Leave \/ \E t \in Threads : Enter(t)

Spec == Init /\ [][Next]_holder
=============================================================================
