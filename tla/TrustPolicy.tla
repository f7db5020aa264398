---------------------------- MODULE TrustPolicy ----------------------------
(***************************************************************************)
(* What pairing promises, with no token, window, connection or task in it: *)
(* a phone becomes trusted only after a human has said yes to a question    *)
(* asked about that phone, trust ends when it is revoked, and a restart     *)
(* brings back exactly what was saved.                                     *)
(***************************************************************************)
CONSTANT Devices

VARIABLES
    trusted,  \* phones let in without a question
    known,    \* phones in the list that gets saved
    saved,    \* the list as last saved
    yes       \* phones a human has said yes to since the last question about them

vars == <<trusted, known, saved, yes>>

Init == saved \subseteq Devices /\ trusted = saved /\ known = saved /\ yes = {}

Ask(d)    == yes' = yes \ {d} /\ UNCHANGED <<trusted, known, saved>>
Agree(d)  == yes' = yes \cup {d} /\ UNCHANGED <<trusted, known, saved>>
Trust(d)  == d \in yes /\ trusted' = trusted \cup {d} /\ UNCHANGED <<known, saved, yes>>
Learn(d)  == d \in yes /\ known' = known \cup {d} /\ UNCHANGED <<trusted, saved, yes>>
Revoke(d) == trusted' = trusted \ {d} /\ UNCHANGED <<known, saved, yes>>
Forget(d) == known' = known \ {d} /\ UNCHANGED <<trusted, saved, yes>>
Save      == saved' = known /\ UNCHANGED <<trusted, known, yes>>
Restart   == trusted' = saved /\ known' = saved /\ UNCHANGED <<saved, yes>>

Next ==
    \/ \E d \in Devices :
        Ask(d) \/ Agree(d) \/ Trust(d) \/ Learn(d) \/ Revoke(d) \/ Forget(d)
    \/ Save \/ Restart

Spec == Init /\ [][Next]_vars
=============================================================================
