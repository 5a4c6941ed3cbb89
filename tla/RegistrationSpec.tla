-------------------------- MODULE RegistrationSpec --------------------------
(***************************************************************************)
(* What registerWithBlueZ and unregisterFromBlueZ promise their caller,    *)
(* without messages: each call is decided once, by bluetoothd, at one      *)
(* moment after it was made, and returns its own decision or nothing.      *)
(* BlueZRegistration implements it.                                        *)
(* Code: src/GattApplication.cpp (registerWithBlueZ, unregisterFromBlueZ). *)
(***************************************************************************)
EXTENDS Integers

VARIABLES
    registered,     \* what isRegistered() answers
    known,          \* bluetoothd knows the application
    latest,         \* the number of the latest call
    waiting,        \* its caller waits
    open,           \* the calls not decided, those given up included
    verdict         \* what the caller is about to be told: "none", "ok" or "refused"

spec_vars == <<registered, known, latest, waiting, open, verdict>>

Init ==
    /\ registered = FALSE /\ known = FALSE
    /\ latest = 0 /\ waiting = FALSE
    /\ open = {} /\ verdict = "none"

\* A registered application asks to be forgotten, any other to be known.
Ask ==
    /\ ~waiting
    /\ latest' = latest + 1 /\ waiting' = TRUE
    /\ open' = open \cup {latest + 1}
    /\ UNCHANGED <<registered, known, verdict>>

\* The verdict of a call that was given up reaches nobody.
Tell(n, v) == verdict' = IF waiting /\ n = latest THEN v ELSE verdict

\* A call has its effect before any later one, and only where it changes what
\* bluetoothd knows.
Grant(n) ==
    /\ n \in open /\ \A m \in open : n <= m
    /\ known = registered /\ known' = ~registered
    /\ open' = open \ {n}
    /\ Tell(n, "ok")
    /\ UNCHANGED <<registered, latest, waiting>>

\* A registration may fail; to forget what it knows bluetoothd never refuses.
Refuse(n) ==
    /\ n \in open
    /\ ~(registered /\ known)
    /\ open' = open \ {n}
    /\ Tell(n, "refused")
    /\ UNCHANGED <<registered, known, latest, waiting>>

Answer ==
    /\ waiting /\ verdict # "none"
    /\ registered' = (IF verdict = "ok" THEN ~registered ELSE registered)
    /\ waiting' = FALSE /\ verdict' = "none"
    /\ UNCHANGED <<known, latest, open>>

\* A timeout tells the caller nothing, and does not take the call back.
GiveUp ==
    /\ waiting
    /\ waiting' = FALSE /\ verdict' = "none"
    /\ UNCHANGED <<registered, known, latest, open>>

\* bluetoothd restarts: it forgets the application, and no open call is granted.
Restart ==
    /\ known' = FALSE
    /\ open' = {}
    /\ IF latest \in open THEN Tell(latest, "refused") ELSE UNCHANGED verdict
    /\ UNCHANGED <<registered, latest, waiting>>

Next ==
    \/ Ask \/ Answer \/ GiveUp \/ Restart
    \/ \E n \in open : Grant(n) \/ Refuse(n)

Spec == Init /\ [][Next]_spec_vars
=============================================================================
