----------------------------- MODULE NotifySpec -----------------------------
(***************************************************************************)
(* What a GATT characteristic promises the clients that read it and listen *)
(* to its PropertiesChanged signals, without threads or mutexes.  A signal *)
(* may be dropped; clients do not learn of it.  GattNotify implements it.  *)
(* Code: the public API of include/GattCharacteristic.h as clients see it. *)
(***************************************************************************)
CONSTANTS
    Bytes,          \* the byte strings a characteristic can hold
    Announced       \* the characteristic is registered on D-Bus: it sends signals

VARIABLES
    flag,           \* what Get("Notifying") answers
    told,           \* what the last "Notifying" signal said
    value,          \* what ReadValue answers
    shown,          \* what the last "Value" signal said
    author,         \* what stored the value last: "setValue" or "WriteValue"
    owed,           \* the properties changed by the application and not yet signalled
    missed          \* the properties whose latest signal was dropped

spec_vars == <<flag, told, value, shown, author, owed, missed>>

Init ==
    /\ flag = FALSE /\ told = FALSE
    /\ value \in Bytes /\ shown = value
    /\ author = "setValue"
    /\ owed = {} /\ missed = {}

Owe(p) == owed' = IF Announced THEN owed \cup {p} ELSE owed

\* Notifications go on or off, never again before that was signalled.
Switch ==
    /\ "Notifying" \notin owed
    /\ flag' = ~flag
    /\ Owe("Notifying")
    /\ UNCHANGED <<told, value, shown, author, missed>>

\* A signal says what is so now, or is dropped.
TellFlag ==
    /\ "Notifying" \in owed
    /\ owed' = owed \ {"Notifying"}
    /\ \/ told' = flag /\ missed' = missed \ {"Notifying"}
       \/ missed' = missed \cup {"Notifying"} /\ UNCHANGED told
    /\ UNCHANGED <<flag, value, shown, author>>

\* A store by the application is owed to the clients, a store by a client is
\* not.  No store overtakes one that is owed.
StoreLocal ==
    /\ "Value" \notin owed
    /\ value' \in Bytes /\ author' = "setValue"
    /\ Owe("Value")
    /\ UNCHANGED <<flag, told, shown, missed>>

StoreRemote ==
    /\ "Value" \notin owed
    /\ value' \in Bytes /\ author' = "WriteValue"
    /\ UNCHANGED <<flag, told, shown, owed, missed>>

Publish ==
    /\ "Value" \in owed
    /\ owed' = owed \ {"Value"}
    /\ \/ shown' = value /\ missed' = missed \ {"Value"}
       \/ missed' = missed \cup {"Value"} /\ UNCHANGED shown
    /\ UNCHANGED <<flag, told, value, author>>

Next == Switch \/ TellFlag \/ StoreLocal \/ StoreRemote \/ Publish

Spec == Init /\ [][Next]_spec_vars
=============================================================================
