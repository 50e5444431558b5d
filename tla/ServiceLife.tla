----------------------------- MODULE ServiceLife -----------------------------
(***************************************************************************)
(* What RadioService takes for granted of the process around it: radios    *)
(* are connected before a command can come, ready is announced once and    *)
(* not in the middle of a command, one command at a time, and after the    *)
(* end nothing.  Application implements it.                                *)
(***************************************************************************)
VARIABLES
    phase,       \* "starting", "listening", "serving", "closing", "ended"
    connected,   \* RadioManager::start has returned
    command      \* a command is under way

lifeVars == <<phase, connected, command>>

Init == phase = "starting" /\ connected = FALSE /\ command = FALSE

Connect ==
    /\ phase = "starting"
    /\ connected' = TRUE
    /\ UNCHANGED <<phase, command>>

Open ==
    /\ phase = "starting" /\ connected
    /\ phase' = "listening"
    /\ UNCHANGED <<connected, command>>

Announce ==
    /\ phase = "listening" /\ ~command
    /\ phase' = "serving"
    /\ UNCHANGED <<connected, command>>

Accept ==
    /\ phase \in {"listening", "serving", "closing"} /\ ~command
    /\ command' = TRUE
    /\ UNCHANGED <<phase, connected>>

Answer ==
    /\ command' = FALSE
    /\ UNCHANGED <<phase, connected>>

Close ==
    /\ phase \in {"starting", "listening", "serving"} /\ connected
    /\ phase' = "closing"
    /\ UNCHANGED <<connected, command>>

\* After stop(), or because the configuration was refused.
End ==
    /\ ~command
    /\ phase = "closing" \/ (phase = "starting" /\ ~connected)
    /\ phase' = "ended"
    /\ UNCHANGED <<connected, command>>

Next == Connect \/ Open \/ Announce \/ Accept \/ Answer \/ Close \/ End

Spec == Init /\ [][Next]_lifeVars
=============================================================================
