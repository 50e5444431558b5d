--------------------------- MODULE AdapterContract ---------------------------
(***************************************************************************)
(* What a caller of IRadioAdapter may rely on, whatever the radio and the  *)
(* link do: one call at a time, a report that changes only as RadioAdapter *)
(* says, a gate that opens by itself, and a process that may die.          *)
(***************************************************************************)
EXTENDS RadioAdapter

CONSTANT DefaultList

VARIABLES
    report,    \* what state(), capabilities() and the gate show
    started,   \* connect() has returned
    call,      \* the operation under way and its power or frequency
    outcome    \* the code the last operation returned

contractVars == <<report, started, call, outcome>>

NoCall == [op |-> "none", arg |-> 0]
Free == call.op = "none"

Init ==
    /\ report = FreshReport(DefaultList)
    /\ started = FALSE
    /\ call = NoCall
    /\ outcome = "none"

Begin ==
    /\ Free /\ report.gate = "open"
    /\ call' \in [op : IF started THEN SilvusOps ELSE {"connect"}, arg : Nat]
    /\ outcome' = "none"
    /\ UNCHANGED <<report, started>>

Refuse ==
    /\ Free /\ started
    /\ \E op \in SilvusOps : Refusal(op, report, report', outcome')
    /\ UNCHANGED <<started, call>>

Work ==
    /\ ~Free
    /\ Learns(call.op, report, report')
    /\ UNCHANGED <<started, call, outcome>>

End ==
    /\ ~Free
    /\ Effect(call.op, call.arg, report, report', outcome')
    /\ started' = TRUE
    /\ call' = NoCall

GateOpens ==
    /\ report' = [report EXCEPT !.gate = "open"]
    /\ UNCHANGED <<started, call, outcome>>

Crash ==
    /\ report' = FreshReport(DefaultList)
    /\ started' = FALSE
    /\ call' = NoCall
    /\ outcome' = "none"

Next == Begin \/ Refuse \/ Work \/ End \/ GateOpens \/ Crash

Spec == Init /\ [][Next]_contractVars
=============================================================================
