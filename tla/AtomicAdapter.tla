---------------------------- MODULE AtomicAdapter ----------------------------
(***************************************************************************)
(* An adapter to a caller that waits for its calls: each of them is one    *)
(* step, from the report before it to the report after it.                 *)
(* AdapterContract, whose calls take time and let what they learn be seen, *)
(* implements it (AdapterCalls_proofs); RadioService calls its adapters by *)
(* it.                                                                     *)
(***************************************************************************)
EXTENDS RadioAdapter

CONSTANTS
    DefaultList,
    Args          \* powers and frequencies the adapter is called with

VARIABLES
    report,    \* what state(), capabilities() and the gate show
    started    \* connect() has returned

atomicVars == <<report, started>>

Init ==
    /\ report = FreshReport(DefaultList)
    /\ started = FALSE

\* connect() asks for no gate: it comes first.
Connect ==
    /\ ~started
    /\ \E code \in Codes : Effect("connect", 0, report, report', code)
    /\ started' = TRUE

Command ==
    /\ started
    /\ \E op \in SilvusOps, arg \in Args, code \in Codes :
          Call(op, arg, report, report', code)
    /\ UNCHANGED started

GateOpens ==
    /\ report' = [report EXCEPT !.gate = "open"]
    /\ UNCHANGED started

Crash ==
    /\ report' = FreshReport(DefaultList)
    /\ started' = FALSE

Next == Crash \/ GateOpens \/ Connect \/ Command

Spec == Init /\ [][Next]_atomicVars
=============================================================================
