----------------------------- MODULE SilvusRadio -----------------------------
(***************************************************************************)
(* The radio, as silvus-mock serves it: the JSON-RPC methods that change   *)
(* what radio-control reads or writes, and the blackout during which every *)
(* method answers UNAVAILABLE.                                             *)
(*                                                                         *)
(* A deadline of the code (steady_clock::time_point) is held here as the   *)
(* time that is left until it, which Tick counts down: 0 is a deadline     *)
(* that has passed or was never set.  Requests are served one at a time,   *)
(* as SilvusMock::mutex_ makes them.                                       *)
(***************************************************************************)
EXTENDS Integers

CONSTANTS
    Profile,      \* the frequencies some advertised profile entry matches
    BootFreq,     \* current_frequency_ of a radio that was just switched on
    FactoryFreq,  \* the frequency zeroize and factory_reset go back to
    BootDbm,      \* the power of a radio switched on, zeroized or reset
    MaxDbm,       \* highest power_dBm the radio takes
    SoftBoot,     \* soft_boot_duration_: blackout after a frequency change
    ResetTime     \* radio_reset_duration_

ASSUME RadioAssumption ==
    /\ Profile \subseteq Nat
    /\ BootFreq \in Nat /\ FactoryFreq \in Nat
    /\ MaxDbm \in Nat /\ BootDbm \in 0..MaxDbm
    /\ SoftBoot \in Nat /\ ResetTime \in Nat

VARIABLES
    freq,      \* current_frequency_
    dBm,       \* current_power_dBm_
    maxPower,  \* enable_max_power_
    blackout   \* time left until blackout_until_

radioVars == <<freq, dBm, maxPower, blackout>>

(***************************************************************************)
(* Requests and replies.  A method called without parameters reads, and    *)
(* has a name of its own here.                                             *)
(***************************************************************************)
Reads == {"profiles", "read_freq", "read_power", "read_max"}
Resets == {"zeroize", "radio_reset", "factory_reset"}
Writes == {"freq", "power_dBm", "enable_max_power"} \cup Resets

Requests == [method : Reads \cup Writes, arg : Nat]
Request(m, a) == [method |-> m, arg |-> a]

\* "lost", "garbled" and "no_result" are made on the way (see SilvusAdapter).
ReplyKinds == {"value", "done", "unavailable", "invalid_range",
               "lost", "garbled", "no_result"}
Replies == [kind : ReplyKinds, val : Nat]
Plain(k) == [kind |-> k, val |-> 0]

-----------------------------------------------------------------------------

RadioTypeOK ==
    /\ freq \in Nat
    /\ dBm \in 0..MaxDbm
    /\ maxPower \in BOOLEAN
    /\ blackout \in Nat

RadioInit ==
    /\ freq = BootFreq
    /\ dBm = BootDbm
    /\ maxPower = FALSE
    /\ blackout = 0

Available == blackout = 0

OutOfRange(q) ==
    \/ q.method = "freq" /\ q.arg \notin Profile
    \/ q.method = "power_dBm" /\ q.arg \notin 0..MaxDbm
    \/ q.method = "enable_max_power" /\ q.arg \notin {0, 1}

Accepts(q, m) == q.method = m /\ Available /\ ~OutOfRange(q)

\* The value a read answers with.  The profile list itself is data both
\* sides know (ProfileList of SilvusAdapter).
Reading(m) ==
    IF m = "read_freq" THEN freq
    ELSE IF m = "read_power" THEN dBm
    ELSE IF m = "read_max" /\ maxPower THEN 1
    ELSE 0

ReplyTo(q) ==
    IF ~Available THEN Plain("unavailable")
    ELSE IF OutOfRange(q) THEN Plain("invalid_range")
    ELSE IF q.method \in Reads
         THEN [kind |-> "value", val |-> Reading(q.method)]
    ELSE Plain("done")

(***************************************************************************)
(* The methods.  power_dBm answers success and changes nothing while the   *)
(* radio is in max-power mode.  power_change_duration_ is 0 in the only    *)
(* constructor, so a power change starts no blackout.                      *)
(***************************************************************************)
ServeFreq(q) ==
    /\ Accepts(q, "freq")
    /\ freq' = q.arg
    /\ blackout' = SoftBoot
    /\ UNCHANGED <<dBm, maxPower>>

ServePower(q) ==
    /\ Accepts(q, "power_dBm")
    /\ dBm' = IF maxPower THEN dBm ELSE q.arg
    /\ UNCHANGED <<freq, maxPower, blackout>>

ServeMaxPower(q) ==
    /\ Accepts(q, "enable_max_power")
    /\ maxPower' = (q.arg = 1)
    /\ UNCHANGED <<freq, dBm, blackout>>

ServeZeroize(q) ==
    /\ Accepts(q, "zeroize")
    /\ freq' = FactoryFreq
    /\ dBm' = BootDbm
    /\ maxPower' = FALSE
    /\ blackout' = 0

ServeFactoryReset(q) ==
    /\ Accepts(q, "factory_reset")
    /\ freq' = FactoryFreq
    /\ dBm' = BootDbm
    /\ maxPower' = FALSE
    /\ UNCHANGED blackout

ServeRadioReset(q) ==
    /\ Accepts(q, "radio_reset")
    /\ blackout' = ResetTime
    /\ UNCHANGED <<freq, dBm, maxPower>>

\* A read, or a request the radio refuses.
ServeUnchanged(q) ==
    /\ q.method \in Reads \/ ~Available \/ OutOfRange(q)
    /\ UNCHANGED radioVars

Serve(q) ==
    \/ ServeFreq(q)
    \/ ServePower(q)
    \/ ServeMaxPower(q)
    \/ ServeZeroize(q)
    \/ ServeFactoryReset(q)
    \/ ServeRadioReset(q)
    \/ ServeUnchanged(q)

Elapse(t) == IF t > 0 THEN t - 1 ELSE 0
=============================================================================
