---------------------------- MODULE WriterClock ----------------------------
(***************************************************************************)
(* The CTF writer clock of src/ctf-writer/clock.c: bt_ctf_clock_set_time   *)
(* turns a time in nanoseconds into a value in cycles of the clock class's *)
(* frequency and stores it, under the precondition that the value never    *)
(* goes back.  bt_ctf_clock_get_value only reads the value.               *)
(*                                                                         *)
(* The clock starts at 1 GHz; bt_ctf_clock_set_frequency forwards to the   *)
(* clock class, whose code is not in this repository: it may take the new *)
(* frequency or refuse it (a frozen class), a choice at each call.  The   *)
(* product and quotient of line 188 are computed exactly: the doubles     *)
(* give the same truncated value while |time * freq| stays below 2^53,    *)
(* which every model of this module keeps.  A process aborted by a        *)
(* failed precondition takes no further step.                             *)
(*                                                                         *)
(* The other setters forward to the clock class as well, which takes the   *)
(* value or refuses it; nothing in this file reads those attributes back.  *)
(***************************************************************************)
EXTENDS Integers

CONSTANTS
    Freqs,         \* clock class frequencies
    Times,         \* times (ns) callers pass
    Descriptions,  \* descriptions callers set
    Precisions,    \* precisions callers set
    Offsets,       \* offset_s and offset values callers set
    Uuids,         \* UUIDs bt_uuid_generate or a caller give
    NULL

NS_PER_S == 1000000000          \* the literal of lines 185 and 189

VARIABLES
    freq,        \* cc->frequency
    value,       \* clock->value (int64_t)
    dev_build,   \* BT_CTF_ASSERT_PRE is checked (developer mode build)
    aborted,     \* a failed precondition aborted the process
    caller_ok,   \* every time passed so far was >= 0 and >= the one before
    last_time,   \* the last time passed (0 before the first call)
    timed,       \* set_time has been called
    rescaled,    \* the frequency changed after a set_time
    cc           \* the clock class's other attributes

vars == <<freq, value, dev_build, aborted, caller_ok, last_time, timed, rescaled, cc>>

(* C's truncating conversion of the double n / d to an integer. *)
Trunc(n, d) == IF n >= 0 THEN n \div d ELSE -((-n) \div d)

(* Lines 185-190: the values `value` may get.  (uint64_t) of a negative   *)
(* double is undefined: x86-64 builds wrap it (read back as int64_t it is *)
(* the truncated value), AArch64 builds saturate it to 0.                  *)
set_time_values(time) ==
    IF freq = NS_PER_S THEN {time}
    ELSE LET t == Trunc(time * freq, NS_PER_S)
         IN  IF t >= 0 THEN {t} ELSE {t, 0}

(* bt_ctf_clock_set_time(clock, time), lines 176-198. *)
bt_ctf_clock_set_time(time) ==
    /\ ~aborted
    /\ \E v \in set_time_values(time) :
          IF value > v /\ dev_build
          THEN /\ aborted' = TRUE
               /\ UNCHANGED value
          ELSE /\ value' = v
               /\ UNCHANGED aborted
    /\ caller_ok' = (caller_ok /\ time >= 0 /\ time >= last_time)
    /\ last_time' = time
    /\ timed' = TRUE
    /\ UNCHANGED <<freq, dev_build, rescaled, cc>>

(* bt_ctf_clock_set_frequency(clock, f), lines 92-97: the class takes `f`, *)
(* or refuses it and keeps its frequency.  clock->value is left in cycles *)
(* of the old frequency.                                                   *)
bt_ctf_clock_set_frequency(f) ==
    /\ ~aborted
    /\ freq' \in {f, freq}
    /\ rescaled' = (rescaled \/ (timed /\ freq' # freq))
    /\ UNCHANGED <<value, dev_build, aborted, caller_ok, last_time, timed, cc>>

(* The forwarding setters of lines 70-175: the clock class takes `v` for  *)
(* attribute `attr`, or refuses it (a frozen class) and keeps its own.    *)
forward_to_clock_class(attr, v) ==
    /\ ~aborted
    /\ cc' \in {[cc EXCEPT ![attr] = v], cc}
    /\ UNCHANGED <<freq, value, dev_build, aborted, caller_ok, last_time, timed, rescaled>>

bt_ctf_clock_set_description(desc) == forward_to_clock_class("description", desc)
bt_ctf_clock_set_precision(precision) == forward_to_clock_class("precision", precision)
bt_ctf_clock_set_offset_s(offset_s) == forward_to_clock_class("offset_s", offset_s)
bt_ctf_clock_set_offset(offset) == forward_to_clock_class("offset", offset)
bt_ctf_clock_set_is_absolute(is_absolute) == forward_to_clock_class("absolute", is_absolute)
bt_ctf_clock_set_uuid(uuid) == forward_to_clock_class("uuid", uuid)

(* bt_ctf_clock_create, lines 29-55: value 0, frequency 1 GHz, and a      *)
(* generated UUID; the other attributes are bt_ctf_clock_class_create's   *)
(* defaults (clock-class.c, not in this repository).                      *)
Init ==
    /\ freq = NS_PER_S
    /\ value = 0
    /\ dev_build \in BOOLEAN
    /\ aborted = FALSE
    /\ caller_ok = TRUE
    /\ last_time = 0
    /\ timed = FALSE
    /\ rescaled = FALSE
    /\ \E uuid \in Uuids :
          cc = [description |-> NULL, precision |-> 1, offset_s |-> 0,
                offset |-> 0, absolute |-> FALSE, uuid |-> uuid]

Next ==
    \/ \E time \in Times : bt_ctf_clock_set_time(time)
    \/ \E f \in Freqs : bt_ctf_clock_set_frequency(f)
    \/ \E d \in Descriptions : bt_ctf_clock_set_description(d)
    \/ \E p \in Precisions : bt_ctf_clock_set_precision(p)
    \/ \E o \in Offsets : bt_ctf_clock_set_offset_s(o) \/ bt_ctf_clock_set_offset(o)
    \/ \E a \in BOOLEAN : bt_ctf_clock_set_is_absolute(a)
    \/ \E u \in Uuids : bt_ctf_clock_set_uuid(u)
    \/ aborted /\ UNCHANGED vars

Spec == Init /\ [][Next]_vars

(***************************************************************************)
(* Properties                                                              *)
(***************************************************************************)

(* A caller whose times never go back never trips the monotonicity        *)
(* precondition of line 192, whatever else it calls on the clock: the     *)
(* precondition is about the times the caller passes, not about units.   *)
MonotoneTimesNeverAbort == caller_ok => ~aborted
=============================================================================
