------------------------------ MODULE BtTimegm ------------------------------
(***************************************************************************)
(* bt_timegm() of compat/utc.h (bundled in native_bt_mip.i.h, lines       *)
(* 128-180): the fallback used when neither timegm(3) nor _mkgmtime is     *)
(* available.  It refuses a struct tm with a field above its range, then  *)
(* counts days since 1970-01-01 with two loops and turns them into        *)
(* seconds in `int` arithmetic.                                           *)
(*                                                                         *)
(* One call is one action: the function is pure but for errno.  Signed     *)
(* overflow in line 179 is undefined; its outcome is the model value       *)
(* INT_OVERFLOW, which no property can mistake for a right answer.        *)
(***************************************************************************)
EXTENDS Integers, FiniteSets, FiniteSetsExt

CONSTANTS
    Tms,           \* the struct tm values callers pass
    INT_OVERFLOW   \* the value of an `int` expression that overflowed

INT_MAX   == 2147483647
INT_MIN   == -INT_MAX - 1
EOVERFLOW == 75

VARIABLES
    tm,      \* the argument
    ret,     \* the time_t returned
    errno,   \* errno after the call
    pc       \* "call" or "done"

vars == <<tm, ret, errno, pc>>

(* Seeded fault: the 400-year exception of the Gregorian rule is lost. *)
bt_leapyear_no400(year) ==
    (year % 4) = 0 /\ (year % 100) # 0

(* Line 137. *)
bt_leapyear(year) ==
    (year % 4) = 0 /\ ((year % 100) # 0 \/ (year % 400) = 0)

(* The table of lines 145-150. *)
monthlen(leap, month) ==
    <<31, IF leap THEN 29 ELSE 28, 31, 30, 31, 30, 31, 31, 30, 31, 30, 31>>[month + 1]

(* Lines 152-156: the only validation; negative fields pass. *)
out_of_range(t) ==
    \/ t.tm_mon >= 12 \/ t.tm_mday >= 32 \/ t.tm_hour >= 24
    \/ t.tm_min >= 60 \/ t.tm_sec >= 61

(* Lines 161-177.  The first loop leaves `year` at tm_year, or at 70 when  *)
(* tm_year < 70, and the month loop reads it there.                       *)
total_days(t) ==
    LET leap_days == Cardinality({year \in 70..(t.tm_year - 1) : bt_leapyear(1900 + year)})
        year      == IF t.tm_year > 70 THEN t.tm_year ELSE 70
        month_days == MapThenSumSet(LAMBDA month : monthlen(bt_leapyear(1900 + year), month),
                                    0..(t.tm_mon - 1))
    IN  365 * (t.tm_year - 70) + leap_days + month_days + t.tm_mday - 1

(* Line 179 in `int`: each product and sum is checked against the range   *)
(* before it is formed, so that only representable values are computed.  *)
seconds(days, t) ==
    LET minutes == (days * 24 + t.tm_hour) * 60 + t.tm_min
    IN  IF minutes > INT_MAX \div 60 \/ minutes < -(INT_MAX \div 60)
        THEN INT_OVERFLOW
        ELSE LET s == minutes * 60
             IN  IF (t.tm_sec > 0 /\ s > INT_MAX - t.tm_sec)
                    \/ (t.tm_sec < 0 /\ s < INT_MIN - t.tm_sec)
                 THEN INT_OVERFLOW
                 ELSE s + t.tm_sec

(* bt_timegm(tm), lines 140-180. *)
Call ==
    /\ pc = "call"
    /\ \/ /\ out_of_range(tm)
          /\ ret' = -1 /\ errno' = EOVERFLOW
       \/ /\ ~out_of_range(tm)
          /\ ret' = seconds(total_days(tm), tm)
          /\ UNCHANGED errno
    /\ pc' = "done"
    /\ UNCHANGED tm

Init ==
    /\ tm \in Tms
    /\ ret = 0 /\ errno = 0
    /\ pc = "call"

Returned == pc = "done" /\ UNCHANGED vars

Next == Call \/ Returned

Spec == Init /\ [][Next]_vars

(***************************************************************************)
(* Properties                                                              *)
(***************************************************************************)

(* The reference, timegm(3) of the other two branches (lines 108-122) on  *)
(* a valid date of the proleptic Gregorian calendar: days since 1970-01-01 *)
(* counted in closed form, then seconds.                                   *)
IsLeap(y) == y % 400 = 0 \/ (y % 4 = 0 /\ y % 100 # 0)
LeapsBefore(y) == (y - 1) \div 4 - (y - 1) \div 100 + (y - 1) \div 400
YearDay(y, mon, mday) ==
    <<0, 31, 59, 90, 120, 151, 181, 212, 243, 273, 304, 334>>[mon + 1]
        + (IF mon >= 2 /\ IsLeap(y) THEN 1 ELSE 0) + mday - 1
DaysFromEpoch(t) ==
    LET y == 1900 + t.tm_year
    IN  365 * (y - 1970) + LeapsBefore(y) - LeapsBefore(1970) + YearDay(y, t.tm_mon, t.tm_mday)

ValidTm(t) ==
    /\ t.tm_mon \in 0..11
    /\ t.tm_mday \in 1..monthlen(IsLeap(1900 + t.tm_year), t.tm_mon)
    /\ t.tm_hour \in 0..23 /\ t.tm_min \in 0..59 /\ t.tm_sec \in 0..60

(* On every valid date the fallback returns what timegm(3) returns on the *)
(* platforms that have it, so a trace's clock offsets and time ranges do  *)
(* not depend on the build: the leap-day loop, the month loop over the    *)
(* year the first loop left behind, and the `int` arithmetic of line 179  *)
(* all have to be right.                                                   *)
AgreesWithTimegm ==
    pc = "done" /\ ValidTm(tm) =>
        /\ ret # INT_OVERFLOW
        /\ ret = ((DaysFromEpoch(tm) * 24 + tm.tm_hour) * 60 + tm.tm_min) * 60 + tm.tm_sec
=============================================================================
