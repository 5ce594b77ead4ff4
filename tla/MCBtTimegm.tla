----------------------------- MODULE MCBtTimegm -----------------------------
(* Dates around the turns of leap and non-leap years, of the 400-year     *)
(* exception (2000) and of months, at the first and the last second of    *)
(* the day (a leap second included), with fields one past the range the   *)
(* guard checks.                                                           *)
EXTENDS BtTimegm

Tm(year, mon, mday, hour, min, sec) ==
    [tm_year |-> year, tm_mon |-> mon, tm_mday |-> mday,
     tm_hour |-> hour, tm_min |-> min, tm_sec |-> sec]

Dates(years) ==
    {Tm(y, mo, d, 0, 0, 0) : y \in years, mo \in {0, 1, 2, 11}, d \in {1, 28, 29, 31}}
      \cup {Tm(y, 11, 31, 23, 59, s) : y \in years, s \in {59, 60}}

Refused == {Tm(100, 12, 1, 0, 0, 0), Tm(100, 0, 32, 0, 0, 0),
            Tm(100, 0, 1, 24, 0, 0), Tm(100, 0, 1, 0, 60, 0), Tm(100, 0, 1, 0, 0, 61)}

(* 1970 to 2037: the years a 32-bit time_t holds after the epoch. *)
MCEpochTms == Dates({70, 71, 72, 99, 100, 101, 104, 137}) \cup Refused

(* Before the epoch and past 2^31 seconds. *)
MCOuterTms == Dates({60, 68, 69, 138, 200})
=============================================================================
