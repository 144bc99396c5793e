------------------------------- MODULE RtcTm -------------------------------
(***************************************************************************)
(* The calendar side of the RTC: how sun6i_rtc_settime of                 *)
(* src/uboot/rtc-sun6i.c packs a struct tm into the SUN6I_RTC_YMD and     *)
(* SUN6I_RTC_HMS register words, and how sun6i_rtc_gettime unpacks them   *)
(* and checks the result with rtc_valid_tm.  _rtc_settime of              *)
(* src/driver/drv_rtc.c hands the first a struct tm from localtime, and   *)
(* _rtc_gettime turns the second's result into a time, or into 0 when it  *)
(* is not valid.                                                           *)
(*                                                                         *)
(* Rtc models the same two calls as whole-register accesses racing the    *)
(* ticking clock and each other; here one set is followed by one get with *)
(* the clock standing still and every write landing, so that what is      *)
(* checked is the field arithmetic alone.  A struct tm is a record of its  *)
(* six fields that the code uses, with tm_year counted from 1900 and      *)
(* tm_mon from 0, as in C.                                                 *)
(***************************************************************************)
EXTENDS Integers, Bitwise

CONSTANTS
  Tms,        \* struct tm values localtime can return for the requests
  PriorRegs   \* <<YMD, HMS>> words the RTC may hold before the set

ASSUME PriorRegs \subseteq Nat \X Nat

SUN6I_YEAR_MIN == 1970
SUN6I_YEAR_MAX == 2033
SUN6I_YEAR_OFF == SUN6I_YEAR_MIN - 1900
EINVAL == 22

Shl(x, k) == x * 2^k

(* The GET macros: a field is masked out of its word and shifted down.    *)
SUN6I_DATE_GET_DAY_VALUE(x) == x & 31
SUN6I_DATE_GET_MON_VALUE(x) == shiftR(x & 3840, 8)          \* 0x00000f00
SUN6I_DATE_GET_YEAR_VALUE(x) == shiftR(x & 4128768, 16)     \* 0x003f0000
SUN6I_TIME_GET_SEC_VALUE(x) == x & 63
SUN6I_TIME_GET_MIN_VALUE(x) == shiftR(x & 16128, 8)         \* 0x00003f00
SUN6I_TIME_GET_HOUR_VALUE(x) == shiftR(x & 2031616, 16)     \* 0x001f0000

(* The SET macros: `(x) << n & mask`, the shift binding tighter.          *)
SUN6I_DATE_SET_DAY_VALUE(x) == x & 31
SUN6I_DATE_SET_MON_VALUE(x) == Shl(x, 8) & 3840
SUN6I_DATE_SET_YEAR_VALUE(x) == Shl(x, 16) & 4128768
SUN6I_LEAP_SET_VALUE(x) == Shl(x, 22) & 4194304            \* 0x00400000
SUN6I_TIME_SET_SEC_VALUE(x) == x & 63
SUN6I_TIME_SET_MIN_VALUE(x) == Shl(x, 8) & 16128
SUN6I_TIME_SET_HOUR_VALUE(x) == Shl(x, 16) & 2031616

rtc_days_in_month == <<31, 28, 31, 30, 31, 30, 31, 31, 30, 31, 30, 31>>

(* Mutant of is_leap_year: the 400-year rule left out.                    *)
is_leap_year_no400(year) == year % 4 = 0 /\ year % 100 # 0

is_leap_year(year) == (year % 4 = 0 /\ year % 100 # 0) \/ year % 400 = 0

(* rtc_month_days(month, year), month counted from 0.                     *)
rtc_month_days(month, year) ==
  rtc_days_in_month[month + 1] + (IF is_leap_year(year) /\ month = 1 THEN 1 ELSE 0)

(* rtc_valid_tm: the (unsigned) casts make a negative field fail the      *)
(* upper-bound test; the day is only checked once the month is known good *)
(* (the || of the C evaluates left to right).                              *)
rtc_valid_tm(t) ==
  IF \/ t.year < 70
     \/ t.mon \notin 0..11
     \/ t.mday < 1
     \/ t.mday > rtc_month_days(t.mon, t.year + 1900)
     \/ t.hour \notin 0..23
     \/ t.min \notin 0..59
     \/ t.sec \notin 0..59
  THEN -EINVAL ELSE 0

(* sun6i_rtc_settime up to its register writes: the year range check and  *)
(* the two words, the leap flag taken from the full year.                  *)
SettimeWords(t) ==
  LET year == t.year + 1900
      date == SUN6I_DATE_SET_DAY_VALUE(t.mday)
                | SUN6I_DATE_SET_MON_VALUE(t.mon + 1)
                | SUN6I_DATE_SET_YEAR_VALUE(t.year - SUN6I_YEAR_OFF)
  IN [ret  |-> IF year < SUN6I_YEAR_MIN \/ year > SUN6I_YEAR_MAX THEN -EINVAL ELSE 0,
      ymd  |-> IF is_leap_year(year) THEN date | SUN6I_LEAP_SET_VALUE(1) ELSE date,
      hms  |-> SUN6I_TIME_SET_SEC_VALUE(t.sec)
                | SUN6I_TIME_SET_MIN_VALUE(t.min)
                | SUN6I_TIME_SET_HOUR_VALUE(t.hour)]

(* sun6i_rtc_gettime after its double read: the fields, tm_mon moved to   *)
(* count from 0 and tm_year to count from 1900.                           *)
GettimeFields(date, time) ==
  [sec  |-> SUN6I_TIME_GET_SEC_VALUE(time),
   min  |-> SUN6I_TIME_GET_MIN_VALUE(time),
   hour |-> SUN6I_TIME_GET_HOUR_VALUE(time),
   mday |-> SUN6I_DATE_GET_DAY_VALUE(date),
   mon  |-> SUN6I_DATE_GET_MON_VALUE(date) - 1,
   year |-> SUN6I_DATE_GET_YEAR_VALUE(date) + SUN6I_YEAR_OFF]

VARIABLES
  tm,       \* the struct tm _rtc_settime got from localtime
  ymdReg,   \* SUN6I_RTC_YMD
  hmsReg,   \* SUN6I_RTC_HMS
  setRet,   \* what sun6i_rtc_settime returned
  gotTm,    \* the struct tm sun6i_rtc_gettime filled in
  getRet,   \* what sun6i_rtc_gettime returned (0 or -EINVAL)
  tmPc      \* "set", "get", "done"

vars == <<tm, ymdReg, hmsReg, setRet, gotTm, getRet, tmPc>>

Init ==
  /\ tm \in Tms
  /\ \E r \in PriorRegs : ymdReg = r[1] /\ hmsReg = r[2]
  /\ setRet = 0
  /\ gotTm = tm
  /\ getRet = 0
  /\ tmPc = "set"

(* RT_DEVICE_CTRL_RTC_SET_TIME: sun6i_rtc_settime; out of range it       *)
(* returns before writing, otherwise both words land.                     *)
SetTime ==
  /\ tmPc = "set"
  /\ LET w == SettimeWords(tm) IN
       /\ setRet' = w.ret
       /\ ymdReg' = IF w.ret = 0 THEN w.ymd ELSE ymdReg
       /\ hmsReg' = IF w.ret = 0 THEN w.hms ELSE hmsReg
  /\ tmPc' = "get"
  /\ UNCHANGED <<tm, gotTm, getRet>>

(* RT_DEVICE_CTRL_RTC_GET_TIME: _rtc_gettime calls sun6i_rtc_gettime and  *)
(* uses the struct tm only when rtc_valid_tm accepted it.                  *)
GetTime ==
  /\ tmPc = "get"
  /\ gotTm' = GettimeFields(ymdReg, hmsReg)
  /\ getRet' = rtc_valid_tm(gotTm')
  /\ tmPc' = "done"
  /\ UNCHANGED <<tm, ymdReg, hmsReg, setRet>>

Done == tmPc = "done" /\ UNCHANGED vars

Next == SetTime \/ GetTime \/ Done

Spec == Init /\ [][Next]_vars

-----------------------------------------------------------------------------
TypeOK ==
  /\ tm \in Tms
  /\ ymdReg \in Nat /\ hmsReg \in Nat
  /\ setRet \in {0, -EINVAL} /\ getRet \in {0, -EINVAL}
  /\ tmPc \in {"set", "get", "done"}

(* A time inside the RTC's 1970..2033 range that is set is read back     *)
(* unchanged and accepted by rtc_valid_tm: the SET and GET macros, the    *)
(* month and year offsets and the leap-year rule of settime and of        *)
(* rtc_valid_tm agree on every field.                                     *)
TmRoundTrip ==
  (tmPc = "done" /\ tm.year + 1900 <= SUN6I_YEAR_MAX)
    => setRet = 0 /\ getRet = 0 /\ gotTm = tm
=============================================================================
