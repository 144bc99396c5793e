-------------------------------- MODULE Rtc --------------------------------
(***************************************************************************)
(* The RTC device: rt_rtc_control of src/driver/drv_rtc.c, which takes    *)
(* rtc_mutex around sun6i_rtc_gettime or sun6i_rtc_settime of             *)
(* src/uboot/rtc-sun6i.c.  One thread sets the time and one reads it.     *)
(*                                                                         *)
(* The RTC keeps the date in SUN6I_RTC_YMD and the time of day in         *)
(* SUN6I_RTC_HMS and ticks once a second on its own, carrying into the    *)
(* date at midnight.  A write to either register sets an access bit in    *)
(* SUN6I_LOSC_CTRL that the hardware clears when the write has landed.    *)
(*                                                                         *)
(* Abstraction: a date is a day number and a time of day a second number  *)
(* below SecsPerDay; the field packing of the SET and GET macros, the     *)
(* month and year offsets and localtime/mktime are left out, since each   *)
(* register is written and read as a whole.  The year of a request is     *)
(* kept for the 1970..2033 range check.                                   *)
(***************************************************************************)
EXTENDS Integers

CONSTANTS
  SecsPerDay,    \* seconds in a day
  Days,          \* day numbers a request or the RTC can hold
  Years,         \* years of the requests (tm_year + 1900)
  MaxTicks,      \* seconds the RTC ticks during a behaviour
  BusyCanStick   \* an access bit may stay set past the 50 ms wait

ASSUME SecsPerDay > 1 /\ Days \subseteq Nat /\ Years \subseteq Nat
ASSUME MaxTicks \in Nat /\ BusyCanStick \in BOOLEAN

SUN6I_YEAR_MIN == 1970
SUN6I_YEAR_MAX == 2033
EOK == 0
EINVAL == 22
EBUSY == 16
ETIMEDOUT == 110

VARIABLES
  hwDay, hwSec,     \* SUN6I_RTC_YMD and SUN6I_RTC_HMS
  hmsAcc, ymdAcc,   \* SUN6I_LOSC_CTRL_RTC_HMS_ACC and _RTC_YMD_ACC
  ticks,            \* seconds ticked so far
  owner,            \* holder of rtc_mutex: "none", "set" or "get"
  setPc, req, setRet,
  getPc, date, time,
  expDay, expSec,   \* the set time advanced by the ticks since it was written
  snap,             \* registers when the getter read HMS, and whether the
                    \* setter was then between its two writes (checking only)
  stuck             \* registers, "hms" or "ymd", whose writes never land

vars == <<hwDay, hwSec, hmsAcc, ymdAcc, ticks, owner, setPc, req, setRet,
          getPc, date, time, expDay, expSec, snap, stuck>>

(* The clock one second on.                                               *)
Later(d, s) == IF s + 1 = SecsPerDay THEN <<d + 1, 0>> ELSE <<d, s + 1>>

(* The RTC ticks; a pending write lands and its access bit clears.        *)
Tick ==
  /\ ticks < MaxTicks
  /\ ticks' = ticks + 1
  /\ hwDay' = Later(hwDay, hwSec)[1]
  /\ hwSec' = Later(hwDay, hwSec)[2]
  /\ expDay' = Later(expDay, expSec)[1]
  /\ expSec' = Later(expDay, expSec)[2]
  /\ UNCHANGED <<hmsAcc, ymdAcc, owner, setPc, req, setRet, getPc, date, time,
                 snap, stuck>>

(* An access bit that stays set: its register's write never lands.       *)
Sticks(acc, r) == acc /\ r \in stuck

AccDone ==
  /\ \/ /\ hmsAcc /\ ~Sticks(hmsAcc, "hms")
        /\ hmsAcc' = FALSE /\ UNCHANGED ymdAcc
     \/ /\ ymdAcc /\ ~Sticks(ymdAcc, "ymd")
        /\ ymdAcc' = FALSE /\ UNCHANGED hmsAcc
  /\ UNCHANGED <<hwDay, hwSec, ticks, owner, setPc, req, setRet, getPc, date,
                 time, expDay, expSec, snap, stuck>>

-----------------------------------------------------------------------------
(* The setter: rt_rtc_control(RT_DEVICE_CTRL_RTC_SET_TIME), whose         *)
(* _rtc_settime calls sun6i_rtc_settime.                                  *)
SetVars == <<setPc, req, setRet>>
Unchanged4Set == UNCHANGED <<hwDay, hwSec, hmsAcc, ymdAcc, ticks, getPc, date,
                             time, expDay, expSec, snap, stuck>>

(* Mutant of SetLock: rtc_mutex is not taken.                             *)
SetLockNoMutex ==
  /\ setPc = "idle"
  /\ \E d \in Days, s \in 0..(SecsPerDay - 1), y \in Years :
       req' = [day |-> d, sec |-> s, year |-> y]
  /\ setPc' = "check"
  /\ setRet' = EOK
  /\ UNCHANGED owner
  /\ Unchanged4Set

SetLock ==
  /\ setPc = "idle"
  /\ owner = "none"
  /\ \E d \in Days, s \in 0..(SecsPerDay - 1), y \in Years :
       req' = [day |-> d, sec |-> s, year |-> y]
  /\ owner' = "set"
  /\ setPc' = "check"
  /\ setRet' = EOK
  /\ Unchanged4Set

(* Mutant of SetCheck: `return EINVAL`, the sign dropped.                *)
SetCheckPositiveErr ==
  /\ setPc = "check"
  /\ IF req.year < SUN6I_YEAR_MIN \/ req.year > SUN6I_YEAR_MAX
       THEN setPc' = "unlock" /\ setRet' = EINVAL
       ELSE setPc' = "waitAcc" /\ UNCHANGED setRet
  /\ UNCHANGED <<owner, req>>
  /\ Unchanged4Set

(* year outside SUN6I_YEAR_MIN..SUN6I_YEAR_MAX: -EINVAL.                  *)
SetCheck ==
  /\ setPc = "check"
  /\ IF req.year < SUN6I_YEAR_MIN \/ req.year > SUN6I_YEAR_MAX
       THEN setPc' = "unlock" /\ setRet' = -EINVAL
       ELSE setPc' = "waitAcc" /\ UNCHANGED setRet
  /\ UNCHANGED <<owner, req>>
  /\ Unchanged4Set

(* sun6i_rtc_wait on a mask of access bits: return 0 when they read      *)
(* clear, or give up after the timeout, which only a write that never    *)
(* lands can outlast.                                                     *)
Wait(busy, stays, next, err) ==
  \/ /\ ~busy
     /\ setPc' = next
     /\ UNCHANGED setRet
  \/ /\ stays
     /\ setPc' = "unlock"
     /\ setRet' = -err

SetWaitAcc ==
  /\ setPc = "waitAcc"
  /\ Wait(hmsAcc \/ ymdAcc, Sticks(hmsAcc, "hms") \/ Sticks(ymdAcc, "ymd"),
            "writeHms", EBUSY)
  /\ UNCHANGED <<owner, req>>
  /\ Unchanged4Set

SetWriteHms ==
  /\ setPc = "writeHms"
  /\ hwSec' = req.sec
  /\ hmsAcc' = TRUE
  /\ expDay' = req.day
  /\ expSec' = req.sec
  /\ setPc' = "waitHms"
  /\ UNCHANGED <<hwDay, ymdAcc, ticks, owner, req, setRet, getPc, date, time,
                 snap, stuck>>

(* Mutant of SetWaitHms: the wait has no timeout.                        *)
SetWaitHmsForever ==
  /\ setPc = "waitHms"
  /\ ~hmsAcc
  /\ setPc' = "writeYmd"
  /\ UNCHANGED <<owner, req, setRet>>
  /\ Unchanged4Set

SetWaitHms ==
  /\ setPc = "waitHms"
  /\ Wait(hmsAcc, Sticks(hmsAcc, "hms"), "writeYmd", ETIMEDOUT)
  /\ UNCHANGED <<owner, req>>
  /\ Unchanged4Set

SetWriteYmd ==
  /\ setPc = "writeYmd"
  /\ hwDay' = req.day
  /\ ymdAcc' = TRUE
  /\ setPc' = "waitYmd"
  /\ UNCHANGED <<hwSec, hmsAcc, ticks, owner, req, setRet, getPc, date, time,
                 expDay, expSec, snap, stuck>>

SetWaitYmd ==
  /\ setPc = "waitYmd"
  /\ Wait(ymdAcc, Sticks(ymdAcc, "ymd"), "unlock", ETIMEDOUT)
  /\ UNCHANGED <<owner, req>>
  /\ Unchanged4Set

(* rt_mutex_release; rt_rtc_control returns RT_EOK whatever happened.     *)
SetUnlock ==
  /\ setPc = "unlock"
  /\ owner' = IF owner = "set" THEN "none" ELSE owner
  /\ setPc' = "idle"
  /\ UNCHANGED <<req, setRet>>
  /\ Unchanged4Set

-----------------------------------------------------------------------------
(* The reader: rt_rtc_control(RT_DEVICE_CTRL_RTC_GET_TIME), whose         *)
(* _rtc_gettime calls sun6i_rtc_gettime: read YMD then HMS, and read both *)
(* again until both read the same twice in a row.                        *)
Unchanged4Get == UNCHANGED <<hwDay, hwSec, hmsAcc, ymdAcc, ticks, setPc, req,
                             setRet, expDay, expSec, stuck>>

GetLock ==
  /\ getPc = "idle"
  /\ owner = "none"
  /\ owner' = "get"
  /\ getPc' = "rdDate"
  /\ UNCHANGED <<date, time, snap>>
  /\ Unchanged4Get

GetRdDate ==
  /\ getPc = "rdDate"
  /\ date' = hwDay
  /\ getPc' = "rdTime"
  /\ UNCHANGED <<owner, time, snap>>
  /\ Unchanged4Get

GetRdTime ==
  /\ getPc = "rdTime"
  /\ time' = hwSec
  /\ snap' = [day |-> hwDay, sec |-> hwSec, torn |-> setPc \in {"waitHms", "writeYmd"}]
  /\ getPc' = "chkDate"
  /\ UNCHANGED <<owner, date>>
  /\ Unchanged4Get

(* Mutant of GetChkDate: the date is not read again.                      *)
GetChkDateSkip ==
  /\ getPc = "chkDate"
  /\ getPc' = "chkTime"
  /\ UNCHANGED <<owner, date, time, snap>>
  /\ Unchanged4Get

(* `date != readl(base + SUN6I_RTC_YMD)`: on a change read both again.    *)
GetChkDate ==
  /\ getPc = "chkDate"
  /\ getPc' = IF date # hwDay THEN "rdDate" ELSE "chkTime"
  /\ UNCHANGED <<owner, date, time, snap>>
  /\ Unchanged4Get

GetChkTime ==
  /\ getPc = "chkTime"
  /\ getPc' = IF time # hwSec THEN "rdDate" ELSE "unlock"
  /\ UNCHANGED <<owner, date, time, snap>>
  /\ Unchanged4Get

GetUnlock ==
  /\ getPc = "unlock"
  /\ owner' = IF owner = "get" THEN "none" ELSE owner
  /\ getPc' = "idle"
  /\ UNCHANGED <<date, time, snap>>
  /\ Unchanged4Get

-----------------------------------------------------------------------------
(* sun6i_rtc_probe leaves the date and time as they were (running from    *)
(* the backup battery).                                                    *)
Init ==
  /\ hwDay \in Days
  /\ hwSec \in 0..(SecsPerDay - 1)
  /\ hmsAcc = FALSE
  /\ ymdAcc = FALSE
  /\ ticks = 0
  /\ owner = "none"
  /\ setPc = "idle"
  /\ req = [day |-> hwDay, sec |-> hwSec, year |-> SUN6I_YEAR_MIN]
  /\ setRet = EOK
  /\ getPc = "idle"
  /\ date = hwDay
  /\ time = hwSec
  /\ expDay = hwDay
  /\ expSec = hwSec
  /\ snap = [day |-> hwDay, sec |-> hwSec, torn |-> FALSE]
  /\ stuck \in IF BusyCanStick THEN SUBSET {"hms", "ymd"} ELSE {{}}

Setter == SetLock \/ SetCheck \/ SetWaitAcc \/ SetWriteHms \/ SetWaitHms
          \/ SetWriteYmd \/ SetWaitYmd \/ SetUnlock
Getter == GetLock \/ GetRdDate \/ GetRdTime \/ GetChkDate \/ GetChkTime
          \/ GetUnlock

Next == Tick \/ AccDone \/ Setter \/ Getter

Spec == Init /\ [][Next]_vars

(* Both threads are scheduled while they have work (the mutex is FIFO,    *)
(* and each holds it only for one call), and a write the RTC can finish   *)
(* is eventually finished.                                                 *)
FairSpec ==
  /\ Spec
  /\ WF_vars(AccDone)
  /\ WF_vars(Setter /\ setPc # "idle") /\ WF_vars(Getter /\ getPc # "idle")
  /\ SF_vars(GetLock) /\ SF_vars(SetLock)

-----------------------------------------------------------------------------
TypeOK ==
  /\ hwDay \in Nat /\ hwSec \in 0..(SecsPerDay - 1)
  /\ hmsAcc \in BOOLEAN /\ ymdAcc \in BOOLEAN
  /\ ticks \in 0..MaxTicks
  /\ owner \in {"none", "set", "get"}
  /\ setPc \in {"idle", "check", "waitAcc", "writeHms", "waitHms", "writeYmd",
                "waitYmd", "unlock"}
  /\ req.day \in Days /\ req.sec \in 0..(SecsPerDay - 1) /\ req.year \in Years \cup {SUN6I_YEAR_MIN}
  /\ setRet \in {EOK, -EINVAL, -EBUSY, -ETIMEDOUT}
  /\ getPc \in {"idle", "rdDate", "rdTime", "chkDate", "chkTime", "unlock"}
  /\ date \in Nat /\ time \in 0..(SecsPerDay - 1)
  /\ stuck \subseteq {"hms", "ymd"}

(* A time rt_rtc_control returns is the RTC's date and time at one        *)
(* instant: the double read of sun6i_rtc_gettime never pairs a date with  *)
(* a time of day that the registers did not hold together.                *)
GetMatchesInstant ==
  getPc = "unlock" => date = snap.day /\ time = snap.sec

(* ... and that instant is never in the middle of a set: rtc_mutex keeps  *)
(* the reader from seeing the new time of day with the old date.          *)
GetNotMidSet == getPc = "unlock" => ~snap.torn

(* Every control call returns, even when the RTC never finishes a write:  *)
(* each sun6i_rtc_wait is bounded and the double read ends once the clock *)
(* stops changing under it.                                               *)
CtrlReturns ==
  /\ (setPc # "idle") ~> (setPc = "idle")
  /\ (getPc # "idle") ~> (getPc = "idle")

(* When sun6i_rtc_settime returns 0 the RTC holds the time that was set,  *)
(* advanced by the seconds that have passed since.                        *)
SetTimeExact ==
  (setPc = "unlock" /\ setRet = EOK) => hwDay = expDay /\ hwSec = expSec

(* rt_rtc_control reports a failed set to its caller: it returns RT_EOK   *)
(* only when sun6i_rtc_settime succeeded.                                 *)
SetFailureReported == setPc = "unlock" => setRet = EOK
=============================================================================
