------------------------------ MODULE Watchdog ------------------------------
(***************************************************************************)
(* The watchdog: the RT-Thread device of src/driver/drv_wdt.c             *)
(* (_wdt_control, rt_hw_wdt_init), the register layer of                  *)
(* src/uboot/sunxi_wdt.c (sunxi_wdt_set_timeout, _start, _stop, _ping,    *)
(* _probe), and the shell command `reboot [seconds]` of board.c, which    *)
(* sets the timeout and starts the watchdog so that it resets the board.  *)
(*                                                                         *)
(* The hardware counts seconds since the last reload while WDT_MODE_EN is *)
(* set, and resets the board when the count reaches the interval coded in *)
(* WDT_MODE bits 4..7, if the reset function is selected in WDT_CFG.      *)
(* A control call runs to completion: the callers are shell commands and  *)
(* one application thread, and each call only writes registers.           *)
(***************************************************************************)
EXTENDS Integers

CONSTANTS
  Args,         \* values `*(int *)arg` takes for SET_TIMEOUT, in seconds
  ClientCmds,   \* control commands an application thread issues
  RebootArgs    \* values atol(argv[1]) gives `reboot`; {} for no reboot

ASSUME Args \subseteq Int /\ RebootArgs \subseteq Int
ASSUME ClientCmds \subseteq {"set", "start", "stop", "keepalive"}

WDT_MAX_TIMEOUT == 16
WDT_MIN_TIMEOUT == 1
RESET_SYSTEM == 1   \* sun6i_wdt_reg.wdt_reset_val under wdt_reset_mask 0x03

(* C int multiplication on the 32-bit ARM target, as the build does it: *)
(* the argument times 1000 in _wdt_control overflows for large         *)
(* arguments and wraps in two's complement.  Computed on 16-bit halves  *)
(* so that no intermediate value leaves the 32-bit range.               *)
Int32Mul(a, k) ==
  LET lo == a % 65536
      hi == (a \div 65536) % 65536
      p == lo * k
      newLo == p % 65536
      newHi == (hi * k + p \div 65536) % 65536
  IN IF newHi >= 32768 THEN (newHi - 65536) * 65536 + newLo
     ELSE newHi * 65536 + newLo

VARIABLES
  probed,     \* rt_hw_wdt_init has run
  msecs,      \* _wdt_param.msecs
  intv,       \* WDT_MODE timeout field
  en,         \* WDT_MODE_EN
  rst,        \* WDT_CFG reset-function field
  cnt,        \* seconds since the last reload, as the hardware counts them
  reset,      \* the watchdog has reset the board
  rebootPc,   \* the `reboot` command: "none", "set", "start", "done"
  rebootArg,  \* its argument
  asked,      \* seconds the last SET_TIMEOUT asked for (ghost)
  armedFor    \* the value of asked when the watchdog was last started (ghost)

vars == <<probed, msecs, intv, en, rst, cnt, reset, rebootPc, rebootArg,
          asked, armedFor>>

(* Mutant of wdt_timeout_map: the 10 s entry is coded as 12 s.            *)
wdt_timeout_map_shifted ==
  [t \in 0..WDT_MAX_TIMEOUT |->
     CASE t \in 1..6 -> t
       [] t = 8  -> 7
       [] t = 10 -> 9
       [] t = 12 -> 9
       [] t = 14 -> 10
       [] t = 16 -> 11
       [] OTHER  -> 0]

(* static const int wdt_timeout_map[]: seconds to the WDT_MODE code; the  *)
(* seconds without an entry (0, 7, 9, 11, 13, 15) are 0.                  *)
wdt_timeout_map ==
  [t \in 0..WDT_MAX_TIMEOUT |->
     CASE t \in 1..6 -> t
       [] t = 8  -> 7
       [] t = 10 -> 8
       [] t = 12 -> 9
       [] t = 14 -> 10
       [] t = 16 -> 11
       [] OTHER  -> 0]

(* The interval, in whole seconds, the hardware uses for a WDT_MODE code: *)
(* 0.5 s (rounded down here), 1 to 6 s, then 8, 10, 12, 14 and 16 s.      *)
HwSeconds(code) ==
  IF code <= 6 THEN code ELSE IF code <= 11 THEN 2 * (code - 3) ELSE 0

(* sunxi_wdt_set_timeout: round a second count without a code up by one,  *)
(* write the code into WDT_MODE, then sunxi_wdt_ping reloads the counter. *)
SetTimeoutCode(timeout) ==
  wdt_timeout_map[IF wdt_timeout_map[timeout] = 0 THEN timeout + 1 ELSE timeout]

(* Mutant of SetMsecs: the clamp to 16000 is missing.                     *)
SetMsecsNoMax(a) ==
  LET m == Int32Mul(a, 1000)
  IN IF m < 1000 THEN 1000 ELSE m

(* RT_DEVICE_CTRL_WDT_SET_TIMEOUT: store the argument in milliseconds,    *)
(* clamped to [1000, 16000]; the running watchdog is not reprogrammed.    *)
SetMsecs(a) ==
  LET m == Int32Mul(a, 1000)
  IN IF m < 1000 THEN 1000 ELSE IF m > 16000 THEN 16000 ELSE m

(* What a caller of SET_TIMEOUT asks for: the seconds it passes, within   *)
(* the hardware's range of 1 to 16 seconds.                               *)
Asked(a) == IF a < WDT_MIN_TIMEOUT THEN WDT_MIN_TIMEOUT
            ELSE IF a > WDT_MAX_TIMEOUT THEN WDT_MAX_TIMEOUT ELSE a

(* sunxi_wdt_start(dev, msecs / 1000): set_timeout (write the code, then  *)
(* ping), select the system reset in WDT_CFG, set WDT_MODE_EN.            *)
WdtStart ==
  /\ intv' = SetTimeoutCode(msecs \div 1000)
  /\ cnt' = 0
  /\ rst' = RESET_SYSTEM
  /\ en' = TRUE
  /\ armedFor' = asked

(* sunxi_wdt_stop: WDT_MODE = 0, clearing both the code and the enable.   *)
WdtStop ==
  /\ intv' = 0
  /\ en' = FALSE
  /\ UNCHANGED <<rst, cnt, armedFor>>

(* rt_hw_wdt_init: msecs = 1000, sunxi_wdt_probe stops the watchdog.      *)
HwWdtInit ==
  /\ ~probed
  /\ probed' = TRUE
  /\ msecs' = 1000
  /\ WdtStop
  /\ UNCHANGED <<reset, rebootPc, rebootArg, asked>>

(* _wdt_control, one call of an application thread.                      *)
CtrlSetTimeout ==
  /\ probed /\ ~reset /\ "set" \in ClientCmds
  /\ \E a \in Args : /\ msecs' = SetMsecs(a)
                     /\ asked' = Asked(a)
  /\ UNCHANGED <<probed, intv, en, rst, cnt, reset, rebootPc, rebootArg, armedFor>>

CtrlStart ==
  /\ probed /\ ~reset /\ "start" \in ClientCmds
  /\ WdtStart
  /\ UNCHANGED <<probed, msecs, reset, rebootPc, rebootArg, asked>>

CtrlStop ==
  /\ probed /\ ~reset /\ "stop" \in ClientCmds
  /\ WdtStop
  /\ UNCHANGED <<probed, msecs, reset, rebootPc, rebootArg, asked>>

(* KEEPALIVE: sunxi_wdt_ping writes WDT_CTRL_RELOAD.                      *)
CtrlKeepalive ==
  /\ probed /\ ~reset /\ "keepalive" \in ClientCmds
  /\ cnt' = 0
  /\ UNCHANGED <<probed, msecs, intv, en, rst, reset, rebootPc, rebootArg,
                 asked, armedFor>>

(* cmd_reboot: `timeout = atol(argv[1])`, SET_TIMEOUT, then START.        *)
RebootCmd ==
  /\ probed /\ ~reset /\ rebootPc = "none"
  /\ \E a \in RebootArgs : rebootArg' = a
  /\ rebootPc' = "set"
  /\ UNCHANGED <<probed, msecs, intv, en, rst, cnt, reset, asked, armedFor>>

RebootSet ==
  /\ rebootPc = "set" /\ ~reset
  /\ msecs' = SetMsecs(rebootArg)
  /\ asked' = Asked(rebootArg)
  /\ rebootPc' = "start"
  /\ UNCHANGED <<probed, intv, en, rst, cnt, reset, rebootArg, armedFor>>

RebootStart ==
  /\ rebootPc = "start" /\ ~reset
  /\ WdtStart
  /\ rebootPc' = "done"
  /\ UNCHANGED <<probed, msecs, reset, rebootArg, asked>>

(* One second of the watchdog counter; at the interval it resets.         *)
Tick ==
  /\ en /\ ~reset
  /\ cnt' = cnt + 1
  /\ reset' = (cnt' >= HwSeconds(intv) /\ rst = RESET_SYSTEM)
  /\ UNCHANGED <<probed, msecs, intv, en, rst, rebootPc, rebootArg, asked, armedFor>>

(* After the reset nothing runs any more.                                 *)
Halted ==
  /\ reset
  /\ UNCHANGED vars

Init ==
  /\ probed = FALSE
  /\ msecs = 0
  /\ intv = 0
  /\ en = FALSE
  /\ rst = 0
  /\ cnt = 0
  /\ reset = FALSE
  /\ rebootPc = "none"
  /\ rebootArg = 0
  /\ asked = WDT_MIN_TIMEOUT
  /\ armedFor = WDT_MIN_TIMEOUT

Next ==
  \/ HwWdtInit \/ CtrlSetTimeout \/ CtrlStart \/ CtrlStop \/ CtrlKeepalive
  \/ RebootCmd \/ RebootSet \/ RebootStart \/ Tick \/ Halted

Spec == Init /\ [][Next]_vars

-----------------------------------------------------------------------------
TypeOK ==
  /\ probed \in BOOLEAN
  /\ msecs \in 0..16000
  /\ intv \in 0..15
  /\ en \in BOOLEAN
  /\ rst \in 0..3
  /\ cnt \in 0..(WDT_MAX_TIMEOUT + 1)
  /\ reset \in BOOLEAN
  /\ rebootPc \in {"none", "set", "start", "done"}
  /\ rebootArg \in RebootArgs \cup {0}
  /\ asked \in WDT_MIN_TIMEOUT..WDT_MAX_TIMEOUT
  /\ armedFor \in WDT_MIN_TIMEOUT..WDT_MAX_TIMEOUT

(* A running watchdog resets the board no sooner than the caller of the   *)
(* SET_TIMEOUT before its start asked (its argument within 1..16 seconds) and at most *)
(* one second later: the clamping of _wdt_control, msecs / 1000, the      *)
(* round-up of sunxi_wdt_set_timeout and wdt_timeout_map together keep    *)
(* the programmed interval within a second of the request.                *)
TimeoutHonoured ==
  en => HwSeconds(intv) \in armedFor..(armedFor + 1)

=============================================================================
