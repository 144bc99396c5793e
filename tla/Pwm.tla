-------------------------------- MODULE Pwm --------------------------------
(***************************************************************************)
(* The PWM: sun4i_pwm_config, _enable, _disable and _probe of             *)
(* src/uboot/pwm-sun4i.c, and the `backlight [percent]` shell command of  *)
(* src/driver/drv_pwm.c, the one caller, which disables channel 0,        *)
(* configures a 2 ms period with the requested duty, and enables it.      *)
(*                                                                         *)
(* sun4i_pwm_config is a computation on 64-bit integers followed by       *)
(* register writes.  Its computation is the operator PwmConfig, evaluated *)
(* exactly (MulDivQR keeps every intermediate value within TLC's          *)
(* integers), and checked for every input of ApiInputs against what the   *)
(* divider table allows; the register writes are part of the actions.     *)
(* The channel's period register is written at once but used by the      *)
(* hardware only from the next period on: PWM_RDY stays set until then.   *)
(***************************************************************************)
EXTENDS Integers, FiniteSets

CONSTANTS
  CLK,         \* clk_get_rate: the 24 MHz of rt_hw_pwm_init
  Levels,      \* values atol(argv[1]) gives `backlight`
  ApiInputs    \* <<duty_ns, period_ns>> pairs the computation is checked on

ASSUME CLK \in Nat \ {0} /\ Levels \subseteq Int
ASSUME ApiInputs \subseteq (Nat \X (Nat \ {0}))

NSEC_PER_SEC == 1000000000
PWM_PRESCAL_MASK == 15
PWM_PRD_MASK == 65535
PWM_DTY_MASK == 65535
EINVAL == 22
EBUSY == 16
BACKLIGHT_PERIOD == 2000000   \* the 2000000L of cmd_backlight

(* static const u32 prescaler_table[], indexed by the prescaler field.     *)
prescaler_table ==
  <<120, 180, 240, 360, 480, 0, 0, 0, 12000, 24000, 36000, 48000, 72000,
    0, 0, 0>>
Table(i) == prescaler_table[i + 1]

(* One bit of a: from a \div 2 * b = h[1] * c + h[2] to a * b.             *)
MulDivBit(h, odd, b, c) ==
  LET q2 == 2 * h[1] + (2 * h[2]) \div c
      r2 == (2 * h[2]) % c
  IN IF odd THEN <<q2 + b \div c + (r2 + (b % c)) \div c, (r2 + (b % c)) % c>>
     ELSE <<q2, r2>>

(* a * b = q * c + r with 0 <= r < c, for a, b >= 0: the u64 product      *)
(* followed by do_div, computed bit by bit of a so that no intermediate    *)
(* value exceeds 2 * c + b.                                                *)
RECURSIVE MulDivQR(_, _, _)
MulDivQR(a, b, c) ==
  IF a = 0 THEN <<0, 0>>
  ELSE CHOOSE qr \in {MulDivBit(h, a % 2 = 1, b, c) : h \in {MulDivQR(a \div 2, b, c)}} : TRUE

MulDiv(a, b, c) == MulDivQR(a, b, c)[1]

(* Mutant of Fits: `div - 1` compared as a signed value, so 0 fits.        *)
FitsSigned(div) == div - 1 <= PWM_PRD_MASK

(* `div - 1 <= PWM_PRD_MASK` on a u64: div = 0 wraps to 2^64 - 1.         *)
Fits(div) == div # 0 /\ div - 1 <= PWM_PRD_MASK

(* The bypass test: clk_rate * period_ns + NSEC_PER_SEC / 2, do_div.       *)
BypassDiv(period) ==
  LET qr == MulDivQR(CLK, period, NSEC_PER_SEC)
  IN qr[1] + (qr[2] + NSEC_PER_SEC \div 2) \div NSEC_PER_SEC

(* One pass of the prescaler loop: clk_rate / table, * period_ns, do_div.  *)
LoopDiv(i, period) == MulDiv(CLK \div Table(i), period, NSEC_PER_SEC)

(* sun4i_pwm_config up to its register writes, for a chip with            *)
(* has_prescaler_bypass: the prescaler field, prd and dty, or an error.    *)
(* The loop stops at the first non-zero table entry whose count fits.      *)
PwmConfig(duty, period) ==
  LET bypass == Fits(BypassDiv(period))
      found == {i \in 0..(PWM_PRESCAL_MASK - 1) :
                  Table(i) # 0 /\ Fits(LoopDiv(i, period))}
      presc == IF bypass THEN PWM_PRESCAL_MASK
               ELSE IF found = {} THEN PWM_PRESCAL_MASK
               ELSE CHOOSE i \in found : \A j \in found : i <= j
      div == IF bypass THEN BypassDiv(period) ELSE LoopDiv(presc, period)
  IN IF ~bypass /\ found = {}
       THEN [ret |-> -EINVAL, presc |-> 0, prd |-> 0, dty |-> 0]
       ELSE [ret |-> 0, presc |-> presc, prd |-> div,
             dty |-> MulDiv(div, duty, period)]

-----------------------------------------------------------------------------
VARIABLES
  en, gate,        \* PWM_CTRL_REG PWM_EN and PWM_CLK_GATING of channel 0
  presc,           \* its prescaler field
  prdField,        \* PWM_CH_PRD(0) bits 31..16: prd - 1
  dtyField,        \* PWM_CH_PRD(0) bits 15..0: dty & PWM_DTY_MASK
  rdy,             \* PWM_RDY(0): a period register write not yet in use
  bpc,             \* cmd_backlight: "idle", "disable", "config", "enable", "done"
  ps,              \* its clamped percentage
  ret              \* what sun4i_pwm_config returned

vars == <<en, gate, presc, prdField, dtyField, rdy, bpc, ps, ret>>

(* Mutant of BacklightCmd: the clamp to 0..100 is missing.                 *)
BacklightCmdNoClamp ==
  /\ bpc = "idle" /\ ~rdy
  /\ \E a \in Levels : ps' = a
  /\ bpc' = "disable"
  /\ UNCHANGED <<en, gate, presc, prdField, dtyField, rdy, ret>>

(* cmd_backlight: ps = atol(argv[1]), clamped to 0..100.  A shell command  *)
(* comes long after the 2 ms period in which the hardware takes up the    *)
(* previous command's period register.                                    *)
BacklightCmd ==
  /\ bpc = "idle" /\ ~rdy
  /\ \E a \in Levels : ps' = IF a < 0 THEN 0 ELSE IF a > 100 THEN 100 ELSE a
  /\ bpc' = "disable"
  /\ UNCHANGED <<en, gate, presc, prdField, dtyField, rdy, ret>>

(* sun4i_pwm_disable(0): clear PWM_EN and PWM_CLK_GATING.                  *)
PwmDisable ==
  /\ bpc = "disable"
  /\ en' = FALSE /\ gate' = FALSE
  /\ bpc' = "config"
  /\ UNCHANGED <<presc, prdField, dtyField, rdy, ps, ret>>

(* Mutant of PwmConfigStep: PWM_PRD(prd) without the - 1.                  *)
PwmConfigStepNoMinus ==
  /\ bpc = "config"
  /\ LET r == PwmConfig((ps * BACKLIGHT_PERIOD) \div 100, BACKLIGHT_PERIOD)
     IN IF rdy \/ r.ret # 0
          THEN /\ ret' = IF rdy THEN -EBUSY ELSE r.ret
               /\ UNCHANGED <<presc, prdField, dtyField, rdy>>
          ELSE /\ ret' = 0
               /\ presc' = r.presc
               /\ prdField' = r.prd % 65536
               /\ dtyField' = r.dty % (PWM_DTY_MASK + 1)
               /\ rdy' = TRUE
  /\ bpc' = "enable"
  /\ UNCHANGED <<en, gate, ps>>

(* cmd_backlight's sun4i_pwm_config(0, ps * 2000000L / 100, 2000000L):     *)
(* -EBUSY while PWM_RDY is set; otherwise the prescaler field, then        *)
(* PWM_CH_PRD = (dty & PWM_DTY_MASK) | PWM_PRD(prd), which sets PWM_RDY.   *)
(* Clearing and restoring PWM_CLK_GATING around the writes leaves it as it *)
(* was; cmd_backlight ignores the return value.                            *)
PwmConfigStep ==
  /\ bpc = "config"
  /\ LET r == PwmConfig((ps * BACKLIGHT_PERIOD) \div 100, BACKLIGHT_PERIOD)
     IN IF rdy \/ r.ret # 0
          THEN /\ ret' = IF rdy THEN -EBUSY ELSE r.ret
               /\ UNCHANGED <<presc, prdField, dtyField, rdy>>
          ELSE /\ ret' = 0
               /\ presc' = r.presc
               /\ prdField' = (r.prd - 1) % 65536
               /\ dtyField' = r.dty % (PWM_DTY_MASK + 1)
               /\ rdy' = TRUE
  /\ bpc' = "enable"
  /\ UNCHANGED <<en, gate, ps>>

(* Mutant of PwmEnable: PWM_CLK_GATING is not set.                         *)
PwmEnableNoGate ==
  /\ bpc = "enable"
  /\ en' = TRUE
  /\ bpc' = "done"
  /\ UNCHANGED <<gate, presc, prdField, dtyField, rdy, ps, ret>>

(* sun4i_pwm_enable(0): set PWM_EN and PWM_CLK_GATING.                     *)
PwmEnable ==
  /\ bpc = "enable"
  /\ en' = TRUE /\ gate' = TRUE
  /\ bpc' = "done"
  /\ UNCHANGED <<presc, prdField, dtyField, rdy, ps, ret>>

(* The shell prints the level and takes the next command.                 *)
BacklightReturn ==
  /\ bpc = "done"
  /\ bpc' = "idle"
  /\ UNCHANGED <<en, gate, presc, prdField, dtyField, rdy, ps, ret>>

(* The running channel ends its period and takes up the written period    *)
(* register, clearing PWM_RDY.                                             *)
Latch ==
  /\ rdy /\ gate
  /\ rdy' = FALSE
  /\ UNCHANGED <<en, gate, presc, prdField, dtyField, bpc, ps, ret>>

(* sun4i_pwm_probe at rt_hw_pwm_init only records the base and clock: the *)
(* registers hold their reset value, the channel off.                     *)
Init ==
  /\ en = FALSE /\ gate = FALSE
  /\ presc = 0 /\ prdField = 0 /\ dtyField = 0
  /\ rdy = FALSE
  /\ bpc = "idle"
  /\ ps = 0
  /\ ret = 0

Next ==
  \/ BacklightCmd \/ PwmDisable \/ PwmConfigStep \/ PwmEnable
  \/ BacklightReturn \/ Latch

Spec == Init /\ [][Next]_vars

-----------------------------------------------------------------------------
TypeOK ==
  /\ en \in BOOLEAN /\ gate \in BOOLEAN /\ rdy \in BOOLEAN
  /\ presc \in 0..PWM_PRESCAL_MASK
  /\ prdField \in 0..PWM_PRD_MASK /\ dtyField \in 0..PWM_DTY_MASK
  /\ bpc \in {"idle", "disable", "config", "enable", "done"}
  /\ ps \in 0..100
  /\ ret \in {0, -EINVAL, -EBUSY}

(* When `backlight` returns, channel 0 runs (PWM_EN and PWM_CLK_GATING    *)
(* set, no prescaler) and its duty cycle, dty / (PRD field + 1), is        *)
(* exactly the clamped percentage: the clamp, the ns arithmetic of        *)
(* cmd_backlight, the rounding of sun4i_pwm_config and the PWM_PRD         *)
(* encoding lose nothing at the 2 ms period.                               *)
BacklightLevel ==
  bpc = "done" =>
    /\ en /\ gate /\ presc = PWM_PRESCAL_MASK
    /\ dtyField * 100 = ps * (prdField + 1)

(* The divider a prescaler field stands for: 0xF is the bypass.           *)
DividerOf(p) == IF p = PWM_PRESCAL_MASK THEN 1 ELSE Table(p)
Dividers == {1} \cup ({Table(i) : i \in 0..(PWM_PRESCAL_MASK - 1)} \ {0})

(* Reference: the period in ticks of the clock divided by q, rounded down. *)
Ideal(q, period) == MulDiv(CLK, period, NSEC_PER_SEC) \div q

(* For every input checked, sun4i_pwm_config either finds a setting whose *)
(* period count is encodable (1 to PWM_PRD_MASK + 1), within one tick of *)
(* the requested period, with no finer divider that would clearly have    *)
(* fitted, or fails with -EINVAL when no divider clearly fits.  This      *)
(* rests on the u64 wrap of `div - 1` for a zero count and on the order   *)
(* of the prescaler search.                                               *)
PwmConfigSound ==
  \A in \in ApiInputs :
    LET r == PwmConfig(in[1], in[2])
        Clear(q) == Ideal(q, in[2]) \in 2..PWM_PRD_MASK
    IN /\ r.ret = 0 =>
            /\ r.prd \in 1..(PWM_PRD_MASK + 1)
            /\ r.prd - Ideal(DividerOf(r.presc), in[2]) \in -1..1
            /\ \A q \in Dividers : q < DividerOf(r.presc) => ~Clear(q)
       /\ r.ret = -EINVAL => \A q \in Dividers : ~Clear(q)

(* A successful sun4i_pwm_config programs the duty it computed: dty fits  *)
(* the 16-bit duty field that `dty & PWM_DTY_MASK` keeps, as it must for  *)
(* any duty_ns <= period_ns, since the period count itself may be 65536.  *)
DutyNotTruncated ==
  \A in \in ApiInputs :
    LET r == PwmConfig(in[1], in[2])
    IN r.ret = 0 /\ in[1] <= in[2] => r.dty <= PWM_DTY_MASK
=============================================================================
