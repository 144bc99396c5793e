----------------------------- MODULE InitOrder -----------------------------
(***************************************************************************)
(* Automatic initialisation of the board's drivers.  Each driver exports   *)
(* its init function with an INIT_*_EXPORT macro, which puts a pointer to  *)
(* it in a linker section named after the level: INIT_BOARD_EXPORT "1"     *)
(* (run by rt_components_board_init from rt_hw_board_init), then           *)
(* INIT_PREV_EXPORT "2", INIT_DEVICE_EXPORT "3", INIT_ENV_EXPORT "5" and   *)
(* INIT_EXPORT(fn, "5.end"), run by rt_components_init in the main thread. *)
(* The linker sorts the sections by name and the loop calls the entries in *)
(* that order; entries of the same section come in the order the compiler  *)
(* and linker emitted them, which the source does not fix.                 *)
(*                                                                         *)
(* Section gives each init function the rank of its section.  An init     *)
(* function registers devices and starts threads; some of them look a      *)
(* device up by name, or use a bus another init function sets up, and     *)
(* lookups that find nothing are recorded in missing.                      *)
(***************************************************************************)
EXTENDS Integers, FiniteSets

CONSTANT Section   \* [init function -> rank of its linker section]

ASSUME \A f \in DOMAIN Section : Section[f] \in Nat

VARIABLES
  done,      \* init functions that have run
  devices,   \* names registered with the device framework
  threads,   \* threads the init functions started
  sfudRet,   \* what rt_hw_spi_sfud returned (0 before it ran)
  missing    \* <<init function, name>> it needed and did not find

vars == <<done, devices, threads, sfudRet, missing>>

Fns == DOMAIN Section

(* rt_components_init reaches an entry once every entry of an earlier     *)
(* section has returned; within a section any emitted order is possible.  *)
Due(f) ==
  /\ f \notin done
  /\ \A g \in Fns : Section[g] < Section[f] => g \in done

(* One init function: it looks up needs, registers regs, starts thr.      *)
Run(f, needs, regs, thr) ==
  /\ Due(f)
  /\ done' = done \cup {f}
  /\ devices' = devices \cup regs
  /\ threads' = threads \cup thr
  /\ missing' = missing \cup {<<f, n>> : n \in needs \ devices}

(* rt_hw_uart_init: uart_pin_config registers UART0's serial device.      *)
UartInit == Run("rt_hw_uart_init", {}, {"uart"}, {}) /\ UNCHANGED sfudRet

(* spibus_pin_config registers the bus "spi"; spidev_pin_config attaches  *)
(* the device "flash" to the bus it names.                                 *)
SpiPinConfig == {"spi", "flash"}

(* rt_hw_spi_init: sunxi_spi_probe, then the bus and the flash device.    *)
SpiInit == Run("rt_hw_spi_init", {}, SpiPinConfig, {}) /\ UNCHANGED sfudRet

(* rt_hw_spi_sfud: rt_sfud_flash_probe("sfud", "flash") finds the SPI     *)
(* device "flash" and registers the block device "sfud", or returns NULL, *)
(* and the function prints its failure and returns -1.                    *)
SpiSfud ==
  /\ Run("rt_hw_spi_sfud", {"flash"}, IF "flash" \in devices THEN {"sfud"} ELSE {}, {})
  /\ sfudRet' = IF "flash" \in devices THEN 0 ELSE -1

(* rt_hw_eth_init: sun8i_emac_eth_probe; on failure it returns at once,   *)
(* otherwise eth_device_init registers "e0" and the phy thread starts.    *)
EthInit ==
  /\ \E ok \in BOOLEAN :
       Run("rt_hw_eth_init", {}, IF ok THEN {"e0"} ELSE {}, IF ok THEN {"phy"} ELSE {})
  /\ UNCHANGED sfudRet

(* rt_hw_pin_init: rt_device_pin_register("pin").                         *)
PinInit == Run("rt_hw_pin_init", {}, {"pin"}, {}) /\ UNCHANGED sfudRet

(* rt_hw_pwm_init: sun4i_pwm_probe only; no device is registered.         *)
PwmInit == Run("rt_hw_pwm_init", {}, {}, {}) /\ UNCHANGED sfudRet

(* rt_hw_rtc_init: sun6i_rtc_probe, the device "rtc", its mutex, the TZ.   *)
RtcInit == Run("rt_hw_rtc_init", {}, {"rtc"}, {}) /\ UNCHANGED sfudRet

(* rt_hw_wdt_init: sunxi_wdt_probe, rt_hw_watchdog_register("wdt").       *)
WdtInit == Run("rt_hw_wdt_init", {}, {"wdt"}, {}) /\ UNCHANGED sfudRet

(* rt_hw_i2c_init: the pins of both buses, rt_i2c_bit_add_bus for "i2c0"  *)
(* and "i2c1".                                                             *)
I2cInit == Run("rt_hw_i2c_init", {}, {"i2c0", "i2c1"}, {}) /\ UNCHANGED sfudRet

(* rt_hw_tf_init: the host, the wait for a card, the sd_mon thread.        *)
TfInit == Run("rt_hw_tf_init", {}, {}, {"sd_mon"}) /\ UNCHANGED sfudRet

(* rt_hw_lcd_init: the device "lcd" and the lcd_touch thread, whose       *)
(* i2c_reg_readbuf calls use bit_i2c0.                                     *)
LcdInit == Run("rt_hw_lcd_init", {"i2c0"}, {"lcd"}, {"lcd_touch"}) /\ UNCHANGED sfudRet

(* Power on: nothing registered.                                           *)
Init ==
  /\ done = {} /\ devices = {} /\ threads = {}
  /\ sfudRet = 0 /\ missing = {}

(* rt_components_init has returned; main() runs.                           *)
Started == done = Fns /\ UNCHANGED vars

Next ==
  \/ UartInit \/ SpiInit \/ SpiSfud \/ EthInit \/ PinInit \/ PwmInit
  \/ RtcInit \/ WdtInit \/ I2cInit \/ TfInit \/ LcdInit \/ Started

Spec == Init /\ [][Next]_vars

-----------------------------------------------------------------------------
TypeOK ==
  /\ done \subseteq Fns
  /\ devices \subseteq {"uart", "spi", "flash", "sfud", "e0", "pin", "rtc", "wdt",
                        "i2c0", "i2c1", "lcd"}
  /\ threads \subseteq {"phy", "sd_mon", "lcd_touch"}
  /\ sfudRet \in {0, -1}
  /\ missing \subseteq Fns \X {"flash", "spi", "i2c0"}

(* Every device an init function looks up, and every bus it uses, has     *)
(* been set up by the time it runs, whatever order the entries of one     *)
(* section come in: rt_hw_spi_sfud finds "flash", the touch thread of     *)
(* rt_hw_lcd_init finds bit_i2c0 added.                                    *)
NoMissingDevice == missing = {}
=============================================================================
