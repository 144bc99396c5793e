--------------------------- MODULE MCPeripherals ---------------------------
(***************************************************************************)
(* One TLC run for the drivers that share no state with each other: the   *)
(* SD request translation and I/O configuration (SdHostOps), the timer    *)
(* delays (Udelay), the watchdog (Watchdog), the SPI bus (Spi), the PWM   *)
(* backlight (Pwm), the Ethernet link monitor (Emac), the LCD double      *)
(* buffer and touch thread (Lcd), the interrupt table with its three      *)
(* users (Irq), the order of the drivers' init functions (InitOrder), the *)
(* RTC's calendar fields (RtcTm) and, with working mounts and fast card detection, the SD   *)
(* hotplug monitor (SdHotplug).  Each behaviour                           *)
(* picks one driver in its initial state and runs only that driver's     *)
(* actions, the others keeping their initial values, so the reachable     *)
(* states are the disjoint union of the drivers' own state spaces rather  *)
(* than their product.  Since the drivers share no variable, every        *)
(* invariant and temporal property of one driver means the same here as   *)
(* in a run of its own.                                                   *)
(***************************************************************************)
EXTENDS Integers

VARIABLES
  drv,
  cmd, data, lastReq, clock, bus_width, hwClock, hwWidth,
  val, pc, msec, fromMs, usec, kv, tmo, last, elapsed, target,
  probed, msecs, intv, en, rst, cnt, reset, rebootPc, rebootArg, asked, armedFor,
  clkReg, modeReg, claimed, srst, csLevel, txFifo, rxFifo, xch, burst, shifted,
  cpc, xpc, msg, left, nb, txPos, rxBuf, held, nmsgs, askedHz, devPos, devSeen,
  msgStart,
  pwmEn, gate, presc, prdField, dtyField, rdy, bpc, ps, ret,
  phyLink, dmaErr, stackLink, initlink, ppc, flaps, errs, restarts,
  present, plugEvents, card, mounted, detectMb, hotplugMb, detectPc, err, req,
  initPc, monPc, status, plug, fails,
  index, fb, shown, drawn, upc, submitted, tpc, z1, x, y, recv, round,
  isr_table, gic, irqOn, boot, ier, uartOpen, rx, busy, tickPend, ethPend,
  macUp, hwFrames, ready, chars, busys, ticks, frames, stacked, noBufs, stalled,
  done, devices, threads, sfudRet, missing,
  tm, ymdReg, hmsReg, setRet, gotTm, getRet, tmPc

(* SdHostOps: every response class resp_type() yields for a valid command, *)
(* every combination of DATA_DIR_WRITE, DATA_DIR_READ and DATA_STREAM, two *)
(* clocks (freq_min and a transfer clock) and the widths MMCSD_BUS_WIDTH_1  *)
(* and MMCSD_BUS_WIDTH_4 that MMCSD_BUSWIDTH_4 allows.                      *)
H == INSTANCE SdHostOps WITH RespClasses <- 0..8, DataFlags <- 0..7,
                             Clocks <- {1, 2}, BusWidths <- {0, 2}

(* Udelay: four counts per timer period stand for the 240000 of            *)
(* TIMER_CLOCK / RT_TICK_PER_SECOND, one millisecond (3 counts) is shorter *)
(* than a period, as the real 24000 counts are, and a two-millisecond delay *)
(* spans a reload; a chunk size of 2 makes udelay split every call; the CPU *)
(* is slower than the timer, so every read sees one or two new counts.     *)
U == INSTANCE Udelay WITH TIMER_LOAD_VAL <- 4, COUNTS_PER_USEC <- 1,
                          USEC_PER_MSEC <- 3, WD_PERIOD <- 2, Gaps <- {1, 2},
                          MaxMsec <- 2, MaxUsec <- 3

(* Watchdog: SET_TIMEOUT arguments below, at and above both clamps and the *)
(* seconds without a code in wdt_timeout_map (7, 9, 15), which             *)
(* sunxi_wdt_set_timeout rounds up; every client command; `reboot` with no *)
(* argument (1), with those values, or with 20.                            *)
W == INSTANCE Watchdog WITH Args <- {-1, 0, 1, 7, 9, 15, 16, 17},
                            ClientCmds <- {"set", "start", "stop", "keepalive"},
                            RebootArgs <- {-1, 0, 1, 7, 9, 15, 16, 17, 20}

(* Spi: FIFOs of three bytes, so that the driver's chunks of FIFO_DEPTH - 1 *)
(* split a four-byte message in two; two messages, so that CS is held     *)
(* across a message boundary.  The speeds are the serial flash's 50 MHz,  *)
(* the controller's 24 MHz, 7 MHz (between two CDR2 clocks), 46875 Hz    *)
(* (the slowest CDR2 clock) and 100 Hz (below SUNXI_SPI_MIN_RATE, so on    *)
(* the CDR1 path).                                                         *)
S == INSTANCE Spi WITH FIFO_DEPTH <- 3, Lens <- {0, 1, 4}, MaxMsgs <- 2,
                       SpeedReqs <- {50000000, 24000000, 7000000, 46875, 100}

(* Pwm: the 24 MHz of rt_hw_pwm_init, `backlight` arguments below, inside  *)
(* and above 0..100, and sun4i_pwm_config inputs around its edges (a      *)
(* period too short for any count, the backlight's 2 ms, the longest      *)
(* bypass period and the first one past it, periods that need the 120 and *)
(* 480 prescalers) at half and at full duty.                              *)
PwmPeriods == {10, 2000000, 2730666, 2730688, 100000000, 1000000000}
P == INSTANCE Pwm WITH en <- pwmEn, CLK <- 24000000,
                       Levels <- {-5, 0, 37, 100, 150},
                       ApiInputs <- UNION {{<<p \div 2, p>>, <<p, p>>} : p \in PwmPeriods}

(* Emac: one PHY link change and one DMA error, each before or after the  *)
(* thread reported the link.                                               *)
E == INSTANCE Emac WITH MaxFlaps <- 1, MaxDmaErrs <- 1

(* SdHotplug: the bounds of MCSdHotplug (two failures above the threshold *)
(* cross it, mailboxes of two, two plug events), with identification      *)
(* inside the 5000 ms wait and mounts that succeed, under its fairness.   *)
D == INSTANCE SdHotplug WITH FaultThreshold <- 2, MbSize <- 2, MaxPlugEvents <- 2,
                             SlowDetect <- FALSE, MountCanFail <- FALSE

(* Lcd: the one graphics thread that calls RECT_UPDATE, three frames (two *)
(* flips bring the index back to buffer 0) and three touch rounds.        *)
L == INSTANCE Lcd WITH Updaters <- {"gui"}, MaxFrames <- 3, MaxRounds <- 3

(* Irq: two characters (one waiting before UART0 is opened, one after),  *)
(* one busy-detect event, two timer expiries and two frames, so that a     *)
(* frame can arrive while the previous one is being read, and one failed  *)
(* pbuf_alloc, which may hit either frame.                                *)
I == INSTANCE Irq WITH MaxChars <- 2, MaxBusy <- 1, MaxTicks <- 2, MaxFrames <- 2,
                       MaxNoBuf <- 1

(* InitOrder: the init functions of this repository and their sections,  *)
(* ranked 2k for section "k" and 2k + 1 for "k.end" so that the ranks sort *)
(* as the linker sorts the section names: INIT_BOARD_EXPORT at             *)
(* drv_uart.c:165, INIT_PREV_EXPORT at drv_spi.c:132 and 143,              *)
(* INIT_DEVICE_EXPORT at drv_emac.c:280, drv_gpio.c:41, drv_pwm.c:39,      *)
(* drv_rtc.c:114 and drv_wdt.c:94, INIT_ENV_EXPORT at drv_i2c.c:91 and     *)
(* drv_tf.c:245, INIT_EXPORT(rt_hw_lcd_init, "5.end") at drv_lcd.c:160.    *)
InitSections ==
  [f \in {"rt_hw_uart_init", "rt_hw_spi_init", "rt_hw_spi_sfud", "rt_hw_eth_init",
          "rt_hw_pin_init", "rt_hw_pwm_init", "rt_hw_rtc_init", "rt_hw_wdt_init",
          "rt_hw_i2c_init", "rt_hw_tf_init", "rt_hw_lcd_init"} |->
     CASE f = "rt_hw_uart_init" -> 2
       [] f \in {"rt_hw_spi_init", "rt_hw_spi_sfud"} -> 4
       [] f \in {"rt_hw_i2c_init", "rt_hw_tf_init"} -> 10
       [] f = "rt_hw_lcd_init" -> 11
       [] OTHER -> 6]
N == INSTANCE InitOrder WITH Section <- InitSections

(* RtcTm: the struct tm localtime gives for times with a 32-bit time_t   *)
(* (1970..2038) in the years that matter to the packing: the first and    *)
(* last the RTC holds, the first past it, 2000 (leap by the 400 rule), a  *)
(* leap and a common year; every month; the first day and the last days  *)
(* a month can have; midnight and the last second of the day.  The days  *)
(* per month are the Gregorian ones, which between 1901 and 2099 make     *)
(* every fourth year leap.  Before the set the RTC holds zeros or         *)
(* 1970-01-01 00:00:00.                                                   *)
RtcYears == {1970, 2000, 2023, 2024, 2033, 2034}
CalendarDays(m, yr) ==
  CASE m = 1 -> IF yr % 4 = 0 THEN 29 ELSE 28
    [] m \in {3, 5, 8, 10} -> 30
    [] OTHER -> 31
RtcTms ==
  {t \in [year : {yr - 1900 : yr \in RtcYears}, mon : 0..11, mday : {1, 28, 29, 30, 31},
          hour : {0, 23}, min : {0, 59}, sec : {0, 59}] :
     /\ t.mday <= CalendarDays(t.mon, t.year + 1900)
     /\ <<t.hour, t.min, t.sec>> \in {<<0, 0, 0>>, <<23, 59, 59>>}}
RtcEpoch == [year |-> 70, mon |-> 0, mday |-> 1, hour |-> 0, min |-> 0, sec |-> 0]
T == INSTANCE RtcTm WITH Tms <- RtcTms, PriorRegs <- {<<0, 0>>, <<257, 0>>}

Drivers == {"sdhost", "delay", "wdt", "spi", "pwm", "emac", "hotplug", "lcd", "irq", "init", "rtctm"}

hvars == <<cmd, data, lastReq, clock, bus_width, hwClock, hwWidth>>
uvars == <<val, pc, msec, fromMs, usec, kv, tmo, last, elapsed, target>>
wvars == <<probed, msecs, intv, en, rst, cnt, reset, rebootPc, rebootArg,
           asked, armedFor>>
svars == <<clkReg, modeReg, claimed, srst, csLevel, txFifo, rxFifo, xch, burst,
           shifted, cpc, xpc, msg, left, nb, txPos, rxBuf, held, nmsgs, askedHz,
           devPos, devSeen, msgStart>>
pvars == <<pwmEn, gate, presc, prdField, dtyField, rdy, bpc, ps, ret>>
evars == <<phyLink, dmaErr, stackLink, initlink, ppc, flaps, errs, restarts>>
dvars == <<present, plugEvents, card, mounted, detectMb, hotplugMb, detectPc,
           err, req, initPc, monPc, status, plug, fails>>
lvars == <<index, fb, shown, drawn, upc, submitted, tpc, z1, x, y, recv, round>>
ivars == <<isr_table, gic, irqOn, boot, ier, uartOpen, rx, busy, tickPend,
           ethPend, macUp, hwFrames, ready, chars, busys, ticks, frames,
           stacked, noBufs, stalled>>
nvars == <<done, devices, threads, sfudRet, missing>>
tvars == <<tm, ymdReg, hmsReg, setRet, gotTm, getRet, tmPc>>
vars == <<drv, hvars, uvars, wvars, svars, pvars, evars, dvars, lvars, ivars, nvars,
          tvars>>

(* The drivers not chosen keep one of their initial states, so that their *)
(* initial choices do not multiply the chosen driver's states.            *)
Init ==
  /\ drv \in Drivers
  /\ H!Init /\ U!Init /\ W!Init /\ S!Init /\ P!Init /\ E!Init /\ D!Init /\ L!Init /\ I!Init
  /\ N!Init /\ T!Init
  /\ drv # "delay" => val = 0
  /\ drv # "emac" => phyLink = 0 /\ ppc = "none"
  /\ drv # "hotplug" => ~present
  /\ drv # "rtctm" => tm = RtcEpoch /\ ymdReg = 0

(* A step of one driver's action A; the other drivers' variables stay.   *)
HostStep(A) == drv = "sdhost" /\ A /\ UNCHANGED <<drv, uvars, wvars, svars, pvars, evars, dvars, lvars, ivars, nvars, tvars>>
DelayStep(A) == drv = "delay" /\ A /\ UNCHANGED <<drv, hvars, wvars, svars, pvars, evars, dvars, lvars, ivars, nvars, tvars>>
WdtStep(A) == drv = "wdt" /\ A /\ UNCHANGED <<drv, hvars, uvars, svars, pvars, evars, dvars, lvars, ivars, nvars, tvars>>
SpiStep(A) == drv = "spi" /\ A /\ UNCHANGED <<drv, hvars, uvars, wvars, pvars, evars, dvars, lvars, ivars, nvars, tvars>>
PwmStep(A) == drv = "pwm" /\ A /\ UNCHANGED <<drv, hvars, uvars, wvars, svars, evars, dvars, lvars, ivars, nvars, tvars>>
EmacStep(A) == drv = "emac" /\ A /\ UNCHANGED <<drv, hvars, uvars, wvars, svars, pvars, dvars, lvars, ivars, nvars, tvars>>
HotplugStep(A) == drv = "hotplug" /\ A /\ UNCHANGED <<drv, hvars, uvars, wvars, svars, pvars, evars, lvars, ivars, nvars, tvars>>
LcdStep(A) == drv = "lcd" /\ A /\ UNCHANGED <<drv, hvars, uvars, wvars, svars, pvars, evars, dvars, ivars, nvars, tvars>>

InitStep(A) == drv = "init" /\ A /\ UNCHANGED <<drv, hvars, uvars, wvars, svars, pvars, evars, dvars, lvars, ivars, tvars>>
RtcTmStep(A) == drv = "rtctm" /\ A /\ UNCHANGED <<drv, hvars, uvars, wvars, svars, pvars, evars, dvars, lvars, ivars, nvars>>
IrqStep(A) == drv = "irq" /\ A /\ UNCHANGED <<drv, hvars, uvars, wvars, svars, pvars, evars, dvars, lvars, nvars, tvars>>

Next ==
  \/ HostStep(H!Next)
  \/ DelayStep(U!Next)
  \/ WdtStep(W!Next)
  \/ SpiStep(S!Next)
  \/ PwmStep(P!Next)
  \/ EmacStep(E!Next)
  \/ HotplugStep(D!Next)
  \/ LcdStep(L!Next)
  \/ IrqStep(I!Next)
  \/ InitStep(N!Next)
  \/ RtcTmStep(T!Next)

(* The fairness of the drivers' FairSpecs: Udelay's (the delaying thread  *)
(* keeps running), Spi's (the controller and the driver's loop move on),   *)
(* Emac's (the phy thread keeps waking), SdHotplug's (every thread        *)
(* runs, a card in the slot answers, the host mutex is fair) and Irq's    *)
(* (the main and receive threads run, the GIC delivers).                  *)
Spec ==
  /\ Init /\ [][Next]_vars
  /\ WF_vars(DelayStep(U!MdelayStep)) /\ WF_vars(DelayStep(U!UdelayChunk))
  /\ WF_vars(DelayStep(U!UdelayLoop)) /\ WF_vars(DelayStep(U!UdelayReturn))
  /\ WF_vars(SpiStep(S!SrstDone)) /\ WF_vars(SpiStep(S!ClaimRest))
  /\ WF_vars(SpiStep(S!HwShift)) /\ WF_vars(SpiStep(S!SpiChunk))
  /\ WF_vars(SpiStep(S!SpiDrain)) /\ WF_vars(SpiStep(S!SpiXferEnd))
  /\ WF_vars(SpiStep(S!SpiReturn))
  /\ WF_vars(EmacStep(E!PhyStart)) /\ WF_vars(EmacStep(E!CheckLink))
  /\ WF_vars(EmacStep(E!CheckDma))
  /\ WF_vars(HotplugStep(D!Request)) /\ SF_vars(HotplugStep(D!CmdOk))
  /\ WF_vars(HotplugStep(D!TfInit)) /\ WF_vars(HotplugStep(D!Monitor))
  /\ SF_vars(HotplugStep(D!DetectRemove)) /\ SF_vars(HotplugStep(D!DetectInitStart))
  /\ WF_vars(HotplugStep(D!DetectInitDone))
  /\ WF_vars(IrqStep(I!BoardInit)) /\ WF_vars(IrqStep(I!EthProbe))
  /\ WF_vars(IrqStep(I!EthInstall)) /\ WF_vars(IrqStep(I!EthUmask))
  /\ WF_vars(IrqStep(I!EthRx))
  /\ \A v \in I!Vectors : WF_vars(IrqStep(I!Dispatch(v)))

-----------------------------------------------------------------------------
(* Each of the drivers' properties, as its module states it.               *)

(* The types of the SD host state.                                         *)
HostTypeOK == H!TypeOK
(* mmc_conv_reqtommc gives every command the response and data flags its   *)
(* response class and data direction call for.                             *)
HostTranslationCorrect == H!TranslationCorrect
(* mmc_mci_set_iocfg keeps the recorded clock and width equal to the       *)
(* hardware's.                                                             *)
HostHwMatchesRecord == H!HwMatchesRecord

(* The types of the delay state.                                           *)
DelayTypeOK == U!TypeOK
(* mdelay and udelay wait at least as long as asked.                       *)
DelayLongEnough == U!DelayLongEnough
(* Every mdelay and udelay returns.                                        *)
DelayReturns == U!DelayReturns

(* The types of the watchdog state.                                        *)
WdtTypeOK == W!TypeOK
(* A running watchdog fires within a second after the interval last asked  *)
(* for before its start.                                                   *)
WdtTimeoutHonoured == W!TimeoutHonoured

(* The types of the SPI state.                                             *)
SpiTypeOK == S!TypeOK
(* sunxi_spi_xfer reads every burst back before the next: the RX FIFO     *)
(* never overflows.                                                        *)
SpiRxFifoBound == S!RxFifoBound
(* spi_xfer sends exactly the message's bytes and receives their answers.  *)
SpiXferDelivers == S!XferDelivers
(* No byte is clocked while CS is high.                                    *)
SpiCsFraming == S!CsFraming
(* Every spi_xfer returns.                                                 *)
SpiXferReturns == S!XferReturns

(* The types of the PWM state.                                             *)
PwmTypeOK == P!TypeOK
(* `backlight` leaves channel 0 running at exactly the clamped percentage. *)
PwmBacklightLevel == P!BacklightLevel
(* sun4i_pwm_config finds the finest encodable divider, or fails when     *)
(* there is none.  The formula is constant; it is evaluated in the PWM     *)
(* driver's states only, which is enough and keeps the run short.         *)
PwmConfigSound == drv = "pwm" => P!PwmConfigSound

(* The types of the Ethernet link monitor's state.                         *)
EmacTypeOK == E!TypeOK

(* sd_mon's status says PLUGED exactly when the core holds a card.        *)
HotplugBeliefConsistent == D!MonitorBeliefConsistent
(* A forced re-plug follows more than FaultThreshold failures in a row.    *)
HotplugForcedReplugJustified == D!ForcedReplugJustified
(* A card left in the slot after bring-up is mounted infinitely often.     *)
HotplugRemount == D!Remount
(* The types of the LCD state.                                             *)
LcdTypeOK == L!TypeOK
(* RECT_UPDATE never copies into the frame buffer the composer scans out.  *)
LcdNoWriteToShown == L!NoWriteToShown
(* Between RECT_UPDATE calls the display shows the last submitted frame.   *)
LcdShowsLatest == L!ShowsLatest
(* A touch round marked received holds Z1, X and Y all from that round.    *)
LcdTouchSampleFresh == L!TouchSampleFresh

(* The types of the interrupt state.                                       *)
IrqTypeOK == I!TypeOK
(* Every vector unmasked while the CPU takes interrupts has a handler.     *)
IrqHandlerBeforeUnmask == I!HandlerBeforeUnmask
(* An unmasked asserted line is eventually deasserted or masked.           *)
IrqQuiesces == I!IrqQuiesces
(* Characters waiting while UART0 is open reach the serial core.           *)
IrqUartRxDelivered == I!UartRxDelivered
IrqEthNoFrameLost == I!EthNoFrameLost

(* Every device an init function looks up has been registered before it   *)
(* runs, in every order the build may give entries of one section.        *)
InitNoMissingDevice == N!NoMissingDevice

(* A time in the RTC's range that RT_DEVICE_CTRL_RTC_SET_TIME writes,     *)
(* RT_DEVICE_CTRL_RTC_GET_TIME reads back field for field and valid.      *)
RtcTmRoundTrip == T!TmRoundTrip
=============================================================================
