-------------------------------- MODULE Irq --------------------------------
(***************************************************************************)
(* Interrupts of the board: the handler table and GIC masking of           *)
(* src/cpu/interrupt.c and the three vectors that use them.                *)
(*   50  the tick timer: rt_hw_tick_init installs clock_irq and unmasks.   *)
(*   32  UART0: rt_hw_uart_init installs rt_hw_uart_isr and masks; the     *)
(*       serial core's RT_DEVICE_CTRL_SET_INT / CLR_INT (uart_control)     *)
(*       sets / clears the receive enable in IER and unmasks / masks.      *)
(*  114  the EMAC: rt_hw_eth_init probes the MAC, installs _enet_isr and   *)
(*       unmasks; _enet_isr calls eth_device_ready and clears bit 0x100.  *)
(*                                                                         *)
(* rtthread_startup runs rt_hw_board_init with interrupts disabled and     *)
(* enables them when the scheduler starts; device initialisation then runs *)
(* in the main thread with interrupts on.  An interrupt line is level      *)
(* triggered: while its source is pending and the GIC has it unmasked the  *)
(* CPU takes it and calls isr_table[vector].handler, which runs to the     *)
(* end.  Characters, busy-detect events, timer expiries and frames are     *)
(* hardware inputs, bounded by the constants.                              *)
(***************************************************************************)
EXTENDS Integers
LOCAL INSTANCE SequencesExt

CONSTANTS
  MaxChars,     \* characters arriving at UART0 during a behaviour
  MaxBusy,      \* busy-detect events (LCR written while busy)
  MaxTicks,     \* expiries of timer 0
  MaxFrames,    \* Ethernet frames the MAC receives
  MaxNoBuf      \* pbuf_alloc failures in _emac_rx

ASSUME {MaxChars, MaxBusy, MaxTicks, MaxFrames, MaxNoBuf} \subseteq Nat

MAX_HANDLERS == 160
UART == 32
TICK == 50
EMAC == 114
Vectors == {UART, TICK, EMAC}
Handlers == {"none", "rt_hw_uart_isr", "clock_irq", "_enet_isr"}

VARIABLES
  isr_table,   \* the handler of each vector
  gic,         \* the GIC enable bit of each vector
  irqOn,       \* the CPU takes interrupts (scheduler started)
  boot,        \* main thread: "board", "probe", "install", "umask", "done"
  ier,         \* UART IER bit 0, receive data interrupt enable
  uartOpen,    \* UART0 opened with RT_DEVICE_FLAG_INT_RX
  rx,          \* characters in the UART receive FIFO
  busy,        \* the busy-detect interrupt is pending
  tickPend,    \* timer 0's bit in tirqsta
  ethPend,     \* EMAC_INT_STA bit 0x100
  macUp,       \* sun8i_emac_eth_probe succeeded
  hwFrames,    \* frames the MAC holds that the stack has not read
  ready,       \* eth_device_ready has woken the Ethernet receive thread
  chars, busys, ticks, frames,  \* hardware events so far
  stacked,     \* frames _emac_rx has handed to the stack
  noBufs,      \* pbuf_alloc failures so far
  stalled      \* the receive thread stopped on a failed pbuf_alloc

vars == <<isr_table, gic, irqOn, boot, ier, uartOpen, rx, busy, tickPend,
          ethPend, macUp, hwFrames, ready, chars, busys, ticks, frames,
          stacked, noBufs, stalled>>
ethRxVars == <<stacked, noBufs, stalled>>

(* rt_hw_interrupt_install: when vector < MAX_HANDLERS and the handler is  *)
(* not NULL, store it (with its parameter).                                *)
Install(table, v, h) ==
  IF v < MAX_HANDLERS /\ h # "none" THEN [table EXCEPT ![v] = h] ELSE table

(* rt_hw_interrupt_umask / rt_hw_interrupt_mask: gic_enable_irq.           *)
Umask(g, v) == [g EXCEPT ![v] = TRUE]
Mask(g, v) == [g EXCEPT ![v] = FALSE]

(* The interrupt line of each vector.                                      *)
Asserted(v) ==
  CASE v = UART -> (ier /\ rx > 0) \/ busy
    [] v = TICK -> tickPend
    [] v = EMAC -> ethPend

(* rt_hw_interrupt_mask / rt_hw_interrupt_umask / rt_hw_interrupt_install *)
(* as one call on the table t and the GIC enables g.                       *)
Call(s, c) ==
  CASE c.op = "install" -> [s EXCEPT !.t = Install(@, c.v, c.h)]
    [] c.op = "umask" -> [s EXCEPT !.g = Umask(@, c.v)]
    [] c.op = "mask" -> [s EXCEPT !.g = Mask(@, c.v)]

(* rt_hw_interrupt_init: gic_init leaves every vector disabled, and        *)
(* isr_table is cleared.                                                   *)
InterruptInit == [t |-> [v \in Vectors |-> "none"], g |-> [v \in Vectors |-> FALSE]]

(* rt_hw_tick_init: tick_timer_init starts timer 0, then install 50 and    *)
(* umask 50.                                                               *)
TickInitCalls ==
  << [op |-> "install", v |-> TICK, h |-> "clock_irq"], [op |-> "umask", v |-> TICK] >>

(* rt_hw_uart_init's uart_pin_config: install the ISR, mask the vector,    *)
(* register the serial device.                                             *)
UartInitCalls ==
  << [op |-> "install", v |-> UART, h |-> "rt_hw_uart_isr"], [op |-> "mask", v |-> UART] >>

(* rt_hw_board_init: rt_hw_interrupt_init, rt_hw_tick_init, then the board *)
(* components (rt_hw_uart_init is the one INIT_BOARD_EXPORT).  The         *)
(* scheduler then starts and the CPU takes interrupts.                     *)
BoardInit ==
  /\ boot = "board"
  /\ LET s == FoldLeft(Call, InterruptInit, TickInitCalls \o UartInitCalls)
     IN isr_table' = s.t /\ gic' = s.g
  /\ irqOn' = TRUE
  /\ boot' = "probe"
  /\ UNCHANGED <<ier, uartOpen, rx, busy, tickPend, ethPend, macUp, hwFrames,
                 ready, chars, busys, ticks, frames>>
  /\ UNCHANGED ethRxVars

(* Mutant of EthProbe: the install is skipped.                             *)
EthProbeNoInstall ==
  /\ boot = "probe"
  /\ \E ok \in BOOLEAN : macUp' = ok /\ boot' = IF ok THEN "umask" ELSE "done"
  /\ UNCHANGED <<isr_table, gic, irqOn, ier, uartOpen, rx, busy, tickPend,
                 ethPend, hwFrames, ready, chars, busys, ticks, frames>>
  /\ UNCHANGED ethRxVars

(* rt_hw_eth_init: sun8i_emac_eth_probe; on failure return ret.            *)
EthProbe ==
  /\ boot = "probe"
  /\ \E ok \in BOOLEAN : macUp' = ok /\ boot' = IF ok THEN "install" ELSE "done"
  /\ UNCHANGED <<isr_table, gic, irqOn, ier, uartOpen, rx, busy, tickPend,
                 ethPend, hwFrames, ready, chars, busys, ticks, frames>>
  /\ UNCHANGED ethRxVars

(* eth_device_init, then rt_hw_interrupt_install(114, _enet_isr, ...).     *)
EthInstall ==
  /\ boot = "install"
  /\ isr_table' = Install(isr_table, EMAC, "_enet_isr")
  /\ boot' = "umask"
  /\ UNCHANGED <<gic, irqOn, ier, uartOpen, rx, busy, tickPend, ethPend, macUp,
                 hwFrames, ready, chars, busys, ticks, frames>>
  /\ UNCHANGED ethRxVars

(* rt_hw_interrupt_umask(114); the phy thread is created.                  *)
EthUmask ==
  /\ boot = "umask"
  /\ gic' = Umask(gic, EMAC)
  /\ boot' = "done"
  /\ UNCHANGED <<isr_table, irqOn, ier, uartOpen, rx, busy, tickPend, ethPend,
                 macUp, hwFrames, ready, chars, busys, ticks, frames>>
  /\ UNCHANGED ethRxVars

(* Mutant of SetInt: the vector is unmasked but IER is not written.        *)
SetIntNoIer ==
  /\ irqOn /\ ~uartOpen
  /\ gic' = Umask(gic, UART)
  /\ uartOpen' = TRUE
  /\ UNCHANGED <<isr_table, irqOn, boot, ier, rx, busy, tickPend, ethPend,
                 macUp, hwFrames, ready, chars, busys, ticks, frames>>
  /\ UNCHANGED ethRxVars

(* uart_control(RT_DEVICE_CTRL_SET_INT), from rt_serial_open with INT_RX:  *)
(* IER |= 0x01; rt_hw_interrupt_umask(irqno).                              *)
SetInt ==
  /\ irqOn /\ ~uartOpen
  /\ ier' = TRUE
  /\ gic' = Umask(gic, UART)
  /\ uartOpen' = TRUE
  /\ UNCHANGED <<isr_table, irqOn, boot, rx, busy, tickPend, ethPend, macUp,
                 hwFrames, ready, chars, busys, ticks, frames>>
  /\ UNCHANGED ethRxVars

(* uart_control(RT_DEVICE_CTRL_CLR_INT), from rt_serial_close: IER = 0;    *)
(* rt_hw_interrupt_mask(irqno).                                            *)
ClrInt ==
  /\ uartOpen
  /\ ier' = FALSE
  /\ gic' = Mask(gic, UART)
  /\ uartOpen' = FALSE
  /\ UNCHANGED <<isr_table, irqOn, boot, rx, busy, tickPend, ethPend, macUp,
                 hwFrames, ready, chars, busys, ticks, frames>>
  /\ UNCHANGED ethRxVars

(* Hardware: a character enters the receive FIFO.                          *)
CharArrives ==
  /\ chars < MaxChars
  /\ rx' = rx + 1 /\ chars' = chars + 1
  /\ UNCHANGED <<isr_table, gic, irqOn, boot, ier, uartOpen, busy, tickPend,
                 ethPend, macUp, hwFrames, ready, busys, ticks, frames>>
  /\ UNCHANGED ethRxVars

(* Hardware: the DW UART raises its busy-detect interrupt (IIR 0x07).      *)
BusyDetect ==
  /\ busys < MaxBusy /\ boot # "board"
  /\ busy' = TRUE /\ busys' = busys + 1
  /\ UNCHANGED <<isr_table, gic, irqOn, boot, ier, uartOpen, rx, tickPend,
                 ethPend, macUp, hwFrames, ready, chars, ticks, frames>>
  /\ UNCHANGED ethRxVars

(* Hardware: timer 0, started by tick_timer_init, reaches zero.            *)
TimerExpires ==
  /\ ticks < MaxTicks /\ boot # "board"
  /\ tickPend' = TRUE /\ ticks' = ticks + 1
  /\ UNCHANGED <<isr_table, gic, irqOn, boot, ier, uartOpen, rx, busy, ethPend,
                 macUp, hwFrames, ready, chars, busys, frames>>
  /\ UNCHANGED ethRxVars

(* Hardware: the probed MAC receives a frame and sets bit 0x100.           *)
FrameArrives ==
  /\ macUp /\ frames < MaxFrames
  /\ hwFrames' = hwFrames + 1 /\ ethPend' = TRUE /\ frames' = frames + 1
  /\ UNCHANGED <<isr_table, gic, irqOn, boot, ier, uartOpen, rx, busy,
                 tickPend, macUp, ready, chars, busys, ticks>>
  /\ UNCHANGED ethRxVars

(* Mutant of UartIsr: one character is taken whenever IER is set, even     *)
(* from an empty FIFO.                                                     *)
UartIsrUnderflow ==
  IF ier THEN /\ rx' = rx - 1 /\ UNCHANGED busy
  ELSE IF busy THEN /\ busy' = FALSE /\ UNCHANGED rx
  ELSE UNCHANGED <<rx, busy>>

(* Mutant of UartIsr: busy detect (0x07) is not handled.                   *)
UartIsrNoUsr ==
  IF ier /\ rx > 0 THEN /\ rx' = 0 /\ UNCHANGED busy
                   ELSE UNCHANGED <<rx, busy>>

(* rt_hw_uart_isr: ir = IIR & 0x0f names the highest cause pending.  0x04  *)
(* or 0x0c: rt_hw_serial_isr(RX_IND), which calls uart_getc until it       *)
(* returns -1 (USR bit 0x08 clear), emptying the FIFO; 0x07: reading USR   *)
(* clears busy detect.  0x06, 0x00 and 0x02 (line status, modem status,    *)
(* THR empty) are not enabled in IER and cannot be pending.                *)
UartIsr ==
  IF ier /\ rx > 0 THEN /\ rx' = 0 /\ UNCHANGED busy
  ELSE IF busy THEN /\ busy' = FALSE /\ UNCHANGED rx
  ELSE UNCHANGED <<rx, busy>>

(* clock_irq: tick_timer_ack clears tirqsta; rt_tick_increase.             *)
ClockIrq == tickPend' = FALSE

EnetIsr == ready' = TRUE /\ ethPend' = FALSE

(* The CPU takes an unmasked, asserted vector and calls its handler from   *)
(* isr_table; an empty entry is acknowledged without a call.  The trap     *)
(* code that does this is RT-Thread's, not in this repository: this is an *)
(* assumption about the environment of the handlers.                      *)
Dispatch(v) ==
  /\ irqOn /\ gic[v] /\ Asserted(v)
  /\ CASE isr_table[v] = "rt_hw_uart_isr" -> UartIsr /\ UNCHANGED <<tickPend, ethPend, ready>>
       [] isr_table[v] = "clock_irq" -> ClockIrq /\ UNCHANGED <<rx, busy, ethPend, ready>>
       [] isr_table[v] = "_enet_isr" -> EnetIsr /\ UNCHANGED <<rx, busy, tickPend>>
       [] isr_table[v] = "none" -> UNCHANGED <<rx, busy, tickPend, ethPend, ready>>
  /\ UNCHANGED <<isr_table, gic, irqOn, boot, ier, uartOpen, macUp, hwFrames,
                 chars, busys, ticks, frames>>
  /\ UNCHANGED ethRxVars

(* Mutant of EthRx: on a pbuf_alloc failure the frame is released with    *)
(* _sun8i_free_pkt before the break.                                       *)
EthRxNoBufDrops ==
  /\ ready
  /\ \/ /\ hwFrames = 0
        /\ ready' = FALSE
        /\ UNCHANGED <<hwFrames, stacked, noBufs, stalled>>
     \/ /\ hwFrames > 0
        /\ hwFrames' = hwFrames - 1 /\ stacked' = stacked + 1
        /\ stalled' = FALSE
        /\ UNCHANGED <<ready, noBufs>>
     \/ /\ hwFrames > 0 /\ noBufs < MaxNoBuf
        /\ ready' = FALSE /\ hwFrames' = hwFrames - 1
        /\ noBufs' = noBufs + 1 /\ stalled' = TRUE
        /\ UNCHANGED stacked
  /\ UNCHANGED <<isr_table, gic, irqOn, boot, ier, uartOpen, rx, busy, tickPend,
                 ethPend, macUp, chars, busys, ticks, frames>>

(* One call of _emac_rx by the Ethernet receive thread, woken by           *)
(* eth_device_ready, which calls it until it returns NULL.                 *)
(* _sun8i_eth_recv finds no frame: NULL, the thread waits again.  A frame  *)
(* and a pbuf: the frame is copied, released with _sun8i_free_pkt and      *)
(* handed to the stack.  A frame and no pbuf: NULL, the frame stays in the *)
(* MAC and the thread waits for the next eth_device_ready.                 *)
EthRx ==
  /\ ready
  /\ \/ /\ hwFrames = 0
        /\ ready' = FALSE
        /\ UNCHANGED <<hwFrames, stacked, noBufs, stalled>>
     \/ /\ hwFrames > 0
        /\ hwFrames' = hwFrames - 1 /\ stacked' = stacked + 1
        /\ stalled' = FALSE
        /\ UNCHANGED <<ready, noBufs>>
     \/ /\ hwFrames > 0 /\ noBufs < MaxNoBuf
        /\ ready' = FALSE
        /\ noBufs' = noBufs + 1 /\ stalled' = TRUE
        /\ UNCHANGED <<hwFrames, stacked>>
  /\ UNCHANGED <<isr_table, gic, irqOn, boot, ier, uartOpen, rx, busy, tickPend,
                 ethPend, macUp, chars, busys, ticks, frames>>

(* Power on: nothing installed or enabled, interrupts off.                 *)
Init ==
  /\ isr_table = [v \in Vectors |-> "none"]
  /\ gic = [v \in Vectors |-> FALSE]
  /\ irqOn = FALSE /\ boot = "board"
  /\ ier = FALSE /\ uartOpen = FALSE /\ rx = 0 /\ busy = FALSE
  /\ tickPend = FALSE /\ ethPend = FALSE /\ macUp = FALSE
  /\ hwFrames = 0 /\ ready = FALSE
  /\ chars = 0 /\ busys = 0 /\ ticks = 0 /\ frames = 0
  /\ stacked = 0 /\ noBufs = 0 /\ stalled = FALSE

Next ==
  \/ BoardInit \/ EthProbe \/ EthInstall \/ EthUmask
  \/ SetInt \/ ClrInt
  \/ CharArrives \/ BusyDetect \/ TimerExpires \/ FrameArrives
  \/ \E v \in Vectors : Dispatch(v)
  \/ EthRx

Spec == Init /\ [][Next]_vars

(* The main thread runs its initialisation; the GIC delivers every         *)
(* unmasked asserted line while the CPU takes interrupts; the woken        *)
(* receive thread runs.  Opening and closing UART0 is up to its users.     *)
FairSpec ==
  /\ Spec
  /\ WF_vars(BoardInit) /\ WF_vars(EthProbe) /\ WF_vars(EthInstall)
  /\ WF_vars(EthUmask) /\ WF_vars(EthRx)
  /\ \A v \in Vectors : WF_vars(Dispatch(v))

-----------------------------------------------------------------------------
TypeOK ==
  /\ isr_table \in [Vectors -> Handlers] /\ gic \in [Vectors -> BOOLEAN]
  /\ boot \in {"board", "probe", "install", "umask", "done"}
  /\ {irqOn, ier, uartOpen, busy, tickPend, ethPend, macUp, ready} \subseteq BOOLEAN
  /\ rx \in 0..MaxChars /\ hwFrames \in 0..MaxFrames
  /\ chars \in 0..MaxChars /\ busys \in 0..MaxBusy
  /\ ticks \in 0..MaxTicks /\ frames \in 0..MaxFrames
  /\ stacked \in 0..MaxFrames /\ noBufs \in 0..MaxNoBuf /\ stalled \in BOOLEAN

(* Every vector the GIC lets through, once the CPU takes interrupts, has a *)
(* handler in isr_table: rt_hw_tick_init and rt_hw_eth_init install before *)
(* they unmask, and SET_INT only unmasks the UART vector that              *)
(* uart_pin_config installed at board initialisation.                      *)
HandlerBeforeUnmask ==
  irqOn => \A v \in Vectors : gic[v] => isr_table[v] # "none"

(* No interrupt storm: a line the GIC lets through is eventually           *)
(* deasserted or masked, because each handler clears every cause it can    *)
(* be called for (rt_hw_uart_isr's IIR cases, tick_timer_ack, the write of *)
(* 0x100 in _enet_isr).                                                    *)
IrqQuiesces ==
  \A v \in Vectors :
    (irqOn /\ gic[v] /\ Asserted(v)) ~> ~(gic[v] /\ Asserted(v))

(* Characters that wait in the FIFO while UART0 is open reach the serial   *)
(* core, unless it is closed: SET_INT enables the receive interrupt in IER *)
(* as well as in the GIC, and RX_IND drains the FIFO through uart_getc.    *)
UartRxDelivered ==
  (uartOpen /\ rx > 0) ~> (rx = 0 \/ ~uartOpen)

(* Every frame the MAC receives is eventually read by the stack, unless   *)
(* the receive thread has stopped on a failed pbuf_alloc: _enet_isr wakes  *)
(* the thread, which calls _emac_rx until it returns NULL.  A frame left   *)
(* by that failure waits for the next frame's interrupt.                   *)
EthFramesDelivered ==
  hwFrames > 0 ~> (hwFrames = 0 \/ stalled)

(* No frame is lost: every frame the MAC received is still in the MAC or   *)
(* has been handed to the stack, also when pbuf_alloc fails, because       *)
(* _emac_rx breaks out before _sun8i_free_pkt.                             *)
EthNoFrameLost ==
  frames = stacked + hwFrames
====
