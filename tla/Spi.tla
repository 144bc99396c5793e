-------------------------------- MODULE Spi --------------------------------
(***************************************************************************)
(* The SPI bus: spi_configure and spi_xfer of src/driver/drv_spi.c, the    *)
(* ops the RT-Thread SPI core calls under its bus lock, and the register  *)
(* layer of src/uboot/sunxi_spi.c they call (set_speed, set_mode,         *)
(* claim_bus, xfer, cs_activate, cs_deactivate).                          *)
(*                                                                         *)
(* The SPI core is the environment: it configures the bus when a device   *)
(* takes it, then sends messages; the first message of a transfer has     *)
(* cs_take and the last cs_release (rt_spi_send_then_recv sends two, the  *)
(* second without cs_take).  The controller is hardware: it clears SRST   *)
(* after a soft reset and, once XCH is set, shifts the burst one byte at a *)
(* time, taking bytes from the TX FIFO and then dummy bytes, and pushing  *)
(* what the device answers into the RX FIFO.  The device answers each     *)
(* byte with its position in the stream it has seen, so the data a        *)
(* message receives shows where each byte came from.                      *)
(*                                                                         *)
(* The divider fields, the SPI_XFER_* flags and the mode bits are defined *)
(* in U-Boot headers that are not part of this repository; they are      *)
(* given here the values of those headers.                                *)
(***************************************************************************)
EXTENDS Integers, Sequences, Bitwise

CONSTANTS
  FIFO_DEPTH,   \* bytes in each FIFO; the driver sends chunks of FIFO_DEPTH - 1
  SpeedReqs,    \* configuration->max_hz values the SPI core passes
  Lens,         \* message->length values
  MaxMsgs       \* messages sent during a behaviour

ASSUME FIFO_DEPTH > 1 /\ SpeedReqs \subseteq Nat \ {0}
ASSUME Lens \subseteq Nat /\ MaxMsgs \in Nat

SUNXI_SPI_MAX_RATE == 24 * 1000 * 1000
SUNXI_SPI_MIN_RATE == 3 * 1000
SUNXI_SPI_CLK_CTL_CDR2_MASK == 255
SPI_XFER_BEGIN == 1
SPI_XFER_END == 2
DUMMY == -1   \* what the controller sends when the TX FIFO is empty

(* struct rt_spi_configuration mode bits (RT-Thread) and the U-Boot mode   *)
(* bits sunxi_spi_set_mode tests.                                          *)
RT_SPI_CPHA == 1
RT_SPI_CPOL == 2
RT_SPI_MSB == 4
RT_SPI_CS_HIGH == 16
SPI_CPHA == 1
SPI_CPOL == 2
SPI_CS_HIGH == 4

(* The configuration modes an SPI device may ask for.                     *)
ConfigModes ==
  {a + b + c + d : a \in {0, RT_SPI_CPHA}, b \in {0, RT_SPI_CPOL},
                   c \in {0, RT_SPI_MSB}, d \in {0, RT_SPI_CS_HIGH}}

(* sunxi_spi_set_mode: xfer_ctl's CPOL, CPHA and CS_ACTIVE_LOW bits from   *)
(* the mode; CS is active low unless SPI_CS_HIGH.                          *)
SetMode(mode) ==
  [cpol |-> (mode & SPI_CPOL) # 0, cpha |-> (mode & SPI_CPHA) # 0,
   csActiveLow |-> (mode & SPI_CS_HIGH) = 0]

(* __ilog2: the index of the highest set bit.                             *)
RECURSIVE ilog2(_)
ilog2(n) == IF n < 2 THEN 0 ELSE 1 + ilog2(n \div 2)

(* speed = min(speed, MAX_RATE); speed = max(MIN_RATE, speed)             *)
ClampSpeed(req) ==
  IF req > SUNXI_SPI_MAX_RATE THEN SUNXI_SPI_MAX_RATE
  ELSE IF req < SUNXI_SPI_MIN_RATE THEN SUNXI_SPI_MIN_RATE ELSE req

(* Mutant of SetSpeed: CDR2 is written without the `div--`.               *)
SetSpeedNoDecrement(req) ==
  LET speed == ClampSpeed(req)
      div == SUNXI_SPI_MAX_RATE \div (2 * speed)
  IN IF div <= SUNXI_SPI_CLK_CTL_CDR2_MASK + 1
       THEN [drs |-> TRUE, cdr |-> div]
       ELSE [drs |-> FALSE, cdr |-> ilog2(SUNXI_SPI_MAX_RATE) - ilog2(speed)]

(* sunxi_spi_set_speed: clamp to [MIN_RATE, MAX_RATE]; with DRS set the    *)
(* clock is MAX_RATE / (2 * (CDR2 + 1)), otherwise MAX_RATE / 2^CDR1.     *)
SetSpeed(req) ==
  LET speed == ClampSpeed(req)
      div == SUNXI_SPI_MAX_RATE \div (2 * speed)
  IN IF div <= SUNXI_SPI_CLK_CTL_CDR2_MASK + 1
       THEN [drs |-> TRUE, cdr |-> IF div > 0 THEN div - 1 ELSE 0]
       ELSE [drs |-> FALSE, cdr |-> ilog2(SUNXI_SPI_MAX_RATE) - ilog2(speed)]

(* The SPI clock a clk_ctl value gives.                                    *)
Rate(reg) ==
  IF reg.drs THEN SUNXI_SPI_MAX_RATE \div (2 * (reg.cdr + 1))
  ELSE SUNXI_SPI_MAX_RATE \div (2 ^ reg.cdr)

VARIABLES
  clkReg,      \* clk_ctl: [drs, cdr]
  modeReg,     \* xfer_ctl CPOL, CPHA and CS_ACTIVE_LOW
  claimed,     \* glb_ctl MASTER | ENABLE set by claim_bus
  srst,        \* glb_ctl SRST, cleared by the controller
  csLevel,     \* xfer_ctl CS_LEVEL: TRUE drives the active-low CS high
  txFifo, rxFifo,
  xch, burst, shifted,   \* XCH, burst_cnt, bytes of the burst shifted
  cpc,         \* spi_configure: "idle" or "srst" (waiting in claim_bus)
  xpc,         \* spi_xfer: "idle", "chunk", "wait", "done"
  msg,         \* the message being sent
  left, nb, txPos,        \* sunxi_spi_xfer's len, nbytes and tx_buf offset
  rxBuf,       \* what was stored through rx_buf
  held,        \* the SPI core holds CS between messages
  nmsgs,       \* messages sent so far
  askedHz,     \* the max_hz of the last configuration (checking only)
  devPos,      \* bytes the device has seen
  devSeen,     \* bytes the device saw during this message (checking only)
  msgStart     \* devPos when this message started (checking only)

vars == <<clkReg, modeReg, claimed, srst, csLevel, txFifo, rxFifo, xch, burst,
          shifted, cpc, xpc, msg, left, nb, txPos, rxBuf, held, nmsgs, askedHz,
          devPos, devSeen, msgStart>>

xferVars == <<xpc, msg, left, nb, txPos, rxBuf, held, nmsgs, devSeen, msgStart>>
hwVars == <<txFifo, rxFifo, xch, burst, shifted, devPos>>

(* spi_configure: set_speed(max_hz), set_mode(mode & (RT_SPI_CPHA |       *)
(* RT_SPI_CPOL)), then claim_bus, which enables the clock and soft-resets  *)
(* the controller.  The SPI core reconfigures only when a device takes a   *)
(* free bus.                                                               *)
SpiConfigure ==
  /\ cpc = "idle" /\ xpc = "idle" /\ ~held
  /\ \E s \in SpeedReqs, m \in ConfigModes :
       /\ askedHz' = s
       /\ clkReg' = SetSpeed(s)
       /\ modeReg' = SetMode(m & (RT_SPI_CPHA + RT_SPI_CPOL))
  /\ claimed' = TRUE
  /\ srst' = TRUE
  /\ cpc' = "srst"
  /\ UNCHANGED <<csLevel>> /\ UNCHANGED hwVars /\ UNCHANGED xferVars

(* The controller finishes its soft reset.                                *)
SrstDone ==
  /\ srst
  /\ srst' = FALSE
  /\ UNCHANGED <<clkReg, modeReg, claimed, csLevel, cpc, askedHz>>
  /\ UNCHANGED hwVars /\ UNCHANGED xferVars

(* claim_bus after its SRST wait: manual CS driven high, both FIFOs reset. *)
ClaimRest ==
  /\ cpc = "srst" /\ ~srst
  /\ csLevel' = TRUE
  /\ txFifo' = <<>> /\ rxFifo' = <<>>
  /\ cpc' = "idle"
  /\ UNCHANGED <<clkReg, modeReg, claimed, srst, askedHz, xch, burst, shifted,
                 devPos>>
  /\ UNCHANGED xferVars

(* Mutant of Flags: cs_take and cs_release mapped to the wrong bits.       *)
FlagsSwapped(m) == (IF m.take THEN 2 ELSE 0) + (IF m.release THEN 1 ELSE 0)

(* spi_xfer: flag |= 0x01 for cs_take, |= 0x02 for cs_release.            *)
Flags(m) == (IF m.take THEN 1 ELSE 0) + (IF m.release THEN 2 ELSE 0)
Begin(f) == (f & SPI_XFER_BEGIN) # 0
End(f) == (f & SPI_XFER_END) # 0

(* spi_xfer calls sunxi_spi_xfer(length * 8, flags): the bit length is a   *)
(* whole number of bytes, and SPI_XFER_BEGIN runs cs_activate (whose      *)
(* delays are 0 here), which selects CS 0 and drives it low.  The core     *)
(* takes CS on the first message of a transfer and may release it on any; *)
(* a message without data only moves CS (rt_spi_take, rt_spi_release).    *)
SpiXferStart ==
  /\ xpc = "idle" /\ cpc = "idle" /\ claimed
  /\ nmsgs < MaxMsgs \/ held
  /\ \E len \in Lens, tx \in BOOLEAN, rx \in BOOLEAN, rel \in BOOLEAN :
       /\ len > 0 => (tx \/ rx)
       /\ nmsgs >= MaxMsgs => rel
       /\ msg' = [len |-> len, tx |-> tx, rx |-> rx, take |-> ~held, release |-> rel]
  /\ csLevel' = IF Begin(Flags(msg')) THEN FALSE ELSE csLevel
  /\ left' = msg'.len
  /\ txPos' = 0
  /\ rxBuf' = <<>>
  /\ devSeen' = <<>>
  /\ msgStart' = devPos
  /\ xpc' = "chunk"
  /\ UNCHANGED <<clkReg, modeReg, claimed, srst, cpc, askedHz, nb, held, nmsgs>>
  /\ UNCHANGED hwVars

(* sunxi_spi_write: the nbytes bytes of tx_buf from offset pos go into the *)
(* TX FIFO; with tx_buf NULL nbytes becomes 0 and nothing is written.       *)
SunxiSpiWrite(tx, pos, nbytes) ==
  IF tx THEN [i \in 1..nbytes |-> pos + i - 1] ELSE <<>>

(* One pass of the while (len) loop up to the wait: nbytes = min(len,      *)
(* 64 - 1), burst_cnt = nbytes, sunxi_spi_write puts nbytes bytes of       *)
(* tx_buf in the TX FIFO (none when tx_buf is NULL, so the controller      *)
(* sends dummies), then XCH starts the burst.                              *)
SpiChunk ==
  /\ xpc = "chunk" /\ left > 0
  /\ nb' = IF left < FIFO_DEPTH - 1 THEN left ELSE FIFO_DEPTH - 1
  /\ burst' = nb'
  /\ txFifo' = txFifo \o SunxiSpiWrite(msg.tx, txPos, nb')
  /\ xch' = TRUE
  /\ shifted' = 0
  /\ xpc' = "wait"
  /\ UNCHANGED <<clkReg, modeReg, claimed, srst, csLevel, cpc, askedHz, msg, left,
                 txPos, rxBuf, held, nmsgs, devSeen, msgStart, rxFifo, devPos>>

(* The controller shifts one byte of the burst: the next TX FIFO byte, or  *)
(* a dummy, goes out, and the device's answer goes into the RX FIFO.       *)
HwShift ==
  /\ xch /\ shifted < burst
  /\ LET out == IF txFifo # <<>> THEN Head(txFifo) ELSE DUMMY
     IN devSeen' = Append(devSeen, out)
  /\ txFifo' = IF txFifo # <<>> THEN Tail(txFifo) ELSE txFifo
  /\ rxFifo' = Append(rxFifo, devPos)
  /\ devPos' = devPos + 1
  /\ shifted' = shifted + 1
  /\ xch' = (shifted + 1 < burst)
  /\ UNCHANGED <<clkReg, modeReg, claimed, srst, csLevel, cpc, askedHz, burst, xpc,
                 msg, left, nb, txPos, rxBuf, held, nmsgs, msgStart>>

(* Mutant of SpiDrain: the wait loop runs while RF_CNT <= nbytes.          *)
SpiDrainWaitsOneMore ==
  /\ xpc = "wait" /\ Len(rxFifo) > nb
  /\ rxBuf' = IF msg.rx THEN rxBuf \o SubSeq(rxFifo, 1, nb) ELSE rxBuf
  /\ rxFifo' = SubSeq(rxFifo, nb + 1, Len(rxFifo))
  /\ left' = left - nb
  /\ txPos' = IF msg.tx THEN txPos + nb ELSE txPos
  /\ xpc' = "chunk"
  /\ UNCHANGED <<clkReg, modeReg, claimed, srst, csLevel, cpc, askedHz, msg, nb,
                 held, nmsgs, devSeen, msgStart, txFifo, xch, burst, shifted,
                 devPos>>

(* Mutant of SpiDrain: the read loop stops one byte short.                 *)
SpiDrainShort ==
  /\ xpc = "wait" /\ Len(rxFifo) >= nb
  /\ rxBuf' = IF msg.rx THEN rxBuf \o SubSeq(rxFifo, 1, nb - 1) ELSE rxBuf
  /\ rxFifo' = SubSeq(rxFifo, nb, Len(rxFifo))
  /\ left' = left - nb
  /\ txPos' = IF msg.tx THEN txPos + nb ELSE txPos
  /\ xpc' = "chunk"
  /\ UNCHANGED <<clkReg, modeReg, claimed, srst, csLevel, cpc, askedHz, msg, nb,
                 held, nmsgs, devSeen, msgStart, txFifo, xch, burst, shifted,
                 devPos>>

(* Mutant of SpiDrain: tx_buf is not advanced past the chunk.              *)
SpiDrainNoTxAdvance ==
  /\ xpc = "wait" /\ Len(rxFifo) >= nb
  /\ rxBuf' = IF msg.rx THEN rxBuf \o SubSeq(rxFifo, 1, nb) ELSE rxBuf
  /\ rxFifo' = SubSeq(rxFifo, nb + 1, Len(rxFifo))
  /\ left' = left - nb
  /\ txPos' = txPos
  /\ xpc' = "chunk"
  /\ UNCHANGED <<clkReg, modeReg, claimed, srst, csLevel, cpc, askedHz, msg, nb,
                 held, nmsgs, devSeen, msgStart, txFifo, xch, burst, shifted,
                 devPos>>

(* The rest of the pass: spin until RF_CNT reaches nbytes, read nbytes     *)
(* bytes of rx_data (stored if rx_buf is set), len -= nbytes, and advance *)
(* tx_buf.                                                                 *)
SpiDrain ==
  /\ xpc = "wait" /\ Len(rxFifo) >= nb
  /\ rxBuf' = IF msg.rx THEN rxBuf \o SubSeq(rxFifo, 1, nb) ELSE rxBuf
  /\ rxFifo' = SubSeq(rxFifo, nb + 1, Len(rxFifo))
  /\ left' = left - nb
  /\ txPos' = IF msg.tx THEN txPos + nb ELSE txPos
  /\ xpc' = "chunk"
  /\ UNCHANGED <<clkReg, modeReg, claimed, srst, csLevel, cpc, askedHz, msg, nb,
                 held, nmsgs, devSeen, msgStart, txFifo, xch, burst, shifted,
                 devPos>>

(* len = 0: SPI_XFER_END runs cs_deactivate, driving CS high; spi_xfer     *)
(* returns message->length.                                                *)
SpiXferEnd ==
  /\ xpc = "chunk" /\ left = 0
  /\ csLevel' = IF End(Flags(msg)) THEN TRUE ELSE csLevel
  /\ held' = ~msg.release
  /\ nmsgs' = nmsgs + 1
  /\ xpc' = "done"
  /\ UNCHANGED <<clkReg, modeReg, claimed, srst, cpc, askedHz, msg, left, nb,
                 txPos, rxBuf, devSeen, msgStart>>
  /\ UNCHANGED hwVars

(* The SPI core goes on with its next message.                            *)
SpiReturn ==
  /\ xpc = "done"
  /\ xpc' = "idle"
  /\ UNCHANGED <<clkReg, modeReg, claimed, srst, csLevel, cpc, askedHz, msg, left,
                 nb, txPos, rxBuf, held, nmsgs, devSeen, msgStart>>
  /\ UNCHANGED hwVars

(* sunxi_spi_probe and rt_hw_spi_init: the controller at its reset values, *)
(* CS high, nothing configured.                                            *)
Init ==
  /\ clkReg = [drs |-> FALSE, cdr |-> 0]
  /\ modeReg = [cpol |-> FALSE, cpha |-> FALSE, csActiveLow |-> FALSE]
  /\ claimed = FALSE
  /\ srst = FALSE
  /\ csLevel = TRUE
  /\ txFifo = <<>> /\ rxFifo = <<>>
  /\ xch = FALSE /\ burst = 0 /\ shifted = 0
  /\ cpc = "idle" /\ xpc = "idle"
  /\ msg = [len |-> 0, tx |-> FALSE, rx |-> FALSE, take |-> FALSE, release |-> FALSE]
  /\ left = 0 /\ nb = 0 /\ txPos = 0
  /\ rxBuf = <<>>
  /\ held = FALSE
  /\ nmsgs = 0
  /\ askedHz = 0
  /\ devPos = 0 /\ devSeen = <<>> /\ msgStart = 0

Next ==
  \/ SpiConfigure \/ SrstDone \/ ClaimRest
  \/ SpiXferStart \/ SpiChunk \/ HwShift \/ SpiDrain \/ SpiXferEnd \/ SpiReturn

(* The controller and the driver's own loop always move on; the SPI core  *)
(* is not obliged to send anything.                                        *)
Fairness ==
  /\ WF_vars(SrstDone) /\ WF_vars(ClaimRest) /\ WF_vars(HwShift)
  /\ WF_vars(SpiChunk) /\ WF_vars(SpiDrain) /\ WF_vars(SpiXferEnd)
  /\ WF_vars(SpiReturn)

Spec == Init /\ [][Next]_vars

FairSpec == Spec /\ Fairness

-----------------------------------------------------------------------------
TypeOK ==
  /\ clkReg.drs \in BOOLEAN
  /\ clkReg.cdr \in IF clkReg.drs THEN 0..SUNXI_SPI_CLK_CTL_CDR2_MASK ELSE 0..15
  /\ modeReg \in [cpol : BOOLEAN, cpha : BOOLEAN, csActiveLow : BOOLEAN]
  /\ claimed \in BOOLEAN /\ srst \in BOOLEAN /\ csLevel \in BOOLEAN
  /\ xch \in BOOLEAN
  /\ cpc \in {"idle", "srst"}
  /\ xpc \in {"idle", "chunk", "wait", "done"}
  /\ left \in Nat /\ nb \in 0..(FIFO_DEPTH - 1) /\ txPos \in Nat
  /\ held \in BOOLEAN
  /\ nmsgs \in 0..(MaxMsgs + 1)

(* The RX FIFO never holds more than FIFO_DEPTH bytes: each burst is at    *)
(* most 64 - 1 bytes and sunxi_spi_xfer reads all of them back before the  *)
(* next one, so no byte the device sent is dropped.                        *)
RxFifoBound == Len(rxFifo) <= FIFO_DEPTH

(* When spi_xfer returns, the device has seen exactly the message's bytes  *)
(* of send_buf in order (or dummies when there is none), and recv_buf      *)
(* holds, in order, the device's answers to exactly those bytes.           *)
XferDelivers ==
  xpc = "done" =>
    /\ devSeen = [i \in 1..msg.len |-> IF msg.tx THEN i - 1 ELSE DUMMY]
    /\ rxBuf = IF msg.rx THEN [i \in 1..msg.len |-> msgStart + i - 1] ELSE <<>>

(* The device is selected whenever a byte is clocked: spi_xfer's cs_take   *)
(* and cs_release reach cs_activate and cs_deactivate so that CS is low    *)
(* from the first message of a transfer to the last.                       *)
CsFraming == [][devPos' # devPos => ~csLevel]_vars

(* Every spi_xfer returns: the RX FIFO wait ends once the burst is in.     *)
XferReturns == (xpc # "idle") ~> (xpc = "idle")

(* spi_configure never runs the bus faster than the device's max_hz (or    *)
(* SUNXI_SPI_MIN_RATE, the slowest clock the driver offers).               *)
SpeedNotAbove == (claimed /\ cpc = "idle") => Rate(clkReg) <= ClampSpeed(askedHz)
=============================================================================
