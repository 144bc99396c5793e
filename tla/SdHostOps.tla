----------------------------- MODULE SdHostOps -----------------------------
(***************************************************************************)
(* The two host operations of src/driver/drv_tf.c that the RT-Thread SD   *)
(* core calls under its host lock:                                        *)
(*   - mmc_conv_reqtommc, which turns a generic command into the u-boot   *)
(*     controller's mmc_cmd / mmc_data through the tables mmc_resp_idx    *)
(*     and mmc_flags_idx;                                                 *)
(*   - mmc_mci_set_iocfg, which reprograms the controller clock and bus   *)
(*     width, doing a full core_init only when the clock changes.         *)
(* The controller primitives sunxi_mmc_core_init and sunxi_mmc_set_ios    *)
(* are not in this repository; they are modelled from the spec (section  *)
(* 6): core_init resets the controller, set_ios with clock 0 changes only *)
(* the width.                                                             *)
(***************************************************************************)
EXTENDS Integers, Bitwise

CONSTANTS
  RespClasses,  \* resp_type(req) values the core can produce (0..8)
  DataFlags,    \* generic data flags (DATA_DIR_WRITE, _READ, DATA_STREAM)
  Clocks,       \* clock rates the core requests, all positive
  BusWidths     \* MMCSD_BUS_WIDTH_1 = 0, _4 = 2, _8 = 3

ASSUME RespClasses \subseteq 0..15 /\ DataFlags \subseteq 0..7
ASSUME Clocks \subseteq Nat \ {0} /\ BusWidths \subseteq 0..3

PowerModes == {"OFF", "UP", "ON"}
NoData == -1   \* req->data == RT_NULL

VARIABLES
  cmd,        \* struct mmc_cmd after the last conversion (resp_type only)
  data,       \* struct mmc_data after the last conversion (flags only)
  lastReq,    \* the generic command last converted (checking only)
  clock,      \* mmc->clock
  bus_width,  \* mmc->bus_width
  hwClock,    \* the clock the controller runs at (0: stopped)
  hwWidth     \* the data lines the controller drives

vars == <<cmd, data, lastReq, clock, bus_width, hwClock, hwWidth>>

(* MMC_RSP_* bits and the response classes built from them.               *)
MMC_RSP_PRESENT == 1
MMC_RSP_136 == 2
MMC_RSP_CRC == 4
MMC_RSP_BUSY == 8
MMC_RSP_OPCODE == 16
MMC_RSP_R1 == MMC_RSP_PRESENT | MMC_RSP_CRC | MMC_RSP_OPCODE
MMC_RSP_R1b == MMC_RSP_R1 | MMC_RSP_BUSY
MMC_RSP_R2 == MMC_RSP_PRESENT | MMC_RSP_136 | MMC_RSP_CRC
MMC_RSP_R3 == MMC_RSP_PRESENT

MMC_DATA_READ == 1
MMC_DATA_WRITE == 2

(* Mutant of mmc_resp_idx: R1b loses its busy bit.                        *)
mmc_resp_idx_nobusy ==
  [i \in 0..15 |->
     IF i \in {1, 2, 6, 7, 8} THEN MMC_RSP_R1
     ELSE IF i = 3 THEN MMC_RSP_R2
     ELSE IF i \in {4, 5} THEN MMC_RSP_R3
     ELSE 0]

(* static int mmc_resp_idx[0x10]: nine initialised entries in the order   *)
(* NONE, R1, R1b, R2, R3, R4, R6, R7, R5; the rest are zero.              *)
mmc_resp_idx ==
  [i \in 0..15 |->
     IF i \in {1, 6, 7, 8} THEN MMC_RSP_R1   \* R1, R6, R7, R5 share a value
     ELSE IF i = 2 THEN MMC_RSP_R1b
     ELSE IF i = 3 THEN MMC_RSP_R2
     ELSE IF i \in {4, 5} THEN MMC_RSP_R3    \* R3 and R4
     ELSE 0]

(* Mutant of mmc_flags_idx: read and write swapped.                       *)
mmc_flags_idx_swapped ==
  <<0, MMC_DATA_READ, MMC_DATA_WRITE, MMC_DATA_READ | MMC_DATA_WRITE>>

(* static int mmc_flags_idx[0x04] = {0, WRITE, READ, READ|WRITE}, indexed *)
(* by flags & 0x3 (the tuple is indexed from 1).                          *)
mmc_flags_idx ==
  <<0, MMC_DATA_WRITE, MMC_DATA_READ, MMC_DATA_READ | MMC_DATA_WRITE>>

(* mmc_conv_reqtommc for a command req (never RT_NULL at its call sites): *)
(* zero both descriptors, translate the response class, and, only when    *)
(* the command has data, translate the direction.                        *)
Convert(cls, df) ==
  /\ cmd' = [resp_type |-> mmc_resp_idx[cls]]
  /\ data' = [flags |-> IF df = NoData THEN 0 ELSE mmc_flags_idx[(df & 3) + 1]]
  /\ lastReq' = [cls |-> cls, df |-> df]

ConvReq ==
  /\ \E cls \in RespClasses, df \in DataFlags \cup {NoData} : Convert(cls, df)
  /\ UNCHANGED <<clock, bus_width, hwClock, hwWidth>>

(* sunxi_mmc_core_init and sunxi_mmc_set_ios, from the spec.              *)
CoreInit(hw) == [clk |-> 0, w |-> 1]
SetIos(hw, c, w) == [clk |-> IF c = 0 THEN hw.clk ELSE c, w |-> w]

(* Mutant of SetIoCfg: set_ios is issued before core_init.                *)
SetIoCfgSwapped(pm, c, bw) ==
  LET hw0 == [clk |-> hwClock, w |-> hwWidth]
      full == c # clock
      hw1 == IF full THEN CoreInit(SetIos(hw0, c, 2^bw)) ELSE hw0
      bw1 == IF full THEN bw ELSE bus_width
      hw2 == IF bw # bw1 THEN SetIos(hw1, 0, 2^bw) ELSE hw1
  IN
  IF pm = "OFF" THEN UNCHANGED <<clock, bus_width, hwClock, hwWidth>>
  ELSE /\ clock' = c
       /\ bus_width' = bw
       /\ hwClock' = hw2.clk
       /\ hwWidth' = hw2.w

(* Mutant of SetIoCfg: the record keeps 1 << bus_width, not the code.     *)
SetIoCfgShiftedWidth(pm, c, bw) ==
  LET hw0 == [clk |-> hwClock, w |-> hwWidth]
      full == c # clock
      hw1 == IF full THEN SetIos(CoreInit(hw0), c, 2^bw) ELSE hw0
  IN
  IF pm = "OFF" THEN UNCHANGED <<clock, bus_width, hwClock, hwWidth>>
  ELSE /\ clock' = c
       /\ bus_width' = 2^bw
       /\ hwClock' = hw1.clk
       /\ hwWidth' = hw1.w

(* mmc_mci_set_iocfg: nothing when power is off; on a clock change,       *)
(* core_init then set_ios(clock, 1 << bus_width) and record both; then,   *)
(* if the width still differs from the record, set_ios(0, 1 << width)    *)
(* and record it.                                                        *)
SetIoCfg(pm, c, bw) ==
  LET hw0 == [clk |-> hwClock, w |-> hwWidth]
      full == c # clock
      hw1 == IF full THEN SetIos(CoreInit(hw0), c, 2^bw) ELSE hw0
      bw1 == IF full THEN bw ELSE bus_width
      hw2 == IF bw # bw1 THEN SetIos(hw1, 0, 2^bw) ELSE hw1
  IN
  IF pm = "OFF" THEN UNCHANGED <<clock, bus_width, hwClock, hwWidth>>
  ELSE /\ clock' = c
       /\ bus_width' = bw
       /\ hwClock' = hw2.clk
       /\ hwWidth' = hw2.w

IoCfg ==
  /\ \E pm \in PowerModes, c \in Clocks, bw \in BusWidths : SetIoCfg(pm, c, bw)
  /\ UNCHANGED <<cmd, data, lastReq>>

(* static struct mmc_mci mci is zero-initialised; the controller is left *)
(* by sunxi_mmc_probe with its clock stopped and one data line.          *)
Init ==
  /\ cmd = [resp_type |-> 0]
  /\ data = [flags |-> 0]
  /\ lastReq = [cls |-> 0, df |-> NoData]
  /\ clock = 0
  /\ bus_width = 0
  /\ hwClock = 0
  /\ hwWidth = 1

Next == ConvReq \/ IoCfg

Spec == Init /\ [][Next]_vars

-----------------------------------------------------------------------------
TypeOK ==
  /\ cmd.resp_type \in 0..31
  /\ data.flags \in 0..3
  /\ lastReq.cls \in RespClasses \cup {0}
  /\ lastReq.df \in DataFlags \cup {NoData}
  /\ clock \in Clocks \cup {0}
  /\ bus_width \in BusWidths \cup {0}
  /\ hwClock \in Clocks \cup {0}
  /\ hwWidth \in {1, 2, 4, 8}

(* What each response class carries on the bus (SD physical layer):       *)
(* R1, R1b, R5, R6, R7 are 48-bit with CRC and the opcode echoed, R1b     *)
(* also signals busy; R2 is 136-bit with CRC; R3 and R4 carry neither     *)
(* CRC nor opcode; class 0 has no response.                              *)
RespFields(cls) ==
  [present |-> cls # 0,
   long    |-> cls = 3,
   crc     |-> cls \in {1, 2, 3, 6, 7, 8},
   busy    |-> cls = 2,
   opcode  |-> cls \in {1, 2, 6, 7, 8}]

Bit(x, b) == (x & b) # 0

(* The translated mmc_cmd of the last converted command requests exactly *)
(* the response fields of its class, and the mmc_data direction bits     *)
(* match the generic bits (bit0 write, bit1 read) whenever it has data;  *)
(* this checks mmc_resp_idx, mmc_flags_idx and the masking in            *)
(* mmc_conv_reqtommc together.                                           *)
TranslationCorrect ==
  LET f == RespFields(lastReq.cls)
      rt == cmd.resp_type
  IN /\ Bit(rt, MMC_RSP_PRESENT) = f.present
     /\ Bit(rt, MMC_RSP_136) = f.long
     /\ Bit(rt, MMC_RSP_CRC) = f.crc
     /\ Bit(rt, MMC_RSP_BUSY) = f.busy
     /\ Bit(rt, MMC_RSP_OPCODE) = f.opcode
     /\ lastReq.df # NoData =>
          /\ Bit(data.flags, MMC_DATA_WRITE) = Bit(lastReq.df, 1)
          /\ Bit(data.flags, MMC_DATA_READ) = Bit(lastReq.df, 2)
     /\ lastReq.df = NoData => data.flags = 0

(* After any sequence of set_iocfg calls the controller runs at the clock *)
(* and width mmc_mci_set_iocfg has recorded, so its comparisons against  *)
(* mmc->clock and mmc->bus_width decide on the real hardware state.      *)
HwMatchesRecord ==
  /\ hwClock = clock
  /\ hwWidth = 2^bus_width
=============================================================================
