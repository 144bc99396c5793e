-------------------------------- MODULE Lcd --------------------------------
(***************************************************************************)
(* The LCD device of src/driver/drv_lcd.c.  rt_hw_lcd_init clears two      *)
(* frame buffers, shows the first, allocates the back buffer               *)
(* info.framebuffer that the graphics code draws into, and starts the      *)
(* "lcd_touch" thread.  _lcd_control(RTGRAPHIC_CTRL_RECT_UPDATE) flips the  *)
(* index, copies the back buffer into the frame buffer it now names and    *)
(* points the display composer at that buffer.  touch_thread_entry reads   *)
(* Z1, X and Y from the NS2009 touch controller with three                 *)
(* i2c_reg_readbuf transfers each second, giving up on the round at the    *)
(* first failed transfer.                                                  *)
(*                                                                         *)
(* A frame is abstracted to its number: the graphics code draws frame      *)
(* n + 1 into the back buffer between updates.  A touch reading is the     *)
(* number of the round it was taken in.  The composer scans out the buffer *)
(* it was last given; the I2C transfer may fail.                           *)
(***************************************************************************)
EXTENDS Integers

CONSTANTS
  Updaters,     \* threads that call RECT_UPDATE
  MaxFrames,    \* frames drawn during a behaviour
  MaxRounds     \* rounds of the touch thread during a behaviour

ASSUME MaxFrames \in Nat /\ MaxRounds \in Nat

Buffers == {0, 1}

VARIABLES
  index,       \* lcdfb->index
  fb,          \* the frame each of fb_address[0], fb_address[1] holds
  shown,       \* the buffer last passed to sunxi_composer_fbbase_set
  drawn,       \* the frame in info.framebuffer
  upc,         \* each updater: "idle", "copy", "set"
  submitted,   \* the frame of the last RECT_UPDATE call (ghost)
  tpc,         \* the touch thread: "z1", "x", "y", "delay"
  z1, x, y,    \* its locals: the round each value was read in
  recv,        \* its local recv
  round        \* touch rounds begun so far

lcdVars == <<index, fb, shown, drawn, upc, submitted>>
touchVars == <<tpc, z1, x, y, recv, round>>
vars == <<lcdVars, touchVars>>

(* The graphics code draws the next frame into info.framebuffer.           *)
Draw ==
  /\ drawn < MaxFrames
  /\ \A u \in Updaters : upc[u] = "idle"
  /\ drawn' = drawn + 1
  /\ UNCHANGED <<index, fb, shown, upc, submitted>> /\ UNCHANGED touchVars

(* Mutant of Flip: the index is not advanced.                              *)
FlipNoAdvance(u) ==
  /\ upc[u] = "idle"
  /\ upc' = [upc EXCEPT ![u] = "copy"]
  /\ submitted' = drawn
  /\ UNCHANGED <<index, fb, shown, drawn>> /\ UNCHANGED touchVars

(* Mutant of Flip: the index is advanced without the % 2.                  *)
FlipNoModulo(u) ==
  /\ upc[u] = "idle"
  /\ index' = index + 1
  /\ upc' = [upc EXCEPT ![u] = "copy"]
  /\ submitted' = drawn
  /\ UNCHANGED <<fb, shown, drawn>> /\ UNCHANGED touchVars

(* RECT_UPDATE: lcdfb->index = (lcdfb->index + 1) % 2.                     *)
Flip(u) ==
  /\ upc[u] = "idle"
  /\ index' = (index + 1) % 2
  /\ upc' = [upc EXCEPT ![u] = "copy"]
  /\ submitted' = drawn
  /\ UNCHANGED <<fb, shown, drawn>> /\ UNCHANGED touchVars

(* rt_memcpy(fb_address[index], info.framebuffer, bufsize).                *)
Copy(u) ==
  /\ upc[u] = "copy"
  /\ fb' = [fb EXCEPT ![index] = drawn]
  /\ upc' = [upc EXCEPT ![u] = "set"]
  /\ UNCHANGED <<index, shown, drawn, submitted>> /\ UNCHANGED touchVars

(* Mutant of SetBase: the buffer before the flip is shown.                 *)
SetBaseStale(u) ==
  /\ upc[u] = "set"
  /\ shown' = (index + 1) % 2
  /\ upc' = [upc EXCEPT ![u] = "idle"]
  /\ UNCHANGED <<index, fb, drawn, submitted>> /\ UNCHANGED touchVars

(* sunxi_composer_fbbase_set(fb_address[index]); return RT_EOK.            *)
SetBase(u) ==
  /\ upc[u] = "set"
  /\ shown' = index
  /\ upc' = [upc EXCEPT ![u] = "idle"]
  /\ UNCHANGED <<index, fb, drawn, submitted>> /\ UNCHANGED touchVars

(* The next register of the do { } while (0) after a successful transfer. *)
NextReg == [r \in {"z1", "x"} |-> IF r = "z1" THEN "x" ELSE "y"]

(* Mutant of TouchRead: a failed transfer does not end the round.          *)
TouchReadNoBreak ==
  /\ tpc \in {"z1", "x", "y"}
  /\ \E ok \in BOOLEAN :
       /\ IF ok THEN /\ z1' = IF tpc = "z1" THEN round ELSE z1
                     /\ x' = IF tpc = "x" THEN round ELSE x
                     /\ y' = IF tpc = "y" THEN round ELSE y
                ELSE UNCHANGED <<z1, x, y>>
       /\ tpc' = IF tpc = "y" THEN "delay" ELSE NextReg[tpc]
       /\ recv' = (tpc = "y")
  /\ UNCHANGED <<round>> /\ UNCHANGED lcdVars

(* i2c_reg_readbuf(0, 0x48, reg, buf, 2): one rt_i2c_transfer of a write  *)
(* and a read message, returning count when both went through.  On       *)
(* success the value is stored; after Y, recv = 1.  On failure, break.    *)
TouchRead ==
  /\ tpc \in {"z1", "x", "y"}
  /\ \/ /\ z1' = IF tpc = "z1" THEN round ELSE z1
        /\ x' = IF tpc = "x" THEN round ELSE x
        /\ y' = IF tpc = "y" THEN round ELSE y
        /\ tpc' = IF tpc = "y" THEN "delay" ELSE NextReg[tpc]
        /\ recv' = (tpc = "y")
     \/ /\ tpc' = "delay"
        /\ UNCHANGED <<z1, x, y, recv>>
  /\ UNCHANGED <<round>> /\ UNCHANGED lcdVars

(* rt_thread_delay(1000), then the next round with recv = 0.               *)
TouchDelay ==
  /\ tpc = "delay" /\ round < MaxRounds
  /\ tpc' = "z1"
  /\ recv' = FALSE
  /\ round' = round + 1
  /\ UNCHANGED <<z1, x, y>> /\ UNCHANGED lcdVars

(* rt_hw_lcd_init: index 0, both buffers cleared (frame 0), the first one *)
(* given to the composer by video_hw_init_probe, then the touch thread.   *)
Init ==
  /\ index = 0
  /\ fb = [b \in Buffers |-> 0]
  /\ shown = 0
  /\ drawn = 0
  /\ upc = [u \in Updaters |-> "idle"]
  /\ submitted = 0
  /\ tpc = "z1" /\ z1 = 0 /\ x = 0 /\ y = 0 /\ recv = FALSE /\ round = 1

(* The drawing and the touch rounds are bounded; then the system idles.  *)
Done ==
  /\ drawn = MaxFrames /\ \A u \in Updaters : upc[u] = "idle"
  /\ tpc = "delay" /\ round = MaxRounds
  /\ UNCHANGED vars

Next ==
  \/ Draw \/ TouchRead \/ TouchDelay \/ Done
  \/ \E u \in Updaters : Flip(u) \/ Copy(u) \/ SetBase(u)

Spec == Init /\ [][Next]_vars

-----------------------------------------------------------------------------
TypeOK ==
  /\ index \in Buffers /\ shown \in Buffers
  /\ fb \in [Buffers -> 0..MaxFrames]
  /\ drawn \in 0..MaxFrames /\ submitted \in 0..MaxFrames
  /\ upc \in [Updaters -> {"idle", "copy", "set"}]
  /\ tpc \in {"z1", "x", "y", "delay"}
  /\ {z1, x, y, round} \subseteq 0..MaxRounds /\ recv \in BOOLEAN

(* The double buffer of RECT_UPDATE: while the back buffer is copied into  *)
(* a frame buffer, that frame buffer is not the one the composer scans     *)
(* out, so the display never shows a frame half copied.                    *)
NoWriteToShown ==
  \A u \in Updaters : upc[u] = "copy" => index # shown

(* When no RECT_UPDATE is in progress, the display shows the frame of the *)
(* last RECT_UPDATE call: the flip, the copy and sunxi_composer_fbbase_set *)
(* all address the same buffer.                                            *)
ShowsLatest ==
  (\A u \in Updaters : upc[u] = "idle") => fb[shown] = submitted

(* A round the touch thread marks as received (recv = 1, the printed       *)
(* "recv:x,y,z1") holds Z1, X and Y all read in that round, never a value  *)
(* left from an earlier round by a failed transfer.                        *)
TouchSampleFresh ==
  recv => z1 = round /\ x = round /\ y = round
=============================================================================
