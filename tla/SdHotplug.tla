----------------------------- MODULE SdHotplug -----------------------------
(***************************************************************************)
(* The SD/MMC host adapter of src/driver/drv_tf.c and the threads that     *)
(* share its state `struct mmc_mci mci`:                                   *)
(*   - the request path, mmc_mci_request, run by whichever thread holds    *)
(*     the bus layer's host lock (the detect thread while it identifies a  *)
(*     card, or a filesystem thread doing block I/O);                      *)
(*   - the hotplug monitor thread sd_thread_entry;                         *)
(*   - the one-shot bring-up rt_hw_tf_init.                                *)
(* The RT-Thread mmcsd core (detect thread, its two mailboxes, host lock,  *)
(* block device and the mount table) is not code of this repository: it is *)
(* an environment, modelled from spec.md sections 4.4 and 6.               *)
(***************************************************************************)
EXTENDS Naturals

CONSTANTS
  FaultThreshold, \* the literal 10 of `mmc->err > 10` (drv_tf.c:180)
  MbSize,         \* capacity of the detect and hotplug mailboxes
  MaxPlugEvents,  \* bound on physical insertions plus removals
  SlowDetect,     \* may the detect thread outlast mmcsd_wait_cd_changed(5000)?
  MountCanFail    \* may dfs_mount fail on a card that was identified?

ASSUME FaultThreshold \in Nat /\ MbSize \in Nat \ {0} /\ MaxPlugEvents \in Nat
ASSUME SlowDetect \in BOOLEAN /\ MountCanFail \in BOOLEAN

(* mmc->err is only ever compared with FaultThreshold and reset to 0, so   *)
(* every value above FaultThreshold + 1 behaves like FaultThreshold + 1.   *)
(* The model saturates there: ErrCap is the bound of the counter.         *)
ErrCap == FaultThreshold + 1

VARIABLES
  present,     \* a card is physically in the slot
  plugEvents,  \* insertions and removals so far (bounded by MaxPlugEvents)
  card,        \* host->card != NULL in the bus layer
  mounted,     \* /mmc is mounted on the card's block device "sd0"
  detectMb,    \* change requests pending for the detect thread
  hotplugMb,   \* change notifications pending for mmcsd_wait_cd_changed
  detectPc,    \* detect thread: "idle" or "init" (identifying a card)
  err,         \* mmc->err
  req,         \* the request mmc_mci_request is executing
  initPc,      \* rt_hw_tf_init: "start", "wait", "done" or "failed"
  monPc,       \* sd_thread_entry: "none" (not created), "start", "poll",
               \* "ncWait", "ncMount", "frWait"
  status,      \* sd_thread_entry's local `status`
  plug,        \* mmc->plug
  fails        \* history: failed commands since the last success or reset

vars == <<present, plugEvents, card, mounted, detectMb, hotplugMb, detectPc,
          err, req, initPc, monPc, status, plug, fails>>

CdResults == {"PLUGED", "UNPLUGED", "TIMEOUT"}
ReqPcs == {"idle", "cmd", "cmdInc", "stop", "stopInc", "complete"}
NoReq == [pc |-> "idle", owner |-> "io", stop |-> FALSE, tmp |-> 0, ok |-> FALSE]

Sat(n) == IF n > ErrCap THEN ErrCap ELSE n

(* rt_mb_send on a full mailbox fails; nobody checks its result.          *)
MbSend(n) == IF n < MbSize THEN n + 1 ELSE n

(* mmcsd_wait_cd_changed: on a notification it reports host->card as it   *)
(* is when the notification is received.                                  *)
CdChanged == IF card THEN "PLUGED" ELSE "UNPLUGED"

(* The wait gives up after 5000 ticks with nothing received. Unless the   *)
(* detect thread may be slower than that, it only gives up when nothing   *)
(* is on its way.                                                         *)
CanTimeOut ==
  /\ hotplugMb = 0
  /\ SlowDetect \/ (detectMb = 0 /\ detectPc = "idle")

MountOutcomes == IF MountCanFail THEN BOOLEAN ELSE {TRUE}

(* dfs_mount("sd0", "/mmc", "elm", 0, 0): needs the block device of an    *)
(* identified card; mounting twice leaves the first mount in place.       *)
Mount(ok) == mounted' = (mounted \/ (card /\ ok))

-----------------------------------------------------------------------------
(* mmc_mci_request (drv_tf.c:110-132): the primary command, then the stop *)
(* command if any, each sent with sunxi_mmc_send_cmd; then                *)
(* mmcsd_req_complete. `mmc->err++` is a load and a store of a volatile  *)
(* int: the monitor may write err between the two.                        *)

AfterCmd(pc) == IF pc \in {"cmd", "cmdInc"} /\ req.stop THEN "stop" ELSE "complete"

(* sunxi_mmc_send_cmd returns 0: response copied back, mmc->err = 0.      *)
CmdOk ==
  /\ req.pc \in {"cmd", "stop"}
  /\ present
  /\ err' = 0
  /\ fails' = 0
  /\ req' = [req EXCEPT !.pc = AfterCmd(req.pc),
                        !.ok = IF req.pc = "cmd" THEN TRUE ELSE @]
  /\ UNCHANGED <<present, plugEvents, card, mounted, detectMb, hotplugMb,
                 detectPc, initPc, monPc, status, plug>>

(* sunxi_mmc_send_cmd returns an error: the load half of mmc->err++.      *)
CmdFail ==
  /\ req.pc \in {"cmd", "stop"}
  /\ fails' = Sat(fails + 1)
  /\ req' = [req EXCEPT !.pc = IF @ = "cmd" THEN "cmdInc" ELSE "stopInc",
                        !.tmp = err,
                        !.ok = IF req.pc = "cmd" THEN FALSE ELSE @]
  /\ UNCHANGED <<present, plugEvents, card, mounted, detectMb, hotplugMb,
                 detectPc, err, initPc, monPc, status, plug>>

(* Mutants of ErrStore: `mmc->err--`, and an increment that is lost.    *)
ErrStoreDecrement ==
  /\ req.pc \in {"cmdInc", "stopInc"}
  /\ err' = Sat(req.tmp - 1)
  /\ req' = [req EXCEPT !.pc = AfterCmd(req.pc)]
  /\ UNCHANGED <<present, plugEvents, card, mounted, detectMb, hotplugMb,
                 detectPc, initPc, monPc, status, plug, fails>>

ErrStoreLost ==
  /\ req.pc \in {"cmdInc", "stopInc"}
  /\ err' = Sat(req.tmp)
  /\ req' = [req EXCEPT !.pc = AfterCmd(req.pc)]
  /\ UNCHANGED <<present, plugEvents, card, mounted, detectMb, hotplugMb,
                 detectPc, initPc, monPc, status, plug, fails>>

(* The store half of mmc->err++.                                          *)
ErrStore ==
  /\ req.pc \in {"cmdInc", "stopInc"}
  /\ err' = Sat(req.tmp + 1)
  /\ req' = [req EXCEPT !.pc = AfterCmd(req.pc)]
  /\ UNCHANGED <<present, plugEvents, card, mounted, detectMb, hotplugMb,
                 detectPc, initPc, monPc, status, plug, fails>>

(* mmcsd_req_complete releases the caller, whatever the outcome.          *)
ReqComplete ==
  /\ req.pc = "complete"
  /\ req' = [req EXCEPT !.pc = "idle"]
  /\ UNCHANGED <<present, plugEvents, card, mounted, detectMb, hotplugMb,
                 detectPc, err, initPc, monPc, status, plug, fails>>

-----------------------------------------------------------------------------
(* rt_hw_tf_init (drv_tf.c:197-244).                                      *)

(* Allocate the host, probe the controller, register the ops, then        *)
(* mmcsd_change. Either failure returns -1 and no monitor is started.     *)
TfInitProbe ==
  /\ initPc = "start"
  /\ \/ /\ initPc' = "failed"
        /\ UNCHANGED detectMb
     \/ /\ initPc' = "wait"
        /\ detectMb' = MbSend(detectMb)
  /\ UNCHANGED <<present, plugEvents, card, mounted, hotplugMb, detectPc,
                 err, req, monPc, status, plug, fails>>

(* mci.plug = mmcsd_wait_cd_changed(5000) answered; mount if plugged, and *)
(* start the monitor.                                                     *)
TfInitRecv ==
  /\ initPc = "wait"
  /\ hotplugMb > 0
  /\ hotplugMb' = hotplugMb - 1
  /\ plug' = CdChanged
  /\ \E ok \in MountOutcomes : IF card THEN Mount(ok) ELSE UNCHANGED mounted
  /\ initPc' = "done"
  /\ monPc' = "start"
  /\ UNCHANGED <<present, plugEvents, card, detectMb, detectPc, err, req,
                 status, fails>>

(* The wait timed out: "No card detected", start the monitor.             *)
TfInitTimeout ==
  /\ initPc = "wait"
  /\ CanTimeOut
  /\ plug' = "TIMEOUT"
  /\ initPc' = "done"
  /\ monPc' = "start"
  /\ UNCHANGED <<present, plugEvents, card, mounted, detectMb, hotplugMb,
                 detectPc, err, req, status, fails>>

(* Bring-up failed: this device does nothing more.                        *)
TfInitFailed ==
  /\ initPc = "failed"
  /\ UNCHANGED vars

-----------------------------------------------------------------------------
(* sd_thread_entry (drv_tf.c:160-194).                                    *)

MonStart ==
  /\ monPc = "start"
  /\ status' = plug
  /\ monPc' = "poll"
  /\ UNCHANGED <<present, plugEvents, card, mounted, detectMb, hotplugMb,
                 detectPc, err, req, initPc, plug, fails>>

(* Mutant of FaultCond: `mmc->err >= 10`.                                 *)
FaultCondOffByOne == err >= FaultThreshold /\ card

NoCardCond == status # "PLUGED" /\ ~card
FaultCond == err > FaultThreshold /\ card

(* Mutant of MonPollNoCard: the mmcsd_change call is missing.            *)
MonPollNoCardNoChange ==
  /\ monPc = "poll"
  /\ NoCardCond
  /\ monPc' = "ncWait"
  /\ UNCHANGED <<present, plugEvents, card, mounted, detectMb, hotplugMb,
                 detectPc, err, req, initPc, status, plug, fails>>

(* No card known: ask the bus layer to look for one.                      *)
MonPollNoCard ==
  /\ monPc = "poll"
  /\ NoCardCond
  /\ detectMb' = MbSend(detectMb)
  /\ monPc' = "ncWait"
  /\ UNCHANGED <<present, plugEvents, card, mounted, hotplugMb, detectPc,
                 err, req, initPc, status, plug, fails>>

(* Too many errors on a known card: force the bus layer to re-evaluate.   *)
MonPollFault ==
  /\ monPc = "poll"
  /\ ~NoCardCond
  /\ FaultCond
  /\ detectMb' = MbSend(detectMb)
  /\ monPc' = "frWait"
  /\ UNCHANGED <<present, plugEvents, card, mounted, hotplugMb, detectPc,
                 err, req, initPc, status, plug, fails>>

(* Neither: rt_thread_delay and poll again.                               *)
MonPollIdle ==
  /\ monPc = "poll"
  /\ ~NoCardCond
  /\ ~FaultCond
  /\ UNCHANGED vars

MonNcRecv ==
  /\ monPc = "ncWait"
  /\ hotplugMb > 0
  /\ hotplugMb' = hotplugMb - 1
  /\ plug' = CdChanged
  /\ monPc' = IF card THEN "ncMount" ELSE "poll"
  /\ UNCHANGED <<present, plugEvents, card, mounted, detectMb, detectPc,
                 err, req, initPc, status, fails>>

MonNcTimeout ==
  /\ monPc = "ncWait"
  /\ CanTimeOut
  /\ plug' = "TIMEOUT"
  /\ monPc' = "poll"
  /\ UNCHANGED <<present, plugEvents, card, mounted, detectMb, hotplugMb,
                 detectPc, err, req, initPc, status, fails>>

(* "Card detected": mount, and status = mmc->plug whatever dfs_mount      *)
(* returned.                                                              *)
MonNcMount ==
  /\ monPc = "ncMount"
  /\ \E ok \in MountOutcomes : Mount(ok)
  /\ status' = plug
  /\ monPc' = "poll"
  /\ UNCHANGED <<present, plugEvents, card, detectMb, hotplugMb, detectPc,
                 err, req, initPc, plug, fails>>

(* Mutant of MonFrRecv: `status = mmc->plug` is missing.                 *)
MonFrRecvKeepStatus ==
  /\ monPc = "frWait"
  /\ hotplugMb > 0
  /\ hotplugMb' = hotplugMb - 1
  /\ plug' = CdChanged
  /\ err' = 0
  /\ fails' = 0
  /\ monPc' = "poll"
  /\ UNCHANGED <<present, plugEvents, card, mounted, detectMb, detectPc,
                 req, initPc, status>>

(* The forced re-evaluation was answered: status = mmc->plug, err = 0.    *)
MonFrRecv ==
  /\ monPc = "frWait"
  /\ hotplugMb > 0
  /\ hotplugMb' = hotplugMb - 1
  /\ plug' = CdChanged
  /\ status' = CdChanged
  /\ err' = 0
  /\ fails' = 0
  /\ monPc' = "poll"
  /\ UNCHANGED <<present, plugEvents, card, mounted, detectMb, detectPc,
                 req, initPc>>

MonFrTimeout ==
  /\ monPc = "frWait"
  /\ CanTimeOut
  /\ plug' = "TIMEOUT"
  /\ status' = "TIMEOUT"
  /\ err' = 0
  /\ fails' = 0
  /\ monPc' = "poll"
  /\ UNCHANGED <<present, plugEvents, card, mounted, detectMb, hotplugMb,
                 detectPc, req, initPc>>

-----------------------------------------------------------------------------
(* Environment: the RT-Thread mmcsd core and the card slot.               *)

EnvUnchanged == UNCHANGED <<err, initPc, monPc, status, plug, fails>>

(* mmcsd_detect, card known: under the host lock remove the block device  *)
(* (which unmounts it), host->card = NULL, notify.                        *)
DetectRemove ==
  /\ detectPc = "idle" /\ detectMb > 0 /\ req.pc = "idle"
  /\ card
  /\ detectMb' = detectMb - 1
  /\ card' = FALSE
  /\ mounted' = FALSE
  /\ hotplugMb' = MbSend(hotplugMb)
  /\ UNCHANGED <<present, plugEvents, detectPc, req>>
  /\ EnvUnchanged

(* mmcsd_detect, no card known: take the host lock and identify a card,   *)
(* which sends commands through mmc_mci_request.                          *)
DetectInitStart ==
  /\ detectPc = "idle" /\ detectMb > 0 /\ req.pc = "idle"
  /\ ~card
  /\ detectMb' = detectMb - 1
  /\ detectPc' = "init"
  /\ req' = [NoReq EXCEPT !.pc = "cmd", !.owner = "detect"]
  /\ UNCHANGED <<present, plugEvents, card, mounted, hotplugMb>>
  /\ EnvUnchanged

(* Identification finished: a card that answered is registered; a card   *)
(* that is there but failed leaves host->card NULL; both notify. With no  *)
(* card in the slot nothing answers and nothing is notified.              *)
DetectInitDone ==
  /\ detectPc = "init" /\ req.pc = "idle"
  /\ detectPc' = "idle"
  /\ card' = req.ok
  /\ hotplugMb' = IF req.ok \/ present THEN MbSend(hotplugMb) ELSE hotplugMb
  /\ UNCHANGED <<present, plugEvents, mounted, detectMb, req>>
  /\ EnvUnchanged

(* A filesystem thread reads or writes the block device of a known card.  *)
IoRequest ==
  /\ card /\ detectPc = "idle" /\ req.pc = "idle"
  /\ \E s \in BOOLEAN : req' = [NoReq EXCEPT !.pc = "cmd", !.stop = s]
  /\ UNCHANGED <<present, plugEvents, card, mounted, detectMb, hotplugMb,
                 detectPc>>
  /\ EnvUnchanged

Insert ==
  /\ ~present /\ plugEvents < MaxPlugEvents
  /\ present' = TRUE
  /\ plugEvents' = plugEvents + 1
  /\ UNCHANGED <<card, mounted, detectMb, hotplugMb, detectPc, req>>
  /\ EnvUnchanged

Remove ==
  /\ present /\ plugEvents < MaxPlugEvents
  /\ present' = FALSE
  /\ plugEvents' = plugEvents + 1
  /\ UNCHANGED <<card, mounted, detectMb, hotplugMb, detectPc, req>>
  /\ EnvUnchanged

-----------------------------------------------------------------------------

Init ==
  /\ present \in BOOLEAN
  /\ plugEvents = 0
  /\ card = FALSE
  /\ mounted = FALSE
  /\ detectMb = 0
  /\ hotplugMb = 0
  /\ detectPc = "idle"
  /\ err = 0
  /\ req = NoReq
  /\ initPc = "start"
  /\ monPc = "none"
  /\ status = "UNPLUGED"  \* not read before MonStart assigns it
  /\ plug = "UNPLUGED"    \* static mci: plug = 0 = MMCSD_HOST_UNPLUGED
  /\ fails = 0

Request == CmdOk \/ CmdFail \/ ErrStore \/ ReqComplete
TfInit == TfInitProbe \/ TfInitRecv \/ TfInitTimeout \/ TfInitFailed
Monitor == MonStart \/ MonPollNoCard \/ MonPollFault \/ MonPollIdle
           \/ MonNcRecv \/ MonNcTimeout \/ MonNcMount \/ MonFrRecv \/ MonFrTimeout
Detect == DetectRemove \/ DetectInitStart \/ DetectInitDone

Next == Request \/ TfInit \/ Monitor \/ Detect \/ IoRequest \/ Insert \/ Remove

Spec == Init /\ [][Next]_vars

(* Every thread runs; a card that is in the slot answers a command        *)
(* sooner or later (CmdOk strongly fair); the host mutex goes to the      *)
(* higher-priority detect thread when it waits for it (strong fairness).  *)
(* Filesystem I/O and the user's hand on the card are not fair.           *)
Fairness ==
  /\ WF_vars(Request) /\ SF_vars(CmdOk)
  /\ WF_vars(TfInit) /\ WF_vars(Monitor)
  /\ SF_vars(DetectRemove) /\ SF_vars(DetectInitStart) /\ WF_vars(DetectInitDone)

FairSpec == Spec /\ Fairness

-----------------------------------------------------------------------------
(* Properties                                                             *)

TypeOK ==
  /\ present \in BOOLEAN /\ plugEvents \in 0..MaxPlugEvents
  /\ card \in BOOLEAN /\ mounted \in BOOLEAN
  /\ detectMb \in 0..MbSize /\ hotplugMb \in 0..MbSize
  /\ detectPc \in {"idle", "init"}
  /\ err \in 0..ErrCap /\ fails \in 0..ErrCap
  /\ req \in [pc : ReqPcs, owner : {"io", "detect"}, stop : BOOLEAN,
              tmp : 0..ErrCap, ok : BOOLEAN]
  /\ initPc \in {"start", "wait", "done", "failed"}
  /\ monPc \in {"none", "start", "poll", "ncWait", "ncMount", "frWait"}
  /\ status \in CdResults /\ plug \in CdResults

(* The monitor's `status` agrees with the bus layer: whenever the monitor *)
(* is about to poll and the detect thread has nothing left to do,         *)
(* status = MMCSD_HOST_PLUGED exactly when host->card exists. If it says  *)
(* PLUGED with no card, neither branch of sd_thread_entry can fire again  *)
(* and an inserted card is never detected; if it says not PLUGED with a   *)
(* card, the identified card is never mounted.                            *)
MonitorBeliefConsistent ==
  (monPc = "poll" /\ detectMb = 0 /\ detectPc = "idle")
    => ((status = "PLUGED") <=> card)

(* The torn `mmc->err++` never hides a failure: outside the increment,    *)
(* mmc->err is at least the number of commands that failed since the last *)
(* success or forced re-evaluation, so a fault is never missed.           *)
NoMissedFault ==
  req.pc \notin {"cmdInc", "stopInc"} => err >= fails

(* The monitor forces a re-evaluation of a card only after more than      *)
(* FaultThreshold commands in a row have failed since the last success or *)
(* the last forced re-evaluation: a reset of mmc->err by the monitor is   *)
(* never undone by a request's pending increment.                         *)
ForcedReplugJustified ==
  [][(monPc = "poll" /\ monPc' = "frWait") => fails > FaultThreshold]_vars

(* Once bring-up has succeeded and a card stays in the slot, /mmc is      *)
(* mounted again and again: error-driven replugs end in a remount and an  *)
(* identified card is always mounted.                                     *)
Remount ==
  <>[](present /\ initPc = "done") => []<>mounted

=============================================================================
