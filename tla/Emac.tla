------------------------------- MODULE Emac -------------------------------
(***************************************************************************)
(* The Ethernet link monitor of src/driver/drv_emac.c: rt_hw_eth_init     *)
(* probes the MAC and starts the "phy" thread, phy_thread_entry, which     *)
(* once a second reads the PHY link with miiphy_link, reports a change to *)
(* the network stack with eth_device_linkchange, and, when EMAC_INT_STA    *)
(* shows a DMA error (bit 0x40), clears it, reports the link down and      *)
(* re-initialises the MAC.                                                 *)
(*                                                                         *)
(* The PHY link and the DMA error bit are hardware; the MAC probe and the  *)
(* PHY read are U-Boot code outside this repository, so the probe's result *)
(* is a nondeterministic choice.  The one-second delays only separate the  *)
(* steps; each step below is one pass of the loop body between them.      *)
(***************************************************************************)
EXTENDS Integers

CONSTANTS
  MaxFlaps,     \* changes of the PHY link during a behaviour
  MaxDmaErrs    \* DMA errors the MAC raises during a behaviour

ASSUME MaxFlaps \in Nat /\ MaxDmaErrs \in Nat

VARIABLES
  phyLink,     \* the link the PHY reports: 0 or 1
  dmaErr,      \* EMAC_INT_STA bit 0x40
  stackLink,   \* the link last passed to eth_device_linkchange
  initlink,    \* phy_thread_entry's initlink
  ppc,         \* the phy thread: "none", "start", "link", "dma"
  flaps, errs, \* hardware events so far
  restarts     \* _emac_init calls of the thread (checking only)

vars == <<phyLink, dmaErr, stackLink, initlink, ppc, flaps, errs, restarts>>

(* The PHY link goes up or down.                                           *)
PhyChange ==
  /\ flaps < MaxFlaps
  /\ phyLink' = 1 - phyLink
  /\ flaps' = flaps + 1
  /\ UNCHANGED <<dmaErr, stackLink, initlink, ppc, errs, restarts>>

(* The MAC's DMA runs out of buffers and sets bit 0x40 of EMAC_INT_STA.    *)
DmaFault ==
  /\ errs < MaxDmaErrs /\ ~dmaErr
  /\ dmaErr' = TRUE
  /\ errs' = errs + 1
  /\ UNCHANGED <<phyLink, stackLink, initlink, ppc, flaps, restarts>>

(* The thread's first rt_thread_delay, waiting for initialisation.         *)
PhyStart ==
  /\ ppc = "start"
  /\ ppc' = "link"
  /\ UNCHANGED <<phyLink, dmaErr, stackLink, initlink, flaps, errs, restarts>>

(* link = miiphy_link(); if it differs from initlink, report it and keep  *)
(* it in initlink.                                                         *)
CheckLink ==
  /\ ppc = "link"
  /\ IF phyLink # initlink
       THEN stackLink' = phyLink /\ initlink' = phyLink
       ELSE UNCHANGED <<stackLink, initlink>>
  /\ ppc' = "dma"
  /\ UNCHANGED <<phyLink, dmaErr, flaps, errs, restarts>>

(* Mutant of CheckDma: bit 0x40 is not cleared.                            *)
CheckDmaNoClear ==
  /\ ppc = "dma"
  /\ IF dmaErr
       THEN /\ stackLink' = 0
            /\ restarts' = restarts + 1
       ELSE UNCHANGED <<stackLink, restarts>>
  /\ ppc' = "link"
  /\ UNCHANGED <<phyLink, dmaErr, initlink, flaps, errs>>

(* status & 0x40: write 0xffff to EMAC_INT_STA, report the link down,      *)
(* _emac_init; then the loop's delay.  initlink is left as it was.         *)
CheckDma ==
  /\ ppc = "dma"
  /\ IF dmaErr
       THEN /\ dmaErr' = FALSE
            /\ stackLink' = 0
            /\ restarts' = restarts + 1
       ELSE UNCHANGED <<dmaErr, stackLink, restarts>>
  /\ ppc' = "link"
  /\ UNCHANGED <<phyLink, initlink, flaps, errs>>

(* rt_hw_eth_init: when sun8i_emac_eth_probe fails it returns before the  *)
(* phy thread is created.  eth_device_init registers the interface without *)
(* ETHIF_LINK_PHYUP, so RT-Thread's lwIP glue marks its link up at once,   *)
(* while the thread's initlink starts at 0.                               *)
Init ==
  /\ phyLink \in {0, 1}
  /\ dmaErr = FALSE
  /\ stackLink = 1
  /\ initlink = 0
  /\ ppc \in {"none", "start"}
  /\ flaps = 0 /\ errs = 0 /\ restarts = 0

(* Without the phy thread the rest of the system runs on without the MAC. *)
NoMac ==
  /\ ppc = "none"
  /\ UNCHANGED vars

Next ==
  \/ PhyChange \/ DmaFault
  \/ PhyStart \/ CheckLink \/ CheckDma \/ NoMac

Spec == Init /\ [][Next]_vars

(* The phy thread sleeps between passes but is always woken again.         *)
FairSpec ==
  /\ Spec
  /\ WF_vars(PhyStart) /\ WF_vars(CheckLink) /\ WF_vars(CheckDma)

-----------------------------------------------------------------------------
TypeOK ==
  /\ phyLink \in {0, 1} /\ stackLink \in {0, 1} /\ initlink \in {0, 1}
  /\ dmaErr \in BOOLEAN
  /\ ppc \in {"none", "start", "link", "dma"}
  /\ flaps \in 0..MaxFlaps /\ errs \in 0..MaxDmaErrs
  /\ restarts \in 0..MaxDmaErrs

(* Whatever link the PHY settles on, the network stack is eventually told *)
(* so and keeps it, provided the MAC was probed: phy_thread_entry is the   *)
(* one place that reports the link, and it must report both a PHY that is  *)
(* down from boot and a link that stays up after a DMA restart.           *)
StackLinkTracked ==
  \A v \in {0, 1} :
    (ppc # "none" /\ <>[](phyLink = v)) => <>[](stackLink = v)
=============================================================================
