---------------------------- MODULE MCSdHotplug ----------------------------
(***************************************************************************)
(* Bounds for checking SdHotplug with TLC.                                 *)
(***************************************************************************)
EXTENDS SdHotplug

(* Two failures above the threshold are enough to cross it; the code's 10 *)
(* only lengthens the runs of failures.                                   *)
MCFaultThreshold == 2
(* RT-Thread's mailboxes hold 4; at most two messages are ever pending    *)
(* in these bounds, and 2 keeps the full-mailbox case reachable.          *)
MCMbSize == 2
(* Remove and re-insert, or insert and remove.                            *)
MCMaxPlugEvents == 2

=============================================================================
