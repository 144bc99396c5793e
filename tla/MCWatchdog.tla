----------------------------- MODULE MCWatchdog -----------------------------
EXTENDS Watchdog

(* Below, at and above both clamps, and the seconds without a code in    *)
(* wdt_timeout_map (7, 9, 15), which sunxi_wdt_set_timeout rounds up.     *)
MCArgs == {-1, 0, 1, 7, 9, 15, 16, 17}

(* Every control command of an application thread.                       *)
MCClientCmds == {"set", "start", "stop", "keepalive"}

(* `reboot` with no argument (1), and with the values above or 20.       *)
MCRebootArgs == MCArgs \cup {20}

(* `reboot 4294970`: 4294970 * 1000 exceeds INT_MAX and wraps to 2704.    *)
MCOverflowArgs == {4294970}
=============================================================================
