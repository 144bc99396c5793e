------------------------------ MODULE MCUdelay ------------------------------
EXTENDS Udelay

(* Four counts per timer period stand for TIMER_CLOCK / RT_TICK_PER_SECOND *)
(* (240000); one millisecond (3 counts) is shorter than a period, as the  *)
(* real 24000 counts are, and a two-millisecond delay spans a reload.     *)
MCLoad == 4
MCCountsPerUsec == 1
MCUsecPerMsec == 3

(* A chunk size below USEC_PER_MSEC makes udelay split every call.        *)
MCWdPeriod == 2

(* A CPU slower than the timer: every read sees at least one new count,   *)
(* and less than a period passes between reads.                          *)
MCSlowCpuGaps == {1, 2}

(* A CPU faster than the timer may read the same value twice.             *)
MCFastCpuGaps == {0, 1}

MCMaxMsec == 2
MCMaxUsec == 3
=============================================================================
