------------------------------- MODULE MCRtc -------------------------------
(* Instance of Rtc for TLC: a two-second day so that a few ticks cross     *)
(* midnight, two days, and years inside and just outside 1970..2033.       *)
EXTENDS Rtc

MCSecsPerDay == 2
MCDays == {0, 1}
MCYears == {2033, 2034}
MCMaxTicks == 3
=============================================================================
