------------------------------- MODULE Udelay -------------------------------
(***************************************************************************)
(* Busy-wait delays of src/uboot/timer.c: mdelay calls udelay(1000) per    *)
(* millisecond, udelay splits its argument into chunks of at most          *)
(* CONFIG_WD_PERIOD microseconds, and __udelay spins on timer 0, the OS    *)
(* tick timer set up by tick_timer_init, until USEC_TO_COUNT(usec) counts  *)
(* have been seen.                                                         *)
(*                                                                         *)
(* The timer counts down from TIMER_LOAD_VAL - 1 to 0 and reloads;         *)
(* tick_read_timer inverts it into an up-counter.  The hardware keeps      *)
(* counting while the CPU runs the loop: each read of the timer is one     *)
(* step that first lets some number of counts (a member of Gaps) pass.     *)
(* A CPU much faster than the 24 MHz timer reads the same value twice      *)
(* (gap 0); an interrupt can hold the loop off for many counts.            *)
(***************************************************************************)
EXTENDS Integers

CONSTANTS
  TIMER_LOAD_VAL,   \* counts per timer period (TIMER_CLOCK / tick)
  COUNTS_PER_USEC,  \* USEC_TO_COUNT(1), 24 on the 24 MHz oscillator
  USEC_PER_MSEC,    \* the 1000 of mdelay's udelay(1000)
  WD_PERIOD,        \* CONFIG_WD_PERIOD, the largest chunk udelay passes on
  Gaps,             \* counts that may pass between two reads of the timer
  MaxMsec,          \* largest mdelay argument tried
  MaxUsec           \* largest udelay argument tried

ASSUME TIMER_LOAD_VAL > 1 /\ COUNTS_PER_USEC > 0 /\ USEC_PER_MSEC > 0
ASSUME WD_PERIOD > 0 /\ Gaps \subseteq Nat /\ MaxMsec \in Nat /\ MaxUsec \in Nat

VARIABLES
  val,      \* the timer's down-counting value register
  pc,       \* "idle", "mdelay", "udelay", "__udelay" or "done"
  msec,     \* mdelay's argument, decremented per millisecond
  fromMs,   \* the running udelay was called by mdelay
  usec,     \* udelay's remaining argument
  kv,       \* the chunk udelay passed to __udelay
  tmo,      \* __udelay's remaining counts
  last,     \* __udelay's previous timer reading
  elapsed,  \* counts that really passed since the delay started
  target    \* counts the caller asked for

vars == <<val, pc, msec, fromMs, usec, kv, tmo, last, elapsed, target>>

USEC_TO_COUNT(x) == x * COUNTS_PER_USEC

(* Mutant of tick_read_timer: an off-by-one inversion.                    *)
tick_read_timer_plus1(v) == TIMER_LOAD_VAL - v + 1

(* tick_read_timer: TIMER_LOAD_VAL - readl(&timer->val).                  *)
tick_read_timer(v) == TIMER_LOAD_VAL - v

(* elapsed is only compared with target, so it saturates at the largest   *)
(* target any call can have without changing what the checks see.         *)
ElapsedCap ==
  USEC_TO_COUNT(IF MaxMsec * USEC_PER_MSEC > MaxUsec
                THEN MaxMsec * USEC_PER_MSEC ELSE MaxUsec)
Count(e, g) == IF e + g > ElapsedCap THEN ElapsedCap ELSE e + g

(* The hardware counts g times: down by g, reloading below zero.          *)
Advance(v, g) == (v - g) % TIMER_LOAD_VAL

(* A caller asks for a delay: mdelay(msec) or udelay(usec) directly.      *)
CallMdelay ==
  /\ pc = "idle"
  /\ \E m \in 0..MaxMsec :
       /\ msec' = m
       /\ target' = USEC_TO_COUNT(m * USEC_PER_MSEC)
  /\ pc' = "mdelay"
  /\ elapsed' = 0
  /\ UNCHANGED <<val, fromMs, usec, kv, tmo, last>>

CallUdelay ==
  /\ pc = "idle"
  /\ \E u \in 0..MaxUsec :
       /\ usec' = u
       /\ target' = USEC_TO_COUNT(u)
  /\ pc' = "udelay"
  /\ fromMs' = FALSE
  /\ elapsed' = 0
  /\ UNCHANGED <<val, msec, kv, tmo, last>>

(* Mutant of MdelayStep: `while (--msec)`, one millisecond short.         *)
MdelayStepPredec ==
  /\ pc = "mdelay"
  /\ IF msec - 1 > 0
       THEN /\ pc' = "udelay" /\ usec' = USEC_PER_MSEC /\ fromMs' = TRUE
       ELSE /\ pc' = "done" /\ UNCHANGED <<usec, fromMs>>
  /\ msec' = IF msec > 0 THEN msec - 1 ELSE 0
  /\ UNCHANGED <<val, kv, tmo, last, elapsed, target>>

(* mdelay: while (msec--) udelay(1000);                                   *)
MdelayStep ==
  /\ pc = "mdelay"
  /\ IF msec > 0
       THEN /\ pc' = "udelay" /\ usec' = USEC_PER_MSEC /\ fromMs' = TRUE
       ELSE /\ pc' = "done" /\ UNCHANGED <<usec, fromMs>>
  /\ msec' = IF msec > 0 THEN msec - 1 ELSE 0
  /\ UNCHANGED <<val, kv, tmo, last, elapsed, target>>

(* One pass of udelay's do-while: WATCHDOG_RESET(), kv = min(usec,        *)
(* CONFIG_WD_PERIOD), then __udelay(kv), whose first act is               *)
(* `last = tick_read_timer()` after some counts have passed.              *)
UdelayChunk ==
  /\ pc = "udelay"
  /\ kv' = IF usec > WD_PERIOD THEN WD_PERIOD ELSE usec
  /\ tmo' = USEC_TO_COUNT(kv')
  /\ \E g \in Gaps :
       /\ val' = Advance(val, g)
       /\ elapsed' = Count(elapsed, g)
       /\ last' = tick_read_timer(val')
  /\ pc' = "__udelay"
  /\ UNCHANGED <<msec, fromMs, usec, target>>

(* One iteration of __udelay's loop: read the timer and charge the counts *)
(* since the last read, taking now <= last as a rollover.                 *)
UdelayLoop ==
  /\ pc = "__udelay"
  /\ tmo > 0
  /\ \E g \in Gaps :
       LET v == Advance(val, g)
           now == tick_read_timer(v)
       IN /\ val' = v
          /\ elapsed' = Count(elapsed, g)
          /\ tmo' = IF now > last THEN tmo - (now - last)
                    ELSE tmo - (TIMER_LOAD_VAL - last + now)
          /\ last' = now
  /\ UNCHANGED <<pc, msec, fromMs, usec, kv, target>>

(* Mutant of UdelayReturn: `usec -= kv` is missing.                      *)
UdelayReturnNoSub ==
  /\ pc = "__udelay"
  /\ tmo <= 0
  /\ pc' = IF usec # 0 THEN "udelay" ELSE IF fromMs THEN "mdelay" ELSE "done"
  /\ UNCHANGED <<val, msec, fromMs, usec, kv, tmo, last, elapsed, target>>

(* __udelay returns once tmo <= 0; udelay subtracts the chunk and loops   *)
(* while usec is non-zero, then returns to mdelay or to its caller.       *)
UdelayReturn ==
  /\ pc = "__udelay"
  /\ tmo <= 0
  /\ usec' = usec - kv
  /\ pc' = IF usec' # 0 THEN "udelay" ELSE IF fromMs THEN "mdelay" ELSE "done"
  /\ UNCHANGED <<val, msec, fromMs, kv, tmo, last, elapsed, target>>

(* The caller goes on and may delay again.                                *)
Finish ==
  /\ pc = "done"
  /\ pc' = "idle"
  /\ UNCHANGED <<val, msec, fromMs, usec, kv, tmo, last, elapsed, target>>

Init ==
  /\ val \in 0..(TIMER_LOAD_VAL - 1)
  /\ pc = "idle"
  /\ msec = 0
  /\ fromMs = FALSE
  /\ usec = 0
  /\ kv = 0
  /\ tmo = 0
  /\ last = 0
  /\ elapsed = 0
  /\ target = 0

Next ==
  \/ CallMdelay \/ CallUdelay \/ MdelayStep \/ UdelayChunk
  \/ UdelayLoop \/ UdelayReturn \/ Finish

Spec == Init /\ [][Next]_vars

(* The delaying thread keeps being scheduled: a busy loop that is         *)
(* preempted resumes, so each of its steps is weakly fair.  Callers are   *)
(* not obliged to delay at all.                                           *)
FairSpec ==
  /\ Spec
  /\ WF_vars(MdelayStep) /\ WF_vars(UdelayChunk)
  /\ WF_vars(UdelayLoop) /\ WF_vars(UdelayReturn)

-----------------------------------------------------------------------------
TypeOK ==
  /\ val \in 0..(TIMER_LOAD_VAL - 1)
  /\ pc \in {"idle", "mdelay", "udelay", "__udelay", "done"}
  /\ msec \in 0..MaxMsec
  /\ fromMs \in BOOLEAN
  /\ usec \in 0..(MaxUsec + USEC_PER_MSEC)
  /\ kv \in 0..WD_PERIOD
  /\ last \in 0..TIMER_LOAD_VAL
  /\ tmo \in Int
  /\ elapsed \in 0..ElapsedCap
  /\ target \in Nat

(* When mdelay or udelay returns, at least as many timer counts have      *)
(* really passed as the caller asked for: the rollover arithmetic of      *)
(* __udelay never charges more counts than the hardware produced.         *)
DelayLongEnough == pc = "done" => elapsed >= target

(* Every mdelay or udelay call returns: udelay's chunking makes progress  *)
(* on usec, mdelay's loop on msec, and __udelay's on tmo.                 *)
DelayReturns == (pc \in {"mdelay", "udelay"}) ~> (pc = "done")
=============================================================================
