--------------------------- MODULE MillisecTimer ----------------------------
(***************************************************************************)
(* millisec_timer.c with the counter MILLISEC_TIMER_NOW, which an          *)
(* interrupt increments every millisecond, and a program that loads the    *)
(* counter and passes it to the functions of one timer.                    *)
(*                                                                         *)
(* The counter is a number modulo Range in two machine words, of which the *)
(* low one is a number modulo LowRange.  A CPU that loads all of it at     *)
(* once has LowRange = Range; the high word is then always 0.  On an AVR   *)
(* the interrupt can come between the loads.  time and since are the true  *)
(* times, which the program does not see.                                  *)
(***************************************************************************)
EXTENDS Integers

CONSTANTS
  Range,     (* 2^w, w the width of millisec_timer_unit_t                   *)
  LowRange,  (* 2^w', w' the width of what is loaded at once                *)
  Rels,      (* the intervals given to millisec_timer_set_rel               *)
  MaxTime    (* bound on the number of ticks                                *)

ASSUME TimerAssumption ==
  /\ Range \in Nat \ {0}
  /\ LowRange \in 1 .. Range
  /\ Rels \subseteq 0 .. Range - 1
  /\ MaxTime \in Nat

VARIABLES
  time,   (* milliseconds, of which MILLISEC_TIMER_NOW is the remainder     *)
  timer,  (* the millisec_timer                                             *)
  load,   (* words of MILLISEC_TIMER_NOW loaded for the next call, and when *)
  since,  (* when the running interval of the timer began                   *)
  rel,    (* its length                                                     *)
  result  (* what the last function returned                                *)

timer_vars == <<time, timer, load, since, rel, result>>

None == -1
MILLISEC_TIMER_NOW == time % Range
Unloaded == [low |-> None, high |-> None, at |-> None]
Loaded == load.low # None /\ load.high # None

(* The argument now of the next call.                                      *)
now == load.high * LowRange + load.low

TimerInit ==
  /\ time = 0
  /\ timer = [enabled |-> FALSE, set_time |-> 0, expire_time |-> 0]
  /\ load = Unloaded
  /\ since = 0 /\ rel = 0
  /\ result = FALSE

(* The interrupt handler. *)
Tick ==
  /\ time < MaxTime
  /\ time' = time + 1
  /\ UNCHANGED <<timer, load, since, rel, result>>

(* The loads, in either order; at is the time of the low word.             *)
LoadLow ==
  /\ load.low = None
  /\ load' = [low |-> MILLISEC_TIMER_NOW % LowRange, high |-> load.high, at |-> time]
  /\ UNCHANGED <<time, timer, since, rel, result>>

LoadHigh ==
  /\ load.high = None
  /\ load' = [low |-> load.low, high |-> MILLISEC_TIMER_NOW \div LowRange, at |-> load.at]
  /\ UNCHANGED <<time, timer, since, rel, result>>

(* A call takes the loaded value.                                          *)
Call ==
  /\ Loaded
  /\ load' = Unloaded
  /\ UNCHANGED time

(* Mutant: the sum is not taken modulo Range. *)
SetRel_Unwrapped(r) ==
  /\ Call
  /\ timer' = [enabled |-> TRUE, set_time |-> now, expire_time |-> now + r]
  /\ since' = load.at
  /\ rel' = r
  /\ UNCHANGED result

SetRel(r) ==
  /\ Call
  /\ timer' = [enabled |-> TRUE, set_time |-> now, expire_time |-> (now + r) % Range]
  /\ since' = load.at
  /\ rel' = r
  /\ UNCHANGED result

(***************************************************************************)
(* The condition of both functions: now is not in the interval that begins *)
(* at set_time and ends before expire_time.                                *)
(***************************************************************************)
(* Mutant: the wrap of expire_time is not looked at. *)
expired_NoWrap(t, n) == n >= t.expire_time

(* Mutant: the wrap of now is not looked at. *)
expired_NoNowWrap(t, n) ==
  \/ t.expire_time = t.set_time
  \/ t.expire_time > t.set_time /\ n >= t.expire_time
  \/ t.expire_time < t.set_time /\ n >= t.expire_time /\ n < t.set_time

expired(t, n) ==
  \/ t.expire_time = t.set_time
  \/ t.expire_time > t.set_time /\ (n >= t.expire_time \/ n < t.set_time)
  \/ t.expire_time < t.set_time /\ n >= t.expire_time /\ n < t.set_time

IsExpired ==
  /\ Call
  /\ result' = (timer.enabled /\ expired(timer, now))
  /\ timer' = IF result' THEN [timer EXCEPT !.enabled = FALSE] ELSE timer
  /\ UNCHANGED <<since, rel>>

(* The next interval begins where the last one ended, however late it is.  *)
IsExpiredRepeat ==
  /\ Call
  /\ result' = (timer.enabled /\ expired(timer, now))
  /\ IF result'
       THEN /\ timer' = [enabled |-> TRUE, set_time |-> timer.expire_time,
                         expire_time |-> (2 * timer.expire_time - timer.set_time) % Range]
            /\ since' = since + rel
       ELSE UNCHANGED <<timer, since>>
  /\ UNCHANGED rel

TimerNext ==
  \/ Tick
  \/ LoadLow
  \/ LoadHigh
  \/ \E r \in Rels : SetRel(r)
  \/ IsExpired
  \/ IsExpiredRepeat

TimerSpec == TimerInit /\ [][TimerNext]_timer_vars

----------------------------------------------------------------------------
(* Properties.                                                             *)

(* The C types, and load as it can be between two calls. *)
TimerTypeOK ==
  /\ time \in Nat
  /\ timer \in [enabled : BOOLEAN, set_time : 0 .. Range - 1, expire_time : 0 .. Range - 1]
  /\ load \in [low : -1 .. LowRange - 1, high : Int, at : Nat \cup {-1}]
  /\ since \in Nat
  /\ rel \in 0 .. Range - 1
  /\ result \in BOOLEAN

(***************************************************************************)
(* A timer never reports an expiry before its interval is over, in true    *)
(* time, wherever the counter wraps and however late or often the timer    *)
(* was polled; for a repeating timer, no expiry comes before the sum of    *)
(* the intervals so far.                                                   *)
(***************************************************************************)
Asked == IsExpired \/ IsExpiredRepeat

NeverEarly == [][Asked /\ result' => load.at >= since + rel]_timer_vars

(***************************************************************************)
(* A timer that is asked less than one period of the counter after its     *)
(* interval began reports that the interval is over, as soon as it is; a   *)
(* repeating timer thus reports every interval, those it is behind with    *)
(* one call after the other.                                               *)
(***************************************************************************)
NeverMissed ==
  [][Asked /\ timer.enabled /\ since + rel <= load.at /\ load.at < since + Range
       => result']_timer_vars

=============================================================================
