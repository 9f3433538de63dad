------------------------------- MODULE Clock -------------------------------
(***************************************************************************)
(* The clock of clock.c.  The timer interrupt advances it a second every   *)
(* hundred ticks, whole; clock_get and clock_set, which the desktop and    *)
(* the shell call in turn, copy hours, minutes and seconds one after the   *)
(* other with interrupts on.                                               *)
(***************************************************************************)
EXTENDS Naturals

CONSTANTS Hours, Minutes, Seconds,   \* 24, 60 and 60, all positive
          Ticks                      \* 100

\* A day has hours, whatever an hour has.
ASSUME DayAssumption ==
  /\ Hours \in Nat \ {0, 1} /\ Minutes \in Nat \ {0} /\ Seconds \in Nat \ {0}
  /\ Ticks \in Nat \ {0}

VARIABLES
  time,     \* hours, minutes and seconds
  ticks,    \* tick_count
  call,     \* the statement of clock_get or clock_set that is next
  copy,     \* clock_get's results, clock_set's arguments
  midnight  \* history: the day has ended since clock_get was called

clockVars == <<time, ticks, call, copy, midnight>>

Times == [h : 0 .. Hours - 1, m : 0 .. Minutes - 1, s : 0 .. Seconds - 1]

ClockInit ==
  /\ time = [h |-> 0, m |-> 0, s |-> 0]
  /\ ticks = 0
  /\ call = <<"none", 0>>
  /\ copy = time
  /\ midnight = FALSE

\* A second later.
Advanced ==
  LET s == time.s + 1
      m == IF s >= Seconds THEN time.m + 1 ELSE time.m
      h == IF m >= Minutes THEN time.h + 1 ELSE time.h
  IN  [h |-> IF h >= Hours THEN 0 ELSE h,
       m |-> IF m >= Minutes THEN 0 ELSE m,
       s |-> IF s >= Seconds THEN 0 ELSE s]

clock_tick ==
  /\ IF ticks + 1 < Ticks
       THEN ticks' = ticks + 1 /\ UNCHANGED <<time, midnight>>
       ELSE /\ ticks' = 0
            /\ time' = Advanced
            /\ midnight' = (midnight \/ Advanced.h < time.h)
  /\ UNCHANGED <<call, copy>>

-----------------------------------------------------------------------------
(* The callers, of which one runs at a time.                               *)

\* Mutant: the seconds first.
Field_Backwards(i) == <<"s", "m", "h">>[i]

Field(i) == <<"h", "m", "s">>[i]

Call ==
  /\ call[1] \in {"none", "got"}
  /\ call' \in {"get", "set"} \X {1}
  /\ copy' \in IF call'[1] = "set" THEN Times ELSE {copy}
  /\ midnight' = FALSE
  /\ UNCHANGED <<time, ticks>>

clock_get(i) ==
  /\ call = <<"get", i>>
  /\ copy' = [copy EXCEPT ![Field(i)] = time[Field(i)]]
  /\ call' = IF i = 3 THEN <<"got", 0>> ELSE <<"get", i + 1>>
  /\ UNCHANGED <<time, ticks, midnight>>

\* tick_count is left as it is, so the first second may be a short one.
clock_set(i) ==
  /\ call = <<"set", i>>
  /\ time' = [time EXCEPT ![Field(i)] = copy[Field(i)]]
  /\ call' = IF i = 3 THEN <<"none", 0>> ELSE <<"set", i + 1>>
  /\ UNCHANGED <<ticks, copy, midnight>>

ClockNext == clock_tick \/ Call \/ \E i \in 1 .. 3 : clock_get(i) \/ clock_set(i)

ClockSpec == ClockInit /\ [][ClockNext]_clockVars

-----------------------------------------------------------------------------
(* Properties                                                              *)

\* The variables stay in their types: 24:00:00 is never shown, not even when
\* the clock is set while it ticks.
ClockTypeOK ==
  /\ time \in Times /\ copy \in Times
  /\ ticks \in 0 .. Ticks - 1
  /\ call \in ({"none", "got"} \X {0}) \cup ({"get", "set"} \X (1 .. 3))
  /\ midnight \in BOOLEAN

NotAfter(t, u) ==
  \/ t.h < u.h
  \/ t.h = u.h /\ t.m < u.m
  \/ t.h = u.h /\ t.m = u.m /\ t.s <= u.s

\* clock_get may be interrupted by the end of a minute or an hour and return
\* the old hour with the new minutes: it shows a time that has passed, never
\* one to come, except across midnight.
TimeNeverAhead == call[1] = "got" /\ ~midnight => NotAfter(copy, time)
=============================================================================
