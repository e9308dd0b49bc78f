----------------------------- MODULE QuietHours -----------------------------
(***************************************************************************)
(* isQuietTime and nextQuietEnd of notification-logic.ts, on a clock of    *)
(* MinuteParts instants to the minute and MinutesPerDay minutes to the day *)
(* (1440 in the code; the definitions only use that a day is a number of   *)
(* minutes).  A quiet period is two local clock times and may go through   *)
(* midnight.  One setting is judged at every instant of three days.        *)
(***************************************************************************)
EXTENDS Integers, FiniteSetsExt

CONSTANTS MinutesPerDay, MinuteParts

VARIABLES start, end,  \* quiet_start and quiet_end, minutes of the day
          now          \* the instant at which a delivery is wanted

vars == <<start, end, now>>

Clock == 0..(MinutesPerDay - 1)

\* localTimeParts: the minute of the day, seconds cut off.
MinuteOf(t) == (t \div MinuteParts) % MinutesPerDay

IsQuietTime(t) ==
  /\ start # end
  /\ IF start < end
     THEN start <= MinuteOf(t) /\ MinuteOf(t) < end
     ELSE start <= MinuteOf(t) \/ MinuteOf(t) < end

\* Candidates of the loop: minute by minute from t, through 36 hours.
Candidates(t) ==
  {t + offset * MinuteParts : offset \in 1..((3 * MinutesPerDay) \div 2)}

\* The loop stops after half a day.
FaultyCandidates(t) == {t + offset * MinuteParts : offset \in 1..(MinutesPerDay \div 2)}

FaultyNextQuietEnd(t) ==
  LET loud == {c \in FaultyCandidates(t) : ~IsQuietTime(c)}
  IN IF loud # {} THEN Min(loud) ELSE t + MinutesPerDay * MinuteParts

NextQuietEnd(t) ==
  LET loud == {c \in Candidates(t) : ~IsQuietTime(c)}
  IN IF loud # {} THEN Min(loud) ELSE t + MinutesPerDay * MinuteParts

\* When emitNotification and scheduleRepeat let a delivery wanted at t go out.
AttemptAt(t) == IF IsQuietTime(t) THEN NextQuietEnd(t) ELSE t

Init == start \in Clock /\ end \in Clock /\ now = 0

Advance ==
  /\ now < 3 * MinutesPerDay * MinuteParts
  /\ now' = now + 1
  /\ UNCHANGED <<start, end>>

Spec == Init /\ [][Advance]_vars

-----------------------------------------------------------------------------
(* The reference: a period begins at `start` every day and lasts until the *)
(* next time the clock shows `end`.                                        *)

Length == (end - start + MinutesPerDay) % MinutesPerDay

InPeriod(t, day) ==
  LET begin == (day * MinutesPerDay + start) * MinuteParts
  IN begin <= t /\ t < begin + Length * MinuteParts

WithinPeriods(t) == \E day \in -1..5 : InPeriod(t, day)

\* A delivery that has to wait goes out in the first minute after the quiet
\* period: the search neither stops inside a period nor runs past its end.
AttemptedAsItEnds ==
  LET at == AttemptAt(now)
  IN /\ ~WithinPeriods(at)
     /\ \A t \in now..(at - MinuteParts) : WithinPeriods(t)
=============================================================================

