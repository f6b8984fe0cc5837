----------------------------- MODULE DayWindows -----------------------------
(***************************************************************************)
(* Days of a time zone as ReportsService (reports.service.ts) and          *)
(* VisitsService.myWork (visits.service.ts) find them.                     *)
(*                                                                         *)
(* Instants are integers, a day has Day of them, and a date is the number  *)
(* of its day.  A zone says by how much its clocks are ahead: by before    *)
(* until the instant at, by after from then on.  Changes are months apart, *)
(* and a date is found by what clocks show within a day or so of it, so    *)
(* one change is enough.                                                   *)
(***************************************************************************)
EXTENDS Integers

CONSTANT Day

ASSUME DayAssumption == Day \in Nat \ {0}

Offset(z, t) == IF t < z.at THEN z.before ELSE z.after

\* What clocks show, and DATE(t AT TIME ZONE z).
Local(z, t)     == t + Offset(z, t)
LocalDate(z, t) == Local(z, t) \div Day

\* zonedDateToUtc corrects a guess by what its local time is off the start of
\* the date,
Corrected(z, d, guess) == guess + (d * Day - Local(z, guess))
\* Wrong on purpose: one correction.
DayStartOnce(z, d) == Corrected(z, d, d * Day)

\* and does so twice, from the start of the date in UTC.
DayStart(z, d) == Corrected(z, d, Corrected(z, d, d * Day))

\* The window of the dates from first to last, its end excluded.
Opens(w)  == DayStart(w.zone, w.first)
Closes(w) == DayStart(w.zone, w.last + 1)
InWindow(w, t) == Opens(w) <= t /\ t < Closes(w)

-----------------------------------------------------------------------------
\* Clocks show the start of the date exactly once: as far ahead as before the
\* change they would show it at one instant, as far ahead as after it at another,
\* and one of these is the right one if both are on the same side of the change.
Once(z, d) == (d * Day - z.before < z.at) <=> (d * Day - z.after < z.at)

\* The window of some dates holds what happens on those dates and nothing else.
Exact(w, t) == InWindow(w, t) <=> LocalDate(w.zone, t) \in w.first .. w.last
=============================================================================
