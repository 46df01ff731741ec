----------------------------- MODULE CommitDate -----------------------------
(***************************************************************************)
(* The date of a commit as the history table and the detail panel show it  *)
(* (crates/ui/src/history/format.rs, crates/ui/src/detail/format.rs): two  *)
(* separate conversions of one Timestamp, in the offset its author's clock *)
(* was set to.  The names of months and the layout are left out.           *)
(*                                                                         *)
(* A behaviour is a clock on an author's wall, wound forward day by day by *)
(* the rules of the calendar; the timestamp is what git records of it.     *)
(* Seconds are counted within a day, since a timestamp is larger than      *)
(* TLC's integers: what a division by the seconds of a day carries is      *)
(* carried here.                                                           *)
(***************************************************************************)
EXTENDS Integers

CONSTANTS
  Anchor,  \* days to start from: [days, year, month, day], days since the epoch
  Span,    \* days a clock is wound forward from its anchor
  Second,  \* times of day, in seconds
  Offset,  \* offsets of clocks, in minutes
  NoClock  \* no clock is wound

IsLeap(year) == year % 4 = 0 /\ (year % 100 # 0 \/ year % 400 = 0)
LastDay(year, month) ==
  IF month = 2 THEN IF IsLeap(year) THEN 29 ELSE 28
  ELSE IF month \in {4, 6, 9, 11} THEN 30 ELSE 31

(* The calendar's own count of the days since the epoch: 719162 lie between the
   first day of year 1 and it. *)
BeforeMonth == <<0, 31, 59, 90, 120, 151, 181, 212, 243, 273, 304, 334>>
DayNumber(year, month, day) ==
  LET years == year - 1
  IN  365 * years + (years \div 4) - (years \div 100) + (years \div 400) - 719162
        + BeforeMonth[month] + (IF month > 2 /\ IsLeap(year) THEN 1 ELSE 0) + day - 1

ASSUME CommitDateAssumption ==
  /\ \A a \in Anchor :
       /\ a.year \in Int /\ a.month \in 1..12 /\ a.day \in 1..LastDay(a.year, a.month)
       /\ a.days = DayNumber(a.year, a.month, a.day)
  /\ Span \in Nat /\ (\A second \in Second : second \in Nat /\ second < 86400) /\ Offset \subseteq Int

VARIABLE wall   \* [days, year, month, day, second, offset, left], or NoClock

(* External: the Timestamp git records, normalised to a day and a second. *)
Timestamp ==
  LET seconds == wall.second - wall.offset * 60 IN
  [days |-> wall.days + (seconds \div 86400), second |-> seconds % 86400,
   offset |-> wall.offset]

----------------------------------------------------------------------------
(* The division of i64: towards zero.  The \div of TLA+ is div_euclid for a
   positive divisor. *)
Quotient(a, b) == IF a >= 0 THEN a \div b ELSE -((-a) \div b)

(* Both civil_from_days, from the day of the era on. *)
CivilFromEra(era, dayOfEra) ==
  LET yearOfEra == (dayOfEra - (dayOfEra \div 1460) + (dayOfEra \div 36524)
                      - (dayOfEra \div 146096)) \div 365
      dayOfYear == dayOfEra - (365 * yearOfEra + (yearOfEra \div 4)
                                 - (yearOfEra \div 100))
      mp == (5 * dayOfYear + 2) \div 153
      month == IF mp < 10 THEN mp + 3 ELSE mp - 9
      year == yearOfEra + era * 400
  IN  [year  |-> IF month <= 2 THEN year + 1 ELSE year,
       month |-> month,
       day   |-> dayOfYear - ((153 * mp + 2) \div 5) + 1]

(* civil_from_days of the history table. *)
CivilOfTable(days) ==
  CivilFromEra((days + 719468) \div 146097, (days + 719468) % 146097)

(* Mutant: the era before year 0 is rounded the wrong way. *)
CivilOfDetailTruncating(days) ==
  LET z == days + 719468
      era == Quotient(z, 146097)
  IN  CivilFromEra(era, z - era * 146097)

(* civil_from_days of the detail panel: the same eras, by a division that
   rounds towards zero. *)
CivilOfDetail(days) ==
  LET z == days + 719468
      era == Quotient(IF z >= 0 THEN z ELSE z - 146096, 146097)
  IN  CivilFromEra(era, z - era * 146097)

(* The local day both formats divide the shifted seconds into, and the time
   of that day. *)
LocalSeconds(timestamp) == timestamp.second + timestamp.offset * 60
LocalDay(timestamp) == timestamp.days + (LocalSeconds(timestamp) \div 86400)

(* format_commit_date: the year is not shown. *)
FormatCommitDate(timestamp) ==
  LET civil == CivilOfTable(LocalDay(timestamp))
  IN  [month |-> civil.month, day |-> civil.day]

(* format_timestamp *)
FormatTimestamp(timestamp) ==
  LET timeOfDay == LocalSeconds(timestamp) % 86400
  IN  [civil |-> CivilOfDetail(LocalDay(timestamp)),
       hour |-> timeOfDay \div 3600, minute |-> (timeOfDay % 3600) \div 60,
       second |-> timeOfDay % 60]

----------------------------------------------------------------------------
DateInit ==
  \E a \in Anchor, second \in Second, offset \in Offset :
    wall = [days |-> a.days, year |-> a.year, month |-> a.month, day |-> a.day,
            second |-> second, offset |-> offset, left |-> Span]

DateIdle == wall = NoClock

(* The day after, by the calendar. *)
Midnight ==
  /\ wall # NoClock /\ wall.left > 0
  /\ LET endsMonth == wall.day = LastDay(wall.year, wall.month)
         endsYear == endsMonth /\ wall.month = 12
     IN  wall' = [wall EXCEPT
                    !.days = @ + 1, !.left = @ - 1,
                    !.day = IF endsMonth THEN 1 ELSE @ + 1,
                    !.month = IF endsYear THEN 1 ELSE IF endsMonth THEN @ + 1 ELSE @,
                    !.year = IF endsYear THEN @ + 1 ELSE @]

----------------------------------------------------------------------------
(* Both panels show the day that the author's wall calendar showed, and the
   detail panel the time, on either side of leap days, of the ends of
   centuries and eras and of year 0, whatever the offset carries across
   midnight (civil_from_days twice, format_commit_date, format_timestamp). *)
DatesAreTheAuthors ==
  wall # NoClock =>
    /\ FormatCommitDate(Timestamp) = [month |-> wall.month, day |-> wall.day]
    /\ FormatTimestamp(Timestamp) =
         [civil |-> [year |-> wall.year, month |-> wall.month, day |-> wall.day],
          hour |-> wall.second \div 3600,
          minute |-> (wall.second \div 60) % 60, second |-> wall.second % 60]
=============================================================================
