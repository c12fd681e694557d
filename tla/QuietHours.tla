----------------------------- MODULE QuietHours -----------------------------
(***************************************************************************)
(* The quiet hours of one channel (rules/quiet_hours.go): what the rules   *)
(* engine and the aggregator ask when they write a row of the outbox, and  *)
(* when the row then becomes due.                                          *)
(*                                                                         *)
(* Local time is a day and a minute of it, as the code computes with       *)
(* time.Date and AddDate; seconds, and the days on which the clock of a    *)
(* time zone is put forward or back, are left out.                         *)
(*                                                                         *)
(* Bound: the clock stops at the end of day LastDay.                       *)
(***************************************************************************)
EXTENDS Integers

CONSTANTS Day,      \* minutes in a day
          LastDay

ASSUME QuietHoursAssumption == Day \in Nat \ {0} /\ LastDay \in Nat

Minutes == 0..(Day - 1)

VARIABLES
    day, minute,    \* localNow
    quiet,          \* the channel's configuration
    row             \* the row written last, with the configuration it was written under

quietVars == <<day, minute, quiet, row>>

Configs == [on : BOOLEAN, start : Minutes, end : Minutes]

(* Instants, ordered.                                                      *)
Instants == [day : Nat, minute : Minutes]
At(d, m) == [day |-> d, minute |-> m]
Before(s, t) == s.day < t.day \/ (s.day = t.day /\ s.minute < t.minute)

LocalNow == At(day, minute)

QuietTypeOK ==
    /\ day \in 0..LastDay /\ minute \in Minutes
    /\ quiet \in Configs
    /\ row \in [deferred : BOOLEAN, critical : BOOLEAN, under : Configs,
                at : Instants, due : Instants]

(* The window may run over midnight; one that is empty is not in force.    *)
InQuiet(q, m) ==
    /\ q.on /\ q.start # q.end
    /\ IF q.start < q.end THEN q.start <= m /\ m < q.end
                          ELSE q.start <= m \/ m < q.end

(* The end of the window: today's, or tomorrow's in its evening part.      *)
ResumeAtToday(q, t) == At(t.day, q.end)
ResumeAt(q, t) ==
    At(IF q.start < q.end \/ t.minute < q.start THEN t.day ELSE t.day + 1, q.end)

(* One critical alert among the events and the row is due at once.         *)
Deferring(q, critical, t) == ~critical /\ InQuiet(q, t.minute)

DecideQuietHours(q, critical, t) ==
    LET deferred == Deferring(q, critical, t)
    IN [deferred |-> deferred, critical |-> critical, under |-> q, at |-> t,
        due |-> IF deferred THEN ResumeAt(q, t) ELSE t]

QuietInit ==
    /\ day = 0 /\ minute = 0
    /\ quiet \in Configs
    /\ row = DecideQuietHours(quiet, TRUE, LocalNow)

WriteRow ==
    /\ \E critical \in BOOLEAN : row' = DecideQuietHours(quiet, critical, LocalNow)
    /\ UNCHANGED <<day, minute, quiet>>

(* The administrator saves another window; rows keep the time they got.    *)
SaveQuietHours ==
    /\ \E q \in Configs : q.on /\ q.start # q.end /\ quiet' = q
    /\ UNCHANGED <<day, minute, row>>

MinutePasses ==
    /\ \/ minute < Day - 1 /\ minute' = minute + 1 /\ day' = day
       \/ minute = Day - 1 /\ day < LastDay /\ minute' = 0 /\ day' = day + 1
    /\ UNCHANGED <<quiet, row>>

QuietNext == WriteRow \/ SaveQuietHours \/ MinutePasses

QuietSpec == QuietInit /\ [][QuietNext]_quietVars

-----------------------------------------------------------------------------
(* A deferred row becomes due later than it was written, until then the    *)
(* window it was deferred for never ends, and the minute it becomes due is *)
(* outside: neither early, in the quiet of the night, nor a day late.  A   *)
(* row with a critical alert never waits.                                  *)
DeferredExactly ==
    /\ row.critical => ~row.deferred
    /\ row.deferred =>
        /\ Before(row.at, row.due)
        /\ Before(LocalNow, row.due) => InQuiet(row.under, minute)
        /\ LocalNow = row.due => ~InQuiet(row.under, minute)
=============================================================================
