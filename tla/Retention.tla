----------------------------- MODULE Retention ------------------------------
(***************************************************************************)
(* Which snapshots survive (backup/retention.ts): what is kept of each     *)
(* kind, then the ceiling on their bytes, oldest first.  A snapshot is     *)
(* [kind, at, size, data]; two of them never have the same instant, so the *)
(* tie-break on ids is left out.                                           *)
(***************************************************************************)
EXTENDS Integers, FiniteSetsExt

CONSTANTS
    DayLength,   \* instants in a day
    Policy       \* the numbers of DEFAULT_RETENTION_POLICY

ASSUME DayLengthIsPositive == DayLength \in Nat \ {0}

DayOf(instant) == instant \div DayLength
\* Monday-based weeks: day 0 was a Thursday.
WeekOf(instant) == (DayOf(instant) + 3) \div 7

Bytes(snapshots) == MapThenSumSet(LAMBDA s : s.size, snapshots)

OfKind(snapshots, kind) == {s \in snapshots : s.kind = kind}

\* Those with fewer than n newer ones.
NewestOf(snapshots, n) ==
    {s \in snapshots : Cardinality({r \in snapshots : r.at > s.at}) < n}

\* The newest daily snapshot of each of the last weeks.
Promoted(daily, now) ==
    {s \in daily :
       /\ WeekOf(now) - Policy.weeks < WeekOf(s.at) /\ WeekOf(s.at) <= WeekOf(now)
       /\ \A r \in daily : WeekOf(r.at) = WeekOf(s.at) => r.at <= s.at}

Young(snapshots, now) ==
    {s \in OfKind(snapshots, "PRE_MIGRATION") : now - s.at < Policy.protectDays * DayLength}

\* fault: the newest of the kind is kept, but under pressure it may go.
OnlyTheYoung(snapshots, now) == Young(snapshots, now)

Protected(snapshots, now) ==
    Young(snapshots, now) \cup NewestOf(OfKind(snapshots, "PRE_RESTORE"), 1)

Wanted(snapshots, now) ==
    LET daily == OfKind(snapshots, "DAILY")
    IN UNION {NewestOf(daily, Policy.daily), Promoted(daily, now), Protected(snapshots, now),
              NewestOf(OfKind(snapshots, "PRE_MIGRATION"), Policy.preMigration),
              NewestOf(OfKind(snapshots, "PRE_IMPORT"), Policy.preImport),
              NewestOf(OfKind(snapshots, "PRE_RESTORE"), Policy.preRestore),
              NewestOf(OfKind(snapshots, "MANUAL"), Policy.manual)}

\* Oldest first, one snapshot goes after the other until the rest fits: one that
\* no rule may remove is passed over, and another goes if, with all the older
\* ones gone, the rest is still too much.
UnderCeiling(wanted, protected, ceiling) ==
    LET olderGone(s) == {r \in wanted : r.at < s.at => r \in protected}
    IN {s \in wanted : s \in protected \/ Bytes(olderGone(s)) <= ceiling}

\* quota 0 stands for a browser that does not say.
Retained(snapshots, now, quota) ==
    LET wanted == Wanted(snapshots, now)
    IN IF quota = 0 THEN wanted
       ELSE UnderCeiling(wanted, Protected(snapshots, now), (quota * Policy.quotaPercent) \div 100)
=============================================================================
