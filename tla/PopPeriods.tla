----------------------------- MODULE PopPeriods -----------------------------
(***************************************************************************)
(* The period of performance of a package: a base period and option        *)
(* periods (document-generation/utils/utils.ts and the part of             *)
(* document-generation/utils/dow.ts that names them).                      *)
(*                                                                         *)
(* A period is [type, order, length].  Its order is the optionOrder of the *)
(* payload, 1 for the base period and 2 for the first option period, and   *)
(* its length stands for periodUnit and periodUnitCount.                   *)
(***************************************************************************)
EXTENDS ArrayMethods

PeriodTypes == {"BASE", "OPTION"}

\* A period of the payload; the base period comes before the option periods.
IsPeriod(period) ==
  /\ period.type \in PeriodTypes /\ period.order \in Nat \ {0} /\ period.length \in Nat
  /\ period.type = "BASE" <=> period.order = 1

\* What the pages let a user select for a service: periods, each once and in any order.
AreSelected(periods) ==
  /\ IsArray(periods)
  /\ \A i \in DOMAIN periods : IsPeriod(periods[i])
  /\ \A i, j \in DOMAIN periods : periods[i].order = periods[j].order => i = j

\* The option periods of a package: numbered from 2 without a gap, in any order.
AreOptions(periods) ==
  AreSelected(periods) /\ {periods[i].order : i \in DOMAIN periods} = 2..Len(periods) + 1

\* The periods are those of a package with these option periods.
AreOf(periods, options) == \A p \in ToSet(periods) : p.type = "OPTION" => p \in ToSet(options)

\* Mutant: a group is never closed.
OneGroup(groups, period) ==
  IF groups = <<>> THEN <<<<period>>>> ELSE <<Append(groups[1], period)>>

\* The sort by optionOrder; equal orders, which no package has, may come in any
\* order.
Ordered(periods) == Sorted(periods, LAMBDA a, b : a.order <= b.order)

\* The column of a period in the PoP table: 0 stands for "B", k for "OPk".
Label(period) == IF period.type = "BASE" THEN 0 ELSE period.order - 1

Labels(periods) == [i \in DOMAIN periods |-> Label(periods[i])]

\* popPeriods: the columns of the PoP table, for a period of performance with its
\* option periods in any order.
Columns(options) == <<0>> \o Labels(Ordered(options))

\* One turn of the loop of formatPeriodOfPerformance: a period joins the last
\* group if it is as long as the one before it.
JoinGroup(groups, period) ==
  IF groups # <<>> /\ Last(Last(groups)).length = period.length
    THEN Append(Front(groups), Append(Last(groups), period))
    ELSE Append(groups, <<period>>)

\* The groups of consecutive option periods of one length that the text of
\* formatPeriodOfPerformance counts: "plus one 1-year option period and two
\* 6-month option periods".
OptionGroups(options) == FoldLeft(JoinGroup, <<>>, Ordered(options))
=============================================================================
