------------------------------- MODULE Reports -------------------------------
(***************************************************************************)
(* The analytics a user reads: the dashboard's daily series with missing   *)
(* days filled (dashboard.py, analytics_dashboard.py: timeseries, compare) *)
(* and the reports over a range (analytics_stats.py: overview, timeseries, *)
(* breakdown, the user's overview).                                        *)
(*                                                                         *)
(* Clicks are stored some time after they happened, links are deleted, and *)
(* the clock goes on while a request runs: it reads the clock and the      *)
(* table in several steps.  Each SELECT is one step.  Time is UTC, in      *)
(* ticks, Day ticks to a day.  What a click's headers say is fixed (Facts).*)
(***************************************************************************)
EXTENDS Enrichment, Integers, Sequences, FiniteSetsExt

CONSTANTS Clicks,   \* the redirects of a behaviour
          Facts,    \* link, agent and country of each; Null without GeoIP
          Links,    \* the links of one user
          Reports,  \* the lists of links a dashboard asks for
          Day,      \* ticks in a day
          Periods,  \* ALLOWED_PERIODS, in days
          Asked,    \* values of the query parameter days
          Ranges,   \* pairs from, to of a range report; Null when not given
          RowLimits, \* values of the query parameter limit
          Start,    \* the first moment
          MaxTime   \* bound: the last moment

ASSUME ClicksAssumption == IsFiniteSet(Clicks) /\ \A k \in Clicks : Facts[k].link \in Links
ASSUME PeriodsAssumption ==
    Periods \subseteq Nat \ {0} /\ Periods # {} /\ Asked \subseteq Nat
ASSUME TimeAssumption ==
    /\ Day \in Nat \ {0} /\ Start \in Nat /\ MaxTime \in Nat /\ Start <= MaxTime
    /\ \A d \in Periods \cup Asked : d * Day <= Start
ASSUME RangesAssumption == Ranges \subseteq (Nat \cup {Null}) \X (Nat \cup {Null})
ASSUME LimitsAssumption == RowLimits \subseteq Nat \ {0}
(* GeoLite2 names countries; what has no name is NULL (geoip.py).          *)
ASSUME CountriesAssumption == \A k \in Clicks : Facts[k].country # "Unknown"

VARIABLES
    now,     \* the clock
    at,      \* when each click happened, clicked_at; 0 before
    stored,  \* PostgreSQL: the rows of clicks
    links,   \* PostgreSQL: the links that exist
    board,   \* the dashboard request
    report   \* the range requests of one page

vars == <<now, at, stored, links, board, report>>

DayOf(time) == time \div Day

NoBoard == [step |-> "idle", codes |-> <<>>, days |-> 0, from |-> 0,
            found |-> {}, snap |-> {}, series |-> <<>>,
            countries |-> Null, all |-> FALSE, limit |-> 0, steady |-> TRUE]
NoReport == [step |-> "idle", link |-> Null, asked |-> <<Null, Null>>, days |-> 0,
             sent |-> FALSE, from |-> 0, to |-> 0, steady |-> TRUE,
             overview |-> Null, series |-> Null, breakdown |-> Null, user |-> Null]

Init ==
    /\ now = Start
    /\ at = [k \in Clicks |-> 0]
    /\ stored = {}
    /\ links = Links
    /\ board = NoBoard
    /\ report = NoReport

Idle == board.step = "idle" /\ report.step = "idle"

(***************************************************************************)
(* The clock, the clicks and the links.                                    *)
(***************************************************************************)
Tick == now < MaxTime /\ now' = now + 1
        /\ UNCHANGED <<at, stored, links, board, report>>

(* The redirect; its event waits in the queue.                             *)
Happen(k) ==
    /\ at[k] = 0
    /\ at' = [at EXCEPT ![k] = now]
    /\ UNCHANGED <<now, stored, links, board, report>>

(* A change under a page that is being read is remembered, and what the    *)
(* reports told before it is of no more interest.                          *)
Unsettled ==
    /\ report' = IF report.step = "idle" THEN report
                 ELSE [report EXCEPT !.steady = FALSE, !.overview = Null,
                          !.series = Null, !.breakdown = Null, !.user = Null]
    /\ board' = [board EXCEPT !.steady = board.step = "idle"]

StoreClick(k) ==
    /\ at[k] > 0 /\ k \notin stored
    /\ Facts[k].link \in links
    /\ stored' = stored \cup {k}
    /\ Unsettled
    /\ UNCHANGED <<now, at, links>>

(* Mutant of DeleteLink: the rows of the link stay, as without a CASCADE.   *)
DeleteLinkOnly(l) ==
    /\ l \in links
    /\ links' = links \ {l}
    /\ Unsettled
    /\ UNCHANGED <<now, at, stored>>

DeleteLink(l) ==
    /\ l \in links
    /\ links' = links \ {l}
    /\ stored' = {k \in stored : Facts[k].link # l}
    /\ Unsettled
    /\ UNCHANGED <<now, at>>

ClicksOf(l) == {k \in stored : Facts[k].link = l}

(***************************************************************************)
(* The dashboard: link_timeseries for one code, compare_links for several; *)
(* then, for one code, link_countries.                                     *)
(***************************************************************************)
(* The nearest allowed period, the shorter of two.                         *)
Distance(p, days) == IF p < days THEN days - p ELSE p - days
NormalizePeriod(days) ==
    CHOOSE p \in Periods : \A q \in Periods :
        \/ Distance(p, days) < Distance(q, days)
        \/ Distance(p, days) = Distance(q, days) /\ p <= q

(* 404 unless every code is a link of the user.                            *)
OpenBoard(codes, days) ==
    /\ Idle
    /\ \A i \in DOMAIN codes : codes[i] \in links
    /\ board' = [NoBoard EXCEPT !.step = "next", !.codes = codes,
                                !.days = NormalizePeriod(days)]
    /\ UNCHANGED <<now, at, stored, links, report>>

CompareLinks(codes, days) == OpenBoard(codes, days)

LinkTimeseriesChart(l, days) == OpenBoard(<<l>>, days)

(* The link whose series is being made.                                    *)
Current == board.codes[Len(board.series) + 1]

(* Mutant of WindowStart: the days are counted as the chart shows them.    *)
WindowStartShort(days) == now - (days - 1) * Day
(* datetime.now(UTC) - timedelta(days)                                     *)
WindowStart(days) == now - days * Day

ReadClock ==
    /\ board.step = "next"
    /\ board' = [board EXCEPT !.step = "window", !.from = WindowStart(board.days)]
    /\ UNCHANGED <<now, at, stored, links, report>>

GetTimeseries ==
    /\ board.step = "window"
    /\ board' = [board EXCEPT !.step = "rows",
           !.found = {k \in ClicksOf(Current) : at[k] >= board.from},
           !.snap = ClicksOf(Current)]
    /\ UNCHANGED <<now, at, stored, links, report>>

(* _fill_missing_days reads the clock again: days days up to today.        *)
FillMissingDays ==
    /\ board.step = "rows"
    /\ LET full == [today |-> DayOf(now), found |-> board.found, snap |-> board.snap]
       IN  board' = [board EXCEPT
               !.series = Append(@, full), !.found = {}, !.snap = {}, !.from = 0,
               !.step = IF Len(board.series) + 1 = Len(board.codes) THEN "done" ELSE "next"]
    /\ UNCHANGED <<now, at, stored, links, report>>

(* ORDER BY the clicks, descending, LIMIT limit: the answers there can be. *)
(* Which of equal labels come first is left open (only get_link_breakdown  *)
(* orders them, by the label).                                             *)
TopRows(rows, limit) ==
    IF Cardinality(rows) <= limit THEN {rows}
    ELSE {top \in SUBSET rows :
             /\ Cardinality(top) = limit
             /\ \A b \in top, c \in rows \ top : c.clicks <= b.clicks}

(* Mutant of GroupedCounts: clicks without a country are left out.         *)
GroupedKnown(ks, limit) ==
    TopRows({[label |-> x, clicks |-> Cardinality({k \in ks : Facts[k].country = x})] :
                x \in {Facts[k].country : k \in ks} \ {Null}}, limit)

(* COALESCE, GROUP BY and LIMIT; NULL is the label "Unknown".              *)
GroupedCounts(ks, limit) ==
    TopRows({[label |-> x, clicks |-> Cardinality({k \in ks : Facts[k].country = x})] :
                x \in {Facts[k].country : k \in ks}}, limit)

(* days is the period of the chart, or not given.                          *)
LinkCountries ==
    /\ board.step = "done" /\ board.countries = Null
    /\ Len(board.codes) = 1 /\ board.codes[1] \in links
    /\ \E all \in BOOLEAN, limit \in RowLimits :
           board' = [board EXCEPT !.step = "countries", !.all = all, !.limit = limit,
                         !.from = IF all THEN 0 ELSE WindowStart(board.days)]
    /\ UNCHANGED <<now, at, stored, links, report>>

GetCountryBreakdown ==
    /\ board.step = "countries"
    /\ \E top \in GroupedCounts({k \in ClicksOf(board.codes[1]) : at[k] >= board.from},
                                board.limit) :
           board' = [board EXCEPT !.step = "done", !.countries = top]
    /\ UNCHANGED <<now, at, stored, links, report>>

CloseBoard ==
    /\ board.step = "done"
    /\ board' = NoBoard
    /\ UNCHANGED <<now, at, stored, links, report>>

ShownDays(s) == s.today - board.days + 1 .. s.today

(* The point of a day: counts.get(day, 0).                                 *)
Point(s, day) == Cardinality({k \in s.found : DayOf(at[k]) = day})

(***************************************************************************)
(* The reports over [from, to): four requests with the same parameters.    *)
(*                                                                         *)
(* Each is two steps: its endpoint reads the clock for what of the range   *)
(* is not given (normalize_date_range) and looks the link up, and then it  *)
(* has PostgreSQL run its SELECT.                                          *)
(***************************************************************************)
Endpoints == {"overview", "series", "breakdown", "user"}

RangeEnd(to) == IF to = Null THEN now ELSE to
RangeStart(from, to, days) == IF from = Null THEN RangeEnd(to) - days * Day ELSE from

(* The page asks about a link it knows of; `days' says nothing beside      *)
(* `from'.                                                                 *)
OpenReport(l, range, days) ==
    /\ Idle
    /\ l \in links
    /\ report' = [NoReport EXCEPT !.step = "overview", !.link = l, !.asked = range,
                                  !.days = IF range[1] = Null THEN days ELSE 0]
    /\ UNCHANGED <<now, at, stored, links, board>>

AskedStart == RangeStart(report.asked[1], report.asked[2], report.days)
AskedEnd == RangeEnd(report.asked[2])

NormalizeDateRange ==
    /\ report.step \in Endpoints /\ ~report.sent
    /\ report.step # "user" => report.link \in links
    /\ AskedStart < AskedEnd
    /\ report' = [report EXCEPT !.sent = TRUE, !.from = AskedStart, !.to = AskedEnd]
    /\ UNCHANGED <<now, at, stored, links, board>>

(* 422.                                                                    *)
RefuseRange ==
    /\ report.step \in Endpoints /\ ~report.sent
    /\ AskedStart >= AskedEnd
    /\ report' = NoReport
    /\ UNCHANGED <<now, at, stored, links, board>>

InRange(k) == report.from <= at[k] /\ at[k] < report.to

RowsOf(l) == {k \in ClicksOf(l) : InRange(k)}

(* The envelope names the range of its data, and the limit.                *)
Answer(field, value, step) ==
    /\ report.step = field /\ report.sent
    /\ report' = [report EXCEPT ![field] = IF report.steady THEN value ELSE Null,
                                !.step = step, !.sent = FALSE, !.from = 0, !.to = 0]
    /\ UNCHANGED <<now, at, stored, links, board>>

(* NULLIF(c.country, '')                                                   *)
Country(k) == IF Facts[k].country = "" THEN Null ELSE Facts[k].country

(* COUNT(DISTINCT ...) leaves NULL out.                                    *)
(* Mutant of Distinct: COALESCE makes a country of what has none.          *)
DistinctWithUnknown(ks) == Cardinality({Country(k) : k \in ks})
Distinct(ks) == Cardinality({Country(k) : k \in ks} \ {Null})

LinkOverview(l) ==
    [from |-> report.from, to |-> report.to,
     events |-> Cardinality(RowsOf(l)), countries |-> Distinct(RowsOf(l))]

GetLinkOverview == Answer("overview", LinkOverview(report.link), "series")

(* Mutant of Buckets: generate_series stops before the day of `to'.        *)
BucketsShort == DayOf(report.from) .. DayOf(report.to) - 1
Buckets == DayOf(report.from) .. DayOf(report.to)

(* The buckets joined with the counts of the days.                         *)
LinkTimeseries(l) ==
    [from |-> report.from, to |-> report.to,
     counts |-> [day \in Buckets |-> Cardinality({k \in RowsOf(l) : DayOf(at[k]) = day})]]

GetLinkTimeseries == Answer("series", LinkTimeseries(report.link), "breakdown")

LabelOf(k) == IF Country(k) = Null THEN "Unknown" ELSE Country(k)

(* GROUP BY label and LIMIT, for the dimension country; the percentages    *)
(* follow from the counts.                                                 *)
LinkBreakdown(l, limit) ==
    TopRows({[label |-> x, clicks |-> Cardinality({k \in RowsOf(l) : LabelOf(k) = x})] :
                x \in {LabelOf(k) : k \in RowsOf(l)}}, limit)

GetLinkBreakdown ==
    \E limit \in RowLimits : \E top \in LinkBreakdown(report.link, limit) :
        Answer("breakdown", [from |-> report.from, to |-> report.to, limit |-> limit,
                             rows |-> top], "user")

(* All the user's links; the join keeps those without a click.             *)
UserOverview ==
    [from |-> report.from, to |-> report.to, links |-> Cardinality(links),
     events |-> Cardinality({k \in stored : Facts[k].link \in links /\ InRange(k)})]

GetUserOverview == Answer("user", UserOverview, "done")

(* 404, after the range was found good.                                    *)
LinkNotFound ==
    /\ report.step \in Endpoints \ {"user"} /\ ~report.sent
    /\ AskedStart < AskedEnd
    /\ report.link \notin links
    /\ report' = [report EXCEPT !.step = "done"]
    /\ UNCHANGED <<now, at, stored, links, board>>

CloseReport ==
    /\ report.step = "done"
    /\ report' = NoReport
    /\ UNCHANGED <<now, at, stored, links, board>>

Next ==
    \/ Tick
    \/ \E k \in Clicks : Happen(k) \/ StoreClick(k)
    \/ \E l \in Links : DeleteLink(l)
    \/ \E days \in Asked :
           \/ \E codes \in Reports : CompareLinks(codes, days)
           \/ \E l \in Links : LinkTimeseriesChart(l, days)
    \/ ReadClock \/ GetTimeseries \/ FillMissingDays
    \/ LinkCountries \/ GetCountryBreakdown \/ CloseBoard
    \/ \E l \in Links, range \in Ranges, days \in Asked : OpenReport(l, range, days)
    \/ NormalizeDateRange \/ RefuseRange
    \/ GetLinkOverview \/ GetLinkTimeseries \/ GetLinkBreakdown \/ GetUserOverview
    \/ LinkNotFound \/ CloseReport

Spec == Init /\ [][Next]_vars
-----------------------------------------------------------------------------
(***************************************************************************)
(* Properties.                                                             *)
(***************************************************************************)
(* The type invariant.                                                     *)
TypeOK ==
    /\ now \in Start .. MaxTime
    /\ at \in [Clicks -> 0 .. MaxTime]
    /\ links \subseteq Links
    /\ stored \subseteq {k \in Clicks : at[k] > 0 /\ Facts[k].link \in links}
    /\ board.step \in {"idle", "next", "window", "rows", "done", "countries"}
    /\ board.step # "idle" => board.days \in Periods
    /\ report.step \in Endpoints \cup {"idle", "done"}
    /\ report.sent => report.step \in Endpoints /\ report.from < report.to

(* The browser, system and device stored with a click agree, whatever      *)
(* markers its User-Agent combines (parse_user_agent).                     *)
LabelsAgree == \A k \in stored : Consistent(Facts[k].agent)

(* A day the chart shows counts every stored click of that day, the first  *)
(* day from midnight on, although the window begins `days' times 24 hours  *)
(* before one reading of the clock and the days are laid out from another  *)
(* (get_timeseries, _fill_missing_days).                                   *)
SeriesExact ==
    \A i \in DOMAIN board.series :
        LET s == board.series[i]
        IN  \A day \in ShownDays(s) :
                Point(s, day) = Cardinality({k \in s.snap : DayOf(at[k]) = day})

(* The countries of a period are those of all the clicks the period's      *)
(* chart shows, and of none from before its first day but that day's: the  *)
(* two requests agree on the period unless a click was stored, the link    *)
(* deleted or midnight passed in between (_window_start, link_countries).  *)
(* When `limit' cuts the countries off, their total may be below the chart,*)
(* and none that is left out has more clicks on the chart than one shown.  *)
BreakdownCoversChart ==
    board.countries # Null /\ board.steady =>
        LET s     == board.series[1]
            total == MapThenSumSet(LAMBDA b : b.clicks, board.countries)
            Of(days) == Cardinality({k \in s.snap : DayOf(at[k]) \in days})
            chart == Of(ShownDays(s))
            first == Of({s.today - board.days})
            cut   == Cardinality(board.countries) = board.limit
            left  == {k \in s.snap : \A b \in board.countries : b.label # Facts[k].country}
            Left(x) == Cardinality({k \in left : /\ DayOf(at[k]) \in ShownDays(s)
                                                 /\ Facts[k].country = x})
        IN  /\ Cardinality(board.countries) <= board.limit
            /\ board.all => cut \/ total >= chart
            /\ ~board.all /\ DayOf(board.from) + board.days = s.today =>
                   (cut \/ chart <= total) /\ total <= chart + first
            /\ board.all \/ DayOf(board.from) + board.days = s.today =>
                   \A k \in left, b \in board.countries : Left(Facts[k].country) <= b.clicks

(* The four answers about one range, each a request that reads the clock   *)
(* for itself, tell one story unless a click was stored or a link deleted  *)
(* in between.  With `to' given they are about the same range; with `from' *)
(* given, a later one counts no fewer clicks.  Where the ranges they name  *)
(* are the same: the days add up to the total; so do the labels, and those *)
(* other than Unknown are the distinct countries, unless `limit' cuts them *)
(* off; and the user has at least as many clicks.                          *)
ReportsAgree ==
    report.step = "done" /\ report.steady =>
        LET overview  == report.overview
            series    == report.series
            breakdown == report.breakdown
            user      == report.user
            days  == MapThenSumSet(LAMBDA day : series.counts[day], DOMAIN series.counts)
            shown == MapThenSumSet(LAMBDA b : b.clicks, breakdown.rows)
            known == Cardinality({b \in breakdown.rows : b.label # "Unknown"})
            Same(x, y) == x.from = y.from /\ x.to = y.to
        IN  /\ report.asked[2] # Null =>
                   \A x \in {series, breakdown, user} : Same(overview, x)
            /\ report.asked[1] # Null =>
                   overview.events <= days /\ days <= user.events
            /\ Same(overview, series) => overview.events = days
            /\ Cardinality(breakdown.rows) <= breakdown.limit
            /\ Same(overview, breakdown) =>
                   IF Cardinality(breakdown.rows) < breakdown.limit
                   THEN shown = overview.events /\ known = overview.countries
                   ELSE shown <= overview.events /\ known <= overview.countries
            /\ Same(overview, user) => overview.events <= user.events
            /\ user.links = Cardinality(links)
=============================================================================
