---------------------------- MODULE ReportsProofs ----------------------------
(***************************************************************************)
(* Proofs about Reports and Enrichment.                                    *)
(***************************************************************************)
EXTENDS Reports, FiniteSetTheorems, WellFoundedInduction, TLAPS

(* Browser and device: both searches look for bots first.                  *)
LEMMA BotIsBot ==
    ASSUME NEW agent
    PROVE  DetectBrowser(agent) = "Bot" <=> DetectDeviceType(agent) = "bot"
<1>1. CASE Has(agent, "bot")
  BY <1>1 DEF DetectBrowser, DetectDeviceType
<1>2. CASE ~Has(agent, "bot")
  <2>1. DetectDeviceType(agent) \in {"tablet", "mobile", "desktop", "unknown"}
    BY <1>2 DEF DetectDeviceType
  <2>2. DetectBrowser(agent) \in {"Edge", "Opera", "Firefox", "Chrome", "Safari",
                                  "Internet Explorer", Null}
    BY <1>2 DEF DetectBrowser
  <2> QED
    BY <2>1, <2>2, NullAssumption
<1> QED
  BY <1>1, <1>2

(* What the system's name says of the markers.                             *)
LEMMA NamedByMarker ==
    ASSUME NEW agent
    PROVE  /\ DetectOs(agent) = "Android" => Has(agent, "android")
           /\ agent \cap {"iphone", "ipad"} # {} =>
                  Has(agent, "iphone") \/ Has(agent, "ipad")
<1>1. DetectOs(agent) = "Android" => Has(agent, "android")
  BY NullAssumption DEF DetectOs
<1> QED
  BY <1>1 DEF Has

LEMMA NeverDesktop ==
    ASSUME NEW agent,
           Has(agent, "android") \/ Has(agent, "iphone") \/ Has(agent, "ipad")
    PROVE  DetectDeviceType(agent) \in {"mobile", "tablet", "bot"}
<1>1. CASE Has(agent, "bot") \/ Tablet(agent) \/ Mobile(agent)
  BY <1>1 DEF DetectDeviceType
<1>2. CASE ~Has(agent, "bot") /\ ~Tablet(agent) /\ ~Mobile(agent)
  <2>1. ~Has(agent, "iphone") /\ ~Has(agent, "ipad")
    BY <1>2 DEF Tablet, Mobile, Has
  <2> QED
    BY <1>2, <2>1 DEF DetectDeviceType
<1> QED
  BY <1>1, <1>2

LEMMA EveryAgentConsistent == \A agent : Consistent(agent)
<1> TAKE agent
<1> DEFINE labels == ParseUserAgent(agent)
<1>1. /\ labels.browser = DetectBrowser(agent)
      /\ labels.os = DetectOs(agent)
      /\ labels.device = DetectDeviceType(agent)
  BY DEF ParseUserAgent
<1>2. labels.browser = "Bot" <=> labels.device = "bot"
  BY <1>1, BotIsBot
<1>3. labels.os = "Android" => labels.device \in {"mobile", "tablet", "bot"}
  BY <1>1, NamedByMarker, NeverDesktop
<1>4. agent \cap {"iphone", "ipad"} # {} => labels.device \in {"mobile", "tablet", "bot"}
  BY <1>1, NamedByMarker, NeverDesktop
<1> QED
  BY <1>2, <1>3, <1>4 DEF Consistent

(* Whatever markers a User-Agent combines, the browser, system and device  *)
(* stored with its click agree (parse_user_agent).                         *)
THEOREM LabelsAgreeAlways == Spec => []LabelsAgree
<1>1. LabelsAgree
  BY EveryAgentConsistent DEF LabelsAgree
<1> QED
  BY <1>1, PTL
-----------------------------------------------------------------------------
(***************************************************************************)
(* Days.                                                                   *)
(***************************************************************************)
LEMMA DayIs ==
    ASSUME NEW t \in Int
    PROVE  DayOf(t) \in Int /\ Day * DayOf(t) <= t /\ t < Day * DayOf(t) + Day
<1>1. Day \in Int /\ Day > 0
  BY TimeAssumption
<1> QED
  BY <1>1 DEF DayOf

(* What is earlier than days times 24 hours ago is earlier than the days   *)
(* days up to today.                                                       *)
LEMMA EarlierDay ==
    ASSUME NEW t \in Int, NEW n \in Int, NEW days \in Int, t < n - days * Day
    PROVE  DayOf(t) <= DayOf(n) - days
<1> DEFINE p == DayOf(t)
           q == DayOf(n)
<1>1. Day \in Int /\ Day > 0
  BY TimeAssumption
<1>2. p \in Int /\ q \in Int /\ Day * p <= t /\ n < Day * q + Day
  BY DayIs
<1> HIDE DEF p, q
<1>3. SUFFICES ASSUME p >= q - days + 1 PROVE FALSE
  BY <1>2 DEF p, q
<1>4. Day * p >= Day * (q - days + 1)
  BY <1>1, <1>2, <1>3
<1>5. Day * (q - days + 1) = Day * q - days * Day + Day
  BY <1>1, <1>2
<1>6. days * Day \in Int /\ Day * q \in Int /\ Day * p \in Int
      /\ Day * (q - days + 1) \in Int
  BY <1>1, <1>2
<1> QED
  BY <1>1, <1>2, <1>4, <1>5, <1>6

LEMMA Least ==
    ASSUME NEW S \in SUBSET Nat, S # {}
    PROVE  \E m \in S : \A n \in S : m <= n
<1> DEFINE R == OpToRel(<, Nat)
<1>1. IsWellFoundedOn(R, Nat)
  BY NatLessThanWellFounded
<1> HIDE DEF R
<1>2. PICK m \in S : \A n \in S : ~ (<<n, m>> \in R)
  BY <1>1, WFMin
<1>3. ASSUME NEW n \in S PROVE m <= n
  <2>1. n \in Nat /\ m \in Nat
    OBVIOUS
  <2>2. <<n, m>> \in R <=> n < m
    BY <2>1 DEF R, OpToRel
  <2>3. ~(n < m)
    BY <1>2, <2>2
  <2> QED
    BY <2>1, <2>3
<1> QED
  BY <1>3

(* There is a nearest period, and of two the shorter (normalize_period).   *)
LEMMA NearestPeriod ==
    ASSUME NEW days \in Nat
    PROVE  NormalizePeriod(days) \in Periods
<1> DEFINE far == {Distance(p, days) : p \in Periods}
<1>1. Periods \subseteq Nat /\ Periods # {}
  BY PeriodsAssumption
<1>2. \A p \in Periods : Distance(p, days) \in Nat
  BY <1>1 DEF Distance
<1>3. PICK m \in far : \A n \in far : m <= n
  <2>1. far \in SUBSET Nat /\ far # {}
    BY <1>1, <1>2
  <2> QED
    BY <2>1, Least
<1> DEFINE nearest == {p \in Periods : Distance(p, days) = m}
<1>4. PICK p \in nearest : \A q \in nearest : p <= q
  <2>1. nearest \in SUBSET Nat /\ nearest # {}
    BY <1>1, <1>3
  <2> QED
    BY <2>1, Least
<1>5. \A q \in Periods :
          \/ Distance(p, days) < Distance(q, days)
          \/ Distance(p, days) = Distance(q, days) /\ p <= q
  <2> SUFFICES ASSUME NEW q \in Periods
               PROVE  \/ Distance(p, days) < Distance(q, days)
                      \/ Distance(p, days) = Distance(q, days) /\ p <= q
    OBVIOUS
  <2>1. m <= Distance(q, days) /\ Distance(p, days) = m
        /\ m \in Nat /\ Distance(q, days) \in Nat
    BY <1>2, <1>3, <1>4
  <2>2. Distance(q, days) = m => p <= q
    BY <1>4
  <2> QED
    BY <2>1, <2>2
<1>6. p \in Periods
  OBVIOUS
<1> HIDE DEF far, nearest
<1> QED
  BY <1>5, <1>6 DEF NormalizePeriod
-----------------------------------------------------------------------------
(***************************************************************************)
(* The type invariant.  It rests on what fields a request's record has.    *)
(***************************************************************************)
BoardFields == {"step", "codes", "days", "from", "found", "snap", "series",
                "countries", "all", "limit", "steady"}
ReportFields == {"step", "link", "asked", "days", "sent", "from", "to", "steady",
                 "overview", "series", "breakdown", "user"}

Shapes == DOMAIN board = BoardFields /\ DOMAIN report = ReportFields

(* What a step may do to the dashboard request besides noting a change     *)
(* under it: keep it, open or close it, go on.                             *)
LEMMA BoardSteps ==
    ASSUME Shapes, [Next]_vars
    PROVE  \/ board' = board
           \/ \E steady : board' = [board EXCEPT !.steady = steady]
           \/ \E codes, days : days \in Asked /\ OpenBoard(codes, days)
           \/ ReadClock \/ GetTimeseries \/ FillMissingDays
           \/ LinkCountries \/ GetCountryBreakdown \/ CloseBoard
  BY DEF Next, vars, Tick, Happen, StoreClick, DeleteLink, Unsettled, CompareLinks,
         LinkTimeseriesChart, OpenReport, NormalizeDateRange, RefuseRange,
         GetLinkOverview, GetLinkTimeseries, GetLinkBreakdown, GetUserOverview,
         LinkNotFound, CloseReport, Answer

LEMMA ReportSteps ==
    ASSUME [Next]_vars
    PROVE  \/ report' = report
           \/ Unsettled
           \/ \E l, range, days : OpenReport(l, range, days)
           \/ NormalizeDateRange \/ RefuseRange
           \/ \E value : \E field \in Endpoints, step \in Endpoints \cup {"done"} :
                  Answer(field, value, step)
           \/ LinkNotFound \/ CloseReport
<1> DEFINE Answered(value, field, step) ==
               /\ field \in Endpoints /\ step \in Endpoints \cup {"done"}
               /\ Answer(field, value, step)
<1>1. GetLinkOverview => Answered(LinkOverview(report.link), "overview", "series")
  BY DEF GetLinkOverview, Endpoints
<1>2. GetLinkTimeseries => Answered(LinkTimeseries(report.link), "series", "breakdown")
  BY DEF GetLinkTimeseries, Endpoints
<1>3. GetLinkBreakdown => \E value : Answered(value, "breakdown", "user")
  BY DEF GetLinkBreakdown, Endpoints
<1>4. GetUserOverview => Answered(UserOverview, "user", "done")
  BY DEF GetUserOverview, Endpoints
<1>5. ASSUME NEW value, NEW field, NEW step, Answered(value, field, step)
      PROVE  \E v : \E f \in Endpoints, s \in Endpoints \cup {"done"} : Answer(f, v, s)
  BY <1>5
<1> HIDE DEF Answered
<1>6. GetLinkOverview \/ GetLinkTimeseries \/ GetLinkBreakdown \/ GetUserOverview =>
      \E v : \E f \in Endpoints, s \in Endpoints \cup {"done"} : Answer(f, v, s)
  BY <1>1, <1>2, <1>3, <1>4, <1>5
<1> QED
  BY <1>6
  DEF Next, vars, Tick, Happen, StoreClick, DeleteLink, CompareLinks,
      LinkTimeseriesChart, OpenBoard, ReadClock, GetTimeseries, FillMissingDays,
      LinkCountries, GetCountryBreakdown, CloseBoard

LEMMA InitTypeOK == Init => TypeOK /\ Shapes
<1> SUFFICES ASSUME Init PROVE TypeOK /\ Shapes
  OBVIOUS
<1>1. now \in Start .. MaxTime /\ at \in [Clicks -> 0 .. MaxTime]
  BY TimeAssumption DEF Init
<1>2. board.step = "idle" /\ DOMAIN board = BoardFields
  BY DEF Init, NoBoard, BoardFields
<1>3. report.step = "idle" /\ DOMAIN report = ReportFields
  BY DEF Init, NoReport, ReportFields
<1>4. report.sent = FALSE
  BY DEF Init, NoReport
<1> QED
  BY <1>1, <1>2, <1>3, <1>4 DEF Init, TypeOK, Shapes

LEMMA StepBoardTyped ==
    ASSUME TypeOK, Shapes, [Next]_vars
    PROVE  /\ DOMAIN board' = BoardFields
           /\ board'.step \in {"idle", "next", "window", "rows", "done", "countries"}
           /\ board'.step # "idle" => board'.days \in Periods
<1> USE DEF BoardFields
<1>a. /\ DOMAIN board = BoardFields
      /\ board.step \in {"idle", "next", "window", "rows", "done", "countries"}
      /\ board.step # "idle" => board.days \in Periods
  BY DEF TypeOK, Shapes
<1>b. /\ DOMAIN NoBoard = BoardFields /\ NoBoard.step = "idle"
  BY DEF NoBoard
<1>1. ASSUME NEW steady, board' = [board EXCEPT !.steady = steady]
      PROVE  board'.step = board.step /\ board'.days = board.days
             /\ DOMAIN board' = BoardFields
  BY <1>a, <1>1
<1>2. ASSUME NEW codes, NEW days \in Asked, OpenBoard(codes, days)
      PROVE  board'.step = "next" /\ board'.days \in Periods
             /\ DOMAIN board' = BoardFields
  <2>1. NormalizePeriod(days) \in Periods
    BY NearestPeriod, PeriodsAssumption
  <2> QED
    BY <1>2, <1>b, <2>1 DEF OpenBoard
<1>3. CASE ReadClock
  BY <1>a, <1>3 DEF ReadClock
<1>4. CASE GetTimeseries
  BY <1>a, <1>4 DEF GetTimeseries
<1>5. CASE FillMissingDays
  <2>1. /\ board'.step \in {"done", "next"} /\ board'.days = board.days
        /\ DOMAIN board' = BoardFields
    BY <1>a, <1>5 DEF FillMissingDays
  <2> QED
    BY <1>a, <1>5, <2>1 DEF FillMissingDays
<1>6. CASE LinkCountries
  BY <1>a, <1>6 DEF LinkCountries
<1>7. CASE GetCountryBreakdown
  BY <1>a, <1>7 DEF GetCountryBreakdown
<1>8. CASE CloseBoard
  BY <1>b, <1>8 DEF CloseBoard
<1> QED
  BY <1>a, <1>1, <1>2, <1>3, <1>4, <1>5, <1>6, <1>7, <1>8, BoardSteps

LEMMA StepReportTyped ==
    ASSUME TypeOK, Shapes, [Next]_vars
    PROVE  /\ DOMAIN report' = ReportFields
           /\ report'.step \in Endpoints \cup {"idle", "done"}
           /\ report'.sent => report'.step \in Endpoints /\ report'.from < report'.to
<1> USE DEF ReportFields
<1>a. /\ DOMAIN report = ReportFields
      /\ report.step \in Endpoints \cup {"idle", "done"}
      /\ report.sent => report.step \in Endpoints /\ report.from < report.to
  BY DEF TypeOK, Shapes
<1>b. DOMAIN NoReport = ReportFields /\ NoReport.step = "idle" /\ NoReport.sent = FALSE
  BY DEF NoReport
<1>1. ASSUME Unsettled
      PROVE  report'.step = report.step /\ report'.from = report.from
             /\ report'.to = report.to /\ report'.sent = report.sent
             /\ DOMAIN report' = ReportFields
  BY <1>a, <1>1 DEF Unsettled
<1>2. ASSUME NEW l, NEW range, NEW days, OpenReport(l, range, days)
      PROVE  report'.step = "overview" /\ report'.sent = FALSE
             /\ DOMAIN report' = ReportFields
  BY <1>2, <1>b DEF OpenReport
<1>3. ASSUME NormalizeDateRange
      PROVE  report'.step = report.step /\ report'.from < report'.to
             /\ report.step \in Endpoints /\ DOMAIN report' = ReportFields
  <2>1. /\ report'.step = report.step /\ report'.from = AskedStart
        /\ report'.to = AskedEnd /\ DOMAIN report' = ReportFields
    BY <1>3, <1>a DEF NormalizeDateRange
  <2> QED
    BY <1>3, <2>1 DEF NormalizeDateRange
<1>4. ASSUME NEW value, NEW field \in Endpoints, NEW step \in Endpoints \cup {"done"},
             Answer(field, value, step)
      PROVE  report'.step = step /\ report'.sent = FALSE /\ DOMAIN report' = ReportFields
  BY <1>a, <1>4 DEF Answer, Endpoints
<1>5. ASSUME LinkNotFound
      PROVE  report'.step = "done" /\ report'.sent = FALSE /\ DOMAIN report' = ReportFields
  BY <1>a, <1>5 DEF LinkNotFound
<1>6. ASSUME RefuseRange \/ CloseReport PROVE report' = NoReport
  BY <1>6 DEF RefuseRange, CloseReport
<1> DEFINE Typed ==
               /\ DOMAIN report' = ReportFields
               /\ report'.step \in Endpoints \cup {"idle", "done"}
               /\ report'.sent => report'.step \in Endpoints /\ report'.from < report'.to
<1>7. report' = report \/ Unsettled \/ NormalizeDateRange => Typed
  BY <1>a, <1>1, <1>3
<1>8. \A l, range, days : OpenReport(l, range, days) => Typed
  BY <1>2 DEF Endpoints
<1>9. \A value : \A field \in Endpoints, step \in Endpoints \cup {"done"} :
         Answer(field, value, step) => Typed
  BY <1>4
<1>10. LinkNotFound \/ RefuseRange \/ CloseReport => Typed
  BY <1>b, <1>5, <1>6
<1> HIDE DEF Typed
<1>11. Typed
  BY <1>7, <1>8, <1>9, <1>10, ReportSteps
<1> QED
  BY <1>11 DEF Typed

LEMMA StepTypeOK == TypeOK /\ Shapes /\ [Next]_vars => (TypeOK /\ Shapes)'
<1> SUFFICES ASSUME TypeOK, Shapes, [Next]_vars PROVE (TypeOK /\ Shapes)'
  OBVIOUS
<1>a. /\ now \in Start .. MaxTime /\ at \in [Clicks -> 0 .. MaxTime]
      /\ links \subseteq Links
      /\ \A k \in stored : k \in Clicks /\ at[k] > 0 /\ Facts[k].link \in links
      /\ Start \in Nat /\ MaxTime \in Nat
  BY TimeAssumption DEF TypeOK
<1> DEFINE Store == /\ now' \in Start .. MaxTime /\ at' \in [Clicks -> 0 .. MaxTime]
                    /\ links' \subseteq Links
                    /\ \A k \in stored' :
                           k \in Clicks /\ at'[k] > 0 /\ Facts[k].link \in links'
<1>1. ASSUME UNCHANGED <<now, at, stored, links>> PROVE Store
  BY <1>a, <1>1
<1>2. ASSUME Tick PROVE Store
  BY <1>a, <1>2 DEF Tick
<1>3. ASSUME NEW k \in Clicks, Happen(k) PROVE Store
  <2>1. at' \in [Clicks -> 0 .. MaxTime]
    <3>1. now \in 0 .. MaxTime
      BY <1>a
    <3> QED
      BY <1>a, <1>3, <3>1 DEF Happen
  <2>2. \A j \in stored : at'[j] = at[j]
    BY <1>a, <1>3 DEF Happen
  <2> QED
    BY <1>a, <1>3, <2>1, <2>2 DEF Happen
<1>4. ASSUME NEW k \in Clicks, StoreClick(k) PROVE Store
  BY <1>a, <1>4 DEF StoreClick
<1>5. ASSUME NEW l \in Links, DeleteLink(l) PROVE Store
  BY <1>a, <1>5 DEF DeleteLink
<1>6. Store
  BY <1>1, <1>2, <1>3, <1>4, <1>5
  DEF Next, vars, CompareLinks, LinkTimeseriesChart, OpenBoard, ReadClock, GetTimeseries,
      FillMissingDays, LinkCountries, GetCountryBreakdown, CloseBoard, OpenReport,
      NormalizeDateRange, RefuseRange, GetLinkOverview, GetLinkTimeseries, GetLinkBreakdown, GetUserOverview,
      LinkNotFound, CloseReport, Answer
<1>7. stored' \subseteq {k \in Clicks : at'[k] > 0 /\ Facts[k].link \in links'}
  BY <1>6
<1> QED
  BY <1>6, <1>7, StepBoardTyped, StepReportTyped DEF TypeOK, Shapes

(* The clock, the rows and the two requests of a page keep their types: a  *)
(* stored click happened and its link exists, a chart has one of the       *)
(* allowed periods, a range is not empty (normalize_period,                *)
(* normalize_date_range).                                                  *)
THEOREM TypeCorrect == Spec => []TypeOK
  BY InitTypeOK, StepTypeOK, PTL DEF Spec
-----------------------------------------------------------------------------
(***************************************************************************)
(* The chart.                                                              *)
(*                                                                         *)
(* The window begins days times 24 hours before the first reading of the   *)
(* clock, so at most that long before the second: a click the query left   *)
(* out lies on a day before the days laid out.  What a query has seen does *)
(* not change: a stored click keeps its time.                              *)
(***************************************************************************)
Happened == {k \in Clicks : at[k] > 0}

SeriesShape == [today : Int, found : SUBSET Clicks, snap : SUBSET Clicks]

(* The rows a query found, of those there were.                            *)
Window ==
    board.step \in {"window", "rows"} =>
        board.from \in Int /\ board.from <= now - board.days * Day

Queried ==
    board.step = "rows" =>
        /\ board.snap \subseteq Happened
        /\ board.found = {k \in board.snap : at[k] >= board.from}

Complete(s, days) ==
    /\ s.found \subseteq s.snap /\ s.snap \subseteq Happened
    /\ \A k \in s.snap \ s.found : DayOf(at[k]) <= s.today - days

Charted ==
    /\ board.series \in Seq(SeriesShape) /\ board.days \in Nat
    /\ \A i \in DOMAIN board.series : Complete(board.series[i], board.days)

SeriesInv == Window /\ Queried /\ Charted

LEMMA InitSeriesInv == Init => SeriesInv
<1> SUFFICES ASSUME Init PROVE SeriesInv
  OBVIOUS
<1>1. board.step = "idle" /\ board.series = <<>> /\ board.days \in Nat
  BY DEF Init, NoBoard
<1>2. <<>> \in Seq(SeriesShape) /\ DOMAIN <<>> = {}
  OBVIOUS
<1> QED
  BY <1>1, <1>2 DEF SeriesInv, Window, Queried, Charted

LEMMA TimeGoesOn ==
    ASSUME TypeOK, [Next]_vars
    PROVE  /\ now \in Int /\ now' \in Int /\ now <= now'
           /\ \A k \in Happened : at'[k] = at[k]
           /\ Happened \subseteq Happened'
           /\ \A k \in Clicks : at'[k] = at[k] \/ at'[k] = now
<1>1. now \in Nat /\ at \in [Clicks -> Int]
  BY TimeAssumption DEF TypeOK
<1>2. now' = now \/ now' = now + 1
  BY DEF Next, vars, Tick, Happen, StoreClick, DeleteLink, CompareLinks,
         LinkTimeseriesChart, OpenBoard, ReadClock, GetTimeseries, FillMissingDays,
         LinkCountries, GetCountryBreakdown, CloseBoard, OpenReport, NormalizeDateRange,
         RefuseRange, GetLinkOverview, GetLinkTimeseries, GetLinkBreakdown, GetUserOverview, LinkNotFound, CloseReport,
         Answer
<1>3. at' = at \/ \E k \in Clicks : at[k] = 0 /\ at' = [at EXCEPT ![k] = now]
  BY DEF Next, vars, Tick, Happen, StoreClick, DeleteLink, CompareLinks,
         LinkTimeseriesChart, OpenBoard, ReadClock, GetTimeseries, FillMissingDays,
         LinkCountries, GetCountryBreakdown, CloseBoard, OpenReport, NormalizeDateRange,
         RefuseRange, GetLinkOverview, GetLinkTimeseries, GetLinkBreakdown, GetUserOverview, LinkNotFound, CloseReport,
         Answer
<1>4. \A k \in Happened : at'[k] = at[k]
  BY <1>1, <1>3 DEF Happened
<1>5. \A k \in Clicks : at'[k] = at[k] \/ at'[k] = now
  BY <1>1, <1>3
<1> QED
  BY <1>1, <1>2, <1>4, <1>5 DEF Happened

(* What is complete stays so.                                              *)
LEMMA ChartKept ==
    ASSUME TypeOK, [Next]_vars, Charted,
           board'.series = board.series, board'.days = board.days
    PROVE  Charted'
<1>1. ASSUME NEW i \in DOMAIN board.series, NEW s, s = board.series[i]
      PROVE  /\ s.found \subseteq s.snap /\ s.snap \subseteq Happened'
             /\ \A k \in s.snap \ s.found : DayOf(at'[k]) <= s.today - board.days
  <2>1. Complete(s, board.days)
    BY <1>1 DEF Charted
  <2> QED
    BY <2>1, TimeGoesOn DEF Complete
<1>2. \A i \in DOMAIN board'.series : Complete(board.series[i], board.days)'
  BY <1>1 DEF Complete, DayOf
<1> QED
  BY <1>2 DEF Charted

LEMMA StepSeriesInv ==
    TypeOK /\ Shapes /\ TypeOK' /\ SeriesInv /\ [Next]_vars => SeriesInv'
<1> SUFFICES ASSUME TypeOK, Shapes, TypeOK', SeriesInv, [Next]_vars PROVE SeriesInv'
  OBVIOUS
<1>a. /\ DOMAIN board = BoardFields /\ Window /\ Queried /\ Charted
      /\ board.step # "idle" => board.days \in Nat
      /\ Day \in Nat
  BY PeriodsAssumption, TimeAssumption DEF TypeOK, Shapes, SeriesInv
<1>b. /\ now \in Int /\ now' \in Int /\ now <= now'
      /\ \A k \in Happened : at'[k] = at[k]
      /\ Happened \subseteq Happened'
  BY TimeGoesOn
(* A step that keeps the request, or notes a change under it.              *)
<1>1. ASSUME \A f \in BoardFields \ {"steady"} : board'[f] = board[f] PROVE SeriesInv'
  <2>1. /\ board'.step = board.step /\ board'.days = board.days
        /\ board'.from = board.from /\ board'.series = board.series
        /\ board'.snap = board.snap /\ board'.found = board.found
    BY <1>1 DEF BoardFields
  <2>2. Window'
    <3> SUFFICES ASSUME board.step \in {"window", "rows"}
                 PROVE  board.from \in Int /\ board.from <= now' - board.days * Day
      BY <2>1 DEF Window
    <3>1. board.from \in Int /\ board.from <= now - board.days * Day
      BY <1>a DEF Window
    <3>2. board.days * Day \in Int
      BY <1>a
    <3> QED
      BY <1>b, <3>1, <3>2
  <2>3. Queried'
    BY <1>a, <1>b, <2>1 DEF Queried
  <2> QED
    BY <1>a, <2>1, <2>2, <2>3, ChartKept DEF SeriesInv
<1>2. ASSUME NEW steady, board' = [board EXCEPT !.steady = steady] PROVE SeriesInv'
  <2>1. \A f \in BoardFields \ {"steady"} : board'[f] = board[f]
    BY <1>a, <1>2
  <2> QED
    BY <1>1, <2>1
<1>3. ASSUME board'.series = <<>>, board'.step \in {"idle", "next"}, board'.days \in Nat
      PROVE  SeriesInv'
  <2>1. <<>> \in Seq(SeriesShape) /\ DOMAIN <<>> = {}
    OBVIOUS
  <2> QED
    BY <1>3, <2>1 DEF SeriesInv, Window, Queried, Charted
<1>4. ASSUME NEW codes, NEW days, OpenBoard(codes, days) PROVE SeriesInv'
  <2>1. board'.series = <<>> /\ board'.step = "next"
    BY <1>4 DEF OpenBoard, NoBoard
  <2>2. board'.days \in Nat
    BY <2>1, PeriodsAssumption DEF TypeOK
  <2> QED
    BY <1>3, <2>1, <2>2
<1>5. CASE CloseBoard
  BY <1>3, <1>5 DEF CloseBoard, NoBoard
<1>6. CASE ReadClock
  <2>1. /\ board'.step = "window" /\ board'.days = board.days
        /\ board'.from = now - board.days * Day /\ board'.series = board.series
    BY <1>a, <1>6 DEF ReadClock, WindowStart, BoardFields
  <2>2. Window'
    <3>1. board.days \in Nat /\ now' = now
      BY <1>a, <1>6 DEF ReadClock
    <3>2. board.days * Day \in Int
      BY <1>a, <3>1
    <3> QED
      BY <1>b, <2>1, <3>1, <3>2 DEF Window
  <2> QED
    BY <1>a, <2>1, <2>2, ChartKept DEF SeriesInv, Queried
<1>7. CASE GetTimeseries
  <2>1. /\ board'.step = "rows" /\ board'.days = board.days
        /\ board'.from = board.from /\ board'.series = board.series
        /\ board'.snap = ClicksOf(Current)
        /\ board'.found = {k \in ClicksOf(Current) : at[k] >= board.from}
        /\ at' = at /\ now' = now /\ board.step = "window"
    BY <1>a, <1>7 DEF GetTimeseries, BoardFields
  <2>2. Window'
    BY <1>a, <2>1 DEF Window
  <2>3. ClicksOf(Current) \subseteq Happened
    BY DEF ClicksOf, Happened, TypeOK
  <2>4. Queried'
    BY <1>b, <2>1, <2>3 DEF Queried
  <2> QED
    BY <1>a, <2>1, <2>2, <2>4, ChartKept DEF SeriesInv
<1>8. CASE FillMissingDays
  <2> DEFINE full == [today |-> DayOf(now), found |-> board.found, snap |-> board.snap]
  <2>1. /\ board.step = "rows" /\ at' = at
        /\ board'.step \in {"done", "next"} /\ board'.days = board.days
        /\ board'.series = Append(board.series, full)
    BY <1>a, <1>8 DEF FillMissingDays, BoardFields
  <2>2. board.snap \subseteq Happened
        /\ board.found = {k \in board.snap : at[k] >= board.from}
    BY <1>a, <2>1 DEF Queried
  <2>3. ASSUME NEW k \in board.snap, k \notin board.found
        PROVE  DayOf(at[k]) <= DayOf(now) - board.days
    <3>1. at[k] \in Int
      <4>1. k \in Clicks
        BY <2>2 DEF Happened
      <4> QED
        BY <4>1, TimeAssumption DEF TypeOK
    <3>2. board.from \in Int /\ board.from <= now - board.days * Day
          /\ board.days \in Int
      BY <1>a, <2>1 DEF Window
    <3>3. ~(at[k] >= board.from)
      BY <2>2, <2>3
    <3>4. board.days * Day \in Int
      BY <1>a, <3>2
    <3>5. at[k] < now - board.days * Day
      BY <1>b, <3>1, <3>2, <3>3, <3>4
    <3> QED
      BY <1>b, <3>1, <3>2, <3>5, EarlierDay
  <2>4. DayOf(now) \in Int
    BY <1>b, DayIs
  <2>5. full \in SeriesShape
    BY <2>2, <2>4 DEF SeriesShape, Happened
  <2>6. Complete(full, board.days)
    BY <2>2, <2>3 DEF Complete
  <2> HIDE DEF full
  <2>7. /\ board'.series \in Seq(SeriesShape)
        /\ \A i \in DOMAIN board'.series :
              board'.series[i] = full \/ (i \in DOMAIN board.series
                                          /\ board'.series[i] = board.series[i])
    BY <1>a, <2>1, <2>5 DEF Charted
  <2>8. \A i \in DOMAIN board'.series : Complete(board'.series[i], board.days)
    BY <1>a, <2>6, <2>7 DEF Charted
  <2>9. Charted'
    BY <1>a, <2>1, <2>7, <2>8 DEF Charted, Complete, Happened
  <2> QED
    BY <2>1, <2>9 DEF SeriesInv, Window, Queried
<1>9. CASE LinkCountries \/ GetCountryBreakdown
  <2>1. /\ board'.step \in {"countries", "done"} /\ board'.days = board.days
        /\ board'.series = board.series
    BY <1>a, <1>9 DEF LinkCountries, GetCountryBreakdown, BoardFields
  <2> QED
    BY <1>a, <2>1, ChartKept DEF SeriesInv, Window, Queried
<1>10. CASE board' = board
  BY <1>1, <1>10
<1> QED
  BY <1>2, <1>4, <1>5, <1>6, <1>7, <1>8, <1>9, <1>10, BoardSteps

(* A day the chart shows counts every stored click of that day, whatever   *)
(* the clock does between the two readings (get_timeseries,                *)
(* _fill_missing_days).                                                    *)
THEOREM SeriesExactAlways == Spec => []SeriesExact
<1>1. TypeOK /\ SeriesInv => SeriesExact
  <2> SUFFICES ASSUME TypeOK, SeriesInv, NEW i \in DOMAIN board.series,
                      NEW s, s = board.series[i], NEW day \in ShownDays(s)
               PROVE  Point(s, day) = Cardinality({k \in s.snap : DayOf(at[k]) = day})
    BY DEF SeriesExact
  <2>1. Complete(s, board.days) /\ s.today \in Int /\ board.days \in Int
    <3>1. /\ board.series \in Seq(SeriesShape) /\ board.days \in Nat
          /\ Complete(s, board.days)
      BY DEF SeriesInv, Charted
    <3>2. s \in SeriesShape
      BY <3>1
    <3> QED
      BY <3>1, <3>2 DEF SeriesShape
  <2>2. {k \in s.found : DayOf(at[k]) = day} = {k \in s.snap : DayOf(at[k]) = day}
    <3>1. day \in Int /\ ~(day <= s.today - board.days)
      BY <2>1 DEF ShownDays
    <3> QED
      BY <2>1, <3>1 DEF Complete
  <2> QED
    BY <2>2 DEF Point
<1> QED
  BY <1>1, InitTypeOK, StepTypeOK, InitSeriesInv, StepSeriesInv, PTL DEF Spec
-----------------------------------------------------------------------------
(***************************************************************************)
(* Sums.  A sum over a set is the value of a recursive function; where the *)
(* terms are the sizes of disjoint sets, the size of their union is one.   *)
(***************************************************************************)
Chosen(s) == CHOOSE x \in s : TRUE

Adds(f, S, g) ==
    f = [s \in SUBSET S |-> IF s = {} THEN 0
                            ELSE g[Chosen(s)] + f[s \ {Chosen(s)}]]

Together(C, K, s) == {k \in K : \E x \in s : k \in C[x]}

Disjoint(C, S) == \A x, y \in S : x # y => C[x] \cap C[y] = {}

LEMMA TogetherGrows ==
    ASSUME NEW S, NEW K, IsFiniteSet(K), NEW C \in [S -> SUBSET K], Disjoint(C, S),
           NEW s \in SUBSET S, NEW x \in s
    PROVE  /\ Cardinality(Together(C, K, s)) =
                  Cardinality(C[x]) + Cardinality(Together(C, K, s \ {x}))
           /\ Cardinality(C[x]) \in Nat
           /\ Cardinality(Together(C, K, s \ {x})) \in Nat
<1> DEFINE rest == Together(C, K, s \ {x})
<1>1. Together(C, K, s) = C[x] \cup rest
  BY DEF Together
<1>2. C[x] \cap rest = {}
  BY DEF Together, Disjoint
<1>3. IsFiniteSet(C[x]) /\ IsFiniteSet(rest)
  <2>1. C[x] \in SUBSET K /\ rest \in SUBSET K
    BY DEF Together
  <2> QED
    BY <2>1, FS_Subset
<1> HIDE DEF rest
<1>4. /\ Cardinality(C[x] \cup rest) =
             Cardinality(C[x]) + Cardinality(rest) - Cardinality(C[x] \cap rest)
      /\ Cardinality(C[x] \cap rest) = 0
  BY <1>2, <1>3, FS_Union, FS_EmptySet
<1>5. Cardinality(C[x]) \in Nat /\ Cardinality(rest) \in Nat
  BY <1>3, FS_CardinalityType
<1> QED
  BY <1>1, <1>4, <1>5 DEF rest

LEMMA SizesAdd ==
    ASSUME NEW S, NEW K, IsFiniteSet(K), NEW C \in [S -> SUBSET K], Disjoint(C, S)
    PROVE  Adds([s \in SUBSET S |-> Cardinality(Together(C, K, s))], S,
                [x \in S |-> Cardinality(C[x])])
<1> DEFINE f == [s \in SUBSET S |-> Cardinality(Together(C, K, s))]
           g == [x \in S |-> Cardinality(C[x])]
<1>1. ASSUME NEW s \in SUBSET S
      PROVE  f[s] = IF s = {} THEN 0 ELSE g[Chosen(s)] + f[s \ {Chosen(s)}]
  <2>1. CASE s = {}
    <3>1. Together(C, K, s) = {}
      BY <2>1 DEF Together
    <3> QED
      BY <2>1, <3>1, FS_EmptySet
  <2>2. CASE s # {}
    <3>1. Chosen(s) \in s
      BY <2>2 DEF Chosen
    <3>2. Cardinality(Together(C, K, s)) =
              Cardinality(C[Chosen(s)]) + Cardinality(Together(C, K, s \ {Chosen(s)}))
      BY <3>1, TogetherGrows
    <3>3. Chosen(s) \in S /\ s \ {Chosen(s)} \in SUBSET S
      BY <3>1
    <3> QED
      BY <2>2, <3>2, <3>3
  <2> QED
    BY <2>1, <2>2
<1>2. f = [s \in SUBSET S |-> f[s]]
  OBVIOUS
<1> HIDE DEF f, g
<1>3. f = [s \in SUBSET S |-> IF s = {} THEN 0 ELSE g[Chosen(s)] + f[s \ {Chosen(s)}]]
  BY <1>1, <1>2
<1> QED
  BY <1>3 DEF Adds, f, g

(* There is only one such function: of the sets on which two differ, none  *)
(* is smallest.                                                            *)
LEMMA AddsOnce ==
    ASSUME NEW S, IsFiniteSet(S), NEW g, NEW e, NEW f, Adds(e, S, g), Adds(f, S, g)
    PROVE  e[S] = f[S]
<1> DEFINE differ == {s \in SUBSET S : e[s] # f[s]}
           sizes == {Cardinality(s) : s \in differ}
<1>1. SUFFICES ASSUME e[S] # f[S] PROVE FALSE
  OBVIOUS
<1>2. \A s \in SUBSET S : IsFiniteSet(s) /\ Cardinality(s) \in Nat
  BY FS_Subset, FS_CardinalityType
<1>3. sizes \in SUBSET Nat /\ sizes # {}
  BY <1>1, <1>2
<1>4. PICK m \in sizes : \A n \in sizes : m <= n
  BY <1>3, Least
<1>5. PICK s \in differ : Cardinality(s) = m
  BY <1>4
<1>6. \A t \in SUBSET S :
          /\ e[t] = IF t = {} THEN 0 ELSE g[Chosen(t)] + e[t \ {Chosen(t)}]
          /\ f[t] = IF t = {} THEN 0 ELSE g[Chosen(t)] + f[t \ {Chosen(t)}]
  BY DEF Adds
<1>7. s # {}
  BY <1>5, <1>6
<1> DEFINE t == s \ {Chosen(s)}
<1>8. Chosen(s) \in s
  BY <1>7 DEF Chosen
<1>9. t \in SUBSET S /\ e[t] # f[t]
  BY <1>5, <1>6, <1>7
<1>10. Cardinality(t) = Cardinality(s) - 1 /\ Cardinality(s) \in Nat
  BY <1>2, <1>5, <1>8, FS_RemoveElement
<1>11. Cardinality(t) \in sizes
  BY <1>9
<1> HIDE DEF t, sizes, differ
<1> QED
  BY <1>3, <1>4, <1>5, <1>10, <1>11

LEMMA SumOfSizes ==
    ASSUME NEW S, IsFiniteSet(S), NEW K, IsFiniteSet(K), NEW C \in [S -> SUBSET K],
           Disjoint(C, S), NEW f, Adds(f, S, [x \in S |-> Cardinality(C[x])])
    PROVE  f[S] = Cardinality(Together(C, K, S))
<1> DEFINE e == [s \in SUBSET S |-> Cardinality(Together(C, K, s))]
<1>1. Adds(e, S, [x \in S |-> Cardinality(C[x])])
  BY SizesAdd
<1>2. e[S] = Cardinality(Together(C, K, S))
  OBVIOUS
<1> HIDE DEF e
<1>3. e[S] = f[S]
  BY <1>1, AddsOnce
<1> QED
  BY <1>2, <1>3

ClicksIn(S) == MapThenSumSet(LAMBDA b : b.clicks, S)

LEMMA ClicksInSum ==
    ASSUME NEW S, IsFiniteSet(S), NEW K, IsFiniteSet(K), NEW C \in [S -> SUBSET K],
           Disjoint(C, S), \A b \in S : b.clicks = Cardinality(C[b])
    PROVE  ClicksIn(S) = Cardinality(Together(C, K, S))
<1> DEFINE Rec(f) == f = [s \in SUBSET S |-> IF s = {} THEN 0
                             ELSE Chosen(s).clicks + f[s \ {Chosen(s)}]]
           g == [b \in S |-> Cardinality(C[b])]
           it == CHOOSE f : Rec(f)
<1>1. ASSUME NEW f PROVE Rec(f) <=> Adds(f, S, g)
  <2>1. ASSUME NEW s \in SUBSET S, s # {}
        PROVE  Chosen(s).clicks = g[Chosen(s)]
    BY <2>1 DEF Chosen
  <2>2. [s \in SUBSET S |-> IF s = {} THEN 0
                             ELSE Chosen(s).clicks + f[s \ {Chosen(s)}]] =
        [s \in SUBSET S |-> IF s = {} THEN 0
                             ELSE g[Chosen(s)] + f[s \ {Chosen(s)}]]
    <3> HIDE DEF g
    <3> QED
      BY <2>1
  <2> HIDE DEF g
  <2> QED
    BY <2>2 DEF Adds
<1>2. \E f : Adds(f, S, g)
  BY SizesAdd
<1>3. Adds(it, S, g)
  <2> HIDE DEF Rec, g
  <2> QED
    BY <1>1, <1>2
<1>4. ClicksIn(S) = it[S]
  BY DEF ClicksIn, MapThenSumSet, MapThenFoldSet, Chosen
<1> HIDE DEF it
<1> QED
  BY <1>3, <1>4, SumOfSizes

DaysIn(series) == MapThenSumSet(LAMBDA day : series[day], DOMAIN series)

LEMMA DaysInSum ==
    ASSUME NEW S, IsFiniteSet(S), NEW K, IsFiniteSet(K), NEW C \in [S -> SUBSET K],
           Disjoint(C, S)
    PROVE  DaysIn([x \in S |-> Cardinality(C[x])]) = Cardinality(Together(C, K, S))
<1> DEFINE g == [x \in S |-> Cardinality(C[x])]
           it == CHOOSE f : Adds(f, S, g)
<1>1. Adds(it, S, g)
  BY SizesAdd
<1>2. DaysIn(g) = it[S]
  <2>1. DOMAIN g = S
    OBVIOUS
  <2> HIDE DEF g
  <2> QED
    BY <2>1 DEF DaysIn, MapThenSumSet, MapThenFoldSet, Chosen, Adds
<1> HIDE DEF it
<1> QED
  BY <1>1, <1>2, SumOfSizes

(* The groups of the rows R under their labels, and their sizes.           *)
Groups(R, lab) ==
    {[label |-> x, clicks |-> Cardinality({k \in R : lab[k] = x})] :
        x \in {lab[k] : k \in R}}

(* The rows whose label one of the groups in B has.                        *)
Covered(R, lab, B) == {k \in R : \E b \in B : lab[k] = b.label}

LEMMA GroupsPart ==
    ASSUME NEW R, IsFiniteSet(R), NEW lab, NEW B \in SUBSET Groups(R, lab)
    PROVE  /\ IsFiniteSet(Groups(R, lab))
           /\ ClicksIn(B) = Cardinality(Covered(R, lab, B))
<1> DEFINE f == [k \in R |-> [label |-> lab[k],
                              clicks |-> Cardinality({j \in R : lab[j] = lab[k]})]]
           C == [b \in B |-> {k \in R : lab[k] = b.label}]
<1>1. IsFiniteSet(Groups(R, lab)) /\ IsFiniteSet(B)
  <2>1. f \in Surjection(R, Groups(R, lab))
    BY DEF Surjection, Groups
  <2>2. IsFiniteSet(Groups(R, lab))
    BY <2>1, FS_Surjection
  <2> QED
    BY <2>2, FS_Subset
<1>2. \A b \in B : b = [label |-> b.label,
                       clicks |-> Cardinality({k \in R : lab[k] = b.label})]
  <2> SUFFICES ASSUME NEW b \in B
               PROVE  b = [label |-> b.label,
                           clicks |-> Cardinality({k \in R : lab[k] = b.label})]
    OBVIOUS
  <2>1. PICK x : b = [label |-> x, clicks |-> Cardinality({k \in R : lab[k] = x})]
    BY DEF Groups
  <2>2. b.label = x
    BY <2>1
  <2> QED
    BY <2>1, <2>2
<1>3. C \in [B -> SUBSET R]
  OBVIOUS
<1>4. Disjoint(C, B)
  <2> SUFFICES ASSUME NEW b \in B, NEW c \in B, NEW k \in R, k \in C[b], k \in C[c]
               PROVE  b = c
    BY DEF Disjoint
  <2>1. b.label = c.label
    OBVIOUS
  <2> QED
    BY <1>2, <2>1
<1>5. \A b \in B : b.clicks = Cardinality(C[b])
  <2> SUFFICES ASSUME NEW b \in B PROVE b.clicks = Cardinality(C[b])
    OBVIOUS
  <2>1. C[b] = {k \in R : lab[k] = b.label}
    OBVIOUS
  <2> HIDE DEF C
  <2> QED
    BY <1>2, <2>1
<1>6. Together(C, R, B) = Covered(R, lab, B)
  <2>1. ASSUME NEW k \in R, NEW b \in B PROVE k \in C[b] <=> lab[k] = b.label
    OBVIOUS
  <2> HIDE DEF C
  <2> QED
    BY <2>1 DEF Together, Covered
<1> HIDE DEF C
<1>7. ClicksIn(B) = Cardinality(Together(C, R, B))
  BY <1>1, <1>3, <1>4, <1>5, ClicksInSum, Zenon
<1> QED
  BY <1>1, <1>6, <1>7

LEMMA GroupsTotal ==
    ASSUME NEW R, IsFiniteSet(R), NEW lab
    PROVE  /\ IsFiniteSet(Groups(R, lab))
           /\ ClicksIn(Groups(R, lab)) = Cardinality(R)
<1> DEFINE B == Groups(R, lab)
           f == [k \in R |-> [label |-> lab[k],
                              clicks |-> Cardinality({j \in R : lab[j] = lab[k]})]]
<1>1. ASSUME NEW k \in R PROVE \E b \in B : lab[k] = b.label
  <2>1. f[k] \in B /\ f[k].label = lab[k]
    BY DEF Groups
  <2> QED
    BY <2>1
<1> DEFINE P == Covered(R, lab, B)
<1>2. IsFiniteSet(B) /\ ClicksIn(B) = Cardinality(P)
  <2>1. B \in SUBSET Groups(R, lab)
    OBVIOUS
  <2> QED
    BY <2>1, GroupsPart, Zenon
<1>3. P = R
  <2> HIDE DEF B
  <2> QED
    BY <1>1 DEF Covered
<1> HIDE DEF P
<1> QED
  BY <1>2, <1>3

(* LIMIT leaves the first of the rows.                                     *)
LEMMA TopRowsAre ==
    ASSUME NEW rows, IsFiniteSet(rows), NEW limit \in Nat, NEW top \in TopRows(rows, limit)
    PROVE  /\ top \in SUBSET rows
           /\ Cardinality(top) \in Nat /\ Cardinality(top) <= limit
           /\ Cardinality(top) < limit => top = rows
           /\ \A b \in top, c \in rows \ top : c.clicks <= b.clicks
<1>1. Cardinality(rows) \in Nat
  BY FS_CardinalityType
<1>2. CASE Cardinality(rows) <= limit
  BY <1>1, <1>2 DEF TopRows
<1>3. CASE ~(Cardinality(rows) <= limit)
  BY <1>1, <1>3 DEF TopRows
<1> QED
  BY <1>2, <1>3
-----------------------------------------------------------------------------
(***************************************************************************)
(* The reports over a range.                                               *)
(*                                                                         *)
(* While nothing is stored or deleted under the page, each answer is what  *)
(* the same SELECT would give now: a click that only happens is not in the *)
(* table, and one in the table keeps its time.                             *)
(***************************************************************************)
Rows(db, time, l, from, to) ==
    {k \in db : Facts[k].link = l /\ from <= time[k] /\ time[k] < to}

Daily(R, time, from, to) ==
    [day \in DayOf(from) .. DayOf(to) |->
        Cardinality({k \in R : DayOf(time[k]) = day})]

Labelled(R) ==
    {[label |-> x, clicks |-> Cardinality({k \in R : LabelOf(k) = x})] :
        x \in {LabelOf(k) : k \in R}}

UserRows(db, time, ls, from, to) ==
    {k \in db : Facts[k].link \in ls /\ from <= time[k] /\ time[k] < to}

(* What each answer says, about the rows db with these times; x names the  *)
(* range it is about.                                                      *)
OverviewIs(x, l, db, time) ==
    LET R == Rows(db, time, l, x.from, x.to)
    IN  x.events = Cardinality(R) /\ x.countries = Distinct(R)

SeriesIs(x, l, db, time) ==
    x.counts = Daily(Rows(db, time, l, x.from, x.to), time, x.from, x.to)

BreakdownIs(x, l, db, time) ==
    x.limit \in Nat /\ x.rows \in TopRows(Labelled(Rows(db, time, l, x.from, x.to)), x.limit)

UserIs(x, ls, db, time) ==
    /\ x.links = Cardinality(ls)
    /\ x.events = Cardinality(UserRows(db, time, ls, x.from, x.to))

(* The answers a page r has got.                                           *)
Told(r, db, time, ls) ==
    /\ r.link \in ls
    /\ r.step \in {"series", "breakdown", "user", "done"} =>
           OverviewIs(r.overview, r.link, db, time)
    /\ r.step \in {"breakdown", "user", "done"} => SeriesIs(r.series, r.link, db, time)
    /\ r.step \in {"user", "done"} => BreakdownIs(r.breakdown, r.link, db, time)
    /\ r.step = "done" => UserIs(r.user, ls, db, time)

ToldInv ==
    report.step # "idle" /\ report.steady => Told(report, stored, at, links)

LEMMA ToldSame ==
    ASSUME NEW db, NEW s, NEW t, \A k \in db : s[k] = t[k], NEW ls, NEW r,
           Told(r, db, s, ls)
    PROVE  Told(r, db, t, ls)
<1>1. ASSUME NEW l, NEW from, NEW to
      PROVE  /\ Rows(db, t, l, from, to) = Rows(db, s, l, from, to)
             /\ UserRows(db, t, l, from, to) = UserRows(db, s, l, from, to)
             /\ Daily(Rows(db, s, l, from, to), t, from, to) =
                Daily(Rows(db, s, l, from, to), s, from, to)
  <2> DEFINE R == Rows(db, s, l, from, to)
  <2>1. \A k \in R : s[k] = t[k]
    BY DEF Rows
  <2>2. ASSUME NEW day
        PROVE  {k \in R : DayOf(t[k]) = day} = {k \in R : DayOf(s[k]) = day}
    <3> HIDE DEF R
    <3> QED
      BY <2>1
  <2>3. Daily(R, t, from, to) = Daily(R, s, from, to)
    <3> HIDE DEF R
    <3> QED
      BY <2>2 DEF Daily
  <2>4. Rows(db, t, l, from, to) = Rows(db, s, l, from, to)
    BY DEF Rows
  <2>5. UserRows(db, t, l, from, to) = UserRows(db, s, l, from, to)
    BY DEF UserRows
  <2> QED
    BY <2>3, <2>4, <2>5
<1>2. /\ \A x, l : OverviewIs(x, l, db, s) => OverviewIs(x, l, db, t)
      /\ \A x, l : SeriesIs(x, l, db, s) => SeriesIs(x, l, db, t)
      /\ \A x, l : BreakdownIs(x, l, db, s) => BreakdownIs(x, l, db, t)
      /\ \A x, l : UserIs(x, l, db, s) => UserIs(x, l, db, t)
  BY <1>1 DEF OverviewIs, SeriesIs, BreakdownIs, UserIs
<1> QED
  BY <1>2 DEF Told

LEMMA UndisturbedAnswers ==
    ASSUME ToldInv, report' = report, stored' = stored, links' = links,
           \A k \in stored : at'[k] = at[k]
    PROVE  ToldInv'
<1> SUFFICES ASSUME report.step # "idle", report.steady
             PROVE  Told(report, stored, at', links)
  BY DEF ToldInv
<1>1. Told(report, stored, at, links)
  BY DEF ToldInv
<1> QED
  BY <1>1, ToldSame

(* An answer takes its place, and ends the request.                        *)
LEMMA AnswerEffect ==
    ASSUME Shapes, report.steady = TRUE, NEW value, NEW field \in Endpoints,
           NEW step \in Endpoints \cup {"done"}, Answer(field, value, step)
    PROVE  /\ \A f \in {"link", "asked", "days", "steady"} : report'[f] = report[f]
           /\ \A f \in Endpoints \ {field} : report'[f] = report[f]
           /\ report'[field] = value /\ report'.step = step /\ report'.sent = FALSE
           /\ report.step = field /\ report.sent
           /\ stored' = stored /\ at' = at /\ links' = links /\ now' = now
  BY DEF Answer, Shapes, ReportFields, Endpoints

LEMMA RowsAre ==
    /\ RowsOf(report.link) = Rows(stored, at, report.link, report.from, report.to)
    /\ {k \in stored : Facts[k].link \in links /\ InRange(k)} =
       UserRows(stored, at, links, report.from, report.to)
  BY DEF RowsOf, Rows, ClicksOf, InRange, UserRows

LEMMA OverviewTold == OverviewIs(LinkOverview(report.link), report.link, stored, at)
<1>1. /\ LinkOverview(report.link).from = report.from
      /\ LinkOverview(report.link).to = report.to
      /\ LinkOverview(report.link).events = Cardinality(RowsOf(report.link))
      /\ LinkOverview(report.link).countries = Distinct(RowsOf(report.link))
  BY DEF LinkOverview
<1> QED
  BY <1>1, RowsAre DEF OverviewIs

LEMMA SeriesTold == SeriesIs(LinkTimeseries(report.link), report.link, stored, at)
<1> DEFINE R == RowsOf(report.link)
<1>1. /\ LinkTimeseries(report.link).from = report.from
      /\ LinkTimeseries(report.link).to = report.to
      /\ LinkTimeseries(report.link).counts = Daily(R, at, report.from, report.to)
  BY DEF LinkTimeseries, Daily, Buckets
<1> HIDE DEF R
<1>2. R = Rows(stored, at, report.link, report.from, report.to)
  BY RowsAre DEF R
<1> QED
  BY <1>1, <1>2 DEF SeriesIs

LEMMA BreakdownTold ==
    ASSUME NEW limit \in Nat, NEW top \in LinkBreakdown(report.link, limit)
    PROVE  BreakdownIs([from |-> report.from, to |-> report.to, limit |-> limit,
                        rows |-> top], report.link, stored, at)
<1> DEFINE R == RowsOf(report.link)
<1>1. LinkBreakdown(report.link, limit) = TopRows(Labelled(R), limit)
  BY DEF LinkBreakdown, Labelled
<1> HIDE DEF R
<1>2. R = Rows(stored, at, report.link, report.from, report.to)
  BY RowsAre DEF R
<1> QED
  BY <1>1, <1>2 DEF BreakdownIs

LEMMA UserTold == UserIs(UserOverview, links, stored, at)
<1>1. /\ UserOverview.from = report.from /\ UserOverview.to = report.to
      /\ UserOverview.links = Cardinality(links)
      /\ UserOverview.events =
             Cardinality({k \in stored : Facts[k].link \in links /\ InRange(k)})
  BY DEF UserOverview
<1> QED
  BY <1>1, RowsAre DEF UserIs

LEMMA StepToldInv ==
    TypeOK /\ Shapes /\ ToldInv /\ [Next]_vars => ToldInv'
<1> SUFFICES ASSUME TypeOK, Shapes, ToldInv, [Next]_vars PROVE ToldInv'
  OBVIOUS
<1> USE DEF ReportFields
<1>a. DOMAIN report = ReportFields
  BY DEF Shapes
<1>b. \A k \in stored : k \in Clicks /\ at[k] > 0
  BY DEF TypeOK
<1>1. ASSUME NEW k \in Clicks, Happen(k) PROVE ToldInv'
  <2>1. \A j \in stored : at'[j] = at[j]
    BY <1>b, <1>1 DEF Happen, TypeOK
  <2> QED
    BY <1>1, <2>1, UndisturbedAnswers DEF Happen
<1>2. ASSUME Unsettled PROVE ToldInv'
  <2>1. report'.step = "idle" \/ report'.steady = FALSE
    BY <1>2, <1>a DEF Unsettled
  <2> QED
    BY <2>1 DEF ToldInv
<1>3. ASSUME NEW l \in Links, NEW range, NEW days, OpenReport(l, range, days)
      PROVE  ToldInv'
  <2>1. /\ report'.step = "overview" /\ report'.link = l
        /\ links' = links /\ l \in links
    BY <1>3 DEF OpenReport, NoReport
  <2> QED
    BY <2>1 DEF ToldInv, Told
<1>4. CASE NormalizeDateRange
  <2>1. /\ \A f \in {"link", "steady", "step"} \cup Endpoints : report'[f] = report[f]
        /\ stored' = stored /\ at' = at /\ links' = links
    BY <1>4, <1>a DEF NormalizeDateRange, Endpoints
  <2>2. /\ report'.link = report.link /\ report'.steady = report.steady
        /\ report'.step = report.step /\ report'.overview = report.overview
        /\ report'.series = report.series /\ report'.breakdown = report.breakdown
        /\ report'.user = report.user
    BY <2>1 DEF Endpoints
  <2> QED
    BY <2>1, <2>2 DEF ToldInv, Told
<1>5. ASSUME report.steady # TRUE, NEW value, NEW field, NEW step,
             Answer(field, value, step), field \in Endpoints
      PROVE  report'.steady = report.steady
  BY <1>5, <1>a DEF Answer, Endpoints
(* The kinds of answers to a page that is steady.                          *)
<1>6. ASSUME report.steady, GetLinkOverview PROVE Told(report, stored, at, links)'
  <2> DEFINE value == LinkOverview(report.link)
  <2>1. /\ report'.link = report.link /\ report'.overview = value
        /\ report'.step = "series" /\ report.step = "overview"
        /\ stored' = stored /\ at' = at /\ links' = links
    BY <1>6, <1>a DEF GetLinkOverview, Answer
  <2> QED
    BY <1>6, <2>1, OverviewTold DEF ToldInv, Told
<1>7. ASSUME report.steady, GetLinkTimeseries PROVE Told(report, stored, at, links)'
  <2>1. /\ report'.link = report.link /\ report'.overview = report.overview
        /\ report'.series = LinkTimeseries(report.link)
        /\ report'.step = "breakdown" /\ report.step = "series"
        /\ stored' = stored /\ at' = at /\ links' = links
    BY <1>7, <1>a DEF GetLinkTimeseries, Answer
  <2> QED
    BY <1>7, <2>1, SeriesTold DEF ToldInv, Told
<1>8. ASSUME report.steady, GetLinkBreakdown PROVE Told(report, stored, at, links)'
  <2>0. PICK limit \in RowLimits : \E top \in LinkBreakdown(report.link, limit) :
            Answer("breakdown", [from |-> report.from, to |-> report.to,
                                 limit |-> limit, rows |-> top], "user")
    BY <1>8 DEF GetLinkBreakdown
  <2>1. PICK top \in LinkBreakdown(report.link, limit) :
            Answer("breakdown", [from |-> report.from, to |-> report.to,
                                 limit |-> limit, rows |-> top], "user")
    BY <2>0
  <2> DEFINE value == [from |-> report.from, to |-> report.to, limit |-> limit, rows |-> top]
  <2>2. BreakdownIs(value, report.link, stored, at)
    BY BreakdownTold, LimitsAssumption
  <2> HIDE DEF value
  <2>3. /\ report'.link = report.link /\ report'.overview = report.overview
        /\ report'.series = report.series /\ report'.breakdown = value
        /\ report'.step = "user" /\ report.step = "breakdown"
        /\ stored' = stored /\ at' = at /\ links' = links
    BY <1>8, <2>1, AnswerEffect DEF value, Endpoints
  <2> QED
    BY <1>8, <2>2, <2>3 DEF ToldInv, Told
<1>9. ASSUME report.steady, GetUserOverview PROVE Told(report, stored, at, links)'
  <2>1. /\ report'.link = report.link /\ report'.overview = report.overview
        /\ report'.series = report.series /\ report'.breakdown = report.breakdown
        /\ report'.user = UserOverview
        /\ report'.step = "done" /\ report.step = "user"
        /\ stored' = stored /\ at' = at /\ links' = links
    BY <1>9, AnswerEffect DEF GetUserOverview, Endpoints
  <2> QED
    BY <1>9, <2>1, UserTold DEF ToldInv, Told
<1>10. CASE GetLinkOverview \/ GetLinkTimeseries \/ GetLinkBreakdown \/ GetUserOverview
  <2>1. CASE report.steady
    BY <1>6, <1>7, <1>8, <1>9, <1>10, <2>1 DEF ToldInv
  <2>2. CASE ~report.steady
    <3>1. report'.steady = report.steady
      BY <1>5, <1>10, <2>2
      DEF GetLinkOverview, GetLinkTimeseries, GetLinkBreakdown, GetUserOverview, Endpoints
    <3> QED
      BY <2>2, <3>1 DEF ToldInv
  <2> QED
    BY <2>1, <2>2
<1>11. CASE LinkNotFound
  <2>1. /\ report'.steady = report.steady /\ report.step # "idle"
        /\ report.link \notin links
    BY <1>11, <1>a DEF LinkNotFound, Endpoints
  <2> QED
    BY <2>1 DEF ToldInv, Told
<1>12. CASE CloseReport \/ RefuseRange
  BY <1>12 DEF CloseReport, RefuseRange, NoReport, ToldInv
<1>13. ASSUME UNCHANGED <<at, stored, links, report>> PROVE ToldInv'
  BY <1>13, UndisturbedAnswers
<1> QED
  BY <1>1, <1>2, <1>3, <1>4, <1>10, <1>11, <1>12, <1>13
  DEF Next, vars, Tick, StoreClick, DeleteLink, CompareLinks, LinkTimeseriesChart,
      OpenBoard, ReadClock, GetTimeseries, FillMissingDays, LinkCountries,
      GetCountryBreakdown, CloseBoard

LEMMA DayGrows ==
    ASSUME NEW s \in Int, NEW t \in Int, s <= t
    PROVE  DayOf(s) <= DayOf(t)
<1> DEFINE p == DayOf(s)
           q == DayOf(t)
<1>1. Day \in Int /\ Day > 0
  BY TimeAssumption
<1>2. /\ p \in Int /\ q \in Int /\ Day * p <= s /\ t < Day * q + Day
      /\ Day * p \in Int /\ Day * q \in Int
  BY <1>1, DayIs
<1> HIDE DEF p, q
<1>3. SUFFICES ASSUME p >= q + 1 PROVE FALSE
  BY <1>2 DEF p, q
<1>4. Day * p >= Day * (q + 1) /\ Day * (q + 1) = Day * q + Day
  BY <1>1, <1>2, <1>3
<1> QED
  BY <1>1, <1>2, <1>4

(* The days of a range add up to its rows.                                 *)
LEMMA DailyTotal ==
    ASSUME NEW R, IsFiniteSet(R), NEW time, NEW from \in Int, NEW to \in Int,
           \A k \in R : time[k] \in Int /\ from <= time[k] /\ time[k] < to
    PROVE  DaysIn(Daily(R, time, from, to)) = Cardinality(R)
<1> DEFINE S == DayOf(from) .. DayOf(to)
           C == [day \in S |-> {k \in R : DayOf(time[k]) = day}]
<1>1. IsFiniteSet(S)
  BY DayIs, FS_Interval
<1>2. C \in [S -> SUBSET R]
  OBVIOUS
<1>3. Disjoint(C, S)
  BY DEF Disjoint
<1>4. Together(C, R, S) = R
  <2>1. ASSUME NEW k \in R PROVE DayOf(time[k]) \in S
    BY DayIs, DayGrows
  <2>2. ASSUME NEW k \in R PROVE k \in C[DayOf(time[k])]
    BY <2>1
  <2> HIDE DEF S, C
  <2> QED
    BY <2>1, <2>2 DEF Together
<1>5. Daily(R, time, from, to) = [day \in S |-> Cardinality(C[day])]
  BY DEF Daily
<1> HIDE DEF S, C
<1> QED
  BY <1>1, <1>2, <1>3, <1>4, <1>5, DaysInSum

(* The labels of rows other than Unknown are their countries.              *)
LEMMA KnownLabels ==
    ASSUME NEW R \in SUBSET Clicks
    PROVE  Distinct(R) = Cardinality({b \in Labelled(R) : b.label # "Unknown"})
<1> DEFINE D == {Country(k) : k \in R} \ {Null}
           B == {b \in Labelled(R) : b.label # "Unknown"}
           Of(x) == [label |-> x, clicks |-> Cardinality({k \in R : LabelOf(k) = x})]
           f == [x \in D |-> Of(x)]
<1>1. ASSUME NEW k \in R
      PROVE  /\ Country(k) # Null => LabelOf(k) = Country(k) /\ LabelOf(k) # "Unknown"
             /\ Country(k) = Null => LabelOf(k) = "Unknown"
  BY CountriesAssumption DEF LabelOf, Country
<1>2. ASSUME NEW x \in D PROVE Of(x) \in B
  <2>1. PICK k \in R : x = Country(k) /\ x # Null
    OBVIOUS
  <2>2. LabelOf(k) = x /\ x # "Unknown"
    BY <1>1, <2>1
  <2>3. Of(x).label = x
    OBVIOUS
  <2>4. Of(x) \in Labelled(R)
    BY <2>2 DEF Labelled
  <2> HIDE DEF Of
  <2> QED
    BY <2>2, <2>3, <2>4
<1>3. ASSUME NEW b \in B PROVE \E x \in D : Of(x) = b
  <2>1. PICK k \in R : b = Of(LabelOf(k))
    BY DEF Labelled
  <2>2. b.label = LabelOf(k)
    BY <2>1
  <2>3. LabelOf(k) # "Unknown"
    BY <2>2
  <2>4. Country(k) # Null /\ Country(k) = LabelOf(k)
    BY <1>1, <2>3
  <2> HIDE DEF Of
  <2> QED
    BY <2>1, <2>4
<1>4. \A x, y : Of(x) = Of(y) => x = y
  <2> SUFFICES ASSUME NEW x, NEW y, Of(x) = Of(y) PROVE x = y
    OBVIOUS
  <2>1. Of(x).label = x /\ Of(y).label = y
    OBVIOUS
  <2> HIDE DEF Of
  <2> QED
    BY <2>1
<1>5. IsFiniteSet(D)
  <2> DEFINE g == [k \in R |-> Country(k)]
  <2>1. g \in Surjection(R, {Country(k) : k \in R})
    BY DEF Surjection
  <2>2. IsFiniteSet(R)
    BY ClicksAssumption, FS_Subset
  <2>3. IsFiniteSet({Country(k) : k \in R})
    BY <2>1, <2>2, FS_Surjection
  <2> QED
    BY <2>3, FS_RemoveElement
<1> HIDE DEF D, B, Of
<1>6. f \in Injection(D, B) /\ f \in Surjection(D, B)
  BY <1>2, <1>3, <1>4 DEF Injection, Surjection, IsInjective
<1>7. Cardinality(B) = Cardinality(D)
  BY <1>5, <1>6, FS_Surjection
<1> QED
  BY <1>7 DEF Distinct, D, B

LEMMA LabelledGroups ==
    ASSUME NEW R
    PROVE  Labelled(R) = Groups(R, [k \in R |-> LabelOf(k)])
<1> DEFINE lab == [k \in R |-> LabelOf(k)]
           Size(x) == Cardinality({k \in R : LabelOf(k) = x})
           SizeIn(x) == Cardinality({k \in R : lab[k] = x})
<1>1. \A k \in R : lab[k] = LabelOf(k)
  OBVIOUS
<1>2. ASSUME NEW x PROVE Size(x) = SizeIn(x)
  <2>1. {k \in R : LabelOf(k) = x} = {k \in R : lab[k] = x}
    BY <1>1
  <2> QED
    BY <2>1
<1>3. {LabelOf(k) : k \in R} = {lab[k] : k \in R}
  BY <1>1
<1>4. /\ Labelled(R) = {[label |-> x, clicks |-> Size(x)] : x \in {LabelOf(k) : k \in R}}
      /\ Groups(R, lab) = {[label |-> x, clicks |-> SizeIn(x)] : x \in {lab[k] : k \in R}}
  BY DEF Labelled, Groups
<1> HIDE DEF lab, Size, SizeIn
<1>5. Labelled(R) = Groups(R, lab)
  BY <1>2, <1>3, <1>4
<1> QED
  BY <1>5 DEF lab

(* What a breakdown shows of the rows R.                                   *)
LEMMA LabelsShown ==
    ASSUME NEW R \in SUBSET Clicks, NEW limit \in Nat,
           NEW T \in TopRows(Labelled(R), limit)
    PROVE  LET known == Cardinality({b \in T : b.label # "Unknown"})
           IN  /\ Cardinality(T) <= limit
               /\ ClicksIn(T) <= Cardinality(R) /\ known <= Distinct(R)
               /\ Cardinality(T) < limit =>
                      ClicksIn(T) = Cardinality(R) /\ known = Distinct(R)
<1> DEFINE lab == [k \in R |-> LabelOf(k)]
           B == Labelled(R)
           P == Covered(R, lab, T)
           Known(S) == {b \in S : b.label # "Unknown"}
<1>1. IsFiniteSet(R) /\ \A S \in SUBSET R : Cardinality(S) <= Cardinality(R)
  BY ClicksAssumption, FS_Subset
<1>2. IsFiniteSet(B) /\ ClicksIn(B) = Cardinality(R)
  <2> HIDE DEF lab
  <2>1. B = Groups(R, lab)
    BY LabelledGroups DEF lab
  <2> QED
    BY <1>1, <2>1, GroupsTotal
<1>3. Distinct(R) = Cardinality(Known(B))
  BY KnownLabels
<1> HIDE DEF B
<1>4. /\ T \in SUBSET B /\ Cardinality(T) <= limit /\ (Cardinality(T) < limit => T = B)
  BY <1>2, TopRowsAre DEF B
<1>5. ClicksIn(T) = Cardinality(P)
  <2> HIDE DEF lab
  <2>1. T \in SUBSET Groups(R, lab)
    BY <1>4, LabelledGroups DEF B, lab
  <2> QED
    BY <1>1, <2>1, GroupsPart, Zenon
<1>6. P \in SUBSET R
  BY DEF Covered
<1>7. Cardinality(Known(T)) <= Cardinality(Known(B))
  <2>1. Known(T) \in SUBSET Known(B) /\ Known(B) \in SUBSET B
    BY <1>4
  <2>2. IsFiniteSet(Known(B))
    BY <1>2, <2>1, FS_Subset
  <2> HIDE DEF Known
  <2> QED
    BY <2>1, <2>2, FS_Subset
<1> HIDE DEF P, lab
<1> QED
  BY <1>1, <1>2, <1>3, <1>4, <1>5, <1>6, <1>7

(***************************************************************************)
(* The ranges of a page's answers: each is what was asked, with the clock  *)
(* of its request for what was not given, and no ends before another's.    *)
(***************************************************************************)
Fits(asked, days, x, end) ==
    /\ x.from \in Int /\ x.to \in Int /\ x.to <= end
    /\ asked[2] # Null => x.to = asked[2]
    /\ x.from = IF asked[1] = Null THEN x.to - days * Day ELSE asked[1]

(* The end of a range asked for with this `to' at this time.               *)
EndAt(to, time) == IF to = Null THEN time ELSE to

Ranged(r, end) ==
    /\ end \in Int /\ r.days \in Nat
    /\ r.asked[1] \in Int \cup {Null} /\ r.asked[2] \in Int \cup {Null}
    /\ r.sent => /\ Fits(r.asked, r.days, r, end)
                 /\ r.step = "series" => r.overview.to <= r.to
                 /\ r.step = "breakdown" => r.series.to <= r.to
                 /\ r.step = "user" => r.breakdown.to <= r.to
    /\ r.step \in {"series", "breakdown", "user", "done"} =>
           Fits(r.asked, r.days, r.overview, end)
    /\ r.step \in {"breakdown", "user", "done"} =>
           Fits(r.asked, r.days, r.series, end) /\ r.overview.to <= r.series.to
    /\ r.step \in {"user", "done"} =>
           Fits(r.asked, r.days, r.breakdown, end) /\ r.series.to <= r.breakdown.to
    /\ r.step = "done" =>
           Fits(r.asked, r.days, r.user, end) /\ r.breakdown.to <= r.user.to

RangedInv ==
    report.step # "idle" /\ report.steady => Ranged(report, EndAt(report.asked[2], now))

LEMMA RangedLater ==
    ASSUME NEW r, NEW end, NEW later \in Int, end <= later, Ranged(r, end)
    PROVE  Ranged(r, later)
<1>1. ASSUME NEW asked, NEW days, NEW x, Fits(asked, days, x, end)
      PROVE  Fits(asked, days, x, later)
  BY <1>1 DEF Fits, Ranged
<1> QED
  BY <1>1 DEF Ranged

LEMMA StepRangedInv ==
    TypeOK /\ Shapes /\ ToldInv /\ RangedInv /\ [Next]_vars => RangedInv'
<1> SUFFICES ASSUME TypeOK, Shapes, ToldInv, RangedInv, [Next]_vars PROVE RangedInv'
  OBVIOUS
<1> USE DEF ReportFields
<1> DEFINE end == EndAt(report.asked[2], now)
<1>a. DOMAIN report = ReportFields /\ now \in Int /\ now' \in Int /\ now <= now'
  BY TimeGoesOn DEF Shapes
<1>1. CASE report' = report
  <2> SUFFICES ASSUME report.step # "idle", report.steady
               PROVE  Ranged(report, EndAt(report.asked[2], now'))
    BY <1>1 DEF RangedInv
  <2> DEFINE later == EndAt(report.asked[2], now')
  <2>1. Ranged(report, end)
    BY DEF RangedInv
  <2>2. later \in Int /\ end <= later
    BY <1>a, <2>1 DEF Ranged, EndAt
  <2> HIDE DEF later, end
  <2>3. Ranged(report, later)
    BY <2>1, <2>2, RangedLater
  <2> QED
    BY <2>3 DEF later
<1>2. CASE Unsettled
  <2>1. report'.step = "idle" \/ report'.steady = FALSE
    BY <1>2, <1>a DEF Unsettled
  <2> QED
    BY <2>1 DEF RangedInv
<1>3. ASSUME NEW l, NEW range \in Ranges, NEW days \in Asked, OpenReport(l, range, days)
      PROVE  RangedInv'
  <2>1. /\ report'.step = "overview" /\ report'.sent = FALSE
        /\ report'.asked = range
        /\ report'.days = IF range[1] = Null THEN days ELSE 0
        /\ now' = now
    BY <1>3 DEF OpenReport, NoReport
  <2>2. /\ range[1] \in Int \cup {Null} /\ range[2] \in Int \cup {Null}
        /\ report'.days \in Nat
    BY <2>1, RangesAssumption, PeriodsAssumption
  <2>3. EndAt(range[2], now') \in Int
    BY <1>a, <2>2 DEF EndAt
  <2> QED
    BY <2>1, <2>2, <2>3 DEF RangedInv, Ranged
<1>4. CASE NormalizeDateRange
  <2> SUFFICES ASSUME report.steady PROVE RangedInv'
    <3>1. report'.steady = report.steady
      BY <1>4, <1>a DEF NormalizeDateRange
    <3> QED
      BY <3>1 DEF RangedInv
  <2>1. /\ report'.link = report.link /\ report'.asked = report.asked
        /\ report'.days = report.days /\ report'.step = report.step
        /\ report'.overview = report.overview /\ report'.series = report.series
        /\ report'.breakdown = report.breakdown /\ report'.user = report.user
        /\ report'.from = AskedStart /\ report'.to = AskedEnd
        /\ now' = now /\ report.step \in Endpoints
    BY <1>4, <1>a DEF NormalizeDateRange
  <2>2. Ranged(report, end)
    BY <2>1 DEF RangedInv, Endpoints
  <2>3. report'.to = end /\ end \in Int /\ report'.from \in Int
        /\ (report.asked[2] # Null => end = report.asked[2])
        /\ report'.from = IF report.asked[1] = Null THEN end - report.days * Day
                          ELSE report.asked[1]
    <3>1. /\ report.asked[1] \in Int \cup {Null} /\ report.asked[2] \in Int \cup {Null}
          /\ report.days \in Nat /\ end \in Int
      BY <2>2 DEF Ranged
    <3>2. /\ AskedEnd = end /\ AskedStart \in Int
          /\ (report.asked[2] # Null => end = report.asked[2])
          /\ AskedStart = IF report.asked[1] = Null THEN end - report.days * Day
                          ELSE report.asked[1]
      <4>1. RangeEnd(report.asked[2]) = end
        BY DEF RangeEnd, EndAt
      <4>2. report.asked[2] # Null => end = report.asked[2]
        BY DEF EndAt
      <4> HIDE DEF end
      <4>3. AskedEnd = end
        BY <4>1 DEF AskedEnd
      <4>4. AskedStart = IF report.asked[1] = Null THEN end - report.days * Day
                         ELSE report.asked[1]
        BY <4>1 DEF AskedStart, RangeStart
      <4>5. report.days * Day \in Int
        BY <3>1, TimeAssumption
      <4> QED
        BY <3>1, <4>2, <4>3, <4>4, <4>5
    <3> HIDE DEF end
    <3> QED
      BY <2>1, <3>1, <3>2
  <2>4. EndAt(report'.asked[2], now') = end
    BY <2>1
  <2> HIDE DEF end
  <2>5. Fits(report.asked, report.days, report', end)
    BY <2>3 DEF Fits
  <2>6. /\ report.step = "series" => report.overview.to <= end
        /\ report.step = "breakdown" => report.series.to <= end
        /\ report.step = "user" => report.breakdown.to <= end
    BY <2>2 DEF Ranged, Fits
  <2>7. Ranged(report', end)
    BY <2>1, <2>2, <2>3, <2>5, <2>6 DEF Ranged, Endpoints
  <2> QED
    BY <2>4, <2>7 DEF RangedInv
(* An answer names the range of its request.                               *)
<1>5. ASSUME NEW value, NEW field \in Endpoints, NEW step \in Endpoints \cup {"done"},
             Answer(field, value, step),
             value.from = report.from, value.to = report.to,
             \/ field = "overview" /\ step = "series"
             \/ field = "series" /\ step = "breakdown"
             \/ field = "breakdown" /\ step = "user"
             \/ field = "user" /\ step = "done"
      PROVE  RangedInv'
  <2>0. report'.steady = report.steady
    BY <1>5, <1>a DEF Answer, Endpoints
  <2> SUFFICES ASSUME report.steady PROVE RangedInv'
    BY <2>0 DEF RangedInv
  <2>1. /\ \A f \in Endpoints \ {field} : report'[f] = report[f]
        /\ report'[field] = value /\ report'.step = step /\ report'.sent = FALSE
        /\ report'.asked = report.asked /\ report'.days = report.days
        /\ report.step = field /\ report.sent /\ now' = now
    BY <1>5, AnswerEffect
  <2>2. Ranged(report, end)
    BY <1>5, <2>1 DEF RangedInv, Endpoints
  <2>3. EndAt(report'.asked[2], now') = end
    BY <2>1
  <2> HIDE DEF end
  <2>4. Fits(report.asked, report.days, value, end)
    BY <1>5, <2>1, <2>2 DEF Ranged, Fits
  <2>5. CASE field = "overview"
    <3>1. report'.overview = value /\ report'.step = "series"
      BY <1>5, <2>1, <2>5
    <3> QED
      BY <2>1, <2>2, <2>3, <2>4, <3>1 DEF RangedInv, Ranged
  <2>6. CASE field = "series"
    <3>1. /\ report'.series = value /\ report'.step = "breakdown"
          /\ report'.overview = report.overview /\ report.overview.to <= value.to
      BY <1>5, <2>1, <2>2, <2>6 DEF Ranged, Endpoints
    <3> QED
      BY <2>1, <2>2, <2>3, <2>4, <2>6, <3>1 DEF RangedInv, Ranged
  <2>7. CASE field = "breakdown"
    <3>1. /\ report'.breakdown = value /\ report'.step = "user"
          /\ report'.overview = report.overview /\ report'.series = report.series
          /\ report.series.to <= value.to
      BY <1>5, <2>1, <2>2, <2>7 DEF Ranged, Endpoints
    <3> QED
      BY <2>1, <2>2, <2>3, <2>4, <2>7, <3>1 DEF RangedInv, Ranged
  <2>8. CASE field = "user"
    <3>1. /\ report'.user = value /\ report'.step = "done"
          /\ report'.overview = report.overview /\ report'.series = report.series
          /\ report'.breakdown = report.breakdown /\ report.breakdown.to <= value.to
      BY <1>5, <2>1, <2>2, <2>8 DEF Ranged, Endpoints
    <3> QED
      BY <2>1, <2>2, <2>3, <2>4, <2>8, <3>1 DEF RangedInv, Ranged
  <2> QED
    BY <2>5, <2>6, <2>7, <2>8 DEF Endpoints
<1>6. CASE GetLinkOverview
  <2>1. LinkOverview(report.link).from = report.from
        /\ LinkOverview(report.link).to = report.to
    BY DEF LinkOverview
  <2> QED
    BY <1>5, <1>6, <2>1 DEF GetLinkOverview, Endpoints
<1>7. CASE GetLinkTimeseries
  <2>1. LinkTimeseries(report.link).from = report.from
        /\ LinkTimeseries(report.link).to = report.to
    BY DEF LinkTimeseries
  <2> QED
    BY <1>5, <1>7, <2>1 DEF GetLinkTimeseries, Endpoints
<1>8. CASE GetLinkBreakdown
  <2>1. PICK value : /\ value.from = report.from /\ value.to = report.to
                     /\ Answer("breakdown", value, "user")
    BY <1>8 DEF GetLinkBreakdown
  <2> QED
    BY <1>5, <2>1 DEF Endpoints
<1>9. CASE GetUserOverview
  <2>1. UserOverview.from = report.from /\ UserOverview.to = report.to
    BY DEF UserOverview
  <2> QED
    BY <1>5, <1>9, <2>1 DEF GetUserOverview, Endpoints
<1>10. CASE LinkNotFound
  <2>1. /\ report'.steady = report.steady /\ report.step # "idle"
        /\ report.link \notin links
    BY <1>10, <1>a DEF LinkNotFound, Endpoints
  <2> QED
    BY <2>1 DEF ToldInv, Told, RangedInv
<1>11. CASE CloseReport \/ RefuseRange
  BY <1>11 DEF CloseReport, RefuseRange, NoReport, RangedInv
<1> QED
  BY <1>1, <1>2, <1>3, <1>4, <1>6, <1>7, <1>8, <1>9, <1>10, <1>11
  DEF Next, vars, Tick, Happen, StoreClick, DeleteLink, CompareLinks,
      LinkTimeseriesChart, OpenBoard, ReadClock, GetTimeseries, FillMissingDays,
      LinkCountries, GetCountryBreakdown, CloseBoard

LEMMA AnswersAgree == TypeOK /\ ToldInv /\ RangedInv => ReportsAgree
<1> SUFFICES ASSUME TypeOK, ToldInv, RangedInv, report.step = "done", report.steady
             PROVE  ReportsAgree
  BY DEF ReportsAgree
<1> DEFINE o == report.overview
           s == report.series
           b == report.breakdown
           u == report.user
           R(x) == Rows(stored, at, report.link, x.from, x.to)
           U(x) == UserRows(stored, at, links, x.from, x.to)
           Same(x, y) == x.from = y.from /\ x.to = y.to
           known == Cardinality({y \in b.rows : y.label # "Unknown"})
<1>1. /\ report.link \in links
      /\ o.events = Cardinality(R(o)) /\ o.countries = Distinct(R(o))
      /\ s.counts = Daily(R(s), at, s.from, s.to)
      /\ b.limit \in Nat /\ b.rows \in TopRows(Labelled(R(b)), b.limit)
      /\ u.links = Cardinality(links) /\ u.events = Cardinality(U(u))
  BY DEF ToldInv, Told, OverviewIs, SeriesIs, BreakdownIs, UserIs
<1>2. Ranged(report, EndAt(report.asked[2], now))
  BY DEF RangedInv
<1>3. /\ \A x \in {o, s, b, u} :
             /\ x.from \in Int /\ x.to \in Int
             /\ report.asked[2] # Null => x.to = report.asked[2]
             /\ x.from = IF report.asked[1] = Null THEN x.to - report.days * Day
                         ELSE report.asked[1]
      /\ o.to <= s.to /\ s.to <= b.to /\ b.to <= u.to
  BY <1>2 DEF Ranged, Fits
<1>4. ASSUME NEW x \in {o, s, b, u}
      PROVE  /\ R(x) \in SUBSET Clicks /\ U(x) \in SUBSET Clicks
             /\ R(x) \subseteq U(x)
             /\ \A k \in R(x) : at[k] \in Int /\ x.from <= at[k] /\ at[k] < x.to
  BY <1>1, TimeAssumption DEF Rows, UserRows, TypeOK
<1>5. \A S \in SUBSET Clicks, T \in SUBSET Clicks :
          /\ IsFiniteSet(S) /\ Cardinality(S) \in Nat
          /\ S \subseteq T => Cardinality(S) <= Cardinality(T)
  BY ClicksAssumption, FS_Subset, FS_CardinalityType
<1>6. DaysIn(s.counts) = Cardinality(R(s))
  <2>1. IsFiniteSet(R(s))
    BY <1>4, <1>5
  <2> HIDE DEF o, s, b, u, R
  <2> QED
    BY <1>1, <1>3, <1>4, <2>1, DailyTotal
<1>7. /\ Cardinality(b.rows) <= b.limit
      /\ ClicksIn(b.rows) <= Cardinality(R(b)) /\ known <= Distinct(R(b))
      /\ Cardinality(b.rows) < b.limit =>
             ClicksIn(b.rows) = Cardinality(R(b)) /\ known = Distinct(R(b))
  <2>1. R(b) \in SUBSET Clicks
    BY <1>4
  <2> HIDE DEF b, R
  <2> QED
    BY <1>1, <2>1, LabelsShown
<1>8. ASSUME NEW x, NEW y, Same(x, y) PROVE R(x) = R(y) /\ U(x) = U(y)
  BY <1>8
(* A range that starts at the same time and does not end before.           *)
<1>9. ASSUME report.asked[1] # Null
      PROVE  /\ Cardinality(R(o)) <= Cardinality(R(s))
             /\ Cardinality(R(s)) <= Cardinality(U(u))
  <2>1. o.from = s.from /\ s.from = u.from /\ s.to <= u.to
    <3> HIDE DEF o, s, b, u
    <3> QED
      BY <1>3, <1>9
  <2>2. ASSUME NEW k \in R(o) PROVE k \in R(s)
    <3>1. k \in stored /\ Facts[k].link = report.link /\ at[k] \in Int
          /\ o.from <= at[k] /\ at[k] < o.to
      BY <1>4, <2>2 DEF Rows
    <3>2. s.from <= at[k] /\ at[k] < s.to
      <4> HIDE DEF o, s, b, u
      <4> QED
        BY <1>3, <2>1, <3>1
    <3> QED
      BY <3>1, <3>2 DEF Rows
  <2>3. ASSUME NEW k \in R(s) PROVE k \in U(u)
    <3>1. k \in stored /\ Facts[k].link = report.link /\ at[k] \in Int
          /\ s.from <= at[k] /\ at[k] < s.to
      BY <1>4, <2>3 DEF Rows
    <3>2. u.from <= at[k] /\ at[k] < u.to
      <4> HIDE DEF o, s, b, u
      <4> QED
        BY <1>3, <2>1, <3>1
    <3> QED
      BY <1>1, <3>1, <3>2 DEF UserRows
  <2>4. R(o) \in SUBSET Clicks /\ R(s) \in SUBSET Clicks /\ U(u) \in SUBSET Clicks
    BY <1>4
  <2>5. R(o) \subseteq R(s) /\ R(s) \subseteq U(u)
    BY <2>2, <2>3
  <2> HIDE DEF R, U, o, s, b, u
  <2> QED
    BY <1>5, <2>4, <2>5
<1>10. Same(o, u) => Cardinality(R(o)) <= Cardinality(U(u))
  <2> SUFFICES ASSUME Same(o, u) PROVE Cardinality(R(o)) <= Cardinality(U(u))
    OBVIOUS
  <2>1. U(o) = U(u)
    BY <1>8
  <2>2. R(o) \in SUBSET Clicks /\ U(u) \in SUBSET Clicks /\ R(o) \subseteq U(u)
    BY <1>4, <2>1
  <2> HIDE DEF R, U, o, s, b, u
  <2> QED
    BY <1>5, <2>2
<1>11. report.asked[2] # Null => \A x \in {s, b, u} : Same(o, x)
  <2> SUFFICES ASSUME report.asked[2] # Null, NEW x \in {s, b, u} PROVE Same(o, x)
    OBVIOUS
  <2> HIDE DEF o, s, b, u
  <2>1. o.to = report.asked[2] /\ x.to = report.asked[2]
    BY <1>3
  <2>2. o.from = x.from
    BY <1>3, <2>1
  <2> QED
    BY <2>1, <2>2
<1>12. /\ Same(o, s) => o.events = DaysIn(s.counts)
       /\ Same(o, b) => IF Cardinality(b.rows) < b.limit
                         THEN ClicksIn(b.rows) = o.events /\ known = o.countries
                         ELSE ClicksIn(b.rows) <= o.events /\ known <= o.countries
  <2>1. Same(o, s) => R(o) = R(s)
    BY <1>8
  <2>2. Same(o, b) => R(o) = R(b)
    BY <1>8
  <2> HIDE DEF o, s, b, u, R, U, Same, known
  <2> QED
    BY <1>1, <1>6, <1>7, <2>1, <2>2
<1>13. /\ report.asked[1] # Null => o.events <= DaysIn(s.counts) /\ DaysIn(s.counts) <= u.events
       /\ Same(o, u) => o.events <= u.events
       /\ u.links = Cardinality(links)
       /\ Cardinality(b.rows) <= b.limit
  <2> HIDE DEF o, s, b, u, R, U, Same, known
  <2> QED
    BY <1>1, <1>6, <1>7, <1>9, <1>10
<1> HIDE DEF R, U
<1> QED
  BY <1>11, <1>12, <1>13 DEF ReportsAgree, DaysIn, ClicksIn

(* The four answers of a page, each over the range its own request made of *)
(* the clock, tell one story unless a click was stored or a link deleted   *)
(* in between: what ReportsAgree says of ranges given in full or in part,  *)
(* of equal ranges and of labels cut off by limit (get_link_overview,      *)
(* get_link_timeseries, get_link_breakdown, get_user_analytics_overview).  *)
THEOREM ReportsAgreeAlways == Spec => []ReportsAgree
<1>1. Init => ToldInv /\ RangedInv
  BY DEF Init, NoReport, ToldInv, RangedInv
<1> QED
  BY <1>1, InitTypeOK, StepTypeOK, StepToldInv, StepRangedInv, AnswersAgree, PTL DEF Spec
-----------------------------------------------------------------------------
(***************************************************************************)
(* The countries beside the chart.                                         *)
(*                                                                         *)
(* While nothing is stored or deleted under the page, the rows its chart   *)
(* has seen are those its countries are counted from, but for the two      *)
(* windows; and no click lies after the last day of a chart, which is laid *)
(* out after the rows were read.                                           *)
(***************************************************************************)
LinkRows(db, l) == {k \in db : Facts[k].link = l}

Past == \A k \in Clicks : at[k] <= now

NoneLater ==
    \A i \in DOMAIN board.series : \A k \in board.series[i].snap :
        DayOf(at[k]) <= board.series[i].today

(* Countries are asked for when the one chart is drawn.                    *)
Drawn ==
    /\ board.step \in {"done", "countries"} => Len(board.series) = Len(board.codes)
    /\ board.step = "countries" \/ board.countries # Null =>
           /\ board.step \in {"done", "countries"} /\ Len(board.codes) = 1
           /\ board.all \in BOOLEAN

(* What a dashboard b has read, about the rows db with these times.        *)
Read(b, db, time) ==
    /\ \A i \in DOMAIN b.series : b.series[i].snap = LinkRows(db, b.codes[i])
    /\ b.step = "rows" => b.snap = LinkRows(db, b.codes[Len(b.series) + 1])
    /\ b.step = "countries" \/ b.countries # Null =>
           b.from \in Int /\ (b.all => b.from = 0) /\ b.limit \in Nat
    /\ b.countries # Null =>
           b.countries \in GroupedCounts({k \in LinkRows(db, b.codes[1]) :
                                              time[k] >= b.from}, b.limit)

ReadInv == board.step # "idle" /\ board.steady => Read(board, stored, at)

LEMMA StepPast == TypeOK /\ TypeOK' /\ Past /\ [Next]_vars => Past'
<1> SUFFICES ASSUME TypeOK, TypeOK', Past, [Next]_vars, NEW k \in Clicks
             PROVE  at'[k] <= now'
  BY DEF Past
<1>1. at[k] \in Int /\ at[k] <= now
  BY TimeAssumption DEF TypeOK, Past
<1> QED
  BY <1>1, TimeGoesOn

LEMMA NoneLaterKept ==
    ASSUME TypeOK, [Next]_vars, NoneLater, Charted, board'.series = board.series
    PROVE  NoneLater'
<1> SUFFICES ASSUME NEW i \in DOMAIN board.series, NEW k \in board.series[i].snap
             PROVE  DayOf(at'[k]) <= board.series[i].today
  BY DEF NoneLater, DayOf
<1>1. k \in Happened
  BY DEF Charted, Complete
<1> QED
  BY <1>1, TimeGoesOn DEF NoneLater

LEMMA StepNoneLater ==
    TypeOK /\ Shapes /\ SeriesInv /\ Past /\ NoneLater /\ [Next]_vars => NoneLater'
<1> SUFFICES ASSUME TypeOK, Shapes, SeriesInv, Past, NoneLater, [Next]_vars
             PROVE  NoneLater'
  OBVIOUS
<1> USE DEF BoardFields
<1>a. DOMAIN board = BoardFields /\ Charted /\ Queried
  BY DEF Shapes, SeriesInv
<1>1. ASSUME board'.series = board.series PROVE NoneLater'
  BY <1>1, <1>a, NoneLaterKept
<1>2. ASSUME board'.series = <<>> PROVE NoneLater'
  BY <1>2 DEF NoneLater
<1>3. CASE FillMissingDays
  <2> DEFINE full == [today |-> DayOf(now), found |-> board.found, snap |-> board.snap]
  <2>1. /\ board.step = "rows" /\ at' = at
        /\ board'.series = Append(board.series, full)
    BY <1>a, <1>3 DEF FillMissingDays
  <2>2. board.snap \subseteq Clicks /\ at \in [Clicks -> Int] /\ now \in Int
    BY <1>a, <2>1, TimeAssumption DEF Queried, Happened, TypeOK
  <2>3. \A k \in full.snap : DayOf(at[k]) <= full.today
    BY <2>2, DayGrows DEF Past
  <2> HIDE DEF full
  <2>4. \A i \in DOMAIN board'.series :
            board'.series[i] = full \/ (i \in DOMAIN board.series
                                        /\ board'.series[i] = board.series[i])
    BY <1>a, <2>1 DEF Charted
  <2> QED
    BY <2>1, <2>3, <2>4 DEF NoneLater, DayOf
<1>4. ASSUME NEW steady, board' = [board EXCEPT !.steady = steady]
      PROVE  board'.series = board.series
  BY <1>4, <1>a
<1>5. ASSUME NEW codes, NEW days, OpenBoard(codes, days) PROVE board'.series = <<>>
  BY <1>5 DEF OpenBoard, NoBoard
<1>6. CASE ReadClock \/ GetTimeseries \/ LinkCountries \/ GetCountryBreakdown
  <2>1. board'.series = board.series
    BY <1>6, <1>a DEF ReadClock, GetTimeseries, LinkCountries, GetCountryBreakdown
  <2> QED
    BY <1>1, <2>1
<1>7. CASE CloseBoard
  BY <1>2, <1>7 DEF CloseBoard, NoBoard
<1> QED
  BY <1>1, <1>2, <1>3, <1>4, <1>5, <1>6, <1>7, BoardSteps

LEMMA StepDrawn ==
    TypeOK /\ Shapes /\ SeriesInv /\ Drawn /\ [Next]_vars => Drawn'
<1> SUFFICES ASSUME TypeOK, Shapes, SeriesInv, Drawn, [Next]_vars PROVE Drawn'
  OBVIOUS
<1> USE DEF BoardFields
<1>a. DOMAIN board = BoardFields /\ board.series \in Seq(SeriesShape)
  BY DEF Shapes, SeriesInv, Charted
<1>1. ASSUME board'.step = board.step, board'.series = board.series,
             board'.codes = board.codes, board'.countries = board.countries,
             board'.all = board.all
      PROVE  Drawn'
  BY <1>1 DEF Drawn
<1>2. ASSUME NEW steady, board' = [board EXCEPT !.steady = steady] PROVE Drawn'
  BY <1>1, <1>2, <1>a
<1>3. ASSUME board'.step \in {"idle", "next", "window", "rows"}, board'.countries = Null
      PROVE  Drawn'
  BY <1>3 DEF Drawn
<1>4. ASSUME NEW codes, NEW days, OpenBoard(codes, days) PROVE Drawn'
  BY <1>3, <1>4 DEF OpenBoard, NoBoard
<1>5. CASE ReadClock \/ GetTimeseries
  <2>1. board.step \in {"next", "window"} /\ board'.countries = board.countries
        /\ board'.step \in {"window", "rows"}
    BY <1>5, <1>a DEF ReadClock, GetTimeseries
  <2>2. board.countries = Null
    BY <2>1 DEF Drawn
  <2> QED
    BY <1>3, <2>1, <2>2
<1>6. CASE FillMissingDays
  <2>1. /\ board.step = "rows" /\ board'.countries = board.countries
        /\ board'.codes = board.codes
        /\ board'.series = Append(board.series,
              [today |-> DayOf(now), found |-> board.found, snap |-> board.snap])
        /\ board'.step = IF Len(board.series) + 1 = Len(board.codes)
                         THEN "done" ELSE "next"
    BY <1>6, <1>a DEF FillMissingDays
  <2>2. board.countries = Null
    BY <2>1 DEF Drawn
  <2>3. ASSUME NEW x PROVE Len(Append(board.series, x)) = Len(board.series) + 1
    BY <1>a
  <2> QED
    BY <2>1, <2>2, <2>3 DEF Drawn
<1>7. CASE LinkCountries
  <2>1. /\ board.step = "done" /\ Len(board.codes) = 1
        /\ board'.step = "countries" /\ board'.all \in BOOLEAN
        /\ board'.codes = board.codes /\ board'.series = board.series
    BY <1>7, <1>a DEF LinkCountries
  <2> QED
    BY <2>1 DEF Drawn
<1>8. CASE GetCountryBreakdown
  <2>1. /\ board.step = "countries" /\ board'.step = "done"
        /\ board'.all = board.all
        /\ board'.codes = board.codes /\ board'.series = board.series
    BY <1>8, <1>a DEF GetCountryBreakdown
  <2> QED
    BY <2>1 DEF Drawn
<1>9. CASE CloseBoard
  BY <1>3, <1>9 DEF CloseBoard, NoBoard
<1>10. CASE board' = board
  BY <1>1, <1>10
<1> QED
  BY <1>2, <1>4, <1>5, <1>6, <1>7, <1>8, <1>9, <1>10, BoardSteps

LEMMA ReadSame ==
    ASSUME NEW db, NEW s, NEW t, \A k \in db : s[k] = t[k], NEW b, Read(b, db, s)
    PROVE  Read(b, db, t)
<1>1. {k \in LinkRows(db, b.codes[1]) : t[k] >= b.from} =
      {k \in LinkRows(db, b.codes[1]) : s[k] >= b.from}
  BY DEF LinkRows
<1> QED
  BY <1>1 DEF Read

LEMMA UndisturbedRead ==
    ASSUME ReadInv, board' = board, stored' = stored, \A k \in stored : at'[k] = at[k]
    PROVE  ReadInv'
<1> SUFFICES ASSUME board.step # "idle", board.steady PROVE Read(board, stored, at')
  BY DEF ReadInv
<1>1. Read(board, stored, at)
  BY DEF ReadInv
<1> QED
  BY <1>1, ReadSame

LEMMA StepReadInv ==
    TypeOK /\ Shapes /\ SeriesInv /\ Drawn /\ ReadInv /\ [Next]_vars => ReadInv'
<1> SUFFICES ASSUME TypeOK, Shapes, SeriesInv, Drawn, ReadInv, [Next]_vars PROVE ReadInv'
  OBVIOUS
<1> USE DEF BoardFields
<1>a. /\ DOMAIN board = BoardFields /\ board.series \in Seq(SeriesShape)
      /\ now \in Int /\ Day \in Int
  BY TimeAssumption DEF Shapes, SeriesInv, Charted, TypeOK
<1>b. board.step # "idle" => board.days \in Nat
  BY PeriodsAssumption DEF TypeOK
<1>1. ASSUME NEW k \in Clicks, Happen(k) PROVE ReadInv'
  <2>1. \A j \in stored : at'[j] = at[j]
    BY <1>1 DEF Happen, TypeOK
  <2> QED
    BY <1>1, <2>1, UndisturbedRead DEF Happen
<1>2. ASSUME Unsettled PROVE ReadInv'
  <2>1. board'.steady = (board.step = "idle") /\ board'.step = board.step
    BY <1>2, <1>a DEF Unsettled
  <2> QED
    BY <2>1 DEF ReadInv
<1>3. ASSUME NEW codes, NEW days, OpenBoard(codes, days) PROVE ReadInv'
  <2>1. board'.series = <<>> /\ board'.step = "next" /\ board'.countries = Null
    BY <1>3 DEF OpenBoard, NoBoard
  <2> QED
    BY <2>1 DEF ReadInv, Read
(* A step of the request: the rows stay as they are.                       *)
<1>4. CASE ReadClock
  <2>1. /\ board.step = "next" /\ board'.step = "window"
        /\ board'.steady = board.steady /\ board'.codes = board.codes
        /\ board'.series = board.series /\ board'.countries = board.countries
        /\ stored' = stored /\ at' = at
    BY <1>4, <1>a DEF ReadClock
  <2>2. board.countries = Null
    BY <2>1 DEF Drawn
  <2> QED
    BY <2>1, <2>2 DEF ReadInv, Read
<1>5. CASE GetTimeseries
  <2>1. /\ board.step = "window" /\ board'.step = "rows"
        /\ board'.steady = board.steady /\ board'.codes = board.codes
        /\ board'.series = board.series /\ board'.countries = board.countries
        /\ board'.snap = LinkRows(stored, board.codes[Len(board.series) + 1])
        /\ stored' = stored /\ at' = at
    BY <1>5, <1>a DEF GetTimeseries, ClicksOf, Current, LinkRows
  <2>2. board.countries = Null
    BY <2>1 DEF Drawn
  <2> QED
    BY <2>1, <2>2 DEF ReadInv, Read
<1>6. CASE FillMissingDays
  <2> DEFINE full == [today |-> DayOf(now), found |-> board.found, snap |-> board.snap]
  <2>1. /\ board.step = "rows" /\ board'.step \in {"done", "next"}
        /\ board'.steady = board.steady /\ board'.codes = board.codes
        /\ board'.series = Append(board.series, full)
        /\ board'.countries = board.countries
        /\ stored' = stored /\ at' = at
    BY <1>6, <1>a DEF FillMissingDays
  <2>2. board.countries = Null
    BY <2>1 DEF Drawn
  <2> SUFFICES ASSUME board.steady, NEW i \in DOMAIN board'.series
               PROVE  board'.series[i].snap = LinkRows(stored, board.codes[i])
    BY <2>1, <2>2 DEF ReadInv, Read
  <2>3. /\ board.snap = LinkRows(stored, board.codes[Len(board.series) + 1])
        /\ \A j \in DOMAIN board.series :
              board.series[j].snap = LinkRows(stored, board.codes[j])
    BY <2>1 DEF ReadInv, Read
  <2>4. full.snap = board.snap
    OBVIOUS
  <2> HIDE DEF full
  <2>5. \/ i = Len(board.series) + 1 /\ board'.series[i] = full
        \/ i \in DOMAIN board.series /\ board'.series[i] = board.series[i]
    BY <1>a, <2>1
  <2> QED
    BY <2>3, <2>4, <2>5
<1>7. CASE LinkCountries
  <2>1. /\ board.step = "done" /\ board.countries = Null /\ board'.step = "countries"
        /\ board'.steady = board.steady /\ board'.codes = board.codes
        /\ board'.series = board.series /\ board'.countries = board.countries
        /\ stored' = stored /\ at' = at
    BY <1>7, <1>a DEF LinkCountries
  <2>2. PICK all \in BOOLEAN, limit \in RowLimits :
            board' = [board EXCEPT !.step = "countries", !.all = all, !.limit = limit,
                         !.from = IF all THEN 0 ELSE WindowStart(board.days)]
    BY <1>7 DEF LinkCountries
  <2>3. /\ board'.all = all /\ board'.limit = limit /\ limit \in Nat
        /\ board'.from = IF all THEN 0 ELSE WindowStart(board.days)
    BY <1>a, <2>2, LimitsAssumption
  <2>4. WindowStart(board.days) \in Int
    <3>1. board.days \in Int
      BY <1>b, <2>1
    <3>2. board.days * Day \in Int
      BY <1>a, <3>1
    <3> QED
      BY <1>a, <3>2 DEF WindowStart
  <2>5. board'.from \in Int /\ (board'.all => board'.from = 0) /\ board'.limit \in Nat
    BY <2>3, <2>4
  <2> QED
    BY <2>1, <2>5 DEF ReadInv, Read
<1>8. CASE GetCountryBreakdown
  <2>1. /\ board.step = "countries" /\ board'.step = "done"
        /\ board'.steady = board.steady /\ board'.codes = board.codes
        /\ board'.series = board.series /\ board'.from = board.from
        /\ board'.all = board.all /\ board'.limit = board.limit
        /\ board'.countries \in GroupedCounts({k \in LinkRows(stored, board.codes[1]) :
                                                  at[k] >= board.from}, board.limit)
        /\ stored' = stored /\ at' = at
    <3> DEFINE M == {k \in LinkRows(stored, board.codes[1]) : at[k] >= board.from}
    <3>1. M = {k \in ClicksOf(board.codes[1]) : at[k] >= board.from}
      BY DEF ClicksOf, LinkRows
    <3>2. PICK top \in GroupedCounts(M, board.limit) :
              board' = [board EXCEPT !.step = "done", !.countries = top]
      BY <1>8, <3>1 DEF GetCountryBreakdown
    <3> HIDE DEF M
    <3>3. /\ board'.step = "done" /\ board'.steady = board.steady
          /\ board'.codes = board.codes /\ board'.series = board.series
          /\ board'.from = board.from /\ board'.all = board.all
          /\ board'.limit = board.limit /\ board'.countries = top
      BY <1>a, <3>2
    <3> QED
      BY <1>8, <3>2, <3>3 DEF GetCountryBreakdown, M
  <2> QED
    BY <2>1 DEF ReadInv, Read
<1>9. CASE CloseBoard
  BY <1>9 DEF CloseBoard, NoBoard, ReadInv
<1>10. ASSUME UNCHANGED <<at, stored, board>> PROVE ReadInv'
  BY <1>10, UndisturbedRead
<1> QED
  BY <1>1, <1>2, <1>3, <1>4, <1>5, <1>6, <1>7, <1>8, <1>9, <1>10
  DEF Next, vars, Tick, StoreClick, DeleteLink, CompareLinks, LinkTimeseriesChart,
      OpenReport, NormalizeDateRange, RefuseRange, GetLinkOverview, GetLinkTimeseries,
      GetLinkBreakdown, GetUserOverview, LinkNotFound, CloseReport, Answer

(* The rows of the countries.                                              *)
ByCountry(R) == Groups(R, [k \in R |-> Facts[k].country])

LEMMA CountriesGrouped ==
    ASSUME NEW R \in SUBSET Clicks, NEW limit
    PROVE  GroupedCounts(R, limit) = TopRows(ByCountry(R), limit)
<1> DEFINE lab == [k \in R |-> Facts[k].country]
           Size(x) == Cardinality({k \in R : Facts[k].country = x})
           SizeIn(x) == Cardinality({k \in R : lab[k] = x})
           counts == {[label |-> x, clicks |-> Size(x)] : x \in {Facts[k].country : k \in R}}
<1>1. \A k \in R : lab[k] = Facts[k].country
  OBVIOUS
<1>2. ASSUME NEW x PROVE Size(x) = SizeIn(x)
  <2>1. {k \in R : Facts[k].country = x} = {k \in R : lab[k] = x}
    BY <1>1
  <2> QED
    BY <2>1
<1>3. {Facts[k].country : k \in R} = {lab[k] : k \in R}
  BY <1>1
<1>4. Groups(R, lab) = {[label |-> x, clicks |-> SizeIn(x)] : x \in {lab[k] : k \in R}}
  BY DEF Groups
<1>5. counts = Groups(R, lab)
  <2> HIDE DEF lab, Size, SizeIn
  <2> QED
    BY <1>2, <1>3, <1>4
<1>6. GroupedCounts(R, limit) = TopRows(counts, limit)
  BY DEF GroupedCounts
<1> HIDE DEF counts, lab
<1> QED
  BY <1>5, <1>6 DEF ByCountry, lab

OfCountry(R, x) == {k \in R : Facts[k].country = x}

ShownOf(R, limit, T) ==
    /\ Cardinality(T) \in Nat /\ Cardinality(T) <= limit
    /\ ClicksIn(T) \in Nat /\ ClicksIn(T) <= Cardinality(R)
    /\ Cardinality(T) # limit => ClicksIn(T) = Cardinality(R)
    /\ \A x : \A b \in T : (\A c \in T : c.label # x) =>
           b.clicks \in Nat /\ Cardinality(OfCountry(R, x)) <= b.clicks

(* The countries shown: they count some of the rows, all of them when none *)
(* is cut off, and a country that is not shown has no more rows than one   *)
(* that is.                                                                *)
LEMMA CountriesShown ==
    ASSUME NEW R \in SUBSET Clicks, NEW limit \in Nat, NEW T \in GroupedCounts(R, limit)
    PROVE  ShownOf(R, limit, T)
<1> DEFINE lab == [k \in R |-> Facts[k].country]
           B == Groups(R, lab)
           P == Covered(R, lab, T)
<1>1. IsFiniteSet(R) /\ \A S \in SUBSET R : IsFiniteSet(S) /\ Cardinality(S) \in Nat
                                         /\ Cardinality(S) <= Cardinality(R)
  BY ClicksAssumption, FS_Subset, FS_CardinalityType
<1>2. T \in TopRows(B, limit)
  BY CountriesGrouped DEF ByCountry
<1>3. IsFiniteSet(B) /\ ClicksIn(B) = Cardinality(R)
  <2> HIDE DEF lab
  <2> QED
    BY <1>1, GroupsTotal
<1> HIDE DEF B
<1>4. /\ T \in SUBSET B /\ Cardinality(T) \in Nat /\ Cardinality(T) <= limit
      /\ Cardinality(T) < limit => T = B
      /\ \A b \in T, c \in B \ T : c.clicks <= b.clicks
  BY <1>2, <1>3, TopRowsAre
<1>5. ClicksIn(T) = Cardinality(P)
  <2> HIDE DEF lab
  <2>1. T \in SUBSET Groups(R, lab)
    BY <1>4 DEF B
  <2> QED
    BY <1>1, <2>1, GroupsPart, Zenon
<1>6. P \in SUBSET R
  BY DEF Covered
<1>7. ASSUME NEW x, NEW b \in T, \A c \in T : c.label # x
      PROVE  b.clicks \in Nat /\ Cardinality(OfCountry(R, x)) <= b.clicks
  <2> DEFINE N(y) == {k \in R : lab[k] = y}
             row(y) == [label |-> y, clicks |-> Cardinality(N(y))]
  <2>1. OfCountry(R, x) = N(x)
    BY DEF OfCountry
  <2>2. PICK y : b = row(y)
    BY <1>4 DEF B, Groups
  <2>3. \A z : N(z) \in SUBSET R /\ row(z).clicks = Cardinality(N(z)) /\ row(z).label = z
    OBVIOUS
  <2>4. \A k \in R : row(lab[k]) \in B
    BY DEF B, Groups
  <2> HIDE DEF row, N
  <2>5. b.clicks \in Nat
    <3>1. b.clicks = Cardinality(N(y)) /\ N(y) \in SUBSET R
      BY <2>2, <2>3
    <3> QED
      BY <1>1, <3>1
  <2>6. CASE N(x) = {}
    BY <2>1, <2>5, <2>6, FS_EmptySet
  <2>7. CASE N(x) # {}
    <3>1. PICK k \in R : lab[k] = x
      BY <2>7 DEF N
    <3> HIDE DEF lab
    <3>2. row(x) \in B
      BY <2>4, <3>1
    <3>3. row(x).label = x /\ row(x).clicks = Cardinality(N(x))
      BY <2>3
    <3>4. row(x) \in B \ T
      BY <1>7, <3>2, <3>3
    <3> QED
      BY <1>4, <2>1, <2>5, <3>3, <3>4
  <2> QED
    BY <2>5, <2>6, <2>7
<1> HIDE DEF P, lab
<1>8. Cardinality(T) # limit => ClicksIn(T) = Cardinality(R)
  BY <1>3, <1>4
<1> QED
  BY <1>1, <1>4, <1>5, <1>6, <1>7, <1>8 DEF ShownOf

LEMMA CoversChart ==
    TypeOK /\ SeriesInv /\ NoneLater /\ Drawn /\ ReadInv => BreakdownCoversChart
<1> SUFFICES ASSUME TypeOK, SeriesInv, NoneLater, Drawn, ReadInv,
                    board.countries # Null, board.steady
             PROVE  BreakdownCoversChart
  BY DEF BreakdownCoversChart
<1> DEFINE s == board.series[1]
           M == {k \in s.snap : at[k] >= board.from}
           In(days) == {k \in s.snap : DayOf(at[k]) \in days}
<1>1. /\ s \in SeriesShape /\ Complete(s, board.days) /\ board.days \in Int
      /\ \A k \in s.snap : DayOf(at[k]) <= s.today
      /\ s.snap = LinkRows(stored, board.codes[1])
      /\ board.countries \in GroupedCounts(M, board.limit) /\ board.limit \in Nat
      /\ board.from \in Int /\ (board.all => board.from = 0)
      /\ board.all \in BOOLEAN
  <2>1. /\ board.step \in {"done", "countries"} /\ Len(board.series) = 1
        /\ board.all \in BOOLEAN
    BY DEF Drawn
  <2>2. board.series \in Seq(SeriesShape) /\ board.days \in Int
    BY DEF SeriesInv, Charted
  <2>3. 1 \in DOMAIN board.series /\ s \in SeriesShape
    BY <2>1, <2>2
  <2>4. Complete(s, board.days) /\ \A k \in s.snap : DayOf(at[k]) <= s.today
    BY <2>3 DEF SeriesInv, Charted, NoneLater
  <2>5. Read(board, stored, at)
    BY <2>1 DEF ReadInv
  <2>6. s.snap = LinkRows(stored, board.codes[1])
    BY <2>3, <2>5 DEF Read
  <2> QED
    BY <2>1, <2>2, <2>3, <2>4, <2>5, <2>6 DEF Read
<1>2. /\ s.snap \in SUBSET Clicks /\ s.today \in Int
      /\ \A k \in s.snap : at[k] \in Nat /\ DayOf(at[k]) \in Int
  <2>1. s.snap \in SUBSET Clicks /\ s.today \in Int
    BY <1>1 DEF SeriesShape
  <2>2. \A k \in s.snap : at[k] \in Nat
    BY <2>1, TimeAssumption DEF TypeOK
  <2> QED
    BY <2>1, <2>2, DayIs
<1> HIDE DEF s
<1>3. M \in SUBSET Clicks /\ \A days : In(days) \in SUBSET Clicks
  BY <1>2
<1>4. \A S \in SUBSET Clicks : IsFiniteSet(S) /\ Cardinality(S) \in Nat
  BY ClicksAssumption, FS_Subset, FS_CardinalityType
<1>5. ShownOf(M, board.limit, board.countries)
  <2> HIDE DEF M
  <2> QED
    BY <1>1, <1>3, CountriesShown
<1>6. ASSUME board.all
      PROVE  /\ In(ShownDays(s)) \subseteq M
             /\ Cardinality(M) >= Cardinality(In(ShownDays(s)))
  <2>1. In(ShownDays(s)) \in SUBSET M
    BY <1>1, <1>2, <1>6
  <2> HIDE DEF M, In
  <2> QED
    BY <1>3, <1>4, <2>1, FS_Subset
<1>7. ASSUME DayOf(board.from) + board.days = s.today
      PROVE  /\ In(ShownDays(s)) \subseteq M
             /\ Cardinality(In(ShownDays(s))) <= Cardinality(M)
             /\ Cardinality(M) <= Cardinality(In(ShownDays(s)))
                                     + Cardinality(In({s.today - board.days}))
  <2> DEFINE chart == In(ShownDays(s))
             first == In({s.today - board.days})
  <2>1. ASSUME NEW k \in chart PROVE k \in M
    <3>1. /\ k \in s.snap /\ DayOf(at[k]) >= s.today - board.days + 1
          /\ DayOf(at[k]) \in Int /\ at[k] \in Int
      BY <1>1, <1>2 DEF ShownDays
    <3>2. DayOf(board.from) \in Int
      BY <1>1, DayIs
    <3>3. ~(DayOf(at[k]) <= DayOf(board.from))
      BY <1>1, <1>2, <1>7, <3>1, <3>2
    <3>4. at[k] >= board.from
      BY <1>1, <3>1, <3>3, DayGrows
    <3> QED
      BY <3>1, <3>4
  <2>2. ASSUME NEW k \in M PROVE k \in chart \cup first
    <3>1. /\ k \in s.snap /\ at[k] >= board.from /\ at[k] \in Int
          /\ DayOf(at[k]) \in Int /\ DayOf(at[k]) <= s.today
      BY <1>1, <1>2
    <3>2. DayOf(board.from) \in Int /\ DayOf(board.from) <= DayOf(at[k])
      BY <1>1, <3>1, DayIs, DayGrows
    <3>3. s.today - board.days <= DayOf(at[k])
      BY <1>1, <1>2, <1>7, <3>1, <3>2
    <3>4. DayOf(at[k]) \in ShownDays(s) \/ DayOf(at[k]) = s.today - board.days
      BY <1>1, <1>2, <3>1, <3>3 DEF ShownDays
    <3> QED
      BY <3>1, <3>4
  <2>3. chart \in SUBSET Clicks /\ first \in SUBSET Clicks
    BY <1>3
  <2> HIDE DEF chart, first, M, In
  <2>4. Cardinality(chart) <= Cardinality(M)
    BY <1>3, <1>4, <2>1, FS_Subset
  <2>5. Cardinality(M) <= Cardinality(chart \cup first)
    BY <1>4, <2>2, <2>3, FS_Subset
  <2>6. Cardinality(chart \cup first) =
            Cardinality(chart) + Cardinality(first) - Cardinality(chart \cap first)
    BY <1>4, <2>3, FS_Union
  <2>7. /\ Cardinality(chart \cap first) \in Nat /\ Cardinality(chart) \in Nat
        /\ Cardinality(first) \in Nat /\ Cardinality(M) \in Nat
    BY <1>3, <1>4, <2>3
  <2>8. Cardinality(M) <= Cardinality(chart) + Cardinality(first)
    BY <2>5, <2>6, <2>7
  <2> QED
    BY <2>1, <2>4, <2>8 DEF chart, first
(* What is left out of the countries.                                      *)
<1> DEFINE left == {k \in s.snap : \A b \in board.countries : b.label # Facts[k].country}
           Left(x) == Cardinality({k \in left : /\ DayOf(at[k]) \in ShownDays(s)
                                                /\ Facts[k].country = x})
<1>8. ASSUME In(ShownDays(s)) \subseteq M, NEW k \in left, NEW b \in board.countries
      PROVE  Left(Facts[k].country) <= b.clicks
  <2> DEFINE x == Facts[k].country
             L == {j \in left : DayOf(at[j]) \in ShownDays(s) /\ Facts[j].country = x}
             N == {j \in M : Facts[j].country = x}
  <2>1. L \in SUBSET N
    BY <1>8
  <2>2. N \in SUBSET Clicks
    BY <1>3
  <2>3. \A c \in board.countries : c.label # x
    OBVIOUS
  <2>4. b.clicks \in Nat /\ Cardinality(N) <= b.clicks
    <3>1. N = OfCountry(M, x)
      BY DEF OfCountry
    <3> HIDE DEF M, N, x
    <3> QED
      BY <1>5, <2>3, <3>1 DEF ShownOf
  <2>5. Left(x) = Cardinality(L)
    OBVIOUS
  <2> HIDE DEF L, N, x, Left
  <2>6. Cardinality(L) <= Cardinality(N) /\ Cardinality(L) \in Nat /\ Cardinality(N) \in Nat
    BY <1>4, <2>1, <2>2, FS_Subset, FS_CardinalityType
  <2> QED
    BY <2>4, <2>5, <2>6 DEF x
<1> DEFINE cut == Cardinality(board.countries) = board.limit
           near == DayOf(board.from) + board.days = s.today
           chart == Cardinality(In(ShownDays(s)))
           first == Cardinality(In({s.today - board.days}))
           total == ClicksIn(board.countries)
<1>9. chart \in Nat /\ first \in Nat /\ Cardinality(M) \in Nat /\ total \in Nat
  BY <1>3, <1>4, <1>5 DEF ShownOf
<1>10. board.all \/ near =>
           \A k \in left, b \in board.countries : Left(Facts[k].country) <= b.clicks
  <2> HIDE DEF left, Left, M, In
  <2> QED
    BY <1>6, <1>7, <1>8
<1>11. /\ board.all => cut \/ total >= chart
       /\ near => (cut \/ chart <= total) /\ total <= chart + first
  <2> HIDE DEF M, In
  <2>1. Cardinality(M) >= chart \/ ~board.all
    BY <1>6
  <2>2. near => chart <= Cardinality(M) /\ Cardinality(M) <= chart + first
    BY <1>7
  <2>3. total <= Cardinality(M) /\ (cut \/ total = Cardinality(M))
    BY <1>5 DEF ShownOf
  <2> HIDE DEF chart, first, total, cut, near
  <2> QED
    BY <1>9, <2>1, <2>2, <2>3
<1>12. Cardinality(board.countries) <= board.limit
  BY <1>5 DEF ShownOf
<1> HIDE DEF M
<1> QED
  BY <1>10, <1>11, <1>12 DEF BreakdownCoversChart, ClicksIn, s

(* The countries of a period are those of all the clicks its chart shows,  *)
(* and of none before the chart but those of one day, unless a click was   *)
(* stored, the link deleted or midnight passed between the two requests    *)
(* (_window_start, link_countries).  When `limit' cuts them off their      *)
(* total may be below the chart, and none left out is bigger than one shown.*)
THEOREM BreakdownCoversChartAlways == Spec => []BreakdownCoversChart
<1> DEFINE PageInv == Past /\ NoneLater /\ Drawn /\ ReadInv
<1>1. Init => PageInv
  <2> SUFFICES ASSUME Init PROVE PageInv
    OBVIOUS
  <2>1. /\ board.step = "idle" /\ board.series = <<>> /\ board.countries = Null
        /\ \A k \in Clicks : at[k] = 0
        /\ now \in Nat
    BY TimeAssumption DEF Init, NoBoard
  <2> QED
    BY <2>1 DEF Past, NoneLater, Drawn, ReadInv
<1>2. TypeOK /\ TypeOK' /\ Shapes /\ SeriesInv /\ PageInv /\ [Next]_vars => PageInv'
  BY StepPast, StepNoneLater, StepDrawn, StepReadInv
<1>3. TypeOK /\ SeriesInv /\ PageInv => BreakdownCoversChart
  BY CoversChart
<1> HIDE DEF PageInv
<1> QED
  BY <1>1, <1>2, <1>3, InitTypeOK, StepTypeOK, InitSeriesInv, StepSeriesInv, PTL DEF Spec
=============================================================================
