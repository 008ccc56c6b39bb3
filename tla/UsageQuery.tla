------------------------------ MODULE UsageQuery ------------------------------
(***************************************************************************)
(* The four /usage/* routes (handlers.rs, usage.rs, store.rs): the bucket  *)
(* a request is stored in, the calendar, the window a query resolves to,   *)
(* the grouping queries, and the aggregation of the rows they return.      *)
(*                                                                         *)
(* Requests are stored one at a time; how they get there, and what may be  *)
(* lost on the way, is UsageRollup.  A query is one SELECT, so that it     *)
(* sees one state of the tables.  A date is the triple of its numbers, and *)
(* triples are compared like the strings of the code: the years have four  *)
(* digits.  Text that is no date stands as an impossible date.  The rows   *)
(* of an answer form a set: their order is layout.                         *)
(***************************************************************************)
EXTENDS Integers, Sequences, FiniteSets, FiniteSetsExt, Functions

CONSTANTS
  Kinds,          \* what requests may be: [tenant, language, status, slug, us]
  RETENTION_DAYS,
  DEFAULT_WINDOW_DAYS,
  Periods,        \* billing periods a tenant may have, in seconds, or NoPeriod
  Dates,          \* dates a caller may send, among them impossible ones
  Horizon,        \* bound: the epoch days the server may run on
  BusyDays,       \* bound: those on which it is used
  MaxServed       \* bound: requests served

NoPeriod == <<>>
Omitted == <<>>

Tenants == {k.tenant : k \in Kinds}

ASSUME UsageQueryAssumption ==
  /\ BusyDays \subseteq Horizon /\ Horizon \subseteq Nat
  /\ RETENTION_DAYS \in Nat /\ DEFAULT_WINDOW_DAYS \in Nat \ {0}
  /\ Dates \subseteq Int \X Int \X Int
  /\ Periods \subseteq {NoPeriod} \union Nat \X Nat
  /\ \A k \in Kinds : k.us \in Nat

VARIABLES
  today,          \* epoch_day_now()
  usage_daily,    \* the tables, as functions on the keys they have
  usage_latency,
  answer,         \* what the last query was, and what it returned
  served          \* history: how many requests of each kind each day had

vars == <<today, usage_daily, usage_latency, answer, served>>

Silent == [route |-> "none"]

-----------------------------------------------------------------------------
(***************************************************************************)
(* The calendar.                                                           *)
(***************************************************************************)
SECONDS_PER_DAY == 86400

format_day(epoch_day) ==
  LET z   == epoch_day + 719468
      era == z \div 146097
      doe == z - era * 146097
      yoe == (doe - doe \div 1460 + doe \div 36524 - doe \div 146096) \div 365
      doy == doe - (365 * yoe + yoe \div 4 - yoe \div 100)
      mp  == (5 * doy + 2) \div 153
      d   == doy - (153 * mp + 2) \div 5 + 1
      m   == IF mp < 10 THEN mp + 3 ELSE mp - 9
  IN  <<yoe + era * 400 + (IF m <= 2 THEN 1 ELSE 0), m, d>>

\* Mutant: a century is a leap year.
is_leap_julian(year) == year % 4 = 0

is_leap(year) == (year % 4 = 0 /\ year % 100 # 0) \/ year % 400 = 0

days_in_month(year, month) ==
  CASE month \in {1, 3, 5, 7, 8, 10, 12} -> 31
    [] month \in {4, 6, 9, 11}           -> 30
    [] month = 2                         -> IF is_leap(year) THEN 29 ELSE 28

IsDate(t) == t[2] \in 1 .. 12 /\ t[3] \in 1 .. days_in_month(t[1], t[2])

\* The day of a date; no value for what is not one.
parse_day(t) ==
  LET y   == IF t[2] <= 2 THEN t[1] - 1 ELSE t[1]
      era == y \div 400
      yoe == y - era * 400
      mp  == IF t[2] > 2 THEN t[2] - 3 ELSE t[2] + 9
      doy == (153 * mp + 2) \div 5 + t[3] - 1
  IN  era * 146097 + yoe * 365 + yoe \div 4 - yoe \div 100 + doy - 719468

\* The order of the strings.
UpTo(s, t) ==
  \/ s[1] < t[1]
  \/ s[1] = t[1] /\ s[2] < t[2]
  \/ s[1] = t[1] /\ s[2] = t[2] /\ s[3] <= t[3]

-----------------------------------------------------------------------------
(***************************************************************************)
(* resolve_window.  A window is two dates and whether the caller named     *)
(* them; everything else is refused.                                       *)
(***************************************************************************)
Window(first, last, dated) ==
  [start |-> format_day(first), end |-> format_day(last), dated |-> dated]

InvalidDateRange == [start |-> Omitted, end |-> Omitted, dated |-> FALSE]

Explicit(start, end) ==
  LET first == parse_day(start)
      last  == parse_day(end)
  IN  IF /\ IsDate(start) /\ IsDate(end)
         /\ first <= last
         /\ last - first < RETENTION_DAYS
      THEN Window(first, last, TRUE)
      ELSE InvalidDateRange

\* Mutant: the default window is a day too long.
DefaultWindowLong(period) ==
  IF period # NoPeriod
  THEN Window(period[1] \div SECONDS_PER_DAY, period[2] \div SECONDS_PER_DAY, FALSE)
  ELSE Window(today - DEFAULT_WINDOW_DAYS, today, FALSE)

DefaultWindow(period) ==
  IF period # NoPeriod
  THEN Window(period[1] \div SECONDS_PER_DAY, period[2] \div SECONDS_PER_DAY, FALSE)
  ELSE Window(today - DEFAULT_WINDOW_DAYS + 1, today, FALSE)

resolve_window(start, end, period) ==
  IF start # Omitted /\ end # Omitted THEN Explicit(start, end)
  ELSE IF start = Omitted /\ end = Omitted THEN DefaultWindow(period)
  ELSE InvalidDateRange

-----------------------------------------------------------------------------
(***************************************************************************)
(* Storing a request: record, with flush_usage's upserts.                  *)
(***************************************************************************)
LATENCY_BUCKETS_MS == {1, 2, 5, 10, 25, 50, 100, 250, 500, 1000}

BUCKET_OVERFLOW == -1

bucket_for(us) ==
  LET above == {b \in LATENCY_BUCKETS_MS : us \div 1000 <= b}
  IN  IF above = {} THEN BUCKET_OVERFLOW ELSE Min(above)

DailyKey(k, day) == [day |-> format_day(day), tenant |-> k.tenant,
                     language |-> k.language, status |-> k.status, slug |-> k.slug]

LatencyKey(k, day) == [day |-> format_day(day), tenant |-> k.tenant, bucket |-> bucket_for(k.us)]

Count(table, key) == IF key \in DOMAIN table THEN table[key] ELSE 0

Counters(key) == IF key \in DOMAIN usage_daily THEN usage_daily[key] ELSE [requests |-> 0, sum |-> 0]

Added(counters, us) == [requests |-> counters.requests + 1, sum |-> counters.sum + us]

\* INSERT ... ON CONFLICT DO UPDATE.
Upsert(table, key, value) ==
  [k \in DOMAIN table \union {key} |-> IF k = key THEN value ELSE table[k]]

Serve(k) ==
  /\ today \in BusyDays
  /\ SumFunction(served) < MaxServed
  /\ LET daily   == DailyKey(k, today)
         latency == LatencyKey(k, today)
     IN  /\ usage_daily' = Upsert(usage_daily, daily, Added(Counters(daily), k.us))
         /\ usage_latency' = Upsert(usage_latency, latency, Count(usage_latency, latency) + 1)
  /\ served' = Upsert(served, <<today, k>>, Count(served, <<today, k>>) + 1)
  /\ answer' = Silent
  /\ UNCHANGED today

-----------------------------------------------------------------------------
(***************************************************************************)
(* The SELECTs.  Platform scope is every tenant; an admin's is his own.    *)
(***************************************************************************)
Platform == "platform"

\* Mutant: the filter on the tenant is forgotten.
InScopeAny(scope, tenant) == TRUE

InScope(scope, tenant) == scope = Platform \/ tenant = scope

InWindow(w, date) == UpTo(w.start, date) /\ UpTo(date, w.end)

query_usage_daily(scope, w) ==
  LET keys == {key \in DOMAIN usage_daily : InScope(scope, key.tenant) /\ InWindow(w, key.day)}
      group(key) == {other \in keys : /\ other.day = key.day /\ other.language = key.language
                                      /\ other.status = key.status /\ other.slug = key.slug}
  IN  {[day |-> key.day, language |-> key.language, status |-> key.status, slug |-> key.slug,
        requests |-> SumFunction([g \in group(key) |-> usage_daily[g].requests]),
        sum |-> SumFunction([g \in group(key) |-> usage_daily[g].sum])] : key \in keys}

query_usage_latency(scope, w) ==
  LET keys == {key \in DOMAIN usage_latency : InScope(scope, key.tenant) /\ InWindow(w, key.day)}
      group(key) == {other \in keys : other.day = key.day /\ other.bucket = key.bucket}
  IN  {[day |-> key.day, bucket |-> key.bucket,
        requests |-> SumFunctionOnSet(usage_latency, group(key))] : key \in keys}

-----------------------------------------------------------------------------
(***************************************************************************)
(* Aggregation.  `date` is Omitted in an undated answer.                   *)
(***************************************************************************)
Requests(rows) == SumFunction([r \in rows |-> r.requests])

Failed(rows) == {r \in rows : r.status >= 400}

Dated(dated, r) == IF dated THEN r.day ELSE Omitted

aggregate_daily(rows) ==
  {LET own == {r \in rows : r.day = day} IN
   [date |-> day, requests |-> Requests(own), errors |-> Requests(Failed(own)),
    average |-> (SumFunction([r \in own |-> r.sum]) \div Requests(own)) \div 1000]
     : day \in {r.day : r \in rows}}

aggregate_errors(rows, dated) ==
  {[date |-> Dated(dated, e), status |-> e.status, slug |-> e.slug,
    count |-> Requests({r \in Failed(rows) : /\ Dated(dated, r) = Dated(dated, e)
                                             /\ r.status = e.status /\ r.slug = e.slug})]
     : e \in Failed(rows)}

\* Tenths of a percent of the total, rounded to the nearest.
Permille(total, own) == (2000 * own + total) \div (2 * total)

aggregate_languages(rows, dated) ==
  {LET total == {r \in rows : Dated(dated, r) = Dated(dated, l)}
       own   == {r \in total : r.language = l.language}
   IN  [date |-> Dated(dated, l), language |-> l.language,
        count |-> Requests(own), permille |-> Permille(Requests(total), Requests(own))]
     : l \in rows}

(***************************************************************************)
(* percentile.  `rows` are the finite buckets in the order sort_by_key     *)
(* leaves them in, `overflow` is the count above the ladder, and q is in   *)
(* hundredths.  A bucket is crossed when the running count reaches the     *)
(* rank; the value is interpolated from the row before it, and rounded.    *)
(***************************************************************************)
Running(rows, i) == SumFunctionOnSet([j \in DOMAIN rows |-> rows[j].requests], 1 .. i)

Lower(rows, i) == IF i = 1 THEN 0 ELSE rows[i - 1].bucket

\* Mutant: the rank is a share of the finite buckets.
RankFinite(q, finite, overflow) == q * finite

\* In hundredths, like q.
Rank(q, finite, overflow) == q * (finite + overflow)

\* The bound of the row before, and the share of the width the rank is into it.
Interpolated(rows, i, rank) ==
  LET into  == Max({0, rank - 100 * Running(rows, i - 1)})
      whole == 100 * rows[i].requests
      width == rows[i].bucket - Lower(rows, i)
  IN  Lower(rows, i) + (2 * width * into + whole) \div (2 * whole)

percentile(rows, overflow, q) ==
  LET rank == Rank(q, Running(rows, Len(rows)), overflow)
      crossing == {i \in DOMAIN rows : 100 * Running(rows, i) >= rank}
  IN  IF crossing = {} THEN Max(LATENCY_BUCKETS_MS) ELSE Interpolated(rows, Min(crossing), rank)

\* The orders in which the database may return rows, once they are sorted by
\* bucket: several days have a row for one bucket, and no day comes first.
Sorted(rows) ==
  {s \in [1 .. Cardinality(rows) -> rows] :
     /\ Range(s) = rows
     /\ \A i \in 2 .. Len(s) : s[i - 1].bucket <= s[i].bucket}

\* The buckets of a date, and those among them with a bound.
Grouped(rows, dated, date) == {r \in rows : Dated(dated, r) = date}

Finite(rows) == {r \in rows : r.bucket # BUCKET_OVERFLOW}

\* For each date one of those orders of its finite buckets.
Orders(rows, dated) ==
  LET dates == {Dated(dated, r) : r \in rows}
      sorted(date) == Sorted(Finite(Grouped(rows, dated, date)))
  IN  {o \in [dates -> UNION {sorted(date) : date \in dates}] : \A date \in dates : o[date] \in sorted(date)}

Quantiles == {50, 95, 99}

\* `order` is one of Orders(rows, dated).
aggregate_latency(order, rows, dated) ==
  LET overflow(date) ==
        Requests(Grouped(rows, dated, date) \ Finite(Grouped(rows, dated, date)))
      value(date, q) == percentile(order[date], overflow(date), q)
  IN  {[date |-> Dated(dated, r), percentile |-> q, value_ms |-> value(Dated(dated, r), q)]
         : r \in rows, q \in Quantiles}

-----------------------------------------------------------------------------
(***************************************************************************)
(* The handlers.  A platform caller has no period; a tenant's is what its  *)
(* row has, where half a period is none.                                   *)
(***************************************************************************)
Scopes == Tenants \union {Platform}

\* What the query is, and the window usage_window makes of it.
Queries == {[scope |-> s, start |-> a, end |-> b, period |-> p] :
              s \in Scopes, a \in Dates \union {Omitted}, b \in Dates \union {Omitted}, p \in Periods}

usage_window(c) == resolve_window(c.start, c.end, c.period)

Refused(c) == usage_window(c) = InvalidDateRange

\* An answer remembers its query and the day it was asked on.
Answered(route, c, rows) ==
  answer' = [route |-> route, query |-> c, window |-> usage_window(c), rows |-> rows]

Asks(c) ==
  /\ today \in BusyDays
  /\ answer = Silent
  /\ c.scope = Platform => c.period = NoPeriod
  /\ UNCHANGED <<today, usage_daily, usage_latency, served>>

UsageDaily(c) ==
  /\ Asks(c) /\ ~Refused(c)
  /\ Answered("daily", c, aggregate_daily(query_usage_daily(c.scope, usage_window(c))))

UsageErrors(c) ==
  /\ Asks(c) /\ ~Refused(c)
  /\ Answered("errors", c, aggregate_errors(query_usage_daily(c.scope, usage_window(c)),
                                            usage_window(c).dated))

UsageLanguages(c) ==
  /\ Asks(c) /\ ~Refused(c)
  /\ Answered("languages", c, aggregate_languages(query_usage_daily(c.scope, usage_window(c)),
                                                  usage_window(c).dated))

UsageLatency(c) ==
  /\ Asks(c) /\ ~Refused(c)
  /\ LET rows == query_usage_latency(c.scope, usage_window(c)) IN
       \E order \in Orders(rows, usage_window(c).dated) :
         Answered("latency", c, aggregate_latency(order, rows, usage_window(c).dated))

Refuse(c) ==
  /\ Asks(c) /\ Refused(c)
  /\ Answered("refused", c, {})

\* The response is sent.
Respond ==
  /\ answer # Silent
  /\ answer' = Silent
  /\ UNCHANGED <<today, usage_daily, usage_latency, served>>

\* Bound: once requests are stored, the days pass within BusyDays.
Midnight ==
  /\ today + 1 \in (IF served = <<>> THEN Horizon ELSE BusyDays)
  /\ today' = today + 1
  /\ answer' = Silent
  /\ UNCHANGED <<usage_daily, usage_latency, served>>

Init ==
  /\ today \in Horizon
  /\ usage_daily = <<>>
  /\ usage_latency = <<>>
  /\ answer = Silent
  /\ served = <<>>

Next ==
  \/ \E k \in Kinds : Serve(k)
  \/ \E c \in Queries : UsageDaily(c) \/ UsageErrors(c) \/ UsageLanguages(c)
                         \/ UsageLatency(c) \/ Refuse(c)
  \/ Respond \/ Midnight

Spec == Init /\ [][Next]_vars

-----------------------------------------------------------------------------
TypeOK ==
  /\ today \in Horizon
  /\ \A key \in DOMAIN usage_daily : usage_daily[key].requests \in Nat \ {0}
  /\ \A key \in DOMAIN usage_latency :
       /\ key.bucket \in LATENCY_BUCKETS_MS \union {BUCKET_OVERFLOW}
       /\ usage_latency[key] \in Nat \ {0}
  /\ answer.route \in {"none", "refused", "daily", "errors", "languages", "latency"}

(***************************************************************************)
(* What the observer of the service expects of an answer, from the days    *)
(* and the requests themselves: neither tables nor dates.                  *)
(***************************************************************************)
\* The days a query is about.
About(c, day) ==
  IF c.start # Omitted THEN parse_day(c.start) <= day /\ day <= parse_day(c.end)
  ELSE IF c.period # NoPeriod
       THEN c.period[1] < (day + 1) * SECONDS_PER_DAY /\ day * SECONDS_PER_DAY <= c.period[2]
       ELSE today - DEFAULT_WINDOW_DAYS < day /\ day <= today

Asked == answer.query

Covered(day) == About(Asked, day)

\* Requests of the scope that the row of this date should stand for.
Own(date) ==
  {s \in DOMAIN served :
     /\ Asked.scope \in {Platform, s[2].tenant}
     /\ Covered(s[1])
     /\ date # Omitted => format_day(s[1]) = date}

Total(S) == SumFunctionOnSet(served, S)

(***************************************************************************)
(* F54, F56 to F59, F61: an answer counts the requests of its scope and    *)
(* window and no others, each in one row, whatever the window was and      *)
(* whether the rows are dated; averages and shares are of those requests.  *)
(***************************************************************************)
DailyMatches ==
  /\ Requests(answer.rows) = Total(Own(Omitted))
  /\ \A r \in answer.rows :
       LET us == SumFunction([s \in Own(r.date) |-> s[2].us * served[s]]) IN
       /\ r.requests = Total(Own(r.date))
       /\ r.errors = Total({s \in Own(r.date) : s[2].status >= 400})
       /\ 1000 * r.average * r.requests <= us /\ us < 1000 * (r.average + 1) * r.requests

ErrorsMatch ==
  /\ SumFunction([r \in answer.rows |-> r.count]) = Total({s \in Own(Omitted) : s[2].status >= 400})
  /\ \A r \in answer.rows :
       r.count = Total({s \in Own(r.date) : s[2].status = r.status /\ s[2].slug = r.slug})

LanguagesMatch ==
  /\ SumFunction([r \in answer.rows |-> r.count]) = Total(Own(Omitted))
  /\ \A r \in answer.rows :
       LET total == Total(Own(r.date)) IN
       /\ r.count = Total({s \in Own(r.date) : s[2].language = r.language})
       /\ 2 * (r.permille * total - 1000 * r.count) \in -total .. total

AnswersMatchServed ==
  /\ answer.route = "daily" => DailyMatches
  /\ answer.route = "errors" => ErrorsMatch
  /\ answer.route = "languages" => LanguagesMatch

Within(date, ms) ==
  {s \in Own(date) : bucket_for(s[2].us) \in LATENCY_BUCKETS_MS /\ bucket_for(s[2].us) <= ms}

InItsBucket(r) ==
  LET used     == {b \in LATENCY_BUCKETS_MS : \E s \in Own(r.date) : bucket_for(s[2].us) = b}
      reaching == {b \in used : 100 * Total(Within(r.date, b)) >= r.percentile * Total(Own(r.date))}
      below    == {0} \union {b \in used : b < Min(reaching)}
  IN  IF reaching = {} THEN r.value_ms = Max(LATENCY_BUCKETS_MS)
      ELSE Max(below) <= r.value_ms /\ r.value_ms <= Min(reaching)

(***************************************************************************)
(* usage.rs:160, "Linear interpolation inside the bucket that crosses the  *)
(* target rank".  A percentile lies in the bucket in which the requests    *)
(* themselves reach it, as far as the bucket below was used: the code      *)
(* takes the bound of the last row before it, and empty buckets have no    *)
(* row.  Above the ladder it is the last bound.  And of one histogram, a   *)
(* higher percentile is never the lower value, in whichever order the rows *)
(* of several days come.                                                   *)
(***************************************************************************)
PercentilesInBucket ==
  answer.route = "latency" =>
    /\ \A r \in answer.rows : InItsBucket(r)
    /\ \A r1, r2 \in answer.rows :
         r1.date = r2.date /\ r1.percentile <= r2.percentile => r1.value_ms <= r2.value_ms

(***************************************************************************)
(* The comment over the calendar: dates compare like days.  Each day has   *)
(* the date after that of the day before, in the calendar with its leap    *)
(* years, the dates are in order, and a date is read back as its day.      *)
(***************************************************************************)
DateAfter(t) ==
  IF t[3] < days_in_month(t[1], t[2]) THEN <<t[1], t[2], t[3] + 1>>
  ELSE IF t[2] < 12 THEN <<t[1], t[2] + 1, 1>>
  ELSE <<t[1] + 1, 1, 1>>

CalendarSteps ==
  [][today' # today =>
       LET date == format_day(today) next == format_day(today') IN
       /\ next = DateAfter(date)
       /\ UpTo(date, next) /\ ~UpTo(next, date)
       /\ parse_day(next) = today']_vars
=============================================================================
