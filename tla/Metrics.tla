------------------------------- MODULE Metrics -------------------------------
(***************************************************************************)
(* What readers make of .aios/metrics/events.jsonl (engines/status/src/    *)
(* index.ts): the snapshot with its daily series, the Prometheus samples,  *)
(* the capped list of executions.  Time is counted in ticks, DayTicks to a *)
(* UTC day; WeekDays and MonthDays stand for 7 and 30.                     *)
(***************************************************************************)
EXTENDS SequencesExt, FiniteSets, Integers

CONSTANTS
  DayTicks, WeekDays, MonthDays,
  Lines,      \* what may be appended, besides its time
  Horizon,    \* bounds: the last tick an event may carry,
  MaxLines    \* and the number of lines

VARIABLE lines   \* the file

NoTime == -1

-----------------------------------------------------------------------------
(* The lines recorders append; a field that is "" was left out.            *)

\* recordProviderChatMetric, recordAgentExecution, recordDeliveryCiMetric
ChatLine(provider, ok, prompt, completion, total) ==
  [kind |-> "provider.chat", name |-> provider, ok |-> ok,
   prompt |-> prompt, completion |-> completion, total |-> total]
AgentLine(agent, outcome) ==
  [kind |-> "agent.execution", name |-> agent, outcome |-> outcome,
   ok |-> outcome = "success"]
CiLine(check, conclusion, base) ==
  [kind |-> "delivery.ci", name |-> check, conclusion |-> conclusion, base |-> base]
Garbage == [kind |-> "garbage"]

Init == lines = <<>>

\* recordMetricEvent: event.at || now.  A caller may name any time.
Dated(line, at) == [field \in DOMAIN line \union {"at"} |-> IF field = "at" THEN at ELSE line[field]]
RecordMetricEvent(line, at) ==
  /\ Len(lines) < MaxLines
  /\ lines' = Append(lines, Dated(line, at))

Next == \E line \in Lines, at \in NoTime..Horizon : RecordMetricEvent(line, at)

Spec == Init /\ [][Next]_lines

-----------------------------------------------------------------------------
(* loadMetricsSnapshot: one pass over the lines.                           *)

Day(t) == t \div DayTicks
NameOf(line) == IF line.name = "" THEN "unknown" ELSE line.name

\* The entry of a map that is made when first needed, and then changed.
Update(map, key, zero, Change(_)) ==
  [k \in DOMAIN map \union {key} |->
     IF k # key THEN map[k] ELSE Change(IF key \in DOMAIN map THEN map[key] ELSE zero)]

\* buildUtcDayBuckets, emptyAdoptionSeries
Buckets(days, now) == (Day(now) - days + 1)..Day(now)
EmptySeries(days, now) ==
  [total |-> [d \in Buckets(days, now) |-> 0], byAgent |-> <<>>]

\* bumpAdoption: an event of a day without a bucket is left out.
BumpAdoption(series, agent, day) ==
  IF day \notin DOMAIN series.total THEN series
  ELSE [total   |-> [series.total EXCEPT ![day] = @ + 1],
        byAgent |-> Update(series.byAgent, agent, [d \in DOMAIN series.total |-> 0],
                           LAMBDA days : [days EXCEPT ![day] = @ + 1])]

EmptyTotals == [count |-> 0, errors |-> 0, prompt |-> 0, completion |-> 0, tokens |-> 0]
EmptyAgent == [count |-> 0, errors |-> 0, count7d |-> 0, lastAt |-> NoTime]
EmptyCi == [count |-> 0, errors |-> 0]

\* addUsage, and the count of a chat
AddChat(totals, line) ==
  [count      |-> totals.count + 1,
   errors     |-> totals.errors + IF line.ok THEN 0 ELSE 1,
   prompt     |-> totals.prompt + line.prompt,
   completion |-> totals.completion + line.completion,
   tokens     |-> totals.tokens +
                  IF line.total # 0 THEN line.total ELSE line.prompt + line.completion]

Succeeded(line) == line.outcome = "success" \/ (line.ok /\ line.outcome # "failure")

\* Mutant of Within: events of the future count as recent.
WithinAnyDirection(at, days, now) == at # NoTime /\ now - at <= days * DayTicks

\* An event of the last so many days, by the clock.
Within(at, days, now) == at # NoTime /\ now - at >= 0 /\ now - at <= days * DayTicks

AddAgent(agent, line, now) ==
  [count   |-> agent.count + 1,
   errors  |-> agent.errors + IF Succeeded(line) THEN 0 ELSE 1,
   count7d |-> agent.count7d + IF Within(line.at, WeekDays, now) THEN 1 ELSE 0,
   lastAt  |-> IF line.at > agent.lastAt THEN line.at ELSE agent.lastAt]

AddCi(ci, line) ==
  [count  |-> ci.count + 1,
   errors |-> ci.errors +
     IF line.conclusion \in {"failure", "cancelled", "timed_out"} THEN 1 ELSE 0]

CiKey(line) ==
  [check |-> NameOf(line),
   conclusion |-> IF line.conclusion = "" THEN "unknown" ELSE line.conclusion,
   base |-> IF line.base = "" THEN "unknown" ELSE line.base]

EmptySnapshot(now) ==
  [eventCount |-> 0,
   chat |-> EmptyTotals, byProvider |-> <<>>,
   agent |-> EmptyAgent, byAgent |-> <<>>,
   week |-> EmptySeries(WeekDays, now), month |-> EmptySeries(MonthDays, now),
   ci |-> EmptyCi, byCheck |-> <<>>]

AddChatLine(snap, line) ==
  [snap EXCEPT
     !.chat = AddChat(@, line),
     !.byProvider = Update(@, NameOf(line), EmptyTotals, LAMBDA t : AddChat(t, line))]

AddAgentLine(snap, line, now) ==
  LET Bump(series, days) ==
        IF Within(line.at, days, now) THEN BumpAdoption(series, NameOf(line), Day(line.at))
        ELSE series
  IN  [snap EXCEPT
         !.agent = AddAgent(@, line, now),
         !.byAgent = Update(@, NameOf(line), EmptyAgent, LAMBDA a : AddAgent(a, line, now)),
         !.week = Bump(@, WeekDays),
         !.month = Bump(@, MonthDays)]

AddCiLine(snap, line) ==
  [snap EXCEPT
     !.ci = AddCi(@, line),
     !.byCheck = Update(@, CiKey(line), EmptyCi, LAMBDA c : AddCi(c, line))]

\* Every line counts, those that do not parse included.
AddLine(snap, line, now) ==
  LET counted == [snap EXCEPT !.eventCount = @ + 1]
  IN  CASE line.kind = "provider.chat"   -> AddChatLine(counted, line)
        [] line.kind = "agent.execution" -> AddAgentLine(counted, line, now)
        [] line.kind = "delivery.ci"     -> AddCiLine(counted, line)
        [] OTHER                         -> counted

Snapshot(now) ==
  FoldLeft(LAMBDA snap, line : AddLine(snap, line, now), EmptySnapshot(now), lines)

\* A sample of all, and one of a row that is shown before there is any.
NoLabel == ""

\* renderPrometheusMetrics: the samples, one for each line of the exposition.
\* The health score and the gauge of the runtime contract, which do not come
\* from the file, are left out.
Samples(snap) ==
  LET Of(name, map, Value(_)) ==
        {[name |-> name, label |-> key, value |-> Value(map[key])] : key \in DOMAIN map}
      OrZero(name, map, Value(_)) ==
        IF map = <<>> THEN {[name |-> name, label |-> NoLabel, value |-> 0]}
        ELSE Of(name, map, Value)
      Plain(name, value) == {[name |-> name, label |-> NoLabel, value |-> value]}
  IN  UNION {
        Plain("aios_metrics_events_total", snap.eventCount),
        OrZero("aios_provider_chat_requests_total", snap.byProvider, LAMBDA t : t.count),
        OrZero("aios_provider_chat_errors_total", snap.byProvider, LAMBDA t : t.errors),
        OrZero("aios_provider_chat_prompt_tokens_total", snap.byProvider, LAMBDA t : t.prompt),
        OrZero("aios_provider_chat_completion_tokens_total", snap.byProvider, LAMBDA t : t.completion),
        OrZero("aios_provider_chat_tokens_total", snap.byProvider, LAMBDA t : t.tokens),
        IF snap.agent.count = 0 THEN {} ELSE UNION {
          Plain("aios_agent_execution_total", snap.agent.count),
          Plain("aios_agent_execution_errors_total", snap.agent.errors),
          Of("aios_agent_execution_by_agent_total", snap.byAgent, LAMBDA a : a.count)},
        IF snap.ci.count = 0 THEN {} ELSE UNION {
          Of("aios_delivery_ci_total", snap.byCheck, LAMBDA c : c.count),
          Plain("aios_delivery_ci_errors_total", snap.ci.errors)}}

-----------------------------------------------------------------------------
(* Properties.                                                             *)

Total(map) == FoldFunctionOnSet(LAMBDA x, y : x + y, 0, map, DOMAIN map)

\* The week's count of an agent (its last 7 times 24 hours) and its seven
\* daily columns (the last 7 UTC days) differ by exactly the events of the
\* eighth day that are not yet a week old: none is counted twice, none of
\* the future shows in either, and the month holds all that the week does.
WeekAddsUp ==
  \A now \in 0..Horizon :
    LET snap == Snapshot(now)
        Columns(series, a) == IF a \in DOMAIN series.byAgent THEN Total(series.byAgent[a]) ELSE 0
        EighthDay(a) == {i \in DOMAIN lines :
          /\ lines[i].kind = "agent.execution" /\ NameOf(lines[i]) = a
          /\ lines[i].at # NoTime
          /\ Day(lines[i].at) = Day(now) - WeekDays
          /\ now - lines[i].at <= WeekDays * DayTicks}
    IN  /\ \A a \in DOMAIN snap.byAgent :
             /\ snap.byAgent[a].count7d - Columns(snap.week, a) = Cardinality(EighthDay(a))
             /\ snap.byAgent[a].count7d <= Columns(snap.month, a)
        /\ \A series \in {snap.week, snap.month} : \A d \in DOMAIN series.total :
             series.total[d] =
               Total([a \in DOMAIN series.byAgent |-> series.byAgent[a][d]])

\* What a scrape shows adds up: the samples of a total and of its parts agree,
\* no line is in two totals, and no series is exposed twice.
SamplesAddUp ==
  LET snap == Snapshot(0)
      Sum(map, Value(_)) == Total([k \in DOMAIN map |-> Value(map[k])])
  IN  /\ snap.chat.count = Sum(snap.byProvider, LAMBDA t : t.count)
      /\ snap.chat.errors = Sum(snap.byProvider, LAMBDA t : t.errors)
      /\ snap.chat.tokens = Sum(snap.byProvider, LAMBDA t : t.tokens)
      /\ snap.agent.count = Sum(snap.byAgent, LAMBDA a : a.count)
      /\ snap.agent.errors = Sum(snap.byAgent, LAMBDA a : a.errors)
      /\ snap.ci.errors = Sum(snap.byCheck, LAMBDA c : c.errors)
      /\ snap.chat.count + snap.agent.count + snap.ci.count <= snap.eventCount
      /\ snap.eventCount = Len(lines)
      /\ \A s, t \in Samples(snap) : s.name = t.name /\ s.label = t.label => s = t

\* What a reader is shown of the log adds up: the week, and the samples.
SnapshotAddsUp == WeekAddsUp /\ SamplesAddUp
=============================================================================
