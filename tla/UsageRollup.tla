----------------------------- MODULE UsageRollup -----------------------------
(***************************************************************************)
(* The usage rollup: UsageRecorder (src/src/usage.rs), the middleware that *)
(* feeds it behind the quota gate (auth.rs, handlers.rs), the flush and    *)
(* purge loops and the shutdown of main.rs, and the tables usage_daily and *)
(* usage_latency written by Store::flush_usage and purge_usage_before.     *)
(*                                                                         *)
(* Grain.  Each lock of a buffer is one step: record and drain both take   *)
(* the daily lock and the latency lock one after the other.  A flush is    *)
(* one transaction, so its effect is one step.  The rest of a rollup key   *)
(* (tenant, language, status, slug, bucket) is fixed: keys never interact, *)
(* and the day is the part the purge reads.                                *)
(***************************************************************************)
EXTENDS Integers

CONSTANTS
  Requests,     \* spell-check requests that may be in flight together
  Retention,    \* RETENTION_DAYS
  MaxDay,       \* bound: the last day of the exploration
  MaxRequests,  \* bound: requests admitted
  Faults        \* what may go wrong: "fail", "cancel", "kill", "stop"

ASSUME UsageRollupAssumption ==
  /\ Retention \in Nat /\ MaxDay \in Nat /\ MaxRequests \in Nat
  /\ Faults \subseteq {"fail", "cancel", "kill", "stop"}

VARIABLES
  today,    \* epoch_day_now()
  phase,    \* "up", "draining" (a signal came, requests finish), "final"
            \* (main drains and flushes once more), "down"
  request,  \* where each request stands
  buffer,   \* UsageRecorder.daily and .latency
  flusher,  \* the flush loop, and main's last flush: what each has drained
  table,    \* usage_daily and usage_latency
  hist      \* history: admissions, what was recorded, why some of it is gone

vars == <<today, phase, request, buffer, flusher, table, hist>>

Days == 0 .. MaxDay

Counts == [Days -> Nat]

Zero == [d \in Days |-> 0]

Plus(f, g) == [d \in Days |-> f[d] + g[d]]

\* A pair of counts, for what the code keeps by day and by day and bucket.
Rollup == [daily: Counts, latency: Counts]

Empty == [daily |-> Zero, latency |-> Zero]

Flushers == {"loop", "last"}

\* idle, between the two locks of drain, with a batch in hand.
FlushState == [op: {"idle", "drain", "flush"}, batch: Rollup]

Resting == [op |-> "idle", batch |-> Empty]

\* idle, in the handler, between the two locks of record.
RequestState == [op: {"idle", "handler"}] \union [op: {"recorded"}, day: Days]

Idle == [op |-> "idle"]

(***************************************************************************)
(*   admitted  requests that consumed quota                                *)
(*   seen      what record() added, by part and day                        *)
(*   lost      why some of a day's counts are gone: a flush "failed", the  *)
(*             process was "killed", main returned and "dropped" a task,   *)
(*             the purge "aged" it out                                     *)
(***************************************************************************)
History == [admitted: Nat, seen: Rollup,
            lost: [Days -> SUBSET {"failed", "killed", "dropped", "aged"}]]

TypeOK ==
  /\ today \in Days
  /\ phase \in {"up", "draining", "final", "down"}
  /\ request \in [Requests -> RequestState]
  /\ buffer \in Rollup
  /\ flusher \in [Flushers -> FlushState]
  /\ table \in Rollup
  /\ hist \in History

Init ==
  /\ today = 0
  /\ phase = "up"
  /\ request = [r \in Requests |-> Idle]
  /\ buffer = Empty
  /\ flusher = [f \in Flushers |-> Resting]
  /\ table = Empty
  /\ hist = [admitted |-> 0, seen |-> Empty, lost |-> [d \in Days |-> {}]]

Running == phase \in {"up", "draining", "final"}

\* Everything of day d that still exists: buffered, drained, stored.
Daily(d) == buffer.daily[d] + flusher["loop"].batch.daily[d] +
            flusher["last"].batch.daily[d] + table.daily[d]

Latency(d) == buffer.latency[d] + flusher["loop"].batch.latency[d] +
              flusher["last"].batch.latency[d] + table.latency[d]

Bump(f, day) == [d \in Days |-> IF d = day THEN f[d] + 1 ELSE f[d]]

Lose(why, days) == [d \in Days |-> IF d \in days THEN hist.lost[d] \union {why} ELSE hist.lost[d]]

Nonzero(b) == {d \in Days : b.daily[d] > 0 \/ b.latency[d] > 0}

-----------------------------------------------------------------------------
(***************************************************************************)
(* require_quota lets the request in, record_usage runs the handler.       *)
(***************************************************************************)
Admit(r) ==
  /\ phase = "up"
  /\ hist.admitted < MaxRequests
  /\ request[r] = Idle
  /\ request' = [request EXCEPT ![r] = [op |-> "handler"]]
  /\ hist' = [hist EXCEPT !.admitted = @ + 1]
  /\ UNCHANGED <<today, phase, buffer, flusher, table>>

\* The handler answered, with success or an error: the day is read once and
\* used for both keys.
RecordDaily(r) ==
  /\ request[r].op = "handler"
  /\ request' = [request EXCEPT ![r] = [op |-> "recorded", day |-> today]]
  /\ buffer' = [buffer EXCEPT !.daily = Bump(buffer.daily, today)]
  /\ hist' = [hist EXCEPT !.seen = [daily |-> Bump(hist.seen.daily, today),
                                    latency |-> hist.seen.latency]]
  /\ UNCHANGED <<today, phase, flusher, table>>

RecordLatency(r) ==
  /\ request[r].op = "recorded"
  /\ request' = [request EXCEPT ![r] = Idle]
  /\ buffer' = [buffer EXCEPT !.latency = Bump(buffer.latency, request[r].day)]
  /\ hist' = [hist EXCEPT !.seen = [daily |-> hist.seen.daily,
                                    latency |-> Bump(hist.seen.latency, request[r].day)]]
  /\ UNCHANGED <<today, phase, flusher, table>>

\* The client goes away, or the handler panics, before the response: the
\* middleware's future is dropped and nothing is recorded.
Disconnect(r) ==
  /\ "cancel" \in Faults
  /\ request[r].op = "handler"
  /\ request' = [request EXCEPT ![r] = Idle]
  /\ UNCHANGED <<today, phase, buffer, flusher, table, hist>>

-----------------------------------------------------------------------------
(***************************************************************************)
(* drain, and flush_usage with what it returned.  The loop runs until main *)
(* returns; main runs the last one when no request is left.                *)
(***************************************************************************)
MayFlush(f) == Running /\ (f = "last" => phase = "final")

\* Mutant: the buffer is copied and not emptied.
KeepBuffer(b, part) == b

\* std::mem::take
Taken(b, part) == [b EXCEPT ![part] = Zero]

DrainDaily(f) ==
  /\ MayFlush(f)
  /\ flusher[f].op = "idle"
  /\ flusher' = [flusher EXCEPT ![f] = [op |-> "drain",
                   batch |-> [daily |-> buffer.daily, latency |-> Zero]]]
  /\ buffer' = Taken(buffer, "daily")
  /\ UNCHANGED <<today, phase, request, table, hist>>

\* A batch with nothing in it needs no transaction.
DrainLatency(f) ==
  /\ MayFlush(f)
  /\ flusher[f].op = "drain"
  /\ flusher' = [flusher EXCEPT ![f] = [op |-> "flush",
                   batch |-> [daily |-> flusher[f].batch.daily, latency |-> buffer.latency]]]
  /\ buffer' = Taken(buffer, "latency")
  /\ UNCHANGED <<today, phase, request, table, hist>>

\* Mutant: ON CONFLICT DO UPDATE SET x = excluded.x, for the keys of the batch.
Overwritten(t, b) ==
  [daily   |-> [d \in Days |-> IF b.daily[d] > 0 THEN b.daily[d] ELSE t.daily[d]],
   latency |-> [d \in Days |-> IF b.latency[d] > 0 THEN b.latency[d] ELSE t.latency[d]]]

\* Mutant: the batch is taken for a running total and the difference is stored.
Difference(t, b) ==
  [daily   |-> [d \in Days |-> b.daily[d] - t.daily[d]],
   latency |-> [d \in Days |-> b.latency[d] - t.latency[d]]]

\* ON CONFLICT DO UPDATE SET x = x + excluded.x
Upserted(t, b) == [daily |-> Plus(t.daily, b.daily), latency |-> Plus(t.latency, b.latency)]

\* main leaves its last flush by returning: the runtime drops the loops.
Returns(f) == IF f = "last" THEN phase' = "down" ELSE UNCHANGED phase

Loop(f) == IF f = "last" THEN flusher' = [g \in Flushers |-> Resting]
           ELSE flusher' = [flusher EXCEPT ![f] = Resting]

\* What the return of main takes from the loop.
Dropped(f) == IF f = "last" THEN Nonzero(flusher["loop"].batch) ELSE {}

Commit(f) ==
  /\ Running
  /\ flusher[f].op = "flush"
  /\ table' = Upserted(table, flusher[f].batch)
  /\ Loop(f) /\ Returns(f)
  /\ hist' = [hist EXCEPT !.lost = Lose("dropped", Dropped(f))]
  /\ UNCHANGED <<today, request, buffer>>

\* Mutant: the error ends the task.
EndsTask(f) == flusher' = [flusher EXCEPT ![f] = [op |-> "ended", batch |-> Empty]]

AfterError(f) == Loop(f)

\* The transaction is rolled back: the error is logged, the batch dropped.
FlushFails(f) ==
  /\ "fail" \in Faults
  /\ Running
  /\ flusher[f].op = "flush"
  /\ Nonzero(flusher[f].batch) # {}
  /\ AfterError(f) /\ Returns(f)
  /\ hist' = [hist EXCEPT !.lost = [d \in Days |->
       @[d] \union {w \in {"failed"} : d \in Nonzero(flusher[f].batch)}
            \union {w \in {"dropped"} : d \in Dropped(f)}]]
  /\ UNCHANGED <<today, request, buffer, table>>

-----------------------------------------------------------------------------
\* retention_cutoff_day
Cutoff == today - Retention

\* Mutant: one day too many is deleted.
StaleInclusive(d) == d <= Cutoff

\* Mutant: one day too few is deleted.
StaleLate(d) == d < Cutoff - 1

\* WHERE day < cutoff
Stale(d) == d < Cutoff

Purge ==
  /\ Running
  /\ \E d \in Days : Stale(d) /\ d \in Nonzero(table)
  /\ table' = [daily   |-> [d \in Days |-> IF Stale(d) THEN 0 ELSE table.daily[d]],
               latency |-> [d \in Days |-> IF Stale(d) THEN 0 ELSE table.latency[d]]]
  /\ hist' = [hist EXCEPT !.lost = Lose("aged", {d \in Nonzero(table) : Stale(d)})]
  /\ UNCHANGED <<today, phase, request, buffer, flusher>>

Midnight ==
  /\ today < MaxDay
  /\ today' = today + 1
  /\ UNCHANGED <<phase, request, buffer, flusher, table, hist>>

-----------------------------------------------------------------------------
\* SIGTERM: axum stops accepting and waits for the requests in flight.
Signal ==
  /\ "stop" \in Faults
  /\ phase = "up"
  /\ phase' = "draining"
  /\ UNCHANGED <<today, request, buffer, flusher, table, hist>>

ServeReturns ==
  /\ phase = "draining"
  /\ \A r \in Requests : request[r] = Idle
  /\ phase' = "final"
  /\ UNCHANGED <<today, request, buffer, flusher, table, hist>>

Kill ==
  /\ "kill" \in Faults
  /\ Running
  /\ phase' = "down"
  /\ request' = [r \in Requests |-> Idle]
  /\ buffer' = Empty
  /\ flusher' = [f \in Flushers |-> Resting]
  /\ hist' = [hist EXCEPT !.lost = Lose("killed",
       Nonzero(buffer) \union UNION {Nonzero(flusher[f].batch) : f \in Flushers})]
  /\ UNCHANGED <<today, table>>

Start ==
  /\ phase = "down"
  /\ phase' = "up"
  /\ UNCHANGED <<today, request, buffer, flusher, table, hist>>

Next ==
  \/ \E r \in Requests : Admit(r) \/ RecordDaily(r) \/ RecordLatency(r) \/ Disconnect(r)
  \/ \E f \in Flushers : DrainDaily(f) \/ DrainLatency(f) \/ Commit(f) \/ FlushFails(f)
  \/ Purge \/ Midnight \/ Signal \/ ServeReturns \/ Kill \/ Start

(***************************************************************************)
(* The tickers of the two loops fire for as long as the process runs, and  *)
(* a transaction ends one way or the other.  Nothing is assumed of         *)
(* clients, of the clock, of signals or of restarts.                       *)
(***************************************************************************)
Fairness ==
  /\ WF_vars(DrainDaily("loop")) /\ WF_vars(DrainLatency("loop"))
  /\ WF_vars(Commit("loop") \/ FlushFails("loop"))
  /\ WF_vars(Purge)

Spec == Init /\ [][Next]_vars

FairSpec == Spec /\ Fairness

-----------------------------------------------------------------------------
(***************************************************************************)
(* F49: counts may be lost, and nothing is counted twice.  What is         *)
(* buffered, drained and stored for a day is never more than what record() *)
(* added to it, and is all of it unless a flush failed, the process was    *)
(* killed, its loop was dropped at shutdown or the day was purged.         *)
(***************************************************************************)
NothingCountedTwice ==
  \A d \in Days :
    /\ Daily(d) <= hist.seen.daily[d]
    /\ Latency(d) <= hist.seen.latency[d]

NothingLostUnnoticed ==
  \A d \in Days : hist.lost[d] = {} =>
    Daily(d) = hist.seen.daily[d] /\ Latency(d) = hist.seen.latency[d]

(***************************************************************************)
(* F51: a day inside the retention window loses no stored count, whatever  *)
(* step is taken.                                                          *)
(***************************************************************************)
RetentionKeeps ==
  [][\A d \in Days : d >= today - Retention =>
       table'.daily[d] >= table.daily[d] /\ table'.latency[d] >= table.latency[d]]_vars

(***************************************************************************)
(* F51: a day outside the window is gone in the end, if the process keeps  *)
(* running.                                                                *)
(***************************************************************************)
OldRowsGo ==
  \A d \in Days : (today - Retention > d /\ table.daily[d] > 0)
                    ~> (table.daily[d] = 0 \/ phase = "down")

(***************************************************************************)
(* The comment in spawn_usage_tasks: a failed flush loses its batch and    *)
(* does not stop the recording.  What is buffered leaves the buffer in the *)
(* end, after any number of failed flushes.                                *)
(***************************************************************************)
BufferIsFlushed ==
  \A d \in Days : buffer.daily[d] > 0 ~> (buffer.daily[d] = 0 \/ phase = "down")

(***************************************************************************)
(* main.rs: "Flush the last partial interval so a clean deploy loses no    *)
(* usage data".  When no flush failed and the process was not killed, a    *)
(* process that returned has stored all it recorded.                       *)
(***************************************************************************)
CleanDeployLosesNothing ==
  phase = "down" => \A d \in Days : hist.lost[d] \subseteq {"dropped"} =>
    table.daily[d] = hist.seen.daily[d]
=============================================================================
