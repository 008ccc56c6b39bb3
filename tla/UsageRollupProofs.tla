-------------------------- MODULE UsageRollupProofs --------------------------
(***************************************************************************)
(* Theorems about UsageRollup, for every set of requests, retention, range *)
(* of days and choice of faults.                                           *)
(*                                                                         *)
(* The invariant is Kept.  To the two properties it adds Hands: what a     *)
(* flusher holds between its steps.  A drain overwrites the batch in hand, *)
(* which loses nothing because the batch of a flusher at rest, and the     *)
(* latency part of one between the two locks, are empty.                   *)
(***************************************************************************)
EXTENDS UsageRollup, TLAPS

Hands == \A f \in Flushers :
  /\ flusher[f].op = "idle" => \A d \in Days : /\ flusher[f].batch.daily[d] = 0
                                               /\ flusher[f].batch.latency[d] = 0
  /\ flusher[f].op = "drain" => \A d \in Days : flusher[f].batch.latency[d] = 0

Kept == Hands /\ NothingCountedTwice /\ NothingLostUnnoticed

-----------------------------------------------------------------------------
(* Sets of days and counts.                                                *)
LEMMA Counting ==
  /\ Zero \in Counts /\ \A d \in Days : Zero[d] = 0
  /\ \A f \in Counts, day \in Days : Bump(f, day) \in Counts
  /\ \A f, g \in Counts : Plus(f, g) \in Counts
  /\ Empty \in Rollup /\ Empty.daily = Zero /\ Empty.latency = Zero
  /\ Resting \in FlushState /\ Resting.op = "idle" /\ Resting.batch = Empty
  BY DEF Zero, Counts, Bump, Plus, Empty, Rollup, Resting, FlushState

(* What a request or a flusher waits for tells the fields it carries.      *)
LEMMA Shapes ==
  ASSUME TypeOK
  PROVE  /\ \A r \in Requests : request[r].op = "recorded" => request[r].day \in Days
         /\ \A f \in Flushers : /\ flusher[f].op \in {"idle", "drain", "flush"}
                                /\ flusher[f].batch.daily \in Counts
                                /\ flusher[f].batch.latency \in Counts
         /\ buffer.daily \in Counts /\ buffer.latency \in Counts
         /\ table.daily \in Counts /\ table.latency \in Counts
         /\ hist.seen.daily \in Counts /\ hist.seen.latency \in Counts
         /\ today \in Days /\ today \in Int /\ Retention \in Int
<1>1. \A r \in Requests : request[r] \in RequestState
  BY DEF TypeOK
<1>2. \A f \in Flushers : flusher[f] \in FlushState
  BY DEF TypeOK
<1>3. buffer \in Rollup /\ table \in Rollup /\ hist.seen \in Rollup /\ today \in Days
  BY DEF TypeOK, History
<1>4. today \in Int /\ Retention \in Int
  BY <1>3, UsageRollupAssumption DEF Days
<1> QED
  BY <1>1, <1>2, <1>3, <1>4 DEF RequestState, FlushState, Rollup

(* A cause that is written down is one of the four.                        *)
LEMMA Losses ==
  ASSUME TypeOK, NEW why \in {"failed", "killed", "dropped", "aged"}, NEW days
  PROVE  Lose(why, days) \in [Days -> SUBSET {"failed", "killed", "dropped", "aged"}]
  BY DEF TypeOK, History, Lose

(* The counts of a day.                                                    *)
LEMMA DayCounts ==
  ASSUME TypeOK, NEW d \in Days
  PROVE  /\ buffer.daily[d] \in Nat /\ buffer.latency[d] \in Nat
         /\ table.daily[d] \in Nat /\ table.latency[d] \in Nat
         /\ hist.seen.daily[d] \in Nat /\ hist.seen.latency[d] \in Nat
         /\ \A f \in Flushers : flusher[f].batch.daily[d] \in Nat /\ flusher[f].batch.latency[d] \in Nat
  BY Shapes DEF Counts

(* What is said of one day: both parts counted once, and all of them       *)
(* unless some were lost.                                                  *)
DayKept(d) ==
  /\ Daily(d) <= hist.seen.daily[d] /\ Latency(d) <= hist.seen.latency[d]
  /\ hist.lost[d] = {} => Daily(d) = hist.seen.daily[d] /\ Latency(d) = hist.seen.latency[d]

(* The invariant is said of each day apart.                                *)
LEMMA DayByDay == Kept <=> Hands /\ \A d \in Days : DayKept(d)
  BY DEF Kept, NothingCountedTwice, NothingLostUnnoticed, DayKept

(* A step that moves none of the counts and blames nothing more.           *)
LEMMA CountsStay ==
  ASSUME Kept, UNCHANGED <<buffer, flusher, table>>, hist'.seen = hist.seen, hist'.lost = hist.lost
  PROVE  Kept'
  BY DEF Kept, Hands, NothingCountedTwice, NothingLostUnnoticed, Daily, Latency

-----------------------------------------------------------------------------
(* Requests.                                                               *)
LEMMA AdmitStep ==
  ASSUME TypeOK, Kept, NEW r \in Requests, Admit(r) \/ Disconnect(r)
  PROVE  TypeOK' /\ Kept'
<1>1. [op |-> "handler"] \in RequestState /\ Idle \in RequestState
  BY DEF RequestState, Idle
<1>2. request' \in [Requests -> RequestState]
  BY <1>1 DEF TypeOK, Admit, Disconnect
<1>3. hist' \in History /\ hist'.seen = hist.seen /\ hist'.lost = hist.lost
  BY DEF TypeOK, History, Admit, Disconnect
<1> QED
  BY <1>2, <1>3, CountsStay DEF TypeOK, Admit, Disconnect

(* record_usage adds to the daily counters.                                *)
LEMMA RecordDailyStep ==
  ASSUME TypeOK, Kept, NEW r \in Requests, RecordDaily(r)
  PROVE  TypeOK' /\ Kept'
<1>1. request' \in [Requests -> RequestState]
  BY DEF TypeOK, RecordDaily, RequestState
<1>2. /\ buffer' \in Rollup
      /\ buffer'.daily = Bump(buffer.daily, today) /\ buffer'.latency = buffer.latency
  BY Counting DEF TypeOK, RecordDaily, Rollup
<1>3. /\ hist' \in History /\ hist'.lost = hist.lost
      /\ hist'.seen.daily = Bump(hist.seen.daily, today) /\ hist'.seen.latency = hist.seen.latency
  BY Counting DEF TypeOK, RecordDaily, History, Rollup
<1>4. UNCHANGED <<today, phase, flusher, table>>
  BY DEF RecordDaily
<1>5. TypeOK'
  BY <1>1, <1>2, <1>3, <1>4 DEF TypeOK
<1>6. Hands'
  BY <1>4 DEF Kept, Hands
<1>7. ASSUME NEW d \in Days PROVE DayKept(d)'
  <2>1. DayKept(d)
    BY DayByDay
  <2> QED
    BY <1>2, <1>3, <1>4, <2>1, DayCounts DEF DayKept, Daily, Latency, Bump, Flushers
<1> QED
  BY <1>5, <1>6, <1>7 DEF Kept, NothingCountedTwice, NothingLostUnnoticed, DayKept

(* record_usage adds to the histogram, of the day it took before.          *)
LEMMA RecordLatencyStep ==
  ASSUME TypeOK, Kept, NEW r \in Requests, RecordLatency(r)
  PROVE  TypeOK' /\ Kept'
<1>1. request' \in [Requests -> RequestState]
  BY DEF TypeOK, RecordLatency, RequestState, Idle
<1>0. PICK day : day = request[r].day
  OBVIOUS
<1>a. day \in Days
  BY <1>0, Shapes DEF RecordLatency
<1>2. /\ buffer' \in Rollup
      /\ buffer'.daily = buffer.daily /\ buffer'.latency = Bump(buffer.latency, day)
  BY <1>0, <1>a, Counting DEF TypeOK, RecordLatency, Rollup
<1>3. /\ hist' \in History /\ hist'.lost = hist.lost
      /\ hist'.seen.daily = hist.seen.daily /\ hist'.seen.latency = Bump(hist.seen.latency, day)
  BY <1>0, <1>a, Counting DEF TypeOK, RecordLatency, History, Rollup
<1>4. UNCHANGED <<today, phase, flusher, table>>
  BY DEF RecordLatency
<1>5. TypeOK'
  BY <1>1, <1>2, <1>3, <1>4 DEF TypeOK
<1>6. Hands'
  BY <1>4 DEF Kept, Hands
<1>7. ASSUME NEW d \in Days PROVE DayKept(d)'
  <2>1. DayKept(d)
    BY DayByDay
  <2> QED
    BY <1>2, <1>3, <1>4, <2>1, DayCounts DEF DayKept, Daily, Latency, Bump, Flushers
<1> QED
  BY <1>5, <1>6, <1>7 DEF Kept, NothingCountedTwice, NothingLostUnnoticed, DayKept

-----------------------------------------------------------------------------
(* The two halves of drain.                                                *)
LEMMA DrainDailyStep ==
  ASSUME TypeOK, Kept, NEW f \in Flushers, DrainDaily(f)
  PROVE  TypeOK' /\ Kept'
<1>1. /\ buffer' \in Rollup /\ buffer'.daily = Zero /\ buffer'.latency = buffer.latency
  BY Counting DEF TypeOK, DrainDaily, Taken, Rollup
<1>2. PICK s : s = [op |-> "drain", batch |-> [daily |-> buffer.daily, latency |-> Zero]]
  OBVIOUS
<1>3. s \in FlushState /\ s.op = "drain" /\ s.batch.daily = buffer.daily /\ s.batch.latency = Zero
  BY <1>2, Shapes, Counting DEF FlushState, Rollup
<1>4. /\ flusher' \in [Flushers -> FlushState] /\ flusher'[f] = s
      /\ \A g \in Flushers \ {f} : flusher'[g] = flusher[g]
  BY <1>2, <1>3 DEF TypeOK, DrainDaily
<1>5. UNCHANGED <<today, phase, request, table, hist>> /\ flusher[f].op = "idle"
  BY DEF DrainDaily
<1>6. TypeOK'
  BY <1>1, <1>4, <1>5 DEF TypeOK
<1>7. Hands'
  BY <1>3, <1>4, Counting DEF Kept, Hands
<1>8. ASSUME NEW d \in Days PROVE DayKept(d)'
  <2>1. DayKept(d) /\ flusher[f].batch.daily[d] = 0 /\ flusher[f].batch.latency[d] = 0
    BY <1>5, DayByDay DEF Hands
  <2>2. /\ flusher'[f].batch.daily[d] = buffer.daily[d] /\ flusher'[f].batch.latency[d] = 0
        /\ buffer'.daily[d] = 0 /\ buffer'.latency[d] = buffer.latency[d]
    BY <1>1, <1>3, <1>4, Counting
  <2>3. Daily(d)' = Daily(d) /\ Latency(d)' = Latency(d)
    BY <1>4, <1>5, <2>1, <2>2, DayCounts DEF Daily, Latency, Flushers
  <2> QED
    BY <1>5, <2>1, <2>3 DEF DayKept
<1> QED
  BY <1>6, <1>7, <1>8 DEF Kept, NothingCountedTwice, NothingLostUnnoticed, DayKept

(* The flush takes the second half of the buffer.                          *)
LEMMA DrainLatencyStep ==
  ASSUME TypeOK, Kept, NEW f \in Flushers, DrainLatency(f)
  PROVE  TypeOK' /\ Kept'
<1>1. /\ buffer' \in Rollup /\ buffer'.daily = buffer.daily /\ buffer'.latency = Zero
  BY Counting DEF TypeOK, DrainLatency, Taken, Rollup
<1>2. PICK s : s = [op |-> "flush",
                    batch |-> [daily |-> flusher[f].batch.daily, latency |-> buffer.latency]]
  OBVIOUS
<1>3. /\ s \in FlushState /\ s.op = "flush"
      /\ s.batch.daily = flusher[f].batch.daily /\ s.batch.latency = buffer.latency
  BY <1>2, Shapes DEF FlushState, Rollup
<1>4. /\ flusher' \in [Flushers -> FlushState] /\ flusher'[f] = s
      /\ \A g \in Flushers \ {f} : flusher'[g] = flusher[g]
  BY <1>2, <1>3 DEF TypeOK, DrainLatency
<1>5. UNCHANGED <<today, phase, request, table, hist>> /\ flusher[f].op = "drain"
  BY DEF DrainLatency
<1>6. TypeOK'
  BY <1>1, <1>4, <1>5 DEF TypeOK
<1>7. Hands'
  BY <1>3, <1>4 DEF Kept, Hands
<1>8. ASSUME NEW d \in Days PROVE DayKept(d)'
  <2>1. DayKept(d) /\ flusher[f].batch.latency[d] = 0
    BY <1>5, DayByDay DEF Hands
  <2>2. /\ flusher'[f].batch.daily[d] = flusher[f].batch.daily[d]
        /\ flusher'[f].batch.latency[d] = buffer.latency[d]
        /\ buffer'.daily[d] = buffer.daily[d] /\ buffer'.latency[d] = 0
    BY <1>1, <1>3, <1>4, Counting
  <2>3. Daily(d)' = Daily(d) /\ Latency(d)' = Latency(d)
    BY <1>4, <1>5, <2>1, <2>2, DayCounts DEF Daily, Latency, Flushers
  <2> QED
    BY <1>5, <2>1, <2>3 DEF DayKept
<1> QED
  BY <1>6, <1>7, <1>8 DEF Kept, NothingCountedTwice, NothingLostUnnoticed, DayKept

-----------------------------------------------------------------------------
(* The end of a flush: the flusher rests, main's takes the loop with it.   *)
LEMMA Rests ==
  ASSUME TypeOK, NEW f \in Flushers, Loop(f)
  PROVE  /\ flusher' \in [Flushers -> FlushState] /\ flusher'[f] = Resting
         /\ \A g \in Flushers \ {f} : IF f = "last" THEN flusher'[g] = Resting
                                      ELSE flusher'[g] = flusher[g]
         /\ Hands => Hands'
<1>1. /\ flusher' \in [Flushers -> FlushState] /\ flusher'[f] = Resting
      /\ \A g \in Flushers \ {f} : IF f = "last" THEN flusher'[g] = Resting
                                   ELSE flusher'[g] = flusher[g]
  BY Counting DEF TypeOK, Loop
<1>2. Hands => Hands'
  BY <1>1, Counting DEF Hands
<1> QED
  BY <1>1, <1>2

(* The transaction adds the batch to the tables.                           *)
LEMMA CommitStep ==
  ASSUME TypeOK, Kept, NEW f \in Flushers, Commit(f)
  PROVE  TypeOK' /\ Kept'
<1>1. /\ table' \in Rollup
      /\ table'.daily = Plus(table.daily, flusher[f].batch.daily)
      /\ table'.latency = Plus(table.latency, flusher[f].batch.latency)
  BY Counting, Shapes DEF Commit, Upserted, Rollup
<1>2. /\ hist' \in History /\ hist'.seen = hist.seen
      /\ hist'.lost = Lose("dropped", Dropped(f))
  BY Losses DEF TypeOK, Commit, History
<1>3. phase' \in {"up", "draining", "final", "down"}
  BY DEF TypeOK, Commit, Returns
<1>4. UNCHANGED <<today, request, buffer>> /\ Loop(f)
  BY DEF Commit
<1>5. TypeOK'
  BY <1>1, <1>2, <1>3, <1>4, Rests DEF TypeOK
<1>6. Hands'
  BY <1>4, Rests DEF Kept
<1>7. ASSUME NEW d \in Days PROVE DayKept(d)'
  <2>1. DayKept(d)
    BY DayByDay
  <2>2. /\ table'.daily[d] = table.daily[d] + flusher[f].batch.daily[d]
        /\ table'.latency[d] = table.latency[d] + flusher[f].batch.latency[d]
        /\ flusher'[f].batch.daily[d] = 0 /\ flusher'[f].batch.latency[d] = 0
        /\ buffer' = buffer /\ hist'.seen = hist.seen
        /\ hist'.lost[d] = {} => hist.lost[d] = {} /\ d \notin Dropped(f)
    BY <1>1, <1>2, <1>4, Rests, Counting DEF Plus, Lose
  <2>3. CASE f = "loop"
    <3>1. flusher'["last"] = flusher["last"]
      BY <1>4, <2>3, Rests DEF Flushers
    <3>2. Daily(d)' = Daily(d) /\ Latency(d)' = Latency(d)
      BY <2>2, <2>3, <3>1, DayCounts DEF Daily, Latency, Flushers
    <3> QED
      BY <2>1, <2>2, <3>2 DEF DayKept
  <2>4. CASE f = "last"
    <3>1. flusher'["loop"].batch.daily[d] = 0 /\ flusher'["loop"].batch.latency[d] = 0
      BY <1>4, <2>4, Rests, Counting DEF Flushers
    <3>2. /\ Daily(d)' = Daily(d) - flusher["loop"].batch.daily[d]
          /\ Latency(d)' = Latency(d) - flusher["loop"].batch.latency[d]
      BY <2>2, <2>4, <3>1, DayCounts DEF Daily, Latency, Flushers
    <3>3. d \notin Dropped(f) => /\ flusher["loop"].batch.daily[d] = 0
                                 /\ flusher["loop"].batch.latency[d] = 0
      BY <2>4, DayCounts DEF Dropped, Nonzero, Flushers
    <3>4. /\ flusher["loop"].batch.daily[d] \in Nat /\ flusher["loop"].batch.latency[d] \in Nat
          /\ Daily(d) \in Nat /\ Latency(d) \in Nat
          /\ hist.seen.daily[d] \in Nat /\ hist.seen.latency[d] \in Nat
      BY DayCounts DEF Daily, Latency, Flushers
    <3> QED
      BY <2>1, <2>2, <3>2, <3>3, <3>4 DEF DayKept
  <2> QED
    BY <2>3, <2>4 DEF Flushers
<1> QED
  BY <1>5, <1>6, <1>7 DEF Kept, NothingCountedTwice, NothingLostUnnoticed, DayKept

(* A step after which less of a day exists, and if anything is gone it is  *)
(* blamed on something.                                                    *)
LEMMA Shrinks ==
  ASSUME TypeOK, TypeOK', NEW d \in Days, DayKept(d),
         Daily(d)' <= Daily(d), Latency(d)' <= Latency(d), hist'.seen = hist.seen,
         hist'.lost[d] = {} => hist.lost[d] = {} /\ Daily(d)' = Daily(d) /\ Latency(d)' = Latency(d)
  PROVE  DayKept(d)'
<1>1. /\ Daily(d) \in Nat /\ Latency(d) \in Nat /\ Daily(d)' \in Nat /\ Latency(d)' \in Nat
      /\ hist.seen.daily[d] \in Nat /\ hist.seen.latency[d] \in Nat
  <2>1. Daily(d) \in Nat /\ Latency(d) \in Nat
    BY DayCounts DEF Daily, Latency, Flushers
  <2>2. /\ buffer'.daily[d] \in Nat /\ buffer'.latency[d] \in Nat
        /\ table'.daily[d] \in Nat /\ table'.latency[d] \in Nat
        /\ \A f \in Flushers : flusher'[f].batch.daily[d] \in Nat
                            /\ flusher'[f].batch.latency[d] \in Nat
    BY DEF TypeOK, Rollup, FlushState, Counts
  <2>3. Daily(d)' \in Nat /\ Latency(d)' \in Nat
    BY <2>2 DEF Daily, Latency, Flushers
  <2> QED
    BY <2>1, <2>3, DayCounts
<1> QED
  BY <1>1 DEF DayKept

(* The transaction fails: the batch goes back to the buffer, or is lost    *)
(* for a cause.                                                            *)
LEMMA FlushFailsStep ==
  ASSUME TypeOK, Kept, NEW f \in Flushers, FlushFails(f)
  PROVE  TypeOK' /\ Kept'
<1>1. PICK lost : lost = [d \in Days |->
        hist.lost[d] \union {w \in {"failed"} : d \in Nonzero(flusher[f].batch)}
                     \union {w \in {"dropped"} : d \in Dropped(f)}]
  OBVIOUS
<1>2. lost \in [Days -> SUBSET {"failed", "killed", "dropped", "aged"}]
  BY <1>1 DEF TypeOK, History
<1>3. /\ hist' \in History /\ hist'.seen = hist.seen /\ hist'.lost = lost
  BY <1>1, <1>2 DEF TypeOK, FlushFails, History
<1>4. phase' \in {"up", "draining", "final", "down"}
  BY DEF TypeOK, FlushFails, Returns
<1>5. UNCHANGED <<today, request, buffer, table>> /\ Loop(f)
  BY DEF FlushFails, AfterError
<1>6. TypeOK'
  BY <1>3, <1>4, <1>5, Rests DEF TypeOK
<1>7. Hands'
  BY <1>5, Rests DEF Kept
<1>8. ASSUME NEW d \in Days PROVE DayKept(d)'
  <2>1. lost[d] = {} => hist.lost[d] = {} /\ d \notin Nonzero(flusher[f].batch) /\ d \notin Dropped(f)
    BY <1>1
  <2>2. \A g \in Flushers : flusher'[g] = flusher[g] \/ flusher'[g] = Resting
    BY <1>5, Rests
  <2>3. \A g \in Flushers : /\ flusher'[g].batch.daily[d] <= flusher[g].batch.daily[d]
                            /\ flusher'[g].batch.latency[d] <= flusher[g].batch.latency[d]
                            /\ flusher'[g].batch.daily[d] \in Nat
                            /\ flusher'[g].batch.latency[d] \in Nat
    BY <2>2, DayCounts, Counting
  <2>4. lost[d] = {} => \A g \in Flushers :
          /\ flusher'[g].batch.daily[d] = flusher[g].batch.daily[d]
          /\ flusher'[g].batch.latency[d] = flusher[g].batch.latency[d]
    BY <1>5, <2>1, Rests, DayCounts, Counting DEF Nonzero, Dropped, Flushers
  <2>5. Daily(d)' <= Daily(d) /\ Latency(d)' <= Latency(d)
    BY <1>5, <2>3, DayCounts DEF Daily, Latency, Flushers
  <2>6. lost[d] = {} => Daily(d)' = Daily(d) /\ Latency(d)' = Latency(d)
    BY <1>5, <2>4 DEF Daily, Latency, Flushers
  <2>7. DayKept(d)
    BY DayByDay
  <2> QED
    BY <1>3, <1>6, <2>1, <2>5, <2>6, <2>7, Shrinks
<1> QED
  BY <1>6, <1>7, <1>8 DEF Kept, NothingCountedTwice, NothingLostUnnoticed, DayKept

-----------------------------------------------------------------------------
(* The purge, the clock, and the ends of the process.                      *)
LEMMA PurgeStep ==
  ASSUME TypeOK, Kept, Purge
  PROVE  TypeOK' /\ Kept'
<1>1. PICK old : old = {d \in Nonzero(table) : Stale(d)}
  OBVIOUS
<1>2. /\ hist' \in History /\ hist'.seen = hist.seen /\ hist'.lost = Lose("aged", old)
  BY <1>1, Losses DEF TypeOK, Purge, History
<1>3. /\ table' \in Rollup
      /\ \A d \in Days : /\ table'.daily[d] = IF Stale(d) THEN 0 ELSE table.daily[d]
                         /\ table'.latency[d] = IF Stale(d) THEN 0 ELSE table.latency[d]
  BY DayCounts DEF Purge, Rollup, Counts
<1>4. UNCHANGED <<today, phase, request, buffer, flusher>>
  BY DEF Purge
<1>5. TypeOK'
  BY <1>2, <1>3, <1>4 DEF TypeOK
<1>6. Hands'
  BY <1>4 DEF Kept, Hands
<1>7. ASSUME NEW d \in Days PROVE DayKept(d)'
  <2>1. hist'.lost[d] = {} => hist.lost[d] = {} /\ d \notin old
    BY <1>2 DEF Lose
  <2>2. /\ table'.daily[d] <= table.daily[d] /\ table'.latency[d] <= table.latency[d]
        /\ d \notin old => table'.daily[d] = table.daily[d] /\ table'.latency[d] = table.latency[d]
        /\ table'.daily[d] \in Nat /\ table'.latency[d] \in Nat
    BY <1>1, <1>3, DayCounts DEF Nonzero
  <2>3. Daily(d)' <= Daily(d) /\ Latency(d)' <= Latency(d)
    BY <1>4, <2>2, DayCounts DEF Daily, Latency, Flushers
  <2>4. d \notin old => Daily(d)' = Daily(d) /\ Latency(d)' = Latency(d)
    BY <1>4, <2>2 DEF Daily, Latency
  <2>5. DayKept(d)
    BY DayByDay
  <2> QED
    BY <1>2, <1>5, <2>1, <2>3, <2>4, <2>5, Shrinks
<1> QED
  BY <1>5, <1>6, <1>7 DEF Kept, NothingCountedTwice, NothingLostUnnoticed, DayKept

(* A kill loses what is in memory, for a cause.                            *)
LEMMA KillStep ==
  ASSUME TypeOK, Kept, Kill
  PROVE  TypeOK' /\ Kept'
<1>1. PICK days : days = Nonzero(buffer) \union UNION {Nonzero(flusher[f].batch) : f \in Flushers}
  OBVIOUS
<1>2. hist' \in History /\ hist'.seen = hist.seen /\ hist'.lost = Lose("killed", days)
  BY <1>1, Losses DEF TypeOK, Kill, History
<1>3. /\ buffer' = Empty /\ \A f \in Flushers : flusher'[f] = Resting
      /\ flusher' \in [Flushers -> FlushState] /\ request' \in [Requests -> RequestState]
      /\ UNCHANGED <<today, table>> /\ phase' = "down"
  BY Counting DEF Kill, RequestState, Idle
<1>4. TypeOK'
  BY <1>2, <1>3, Counting DEF TypeOK
<1>5. Hands'
  BY <1>3, Counting DEF Hands
<1>6. ASSUME NEW d \in Days PROVE DayKept(d)'
  <2>1. hist'.lost[d] = {} => hist.lost[d] = {} /\ d \notin days
    BY <1>2 DEF Lose
  <2>2. /\ buffer'.daily[d] = 0 /\ buffer'.latency[d] = 0
        /\ \A f \in Flushers : flusher'[f].batch.daily[d] = 0 /\ flusher'[f].batch.latency[d] = 0
    BY <1>3, Counting
  <2>3. d \notin days => /\ buffer.daily[d] = 0 /\ buffer.latency[d] = 0
                         /\ \A f \in Flushers : /\ flusher[f].batch.daily[d] = 0
                                                /\ flusher[f].batch.latency[d] = 0
    BY <1>1, DayCounts DEF Nonzero
  <2>4. Daily(d)' <= Daily(d) /\ Latency(d)' <= Latency(d)
    BY <1>3, <2>2, DayCounts DEF Daily, Latency, Flushers
  <2>5. d \notin days => Daily(d)' = Daily(d) /\ Latency(d)' = Latency(d)
    BY <1>3, <2>2, <2>3, DayCounts DEF Daily, Latency, Flushers
  <2>6. DayKept(d)
    BY DayByDay
  <2> QED
    BY <1>2, <1>4, <2>1, <2>4, <2>5, <2>6, Shrinks
<1> QED
  BY <1>4, <1>5, <1>6 DEF Kept, NothingCountedTwice, NothingLostUnnoticed, DayKept

(* Midnight, signals and restarts move no count.                           *)
LEMMA ClockStep ==
  ASSUME TypeOK, Kept, Midnight \/ Signal \/ ServeReturns \/ Start
  PROVE  TypeOK' /\ Kept'
<1>1. today' \in Days
  BY UsageRollupAssumption DEF TypeOK, Days, Midnight, Signal, ServeReturns, Start
<1>2. phase' \in {"up", "draining", "final", "down"}
  BY DEF TypeOK, Midnight, Signal, ServeReturns, Start
<1>3. UNCHANGED <<request, buffer, flusher, table, hist>>
  BY DEF Midnight, Signal, ServeReturns, Start
<1> QED
  BY <1>1, <1>2, <1>3, CountsStay DEF TypeOK

-----------------------------------------------------------------------------
(* The invariant holds at the start and is kept by every step.             *)
LEMMA RollupInit == Init => TypeOK /\ Kept
<1> SUFFICES ASSUME Init PROVE TypeOK /\ Kept
  OBVIOUS
<1>1. 0 \in Days
  BY UsageRollupAssumption DEF Days
<1>2. hist \in History /\ hist.seen = Empty
  BY Counting DEF Init, History
<1>3. TypeOK
  BY <1>1, <1>2, Counting DEF Init, TypeOK, RequestState, Idle
<1>4. Hands
  BY Counting DEF Init, Hands
<1>5. ASSUME NEW d \in Days PROVE DayKept(d)
  BY <1>2, Counting DEF Init, DayKept, Daily, Latency, Flushers
<1> QED
  BY <1>3, <1>4, <1>5, DayByDay

(* Every step keeps the types and the invariant.                           *)
LEMMA RollupStep ==
  ASSUME TypeOK, Kept, [Next]_vars
  PROVE  TypeOK' /\ Kept'
<1>1. CASE \E r \in Requests : Admit(r) \/ Disconnect(r)
  BY <1>1, AdmitStep
<1>2. CASE \E r \in Requests : RecordDaily(r)
  BY <1>2, RecordDailyStep
<1>3. CASE \E r \in Requests : RecordLatency(r)
  BY <1>3, RecordLatencyStep
<1>4. CASE \E f \in Flushers : DrainDaily(f)
  BY <1>4, DrainDailyStep
<1>5. CASE \E f \in Flushers : DrainLatency(f)
  BY <1>5, DrainLatencyStep
<1>6. CASE \E f \in Flushers : Commit(f)
  BY <1>6, CommitStep
<1>7. CASE \E f \in Flushers : FlushFails(f)
  BY <1>7, FlushFailsStep
<1>8. CASE Purge
  BY <1>8, PurgeStep
<1>9. CASE Kill
  BY <1>9, KillStep
<1>10. CASE Midnight \/ Signal \/ ServeReturns \/ Start
  BY <1>10, ClockStep
<1>11. CASE UNCHANGED vars
  BY <1>11, CountsStay DEF vars, TypeOK
<1> QED
  BY <1>1, <1>2, <1>3, <1>4, <1>5, <1>6, <1>7, <1>8, <1>9, <1>10, <1>11 DEF Next

(* The invariant holds in every reachable state.                           *)
LEMMA RollupInvariant == Spec => [](TypeOK /\ Kept)
<1>1. Init => TypeOK /\ Kept
  BY RollupInit
<1>2. (TypeOK /\ Kept) /\ [Next]_vars => (TypeOK /\ Kept)'
  BY RollupStep
<1> QED
  BY <1>1, <1>2, PTL DEF Spec

(***************************************************************************)
(* The counts are counts: no drain, upsert, purge or stop makes one        *)
(* negative, and what a request or a flusher holds is of a kind.           *)
(***************************************************************************)
THEOREM RollupTypeCorrect == Spec => []TypeOK
  BY RollupInvariant, PTL

(***************************************************************************)
(* NothingCountedTwice: between the buffer, the two drained batches and    *)
(* the tables no request is there twice, whatever flushes overlap, fail or *)
(* are interrupted.                                                        *)
(***************************************************************************)
THEOREM CountedOnce == Spec => []NothingCountedTwice
<1>1. Kept => NothingCountedTwice
  BY DEF Kept
<1> QED
  BY <1>1, RollupInvariant, PTL

(***************************************************************************)
(* NothingLostUnnoticed: a recorded request is buffered, drained or stored *)
(* unless a flush of its day failed, the process was killed, main dropped  *)
(* the loop, or its day left the window.                                   *)
(***************************************************************************)
THEOREM LossHasACause == Spec => []NothingLostUnnoticed
<1>1. Kept => NothingLostUnnoticed
  BY DEF Kept
<1> QED
  BY <1>1, RollupInvariant, PTL

(***************************************************************************)
(* RetentionKeeps: no step, the purge included, takes a stored count from  *)
(* a day inside the retention window.                                      *)
(***************************************************************************)
THEOREM WindowIsKept == Spec => RetentionKeeps
<1> DEFINE Keeps == \A d \in Days : d >= today - Retention =>
                      table'.daily[d] >= table.daily[d] /\ table'.latency[d] >= table.latency[d]
<1>1. ASSUME TypeOK, Next PROVE Keeps
  <2>1. CASE UNCHANGED table
    BY <1>1, <2>1, DayCounts
  <2>2. ASSUME NEW f \in Flushers, Commit(f) PROVE Keeps
    <3>1. \A d \in Days : /\ table'.daily[d] = table.daily[d] + flusher[f].batch.daily[d]
                          /\ table'.latency[d] = table.latency[d] + flusher[f].batch.latency[d]
      BY <2>2 DEF Commit, Upserted, Plus
    <3> QED
      BY <1>1, <3>1, DayCounts
  <2>3. CASE Purge
    <3>1. \A d \in Days : ~Stale(d) => /\ table'.daily[d] = table.daily[d]
                                       /\ table'.latency[d] = table.latency[d]
      BY <2>3 DEF Purge
    <3>2. \A d \in Days : d >= today - Retention => ~Stale(d)
      BY <1>1, Shapes DEF Stale, Cutoff, Days
    <3> QED
      BY <1>1, <3>1, <3>2, DayCounts
  <2>4. Next => UNCHANGED table \/ Purge \/ \E f \in Flushers : Commit(f)
    BY DEF Next, Admit, RecordDaily, RecordLatency, Disconnect, DrainDaily, DrainLatency,
           FlushFails, Midnight, Signal, ServeReturns, Kill, Start
  <2> QED
    BY <1>1, <2>1, <2>2, <2>3, <2>4
<1>2. TypeOK /\ [Next]_vars => [Keeps]_vars
  BY <1>1
<1> QED
  BY <1>2, RollupTypeCorrect, PTL DEF Spec, RetentionKeeps
=============================================================================
