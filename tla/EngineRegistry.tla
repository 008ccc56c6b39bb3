--------------------------- MODULE EngineRegistry ---------------------------
(***************************************************************************)
(* Dictionaries: the engine cache and its load lock (src/src/engine.rs),   *)
(* the files on disk (src/src/dictionary.rs), the table of registered      *)
(* sources and its cache (src/src/store.rs), POST /dictionaries and the    *)
(* look-up of /spellcheck (src/src/handlers.rs), and the warming at start  *)
(* (src/src/main.rs).                                                      *)
(*                                                                         *)
(* The module covers the languages other than the default one, which main  *)
(* loads before it opens the store and which never leaves the cache.  The  *)
(* content of a file is represented by the source it was downloaded from;  *)
(* whether the parser accepts a file depends on that source alone, and it  *)
(* may accept or refuse files of two sources put together.                 *)
(*                                                                         *)
(* Grain.  One step per await of the code: a statement, the lock, a        *)
(* download attempt, a file write.  load_from_paths and the insertion that *)
(* follows it run without an await, under the load lock.                   *)
(***************************************************************************)
EXTENDS Naturals, Sequences

CONSTANTS
  Codes,    \* language codes
  Urls,     \* dictionary sources
  BaseUrl,  \* config.dictionary_url
  BadUrls,  \* sources that serve files the parser refuses
  NoUrl,    \* no source
  Tasks,    \* requests that may be in flight together
  Main,     \* the process that starts the server
  Attempts, \* RETRY_ATTEMPTS
  Faults    \* what may go wrong: "fail", "cut", "crash"

ASSUME EngineRegistryAssumption ==
  /\ BaseUrl \in Urls /\ BadUrls \subseteq Urls /\ NoUrl \notin Urls
  /\ Main \notin Tasks
  /\ Attempts \in Nat \ {0}
  /\ Faults \subseteq {"fail", "cut", "crash"}

VARIABLES
  table,         \* the table dictionaries: source_url of each code
  dictionaries,  \* Store.dictionaries, its cache
  disk,          \* the files <code>.aff and <code>.dic
  engines,       \* EngineRegistry.engines: the pair each engine was built from
  load_lock,     \* EngineRegistry.load_lock: its holder, then those waiting
  task,          \* where each request, and main, stands
  phase,         \* "down", "warming" or "up"
  unwarmed,      \* registered codes main has still to load
  hist           \* history: skewed, torn, failed (see below)

vars == <<table, dictionaries, disk, engines, load_lock, task, phase, unwarmed, hist>>

Procs == Tasks \union {Main}

Sources == Urls \union {NoUrl}

(***************************************************************************)
(* A file is absent (from = NoUrl) or was written from a source, less or   *)
(* more than refresh_interval ago.  older: the file written first.         *)
(***************************************************************************)
File == [from: Sources, aged: BOOLEAN]

Absent == [from |-> NoUrl, aged |-> FALSE]

Written(u) == [from |-> u, aged |-> FALSE]

Files == [aff: File, dic: File, older: {"aff", "dic"}]

Engine == [aff: Sources, dic: Sources]

NotLoaded == [aff |-> NoUrl, dic |-> NoUrl]

(***************************************************************************)
(* Where a request stands:                                                 *)
(*   registered  register_dictionary: the UPSERT is done                   *)
(*   selected    register_dictionary: the row is read back                 *)
(*   waiting     in line for load_lock                                     *)
(*   aff, dic    under the lock, downloading that file                     *)
(*   write_aff, write_dic   under the lock, writing that file              *)
(*   parse       under the lock, the files are there                       *)
(*   loaded      the engine is in the cache, the answer is due             *)
(* source: the source_url argument, NoUrl for None.                        *)
(***************************************************************************)
Idle == [op |-> "idle"]

Registering == [op: {"registered", "selected"}, code: Codes, source: Urls, row: Sources]

Loading == [op: {"waiting", "aff", "dic", "write_aff", "write_dic", "parse"},
            code: Codes, source: Sources, attempt: 0..(Attempts - 1), fetched: BOOLEAN]

Loaded == [op: {"loaded"}, code: Codes, source: Sources, fetched: BOOLEAN, engine: Engine]

TypeOK ==
  /\ table \in [Codes -> Sources]
  /\ dictionaries \in [Codes -> Sources]
  /\ disk \in [Codes -> Files]
  /\ engines \in [Codes -> Engine]
  /\ load_lock \in Seq(Procs)
  /\ task \in [Procs -> {Idle} \union Registering \union Loading \union Loaded]
  /\ phase \in {"down", "warming", "up"}
  /\ unwarmed \subseteq Codes
  /\ hist \in [skewed: SUBSET Codes, torn: SUBSET Codes, failed: SUBSET Codes]

Init ==
  /\ table = [c \in Codes |-> NoUrl]
  /\ dictionaries = [c \in Codes |-> NoUrl]
  /\ disk = [c \in Codes |-> [aff |-> Absent, dic |-> Absent, older |-> "aff"]]
  /\ engines = [c \in Codes |-> NotLoaded]
  /\ load_lock = <<>>
  /\ task = [p \in Procs |-> Idle]
  /\ phase = "down"
  /\ unwarmed = {}
  /\ hist = [skewed |-> {}, torn |-> {}, failed |-> {}]

(***************************************************************************)
(* The history.                                                            *)
(*   skewed  codes two registrations of which overlapped, or one of which  *)
(*           was cut between its UPSERT and its cache step, since start    *)
(*   torn    codes a download of which ended between its two writes while  *)
(*           the old .dic was still within the refresh interval            *)
(*   failed  codes a registration of which did not end with its engine in  *)
(*           the cache, since start                                        *)
(***************************************************************************)
Registers(t, c) == task[t].op \in {"registered", "selected"} /\ task[t].code = c

Overlaps(t, c) == \E r \in Tasks \ {t} : Registers(r, c)

Tears(p) ==
  /\ task[p].op = "write_dic"
  /\ disk[task[p].code].dic.from # NoUrl
  /\ ~disk[task[p].code].dic.aged

CodeIf(p, yes) == IF yes THEN {task[p].code} ELSE {}

\* The history once the call of p has ended without its engine.
Cut(p) ==
  [skewed |-> hist.skewed \union CodeIf(p, task[p].op \in {"registered", "selected"}),
   torn   |-> hist.torn \union CodeIf(p, Tears(p)),
   failed |-> hist.failed \union CodeIf(p, task[p].source # NoUrl)]

-----------------------------------------------------------------------------
(***************************************************************************)
(* The load lock: a tokio Mutex, first come first served.                  *)
(***************************************************************************)
InLine(p) == {i \in DOMAIN load_lock : load_lock[i] = p}

Release(p) ==
  IF InLine(p) = {} THEN load_lock
  ELSE LET place == CHOOSE i \in InLine(p) : TRUE
       IN [i \in 1..(Len(load_lock) - 1) |-> load_lock[IF i < place THEN i ELSE i + 1]]

\* Mutant: the load is not serialized.
HoldsAnyway(p) == InLine(p) # {}

Holds(p) == load_lock # <<>> /\ Head(load_lock) = p

Stands(p, state) == task' = [task EXCEPT ![p] = state]

Waiting(c, u) == [op |-> "waiting", code |-> c, source |-> u, attempt |-> 0, fetched |-> FALSE]

At(p, op) == [task[p] EXCEPT !.op = op, !.attempt = 0]

-----------------------------------------------------------------------------
(***************************************************************************)
(* resolve_engine calls get_or_load(language, None), whose first look-up   *)
(* answers at once when the engine is there.                               *)
(***************************************************************************)
resolve_engine(t, c) ==
  /\ phase = "up"
  /\ task[t] = Idle
  /\ engines[c] = NotLoaded
  /\ Stands(t, Waiting(c, NoUrl))
  /\ load_lock' = Append(load_lock, t)
  /\ UNCHANGED <<table, dictionaries, disk, engines, phase, unwarmed, hist>>

(***************************************************************************)
(* POST /dictionaries: register_dictionary, then load with the source of   *)
(* the request.                                                            *)
(***************************************************************************)
RegisterUpsert(t, c, u) ==
  /\ phase = "up"
  /\ task[t] = Idle
  /\ table' = [table EXCEPT ![c] = u]
  /\ Stands(t, [op |-> "registered", code |-> c, source |-> u, row |-> NoUrl])
  /\ hist' = [hist EXCEPT !.skewed = @ \union {d \in {c} : Overlaps(t, d)}]
  /\ UNCHANGED <<dictionaries, disk, engines, load_lock, phase, unwarmed>>

RegisterSelect(t) ==
  /\ task[t].op = "registered"
  /\ Stands(t, [task[t] EXCEPT !.op = "selected", !.row = table[task[t].code]])
  /\ UNCHANGED <<table, dictionaries, disk, engines, load_lock, phase, unwarmed, hist>>

\* Mutant: a code that is known keeps its source.
RememberedFirst(c, u) ==
  [dictionaries EXCEPT ![c] = IF dictionaries[c] = NoUrl THEN u ELSE dictionaries[c]]

Remembered(c, u) == [dictionaries EXCEPT ![c] = u]

RegisterCache(t) ==
  /\ task[t].op = "selected"
  /\ dictionaries' = Remembered(task[t].code, task[t].row)
  /\ Stands(t, Waiting(task[t].code, task[t].source))
  /\ load_lock' = Append(load_lock, t)
  /\ UNCHANGED <<table, disk, engines, phase, unwarmed, hist>>

-----------------------------------------------------------------------------
(***************************************************************************)
(* Under the lock.  get_or_load looks a second time; both functions then   *)
(* take the files as they are when is_fresh() says so, and download them   *)
(* otherwise.                                                              *)
(***************************************************************************)
\* Mutant: one fresh file is enough.
FreshAff(c) == disk[c].aff.from # NoUrl /\ disk[c].dic.from # NoUrl /\ ~disk[c].aff.aged

is_fresh(c) ==
  /\ disk[c].aff.from # NoUrl /\ disk[c].dic.from # NoUrl
  /\ ~disk[c].aff.aged /\ ~disk[c].dic.aged

\* Mutant: no second look.
NeverFound(p) == FALSE

FoundOnSecondLook(p) == task[p].source = NoUrl /\ engines[task[p].code] # NotLoaded

Acquire(p) ==
  /\ task[p].op = "waiting"
  /\ Holds(p)
  /\ \/ /\ FoundOnSecondLook(p)
        /\ Stands(p, Idle)
        /\ load_lock' = Release(p)
     \/ /\ ~FoundOnSecondLook(p)
        /\ Stands(p, At(p, IF is_fresh(task[p].code) THEN "parse" ELSE "aff"))
        /\ UNCHANGED load_lock
  /\ UNCHANGED <<table, dictionaries, disk, engines, phase, unwarmed, hist>>

(***************************************************************************)
(* download(): an attempt succeeds, fails for good, or fails transiently   *)
(* and is repeated, RETRY_ATTEMPTS times at most.                          *)
(***************************************************************************)
Downloaded(p) ==
  /\ task[p].op \in {"aff", "dic"}
  /\ Stands(p, At(p, IF task[p].op = "aff" THEN "dic" ELSE "write_aff"))
  /\ UNCHANGED <<table, dictionaries, disk, engines, load_lock, phase, unwarmed, hist>>

LastAttempt == Attempts - 1

Retry(p) ==
  /\ "fail" \in Faults
  /\ task[p].op \in {"aff", "dic"}
  /\ task[p].attempt < LastAttempt
  /\ Stands(p, [task[p] EXCEPT !.attempt = @ + 1])
  /\ UNCHANGED <<table, dictionaries, disk, engines, load_lock, phase, unwarmed, hist>>

base_url(source) == IF source = NoUrl THEN BaseUrl ELSE source

\* atomic_write(): the new file replaces the old one in a rename.
WriteAff(p) ==
  /\ task[p].op = "write_aff"
  /\ disk' = [disk EXCEPT ![task[p].code] =
       [aff |-> Written(base_url(task[p].source)), dic |-> disk[task[p].code].dic, older |-> "dic"]]
  /\ Stands(p, At(p, "write_dic"))
  /\ UNCHANGED <<table, dictionaries, engines, load_lock, phase, unwarmed, hist>>

WriteDic(p) ==
  /\ task[p].op = "write_dic"
  /\ disk' = [disk EXCEPT ![task[p].code] =
       [aff |-> disk[task[p].code].aff, dic |-> Written(base_url(task[p].source)), older |-> "aff"]]
  /\ Stands(p, [At(p, "parse") EXCEPT !.fetched = TRUE])
  /\ UNCHANGED <<table, dictionaries, engines, load_lock, phase, unwarmed, hist>>

(***************************************************************************)
(* load_from_paths and the insertion into the cache.                       *)
(***************************************************************************)
OnDisk(c) == [aff |-> disk[c].aff.from, dic |-> disk[c].dic.from]

Parses(pair) == {pair.aff, pair.dic} \cap BadUrls = {}

Insert(p) ==
  /\ task[p].op = "parse"
  /\ Parses(OnDisk(task[p].code))
  /\ engines' = [engines EXCEPT ![task[p].code] = OnDisk(task[p].code)]
  /\ Stands(p, [op |-> "loaded", code |-> task[p].code, source |-> task[p].source,
                fetched |-> task[p].fetched, engine |-> OnDisk(task[p].code)])
  /\ load_lock' = Release(p)
  /\ UNCHANGED <<table, dictionaries, disk, phase, unwarmed, hist>>

Answer(p) ==
  /\ task[p].op = "loaded"
  /\ Stands(p, Idle)
  /\ unwarmed' = IF p = Main THEN unwarmed \ {task[p].code} ELSE unwarmed
  /\ UNCHANGED <<table, dictionaries, disk, engines, load_lock, phase, hist>>

-----------------------------------------------------------------------------
(***************************************************************************)
(* A call that fails answers its client and releases the lock; main gives  *)
(* up.  A client that goes away drops its call at any await.               *)
(***************************************************************************)
Refused(c) == ~Parses(OnDisk(c)) \/ disk[c].aff.from # disk[c].dic.from

MayFail(p) ==
  \/ "fail" \in Faults /\ task[p].op \in {"registered", "aff", "dic", "write_aff", "write_dic"}
  \/ task[p].op = "parse" /\ Refused(task[p].code)

\* Mutant: the guard is leaked.
KeepsLock(p) == load_lock

LockAfter(p) == Release(p)

Ends(t) ==
  /\ Stands(t, Idle)
  /\ load_lock' = LockAfter(t)
  /\ hist' = Cut(t)
  /\ UNCHANGED <<table, dictionaries, disk, engines, phase, unwarmed>>

Fail(t) == MayFail(t) /\ Ends(t)

Leave(t) ==
  /\ "cut" \in Faults
  /\ task[t].op \notin {"idle", "loaded"}
  /\ Ends(t)

Stop ==
  /\ phase' = "down"
  /\ task' = [p \in Procs |-> Idle]
  /\ load_lock' = <<>>
  /\ engines' = [c \in Codes |-> NotLoaded]
  /\ dictionaries' = [c \in Codes |-> NoUrl]
  /\ unwarmed' = {}
  /\ hist' = [hist EXCEPT !.torn = @ \union UNION {CodeIf(p, Tears(p)) : p \in Procs}]
  /\ UNCHANGED <<table, disk>>

MainFails == MayFail(Main) /\ Stop

Crash == "crash" \in Faults /\ phase # "down" /\ Stop

(***************************************************************************)
(* A start: reload_caches reads the table, main loads every registered     *)
(* code from its source and then serves.                                   *)
(***************************************************************************)
\* Mutant: codes whose files are fresh are left to the first request.
ToWarmStale == {c \in Codes : table[c] # NoUrl /\ ~is_fresh(c)}

ToWarm == {c \in Codes : table[c] # NoUrl}

Start ==
  /\ phase = "down"
  /\ phase' = "warming"
  /\ dictionaries' = table
  /\ unwarmed' = ToWarm
  /\ hist' = [hist EXCEPT !.skewed = {}, !.failed = {}]
  /\ UNCHANGED <<table, disk, engines, load_lock, task>>

Warm(c) ==
  /\ phase = "warming"
  /\ task[Main] = Idle
  /\ c \in unwarmed
  /\ Stands(Main, Waiting(c, dictionaries[c]))
  /\ load_lock' = Append(load_lock, Main)
  /\ UNCHANGED <<table, dictionaries, disk, engines, phase, unwarmed, hist>>

Serve ==
  /\ phase = "warming"
  /\ task[Main] = Idle
  /\ unwarmed = {}
  /\ phase' = "up"
  /\ UNCHANGED <<table, dictionaries, disk, engines, load_lock, task, unwarmed, hist>>

(***************************************************************************)
(* GET /languages: the codes with both files on disk and the codes with a  *)
(* source in the cache of the store, each once.  The handler does not      *)
(* await and takes no lock of the registry.                                *)
(***************************************************************************)
\* Mutant: files past the refresh interval are not counted.
ListedFresh == {c \in Codes : is_fresh(c)}

list_cached_languages ==
  {c \in Codes : disk[c].aff.from # NoUrl /\ disk[c].dic.from # NoUrl}

list_dictionaries == {c \in Codes : dictionaries[c] # NoUrl}

list_languages ==
  {[code |-> c, cached |-> c \in list_cached_languages, registered |-> c \in list_dictionaries]
     : c \in list_cached_languages \union list_dictionaries}

(***************************************************************************)
(* Time: the file written first reaches the refresh interval first.        *)
(***************************************************************************)
Age(c) ==
  LET older == disk[c].older
      younger == IF older = "aff" THEN "dic" ELSE "aff"
      next == IF disk[c][older].from = NoUrl \/ disk[c][older].aged THEN younger ELSE older
  IN /\ disk[c][next].from # NoUrl
     /\ ~disk[c][next].aged
     /\ disk' = [disk EXCEPT ![c][next].aged = TRUE]
     /\ UNCHANGED <<table, dictionaries, engines, load_lock, task, phase, unwarmed, hist>>

-----------------------------------------------------------------------------
Load(p) == Acquire(p) \/ Downloaded(p) \/ Retry(p) \/ WriteAff(p) \/ WriteDic(p) \/ Insert(p) \/ Answer(p)

Next ==
  \/ \E t \in Tasks, c \in Codes : resolve_engine(t, c) \/ \E u \in Urls : RegisterUpsert(t, c, u)
  \/ \E t \in Tasks : RegisterSelect(t) \/ RegisterCache(t) \/ Fail(t) \/ Leave(t)
  \/ \E p \in Procs : Load(p)
  \/ \E c \in Codes : Warm(c) \/ Age(c)
  \/ MainFails \/ Start \/ Serve \/ Crash

(***************************************************************************)
(* A task that can run is polled in the end, a statement, a download (its  *)
(* client has a timeout) and a file write come back one way or the other.  *)
(* Nothing is assumed of clients, of the sources or of restarts.           *)
(***************************************************************************)
Fairness ==
  /\ \A t \in Tasks : WF_vars(RegisterSelect(t) \/ RegisterCache(t) \/ Load(t) \/ Fail(t))
  /\ WF_vars(Serve \/ (\E c \in Codes : Warm(c)) \/ Load(Main) \/ MainFails)

Spec == Init /\ [][Next]_vars

FairSpec == Spec /\ Fairness

-----------------------------------------------------------------------------
(***************************************************************************)
(* get_or_load: "Two concurrent misses for the same language: the second   *)
(* blocks on load_lock until the first finishes, then its post-lock        *)
(* re-check finds the entry already cached".  A request without a source   *)
(* works on the files of a language only while no engine of it is loaded.  *)
(***************************************************************************)
OneLoadPerMiss ==
  \A p \in Procs :
    (task[p].op \in {"aff", "dic", "write_aff", "write_dic", "parse"} /\ task[p].source = NoUrl)
      => engines[task[p].code] = NotLoaded

(***************************************************************************)
(* An engine is built from an .aff and a .dic of one source, whatever      *)
(* downloads overlapped, failed or were dropped before: only a download    *)
(* that ended between its two writes while the old .dic was still fresh    *)
(* leaves a pair of two sources that is_fresh() lets through.              *)
(***************************************************************************)
PairsMatchUntorn ==
  \A c \in Codes \ hist.torn : engines[c].aff = engines[c].dic

(***************************************************************************)
(* A load that downloaded its files built its engine from them: no other   *)
(* load of the language wrote in between.                                  *)
(***************************************************************************)
DownloadsAreLoaded ==
  \A p \in Procs : (task[p].op = "loaded" /\ task[p].fetched) =>
    /\ task[p].engine.aff = task[p].engine.dic
    /\ task[p].source # NoUrl => task[p].engine.aff = task[p].source

(***************************************************************************)
(* The cache of registered sources is the table, except between the UPSERT *)
(* and the cache step of a registration, and after two of one code         *)
(* overlapped or one was cut.                                              *)
(***************************************************************************)
SourcesFollowTable ==
  phase = "up" => \A c \in Codes \ hist.skewed :
    (\A t \in Tasks : ~Registers(t, c)) => dictionaries[c] = table[c]

(***************************************************************************)
(* main warms every registered language before it serves, and POST         *)
(* /dictionaries ends with the engine loaded: a language a server knows a  *)
(* source of has an engine, unless a registration of it failed, was cut or *)
(* is under way.                                                           *)
(***************************************************************************)
RegisteredIsLoaded ==
  phase = "up" => \A c \in Codes \ hist.failed :
    (dictionaries[c] # NoUrl /\ engines[c] = NotLoaded)
      => \E t \in Tasks : task[t].op # "idle" /\ task[t].code = c /\ task[t].source # NoUrl

(***************************************************************************)
(* F65 and DESIGN.md 27.1: GET /languages tells a caller what it can use.  *)
(* A language the server answers from memory is listed as cached, whatever *)
(* was written, refused, dropped or grew stale since; and one that is      *)
(* listed as registered and not as cached has no engine, because its       *)
(* registration failed, was cut or is under way.                           *)
(***************************************************************************)
ListingFollowsEngines ==
  phase = "up" =>
    /\ \A c \in Codes : engines[c] # NotLoaded =>
         \E l \in list_languages : l.code = c /\ l.cached
    /\ \A l \in list_languages : l.registered /\ ~l.cached =>
         \/ l.code \in hist.failed
         \/ \E t \in Tasks : task[t].op # "idle" /\ task[t].code = l.code /\ task[t].source # NoUrl

(***************************************************************************)
(* Every request that needs a dictionary is answered, and every start ends *)
(* in a server or in an exit: the lock is released on every path and the   *)
(* attempts are bounded.                                                   *)
(***************************************************************************)
EveryLoadEnds ==
  /\ \A t \in Tasks : task[t] # Idle ~> task[t] = Idle
  /\ phase = "warming" ~> phase # "warming"
=============================================================================
