------------------------ MODULE EngineRegistryProofs ------------------------
(***************************************************************************)
(* Theorems about EngineRegistry, for every set of languages, sources and  *)
(* requests, any number of attempts and every choice of faults.            *)
(*                                                                         *)
(* What the run checks is about one moment of a load; what makes it hold   *)
(* is the line for load_lock, and what the files were while it was held.   *)
(*   LineInv    who is in line, each once, and works at its head only      *)
(*   FileInv    what a load that stands at some step knows of the files    *)
(*   PairInv    which files is_fresh() may let through as a pair           *)
(*   SourceInv  what a registration in flight has put into the table       *)
(*   WarmInv    who will still load a language that has no engine          *)
(***************************************************************************)
EXTENDS EngineRegistry, TLAPS

RegisterOps == {"registered", "selected"}

FileOps == {"aff", "dic", "write_aff", "write_dic", "parse"}

PhaseInv ==
  /\ phase # "up" => \A t \in Tasks : task[t] = Idle
  /\ phase # "warming" => task[Main] = Idle /\ unwarmed = {}
  /\ phase = "down" => \A c \in Codes : engines[c] = NotLoaded /\ dictionaries[c] = NoUrl
  /\ task[Main].op \notin RegisterOps
  /\ task[Main].op # "idle" => task[Main].source # NoUrl
  /\ \A c \in unwarmed : dictionaries[c] # NoUrl

LineOps == FileOps \union {"waiting"}

OnceInLine == \A i, j \in DOMAIN load_lock : load_lock[i] = load_lock[j] => i = j

LineInv ==
  /\ \A p \in Procs : InLine(p) # {} <=> task[p].op \in LineOps
  /\ OnceInLine
  /\ \A p \in Procs : task[p].op \in FileOps => Holds(p)

Present(c) == disk[c].aff.from # NoUrl /\ disk[c].dic.from # NoUrl

Paired(c) == c \in hist.torn \/ disk[c].aff.from = disk[c].dic.from

Known(p) ==
  /\ disk[task[p].code].aff.from = base_url(task[p].source)
  /\ disk[task[p].code].dic.from = base_url(task[p].source)

FileHolds(p) ==
  /\ task[p].op \in LineOps \ {"parse"} => ~task[p].fetched
  /\ task[p].op = "write_dic" => disk[task[p].code].aff.from = base_url(task[p].source)
  /\ task[p].op = "parse" =>
       Present(task[p].code) /\ Paired(task[p].code) /\ (task[p].fetched => Known(p))
  /\ task[p].op = "loaded" =>
       /\ engines[task[p].code] # NotLoaded
       /\ task[p].fetched => /\ task[p].engine.aff = base_url(task[p].source)
                             /\ task[p].engine.dic = base_url(task[p].source)

FileInv == \A p \in Procs : FileHolds(p)

BetweenWrites(c) == \E p \in Procs : task[p].op = "write_dic" /\ task[p].code = c

PairHolds(c) ==
  /\ engines[c] # NotLoaded => Present(c)
  /\ is_fresh(c) => Paired(c) \/ BetweenWrites(c)
  /\ c \in hist.torn \/ engines[c].aff = engines[c].dic

PairInv == \A c \in Codes : PairHolds(c)

SourceHolds(c) ==
  /\ \A t \in Tasks : Registers(t, c) =>
       /\ task[t].source = table[c]
       /\ task[t].op = "selected" => task[t].row = table[c]
       /\ ~Overlaps(t, c)
  /\ (\A t \in Tasks : ~Registers(t, c)) => dictionaries[c] = table[c]

SourceInv == phase # "down" => \A c \in Codes \ hist.skewed : SourceHolds(c)

Loads(t, c) == task[t].op # "idle" /\ task[t].code = c /\ task[t].source # NoUrl

WarmHolds(c) ==
  (dictionaries[c] # NoUrl /\ engines[c] = NotLoaded) =>
    c \in unwarmed \/ \E t \in Tasks : Loads(t, c)

WarmInv == \A c \in Codes \ hist.failed : WarmHolds(c)

-----------------------------------------------------------------------------
(* What a request stands at tells the fields it carries.                   *)
LEMMA TaskShape ==
  ASSUME TypeOK, NEW p \in Procs, task[p].op # "idle"
  PROVE  /\ task[p].code \in Codes /\ task[p].source \in Sources
         /\ task[p].op \in RegisterOps => task[p] \in Registering
         /\ task[p].op \in FileOps \union {"waiting"} => task[p] \in Loading
         /\ task[p].op = "loaded" => task[p] \in Loaded
         /\ task[p].op \in RegisterOps \union FileOps \union {"waiting", "loaded"}
<1>1. task[p] \in Registering \union Loading \union Loaded
  BY DEF TypeOK, Idle
<1>2. CASE task[p] \in Registering
  BY <1>2 DEF Registering, RegisterOps, FileOps, Sources
<1>3. CASE task[p] \in Loading
  BY <1>3 DEF Loading, RegisterOps, FileOps
<1>4. CASE task[p] \in Loaded
  BY <1>4 DEF Loaded, RegisterOps, FileOps
<1> QED
  BY <1>1, <1>2, <1>3, <1>4

(* An idle process waits for nothing.                                      *)
LEMMA IdleShape == Idle.op = "idle"
  BY DEF Idle

(* A step of a load that goes on.                                          *)
LEMMA AtFields ==
  ASSUME TypeOK, NEW p \in Procs, task[p].op \in FileOps \union {"waiting"},
         NEW op \in FileOps \union {"waiting"}
  PROVE  /\ At(p, op) \in Loading /\ At(p, op).op = op
         /\ At(p, op).code = task[p].code /\ At(p, op).source = task[p].source
         /\ At(p, op).fetched = task[p].fetched
<1>1. task[p] \in Loading
  BY TaskShape DEF FileOps
<1>2. 0 \in 0..(Attempts - 1)
  BY EngineRegistryAssumption
<1> QED
  BY <1>1, <1>2 DEF Loading, At, FileOps

(* Leaving the line: whoever else is in it stays, in the same order.       *)
LEMMA ReleaseLine ==
  ASSUME load_lock \in Seq(Procs), NEW p \in Procs,
         \A i, j \in DOMAIN load_lock : load_lock[i] = load_lock[j] => i = j,
         load_lock' = Release(p)
  PROVE  /\ load_lock' \in Seq(Procs)
         /\ \A i, j \in DOMAIN load_lock' : load_lock'[i] = load_lock'[j] => i = j
         /\ \A q \in Procs : InLine(q)' # {} <=> InLine(q) # {} /\ q # p
         /\ \A q \in Procs \ {p} : Holds(q) => Holds(q)'
<1>1. CASE InLine(p) = {}
  BY <1>1 DEF Release, InLine, Holds
<1>2. CASE InLine(p) # {}
  <2>1. PICK place \in InLine(p) :
          load_lock' = [i \in 1..(Len(load_lock) - 1) |-> load_lock[IF i < place THEN i ELSE i + 1]]
    BY <1>2 DEF Release
  <2>2. /\ place \in 1..Len(load_lock) /\ load_lock[place] = p /\ Len(load_lock) \in Nat
        /\ DOMAIN load_lock = 1..Len(load_lock)
    BY DEF InLine
  <2>3. /\ Len(load_lock') = Len(load_lock) - 1 /\ DOMAIN load_lock' = 1..(Len(load_lock) - 1)
        /\ load_lock' \in Seq(Procs)
    BY <2>1, <2>2
  <2>4. \A i \in 1..(Len(load_lock) - 1) :
          /\ i < place => load_lock'[i] = load_lock[i]
          /\ i >= place => load_lock'[i] = load_lock[i + 1]
    BY <2>1, <2>2
  <2>5. \A i, j \in DOMAIN load_lock' : load_lock'[i] = load_lock'[j] => i = j
    <3> SUFFICES ASSUME NEW i \in 1..(Len(load_lock) - 1), NEW j \in 1..(Len(load_lock) - 1),
                        load_lock'[i] = load_lock'[j]
                 PROVE  i = j
      BY <2>3
    <3>1. PICK a, b : /\ a = IF i < place THEN i ELSE i + 1
                      /\ b = IF j < place THEN j ELSE j + 1
      OBVIOUS
    <3>2. a \in DOMAIN load_lock /\ load_lock'[i] = load_lock[a]
      BY <2>2, <2>4, <3>1
    <3>3. b \in DOMAIN load_lock /\ load_lock'[j] = load_lock[b]
      BY <2>2, <2>4, <3>1
    <3>4. a = b
      BY <3>2, <3>3
    <3> QED
      BY <2>2, <3>1, <3>4
  <2>6. \A i \in DOMAIN load_lock : i # place =>
          \E j \in DOMAIN load_lock' : load_lock'[j] = load_lock[i]
    <3> SUFFICES ASSUME NEW i \in DOMAIN load_lock, i # place
                 PROVE  \E j \in DOMAIN load_lock' : load_lock'[j] = load_lock[i]
      OBVIOUS
    <3>1. CASE i < place
      BY <2>2, <2>3, <2>4, <3>1
    <3>2. CASE i > place
      <4>1. i - 1 \in 1..(Len(load_lock) - 1) /\ i - 1 >= place /\ (i - 1) + 1 = i
        BY <2>2, <3>2
      <4> QED
        BY <2>2, <2>3, <2>4, <4>1
    <3> QED
      BY <2>2, <3>1, <3>2
  <2>7. \A j \in DOMAIN load_lock' : \E i \in DOMAIN load_lock : i # place /\ load_lock'[j] = load_lock[i]
    BY <2>2, <2>3, <2>4
  <2>8. \A q \in Procs : InLine(q)' # {} <=> InLine(q) # {} /\ q # p
    BY <2>2, <2>6, <2>7 DEF InLine
  <2>9. ASSUME NEW q \in Procs \ {p}, Holds(q) PROVE Holds(q)'
    <3>1. 1 \in DOMAIN load_lock /\ load_lock[1] = q
      BY <2>2, <2>9 DEF Holds
    <3>2. place > 1 /\ Len(load_lock) > 1
      BY <2>2, <2>9, <3>1
    <3>3. load_lock'[1] = q /\ load_lock' # <<>>
      BY <2>2, <2>3, <2>4, <3>1, <3>2
    <3> QED
      BY <2>3, <3>3 DEF Holds
  <2> QED
    BY <2>3, <2>5, <2>8, <2>9
<1> QED
  BY <1>1, <1>2

(* Joining the line at its end.                                            *)
LEMMA AppendLine ==
  ASSUME load_lock \in Seq(Procs), NEW p \in Procs, InLine(p) = {},
         \A i, j \in DOMAIN load_lock : load_lock[i] = load_lock[j] => i = j,
         load_lock' = Append(load_lock, p)
  PROVE  /\ load_lock' \in Seq(Procs)
         /\ \A i, j \in DOMAIN load_lock' : load_lock'[i] = load_lock'[j] => i = j
         /\ \A q \in Procs : InLine(q)' # {} <=> InLine(q) # {} \/ q = p
         /\ \A q \in Procs : Holds(q) => Holds(q)'
<1>1. /\ DOMAIN load_lock = 1..Len(load_lock) /\ Len(load_lock) \in Nat
      /\ DOMAIN load_lock' = 1..(Len(load_lock) + 1) /\ load_lock' \in Seq(Procs)
      /\ \A i \in DOMAIN load_lock : load_lock'[i] = load_lock[i] /\ load_lock[i] # p
      /\ load_lock'[Len(load_lock) + 1] = p
  BY DEF InLine
<1>2. \A i, j \in DOMAIN load_lock' : load_lock'[i] = load_lock'[j] => i = j
  BY <1>1
<1>3. \A q \in Procs : InLine(q)' # {} <=> InLine(q) # {} \/ q = p
  BY <1>1 DEF InLine
<1>4. \A q \in Procs : Holds(q) => Holds(q)'
  BY <1>1 DEF Holds
<1> QED
  BY <1>1, <1>2, <1>3, <1>4

(* Growing old changes no source, and refreshes nothing.                   *)
LEMMA AgeFields ==
  ASSUME TypeOK, NEW c \in Codes, Age(c)
  PROVE  /\ disk' \in [Codes -> Files]
         /\ \A d \in Codes : /\ disk'[d].aff.from = disk[d].aff.from
                             /\ disk'[d].dic.from = disk[d].dic.from
                             /\ disk[d].aff.aged => disk'[d].aff.aged
                             /\ disk[d].dic.aged => disk'[d].dic.aged
<1>1. PICK f \in {"aff", "dic"} : disk' = [disk EXCEPT ![c][f].aged = TRUE]
  BY DEF Age, TypeOK, Files
<1>2. CASE f = "aff"
  <2>1. disk' = [disk EXCEPT ![c].aff.aged = TRUE]
    BY <1>1, <1>2
  <2>2. disk[c].aff \in File /\ disk[c] \in Files
    BY DEF TypeOK, Files
  <2>3. [disk[c].aff EXCEPT !.aged = TRUE] \in File
    BY <2>2 DEF File
  <2> QED
    BY <2>1, <2>2, <2>3 DEF TypeOK, Files, File
<1>3. CASE f = "dic"
  <2>1. disk' = [disk EXCEPT ![c].dic.aged = TRUE]
    BY <1>1, <1>3
  <2>2. disk[c].dic \in File /\ disk[c] \in Files
    BY DEF TypeOK, Files
  <2>3. [disk[c].dic EXCEPT !.aged = TRUE] \in File
    BY <2>2 DEF File
  <2> QED
    BY <2>1, <2>2, <2>3 DEF TypeOK, Files, File
<1> QED
  BY <1>1, <1>2, <1>3

TaskState == {Idle} \union Registering \union Loading \union Loaded

(* A step of one request moves that request.                               *)
LEMMA StandsFields ==
  ASSUME TypeOK, NEW p \in Procs, NEW s \in TaskState, Stands(p, s)
  PROVE  /\ task'[p] = s /\ \A q \in Procs \ {p} : task'[q] = task[q]
         /\ task' \in [Procs -> TaskState]
  BY DEF Stands, TypeOK, TaskState

(* The states the actions move a request to.                               *)
LEMMA WaitingState ==
  ASSUME NEW c \in Codes, NEW u \in Sources
  PROVE  Waiting(c, u) \in Loading /\ Waiting(c, u) \in TaskState
<1>1. 0 \in 0..(Attempts - 1)
  BY EngineRegistryAssumption
<1> QED
  BY <1>1 DEF Waiting, Loading, TaskState

(* The states a registration, a download or a load moves to have their     *)
(* type.                                                                   *)
LEMMA MovedStates ==
  ASSUME TypeOK, NEW p \in Procs
  PROVE  /\ task[p].op = "registered" =>
              LET s == [task[p] EXCEPT !.op = "selected", !.row = table[task[p].code]]
              IN /\ s \in TaskState /\ s.op = "selected" /\ s.code = task[p].code
                 /\ s.source = task[p].source /\ s.row = table[task[p].code]
         /\ task[p].op \in {"aff", "dic"} /\ task[p].attempt < LastAttempt =>
              LET s == [task[p] EXCEPT !.attempt = @ + 1]
              IN /\ s \in TaskState /\ s.op = task[p].op /\ s.code = task[p].code
                 /\ s.source = task[p].source /\ s.fetched = task[p].fetched
         /\ task[p].op = "write_dic" =>
              LET s == [At(p, "parse") EXCEPT !.fetched = TRUE]
              IN /\ s \in TaskState /\ s.op = "parse" /\ s.code = task[p].code
                 /\ s.source = task[p].source /\ s.fetched = TRUE
         /\ task[p].op = "parse" =>
              LET s == [op |-> "loaded", code |-> task[p].code, source |-> task[p].source,
                        fetched |-> task[p].fetched, engine |-> OnDisk(task[p].code)]
              IN  s \in TaskState
<1>1. ASSUME task[p].op = "registered"
      PROVE  LET s == [task[p] EXCEPT !.op = "selected", !.row = table[task[p].code]]
             IN /\ s \in TaskState /\ s.op = "selected" /\ s.code = task[p].code
                /\ s.source = task[p].source /\ s.row = table[task[p].code]
  <2>1. task[p] \in Registering /\ table[task[p].code] \in Sources
    BY <1>1, TaskShape DEF RegisterOps, TypeOK
  <2> QED
    BY <2>1 DEF Registering, TaskState
<1>2. ASSUME task[p].op \in {"aff", "dic"}, task[p].attempt < LastAttempt
      PROVE  LET s == [task[p] EXCEPT !.attempt = @ + 1]
             IN /\ s \in TaskState /\ s.op = task[p].op /\ s.code = task[p].code
                /\ s.source = task[p].source /\ s.fetched = task[p].fetched
  <2>1. task[p] \in Loading
    BY <1>2, TaskShape DEF FileOps
  <2>2. task[p].attempt + 1 \in 0..(Attempts - 1)
    BY <1>2, <2>1, EngineRegistryAssumption DEF Loading, LastAttempt
  <2> QED
    BY <2>1, <2>2 DEF Loading, TaskState
<1>3. ASSUME task[p].op = "write_dic"
      PROVE  LET s == [At(p, "parse") EXCEPT !.fetched = TRUE]
             IN /\ s \in TaskState /\ s.op = "parse" /\ s.code = task[p].code
                /\ s.source = task[p].source /\ s.fetched = TRUE
  <2>1. /\ At(p, "parse") \in Loading /\ At(p, "parse").op = "parse"
        /\ At(p, "parse").code = task[p].code /\ At(p, "parse").source = task[p].source
    BY <1>3, AtFields DEF FileOps
  <2> QED
    BY <2>1 DEF Loading, TaskState
<1>4. ASSUME task[p].op = "parse"
      PROVE  LET s == [op |-> "loaded", code |-> task[p].code, source |-> task[p].source,
                       fetched |-> task[p].fetched, engine |-> OnDisk(task[p].code)]
             IN  s \in TaskState
  <2>1. task[p] \in Loading
    BY <1>4, TaskShape DEF FileOps
  <2>2. OnDisk(task[p].code) \in Engine
    BY <2>1 DEF OnDisk, Engine, Loading, TypeOK, Files, File
  <2> QED
    BY <2>1, <2>2 DEF Loading, Loaded, TaskState
<1> QED
  BY <1>1, <1>2, <1>3, <1>4

(* What Cut and Stop add to the history: the languages whose registration  *)
(* or download they interrupt.                                             *)
LEMMA HistFields ==
  ASSUME TypeOK
  PROVE  /\ hist.skewed \subseteq Codes /\ hist.torn \subseteq Codes /\ hist.failed \subseteq Codes
         /\ \A p \in Procs : task[p].op # "idle" =>
              /\ Cut(p) \in [skewed: SUBSET Codes, torn: SUBSET Codes, failed: SUBSET Codes]
              /\ Cut(p).skewed = hist.skewed \union CodeIf(p, task[p].op \in {"registered", "selected"})
              /\ Cut(p).torn = hist.torn \union CodeIf(p, Tears(p))
              /\ Cut(p).failed = hist.failed \union CodeIf(p, task[p].source # NoUrl)
         /\ UNION {CodeIf(p, Tears(p)) : p \in Procs} \subseteq Codes
<1>1. hist.skewed \subseteq Codes /\ hist.torn \subseteq Codes /\ hist.failed \subseteq Codes
  BY DEF TypeOK
<1>2. ASSUME NEW p \in Procs, task[p].op # "idle", NEW yes PROVE CodeIf(p, yes) \subseteq Codes
  BY <1>2, TaskShape DEF CodeIf
<1>3. \A p \in Procs : task[p].op # "idle" =>
        /\ Cut(p) \in [skewed: SUBSET Codes, torn: SUBSET Codes, failed: SUBSET Codes]
        /\ Cut(p).skewed = hist.skewed \union CodeIf(p, task[p].op \in {"registered", "selected"})
        /\ Cut(p).torn = hist.torn \union CodeIf(p, Tears(p))
        /\ Cut(p).failed = hist.failed \union CodeIf(p, task[p].source # NoUrl)
  BY <1>1, <1>2 DEF Cut
<1>4. \A p \in Procs : CodeIf(p, Tears(p)) \subseteq Codes
  BY TaskShape DEF CodeIf, Tears
<1> QED
  BY <1>1, <1>3, <1>4

-----------------------------------------------------------------------------
(* What a call that ends, and a stop of the process, leave behind.         *)
LEMMA EndsTypes ==
  ASSUME TypeOK, OnceInLine, NEW p \in Procs, task[p].op # "idle", Ends(p)
  PROVE  TypeOK'
<1>1. load_lock' \in Seq(Procs)
  BY ReleaseLine DEF Ends, LockAfter, TypeOK, OnceInLine
<1>2. task' \in [Procs -> TaskState]
  BY StandsFields DEF Ends, TaskState
<1> QED
  BY <1>1, <1>2, HistFields DEF Ends, TypeOK, TaskState

(* The end of the process keeps the types.                                 *)
LEMMA StopTypes ==
  ASSUME TypeOK, Stop
  PROVE  TypeOK'
<1>1. hist' \in [skewed: SUBSET Codes, torn: SUBSET Codes, failed: SUBSET Codes]
  <2>1. hist.torn \union UNION {CodeIf(p, Tears(p)) : p \in Procs} \subseteq Codes
    BY HistFields
  <2> QED
    BY <2>1 DEF Stop, TypeOK
<1>2. NotLoaded \in Engine /\ NoUrl \in Sources
  BY DEF NotLoaded, Engine, Sources
<1> QED
  BY <1>1, <1>2 DEF Stop, TypeOK

(* Every step of a load keeps the types.                                   *)
LEMMA LoadTypes ==
  ASSUME TypeOK, OnceInLine, NEW p \in Procs, Load(p)
  PROVE  TypeOK'
<1>1. ASSUME Acquire(p) PROVE TypeOK'
  <2>1. At(p, "parse") \in TaskState /\ At(p, "aff") \in TaskState /\ Idle \in TaskState
    BY <1>1, AtFields DEF Acquire, FileOps, TaskState
  <2>2. \E st \in TaskState : Stands(p, st)
    BY <1>1, <2>1 DEF Acquire
  <2>3. load_lock' = load_lock \/ load_lock' = Release(p)
    BY <1>1 DEF Acquire
  <2>4. load_lock' \in Seq(Procs)
    BY <2>3, ReleaseLine DEF TypeOK, OnceInLine
  <2>5. task' \in [Procs -> TaskState]
    BY <2>2, StandsFields
  <2> QED
    BY <1>1, <2>4, <2>5 DEF Acquire, TypeOK, TaskState
<1>2. ASSUME Downloaded(p) PROVE TypeOK'
  <2>1. \E st \in TaskState : Stands(p, st)
    BY <1>2, AtFields DEF Downloaded, FileOps, TaskState
  <2> QED
    BY <1>2, <2>1, StandsFields DEF Downloaded, TypeOK, TaskState
<1>3. ASSUME Retry(p) PROVE TypeOK'
  BY <1>3, MovedStates, StandsFields DEF Retry, TypeOK, TaskState
<1>4. ASSUME WriteAff(p) \/ WriteDic(p) PROVE TypeOK'
  <2>1. task[p] \in Loading
    BY <1>4, TaskShape DEF WriteAff, WriteDic, FileOps
  <2>2. Written(base_url(task[p].source)) \in File
    BY <2>1, EngineRegistryAssumption DEF Written, base_url, File, Loading, Sources
  <2>3. disk' \in [Codes -> Files]
    BY <1>4, <2>1, <2>2 DEF WriteAff, WriteDic, Loading, Files, TypeOK
  <2>4. \E st \in TaskState : Stands(p, st)
    <3>1. CASE WriteAff(p)
      BY <3>1, AtFields DEF WriteAff, FileOps, TaskState
    <3>2. CASE WriteDic(p)
      BY <3>2, MovedStates DEF WriteDic
    <3> QED
      BY <1>4, <3>1, <3>2
  <2>5. task' \in [Procs -> TaskState]
    BY <2>4, StandsFields
  <2> QED
    BY <1>4, <2>3, <2>5 DEF WriteAff, WriteDic, TypeOK, TaskState
<1>5. ASSUME Insert(p) PROVE TypeOK'
  <2>1. task[p] \in Loading
    BY <1>5, TaskShape DEF Insert, FileOps
  <2>2. OnDisk(task[p].code) \in Engine
    BY <2>1 DEF OnDisk, Engine, Loading, TypeOK, Files, File
  <2>3. load_lock' \in Seq(Procs)
    BY <1>5, ReleaseLine DEF Insert, TypeOK, OnceInLine
  <2>4. task' \in [Procs -> TaskState]
    BY <1>5, MovedStates, StandsFields DEF Insert
  <2> QED
    BY <1>5, <2>2, <2>3, <2>4 DEF Insert, TypeOK, TaskState
<1>6. ASSUME Answer(p) PROVE TypeOK'
  <2>1. task' \in [Procs -> TaskState]
    BY <1>6, StandsFields DEF Answer, TaskState
  <2> QED
    BY <1>6, <2>1 DEF Answer, TypeOK, TaskState
<1> QED
  BY <1>1, <1>2, <1>3, <1>4, <1>5, <1>6 DEF Load

(* Every step keeps the types. A process that is released from the queue   *)
(* stands in it, so that OnceInLine is needed.                             *)
LEMMA TypeStep == TypeOK /\ OnceInLine /\ [Next]_vars => TypeOK'
<1> SUFFICES ASSUME TypeOK, OnceInLine, [Next]_vars PROVE TypeOK'
  OBVIOUS
<1> USE IdleShape
<1>2. ASSUME NEW t \in Procs, NEW c \in Codes, NEW u \in Sources,
             Stands(t, Waiting(c, u)), load_lock' = Append(load_lock, t)
      PROVE  task' \in [Procs -> TaskState] /\ load_lock' \in Seq(Procs)
  BY <1>2, WaitingState, StandsFields DEF TypeOK
<1>3. ASSUME NEW t \in Tasks, NEW c \in Codes, resolve_engine(t, c) PROVE TypeOK'
  BY <1>2, <1>3 DEF resolve_engine, TypeOK, TaskState, Procs, Sources
<1>4. ASSUME NEW t \in Tasks, NEW c \in Codes, NEW u \in Urls, RegisterUpsert(t, c, u) PROVE TypeOK'
  <2>1. [op |-> "registered", code |-> c, source |-> u, row |-> NoUrl] \in TaskState
    BY DEF TaskState, Registering, Sources
  <2>2. task' \in [Procs -> TaskState]
    BY <1>4, <2>1, StandsFields DEF RegisterUpsert, Procs
  <2>3. hist' \in [skewed: SUBSET Codes, torn: SUBSET Codes, failed: SUBSET Codes]
    BY <1>4 DEF RegisterUpsert, TypeOK
  <2> QED
    BY <1>4, <2>2, <2>3 DEF RegisterUpsert, TypeOK, TaskState, Sources
<1>5. ASSUME NEW t \in Tasks, RegisterSelect(t) PROVE TypeOK'
  <2>1. task' \in [Procs -> TaskState]
    BY <1>5, MovedStates, StandsFields DEF RegisterSelect, Procs
  <2> QED
    BY <1>5, <2>1 DEF RegisterSelect, TypeOK, TaskState
<1>6. ASSUME NEW t \in Tasks, RegisterCache(t) PROVE TypeOK'
  <2>1. task[t] \in Registering
    BY <1>6, TaskShape DEF RegisterCache, RegisterOps, Procs
  <2>2. task[t].code \in Codes /\ task[t].source \in Sources /\ task[t].row \in Sources
    BY <2>1 DEF Registering, Sources
  <2> QED
    BY <1>2, <1>6, <2>2 DEF RegisterCache, Remembered, TypeOK, TaskState, Procs
<1>7. ASSUME NEW t \in Tasks, Fail(t) \/ Leave(t) PROVE TypeOK'
  <2>1. task[t].op # "idle" /\ Ends(t)
    BY <1>7 DEF Fail, Leave, MayFail
  <2> QED
    BY <2>1, EndsTypes DEF Procs
<1>8. ASSUME NEW c \in Codes, Warm(c) PROVE TypeOK'
  BY <1>2, <1>8 DEF Warm, TypeOK, TaskState, Procs
<1>9. ASSUME NEW c \in Codes, Age(c) PROVE TypeOK'
  BY <1>9, AgeFields DEF Age, TypeOK
<1>10. ASSUME MainFails \/ Crash PROVE TypeOK'
  BY <1>10, StopTypes DEF MainFails, Crash
<1>11. ASSUME Start \/ Serve PROVE TypeOK'
  <2>1. hist' \in [skewed: SUBSET Codes, torn: SUBSET Codes, failed: SUBSET Codes]
    BY <1>11 DEF Start, Serve, TypeOK
  <2> QED
    BY <1>11, <2>1 DEF Start, Serve, TypeOK, ToWarm
<1>12. CASE UNCHANGED vars
  BY <1>12 DEF vars, TypeOK
<1> QED
  BY <1>3, <1>4, <1>5, <1>6, <1>7, <1>8, <1>9, <1>10, <1>11, <1>12, LoadTypes DEF Next

-----------------------------------------------------------------------------
(* A request moves on with its language and its source.                    *)
Others(p) == \A q \in Procs \ {p} : task'[q] = task[q]

Moves(p, op) ==
  /\ task'[p].op = op /\ task'[p].code = task[p].code /\ task'[p].source = task[p].source
  /\ Others(p)

Waits(p, c, u) ==
  /\ task'[p].op = "waiting" /\ task'[p].code = c /\ task'[p].source = u /\ ~task'[p].fetched
  /\ Others(p)

Rests(p) == task'[p] = Idle /\ task'[p].op = "idle" /\ Others(p)

(* What the steps of a load do to its own process, to the others and to    *)
(* the lock.                                                               *)
LEMMA LoadEffects ==
  ASSUME TypeOK, NEW p \in Procs
  PROVE  /\ Acquire(p) =>
              \/ FoundOnSecondLook(p) /\ Rests(p) /\ load_lock' = Release(p)
              \/ /\ ~FoundOnSecondLook(p) /\ load_lock' = load_lock
                 /\ Moves(p, IF is_fresh(task[p].code) THEN "parse" ELSE "aff")
                 /\ task'[p].fetched = task[p].fetched
         /\ Downloaded(p) => /\ Moves(p, IF task[p].op = "aff" THEN "dic" ELSE "write_aff")
                             /\ task'[p].fetched = task[p].fetched
         /\ Retry(p) => Moves(p, task[p].op) /\ task'[p].fetched = task[p].fetched
         /\ WriteAff(p) => Moves(p, "write_dic") /\ task'[p].fetched = task[p].fetched
         /\ WriteDic(p) => Moves(p, "parse") /\ task'[p].fetched
         /\ Insert(p) => /\ Moves(p, "loaded") /\ task'[p].fetched = task[p].fetched
                         /\ task'[p].engine = OnDisk(task[p].code)
         /\ Answer(p) => Rests(p)
<1> USE DEF Moves, Others
<1>1. Idle \in TaskState /\ Idle.op = "idle"
  BY DEF Idle, TaskState
<1>2. ASSUME Stands(p, Idle) PROVE Rests(p)
  BY <1>1, <1>2, StandsFields DEF Rests
<1>3. ASSUME task[p].op \in LineOps, NEW op \in LineOps, Stands(p, At(p, op))
      PROVE  Moves(p, op) /\ task'[p].fetched = task[p].fetched
  <2>1. /\ At(p, op) \in TaskState /\ At(p, op).op = op
        /\ At(p, op).code = task[p].code /\ At(p, op).source = task[p].source
        /\ At(p, op).fetched = task[p].fetched
    BY <1>3, AtFields DEF LineOps, TaskState
  <2> QED
    BY <1>3, <2>1, StandsFields
<1>4. Acquire(p) =>
              \/ FoundOnSecondLook(p) /\ Rests(p) /\ load_lock' = Release(p)
              \/ /\ ~FoundOnSecondLook(p) /\ load_lock' = load_lock
                 /\ Moves(p, IF is_fresh(task[p].code) THEN "parse" ELSE "aff")
                 /\ task'[p].fetched = task[p].fetched
  <2>1. Acquire(p) => task[p].op \in LineOps
    BY DEF Acquire, LineOps
  <2>2. "parse" \in LineOps /\ "aff" \in LineOps
    BY DEF LineOps, FileOps
  <2> QED
    BY <1>2, <1>3, <2>1, <2>2 DEF Acquire
<1>5. Downloaded(p) => /\ Moves(p, IF task[p].op = "aff" THEN "dic" ELSE "write_aff")
                       /\ task'[p].fetched = task[p].fetched
  BY <1>3 DEF Downloaded, LineOps, FileOps
<1>6. Retry(p) => Moves(p, task[p].op) /\ task'[p].fetched = task[p].fetched
  <2> SUFFICES ASSUME Retry(p)
               PROVE  Moves(p, task[p].op) /\ task'[p].fetched = task[p].fetched
    OBVIOUS
  <2>1. PICK s : s = [task[p] EXCEPT !.attempt = @ + 1]
    OBVIOUS
  <2>2. /\ s \in TaskState /\ s.op = task[p].op /\ s.code = task[p].code
        /\ s.source = task[p].source /\ s.fetched = task[p].fetched
    BY <2>1, MovedStates DEF Retry
  <2>3. Stands(p, s)
    BY <2>1 DEF Retry
  <2> QED
    BY <2>2, <2>3, StandsFields
<1>7. WriteAff(p) => Moves(p, "write_dic") /\ task'[p].fetched = task[p].fetched
  BY <1>3 DEF WriteAff, LineOps, FileOps
<1>8. WriteDic(p) => Moves(p, "parse") /\ task'[p].fetched
  <2> SUFFICES ASSUME WriteDic(p)
               PROVE  Moves(p, "parse") /\ task'[p].fetched
    OBVIOUS
  <2>1. PICK s : s = [At(p, "parse") EXCEPT !.fetched = TRUE]
    OBVIOUS
  <2>2. /\ s \in TaskState /\ s.op = "parse" /\ s.code = task[p].code
        /\ s.source = task[p].source /\ s.fetched = TRUE
    BY <2>1, MovedStates DEF WriteDic
  <2>3. Stands(p, s)
    BY <2>1 DEF WriteDic
  <2> QED
    BY <2>2, <2>3, StandsFields
<1>9. Insert(p) => /\ Moves(p, "loaded") /\ task'[p].fetched = task[p].fetched
                   /\ task'[p].engine = OnDisk(task[p].code)
  <2> SUFFICES ASSUME Insert(p)
               PROVE  /\ Moves(p, "loaded") /\ task'[p].fetched = task[p].fetched
                      /\ task'[p].engine = OnDisk(task[p].code)
    OBVIOUS
  <2>1. PICK s : /\ s = [op |-> "loaded", code |-> task[p].code, source |-> task[p].source,
                         fetched |-> task[p].fetched, engine |-> OnDisk(task[p].code)]
                 /\ s \in TaskState /\ Stands(p, s)
    BY MovedStates DEF Insert
  <2>2. task'[p] = s /\ Others(p)
    BY <2>1, StandsFields
  <2>3. /\ s.op = "loaded" /\ s.code = task[p].code /\ s.source = task[p].source
        /\ s.fetched = task[p].fetched /\ s.engine = OnDisk(task[p].code)
    BY <2>1
  <2> QED
    BY <2>2, <2>3
<1>10. Answer(p) => Rests(p)
  BY <1>2 DEF Answer
<1> QED
  BY <1>4, <1>5, <1>6, <1>7, <1>8, <1>9, <1>10

(* What the steps of a request and of a registration do.                   *)
LEMMA RequestEffects ==
  ASSUME TypeOK, NEW t \in Tasks
  PROVE  /\ \A c \in Codes : resolve_engine(t, c) => Waits(t, c, NoUrl)
         /\ \A c \in Codes, u \in Urls : RegisterUpsert(t, c, u) =>
              /\ task'[t].op = "registered" /\ task'[t].code = c /\ task'[t].source = u
              /\ Others(t)
         /\ RegisterSelect(t) => Moves(t, "selected") /\ task'[t].row = table[task[t].code]
         /\ RegisterCache(t) => /\ Waits(t, task[t].code, task[t].source)
                                /\ task[t].code \in Codes /\ task[t].source \in Urls
                                /\ task[t].row \in Sources
         /\ Fail(t) \/ Leave(t) => Ends(t) /\ task[t].op # "idle"
<1> USE DEF Moves, Others, Waits
<1>1. t \in Procs
  BY DEF Procs
<1>2. ASSUME NEW c \in Codes, NEW u \in Sources, Stands(t, Waiting(c, u)) PROVE Waits(t, c, u)
  <2>1. /\ Waiting(c, u).op = "waiting" /\ Waiting(c, u).code = c /\ Waiting(c, u).source = u
        /\ Waiting(c, u).fetched = FALSE
    BY DEF Waiting
  <2>2. Waiting(c, u) \in TaskState
    BY WaitingState
  <2>3. task'[t] = Waiting(c, u) /\ Others(t)
    BY <1>1, <1>2, <2>2, StandsFields
  <2> QED
    BY <2>1, <2>3
<1>3. \A c \in Codes : resolve_engine(t, c) => Waits(t, c, NoUrl)
  BY <1>2 DEF resolve_engine, Sources
<1>4. ASSUME NEW c \in Codes, NEW u \in Urls, RegisterUpsert(t, c, u)
      PROVE /\ task'[t].op = "registered" /\ task'[t].code = c /\ task'[t].source = u
            /\ Others(t)
  <2>1. [op |-> "registered", code |-> c, source |-> u, row |-> NoUrl] \in TaskState
    BY DEF TaskState, Registering, Sources
  <2> QED
    BY <1>1, <1>4, <2>1, StandsFields DEF RegisterUpsert
<1>5. RegisterSelect(t) => Moves(t, "selected") /\ task'[t].row = table[task[t].code]
  <2> SUFFICES ASSUME RegisterSelect(t)
               PROVE  Moves(t, "selected") /\ task'[t].row = table[task[t].code]
    OBVIOUS
  <2>1. PICK s : s = [task[t] EXCEPT !.op = "selected", !.row = table[task[t].code]]
    OBVIOUS
  <2>2. /\ s \in TaskState /\ s.op = "selected" /\ s.code = task[t].code
        /\ s.source = task[t].source /\ s.row = table[task[t].code]
    BY <1>1, <2>1, MovedStates DEF RegisterSelect
  <2>3. Stands(t, s)
    BY <2>1 DEF RegisterSelect
  <2> QED
    BY <1>1, <2>2, <2>3, StandsFields
<1>6. ASSUME RegisterCache(t)
      PROVE  /\ Waits(t, task[t].code, task[t].source)
             /\ task[t].code \in Codes /\ task[t].source \in Urls
             /\ task[t].row \in Sources
  <2>1. task[t] \in Registering
    BY <1>1, <1>6, TaskShape DEF RegisterCache, RegisterOps
  <2>2. task[t].code \in Codes /\ task[t].source \in Urls /\ task[t].row \in Sources
    BY <2>1 DEF Registering
  <2> QED
    BY <1>2, <1>6, <2>2 DEF RegisterCache, Sources
<1>7. Fail(t) \/ Leave(t) => Ends(t) /\ task[t].op # "idle"
  BY DEF Fail, Leave, MayFail
<1> QED
  BY <1>3, <1>4, <1>5, <1>6, <1>7

(* What an interruption, the warm-up and the end of the process do.        *)
LEMMA OtherEffects ==
  ASSUME TypeOK
  PROVE  /\ \A p \in Procs : Ends(p) => Rests(p) /\ load_lock' = Release(p)
         /\ \A c \in Codes : Warm(c) => Waits(Main, c, dictionaries[c]) /\ Main \in Procs
         /\ Stop => \A p \in Procs : task'[p] = Idle /\ task'[p].op = "idle"
<1> USE IdleShape
<1>1. ASSUME NEW c \in Codes, Warm(c) PROVE Waits(Main, c, dictionaries[c]) /\ Main \in Procs
  <2> DEFINE u == dictionaries[c]
  <2>1. u \in Sources /\ Main \in Procs
    BY DEF TypeOK, Procs
  <2>2. /\ Waiting(c, u).op = "waiting" /\ Waiting(c, u).code = c /\ Waiting(c, u).source = u
        /\ Waiting(c, u).fetched = FALSE
    BY DEF Waiting
  <2>3. Waiting(c, u) \in TaskState
    BY <2>1, WaitingState
  <2>4. task'[Main] = Waiting(c, u) /\ Others(Main)
    BY <1>1, <2>1, <2>3, StandsFields DEF Warm, Others
  <2> QED
    BY <2>1, <2>2, <2>4 DEF Waits
<1>2. \A p \in Procs : Ends(p) => Rests(p) /\ load_lock' = Release(p)
  BY StandsFields DEF Ends, LockAfter, Rests, Others, TaskState
<1>3. Stop => \A p \in Procs : task'[p] = Idle /\ task'[p].op = "idle"
  BY DEF Stop
<1> QED
  BY <1>1, <1>2, <1>3

(* A step of a load moves one process, which is not idle, through the      *)
(* steps of a load, and touches neither the table nor its cache.           *)
LEMMA LoadMoves ==
  ASSUME TypeOK, NEW p \in Procs, Load(p)
  PROVE  /\ task[p].op \in LineOps \union {"loaded"}
         /\ Others(p) /\ UNCHANGED <<table, dictionaries, phase, hist>>
         /\ \/ Rests(p) /\ (Answer(p) \/ FoundOnSecondLook(p))
            \/ /\ task'[p].op \in FileOps \union {"loaded"}
               /\ task'[p].code = task[p].code /\ task'[p].source = task[p].source
               /\ unwarmed' = unwarmed
<1> USE DEF LineOps, FileOps, Rests, Moves
<1>1. CASE Acquire(p)
  BY <1>1, LoadEffects DEF Acquire
<1>2. CASE Downloaded(p) \/ Retry(p)
  BY <1>2, LoadEffects DEF Downloaded, Retry
<1>3. CASE WriteAff(p) \/ WriteDic(p)
  BY <1>3, LoadEffects DEF WriteAff, WriteDic
<1>4. CASE Insert(p) \/ Answer(p)
  BY <1>4, LoadEffects DEF Insert, Answer
<1> QED
  BY <1>1, <1>2, <1>3, <1>4 DEF Load

(* Requests are in flight only while the server is up, and main loads only *)
(* while it warms.                                                         *)
LEMMA PhaseStep == TypeOK /\ PhaseInv /\ [Next]_vars => PhaseInv'
<1> SUFFICES ASSUME TypeOK, PhaseInv, [Next]_vars PROVE PhaseInv'
  OBVIOUS
<1> USE IdleShape, EngineRegistryAssumption DEF Procs
<1>1. /\ \A t \in Tasks : task[t].op # "idle" => phase = "up"
      /\ task[Main].op # "idle" => phase = "warming"
  BY DEF PhaseInv
<1>2. ASSUME NEW t \in Tasks, Others(t), phase = "up", phase' = "up",
             unwarmed' = unwarmed
      PROVE  PhaseInv'
  BY <1>2 DEF PhaseInv, Others
<1>3. ASSUME NEW t \in Tasks, NEW c \in Codes,
             resolve_engine(t, c) \/ \E u \in Urls : RegisterUpsert(t, c, u)
      PROVE  PhaseInv'
  <2>1. Others(t)
    BY <1>3, RequestEffects DEF Waits
  <2>2. phase = "up" /\ phase' = phase /\ unwarmed' = unwarmed
    BY <1>3 DEF resolve_engine, RegisterUpsert
  <2> QED
    BY <1>2, <2>1, <2>2
<1>4. ASSUME NEW t \in Tasks, RegisterSelect(t) \/ RegisterCache(t) PROVE PhaseInv'
  BY <1>1, <1>2, <1>4, RequestEffects DEF RegisterSelect, RegisterCache, Moves, Waits
<1>5. ASSUME NEW t \in Tasks, Fail(t) \/ Leave(t) PROVE PhaseInv'
  BY <1>1, <1>2, <1>5, RequestEffects, OtherEffects DEF Ends, Rests
<1>6. ASSUME NEW t \in Tasks, Load(t) PROVE PhaseInv'
  <2>1. phase = "up" /\ Others(t) /\ phase' = phase
    BY <1>1, <1>6, LoadMoves DEF LineOps, FileOps
  <2>2. unwarmed' = unwarmed
    BY <1>6 DEF Load, Acquire, Downloaded, Retry, WriteAff, WriteDic, Insert, Answer
  <2> QED
    BY <1>2, <2>1, <2>2
<1>7. ASSUME Load(Main) PROVE PhaseInv'
  <2>1. /\ phase = "warming" /\ Others(Main) /\ UNCHANGED <<phase, dictionaries>>
        /\ task[Main].op # "idle"
    BY <1>1, <1>7, LoadMoves DEF LineOps, FileOps
  <2>2. task'[Main].op # "idle" => task'[Main].source # NoUrl /\ task'[Main].op \notin RegisterOps
    BY <1>7, <2>1, LoadMoves DEF PhaseInv, Rests, FileOps, RegisterOps
  <2>3. unwarmed' \subseteq unwarmed
    BY <1>7 DEF Load, Acquire, Downloaded, Retry, WriteAff, WriteDic, Insert, Answer
  <2> QED
    BY <2>1, <2>2, <2>3 DEF PhaseInv, Others, RegisterOps
<1>8. ASSUME NEW c \in Codes, Warm(c) PROVE PhaseInv'
  BY <1>8, OtherEffects DEF Warm, Waits, Others, PhaseInv, RegisterOps
<1>9. ASSUME NEW c \in Codes, Age(c) PROVE PhaseInv'
  BY <1>9 DEF Age, PhaseInv
<1>10. ASSUME MainFails \/ Crash PROVE PhaseInv'
  BY <1>10, OtherEffects DEF MainFails, Crash, Stop, PhaseInv, RegisterOps
<1>11. ASSUME Start \/ Serve PROVE PhaseInv'
  BY <1>11 DEF Start, Serve, ToWarm, PhaseInv, RegisterOps
<1>12. CASE UNCHANGED vars
  BY <1>12 DEF vars, PhaseInv
<1> QED
  BY <1>3, <1>4, <1>5, <1>6, <1>7, <1>8, <1>9, <1>10, <1>11, <1>12 DEF Next

(* The line is kept by every step: who joins, who leaves, who stays.       *)
LEMMA LineStep == TypeOK /\ PhaseInv /\ LineInv /\ [Next]_vars => LineInv'
<1> SUFFICES ASSUME TypeOK, PhaseInv, LineInv, [Next]_vars PROVE LineInv'
  OBVIOUS
<1> USE IdleShape, EngineRegistryAssumption DEF Procs, LineOps, FileOps
<1>1. ASSUME NEW p \in Procs, NEW c, NEW u, task[p].op \notin LineOps, Waits(p, c, u),
             load_lock' = Append(load_lock, p)
      PROVE  LineInv'
  <2>1. InLine(p) = {}
    BY <1>1 DEF LineInv
  <2>2. /\ OnceInLine'
        /\ \A q \in Procs : InLine(q)' # {} <=> InLine(q) # {} \/ q = p
        /\ \A q \in Procs : Holds(q) => Holds(q)'
    BY <1>1, <2>1, AppendLine DEF TypeOK, LineInv, OnceInLine
  <2> QED
    BY <1>1, <2>2 DEF Waits, Others, LineInv
<1>2. ASSUME NEW p \in Procs, task'[p].op \notin LineOps, Others(p), load_lock' = Release(p)
      PROVE  LineInv'
  <2>1. /\ OnceInLine'
        /\ \A q \in Procs : InLine(q)' # {} <=> InLine(q) # {} /\ q # p
        /\ \A q \in Procs \ {p} : Holds(q) => Holds(q)'
    BY <1>2, ReleaseLine DEF TypeOK, LineInv, OnceInLine
  <2> QED
    BY <1>2, <2>1 DEF Others, LineInv
<1>3. ASSUME NEW p \in Procs, task'[p].op \in LineOps <=> task[p].op \in LineOps,
             task'[p].op \in FileOps => Holds(p), Others(p), load_lock' = load_lock
      PROVE  LineInv'
  BY <1>3 DEF Others, LineInv, OnceInLine, InLine, Holds
<1>4. ASSUME NEW t \in Tasks, NEW c \in Codes, resolve_engine(t, c) PROVE LineInv'
  BY <1>1, <1>4, RequestEffects DEF resolve_engine
<1>5. ASSUME NEW t \in Tasks, NEW c \in Codes, NEW u \in Urls, RegisterUpsert(t, c, u) PROVE LineInv'
  <2>1. task[t].op = "idle" /\ task'[t].op = "registered" /\ Others(t) /\ load_lock' = load_lock
    BY <1>5, RequestEffects DEF RegisterUpsert
  <2> QED
    BY <1>3, <2>1
<1>6. ASSUME NEW t \in Tasks, RegisterSelect(t) PROVE LineInv'
  <2>1. task[t].op = "registered" /\ task'[t].op = "selected" /\ Others(t) /\ load_lock' = load_lock
    BY <1>6, RequestEffects DEF RegisterSelect, Moves
  <2> QED
    BY <1>3, <2>1
<1>7. ASSUME NEW t \in Tasks, RegisterCache(t) PROVE LineInv'
  <2>1. task[t].op = "selected" /\ Waits(t, task[t].code, task[t].source) /\ load_lock' = Append(load_lock, t)
    BY <1>7, RequestEffects DEF RegisterCache
  <2> QED
    BY <1>1, <2>1
<1>8. ASSUME NEW t \in Tasks, Fail(t) \/ Leave(t) PROVE LineInv'
  BY <1>2, <1>8, RequestEffects, OtherEffects DEF Rests
<1>9. ASSUME NEW c \in Codes, Warm(c) PROVE LineInv'
  BY <1>1, <1>9, OtherEffects DEF Warm
<1>10. ASSUME NEW p \in Procs, Load(p) PROVE LineInv'
  <2>1. CASE Acquire(p)
    <3>1. CASE FoundOnSecondLook(p)
      BY <1>2, <2>1, <3>1, LoadEffects DEF Rests
    <3>2. CASE ~FoundOnSecondLook(p)
      <4>1. task[p].op = "waiting" /\ Holds(p) /\ load_lock' = load_lock /\ Others(p)
            /\ task'[p].op \in {"parse", "aff"}
        BY <2>1, <3>2, LoadEffects DEF Acquire, Moves
      <4> QED
        BY <1>3, <4>1
    <3> QED
      BY <3>1, <3>2
  <2>2. CASE Downloaded(p) \/ Retry(p) \/ WriteAff(p) \/ WriteDic(p)
    <3>1. task[p].op \in FileOps /\ task'[p].op \in FileOps /\ Others(p) /\ load_lock' = load_lock
      BY <2>2, LoadEffects DEF Moves, Downloaded, Retry, WriteAff, WriteDic
    <3> QED
      BY <1>3, <3>1 DEF LineInv
  <2>3. CASE Insert(p)
    BY <1>2, <2>3, LoadEffects DEF Insert, Moves
  <2>4. CASE Answer(p)
    <3>1. task[p].op = "loaded" /\ task'[p].op = "idle" /\ Others(p) /\ load_lock' = load_lock
      BY <2>4, LoadEffects DEF Answer, Rests
    <3> QED
      BY <1>3, <3>1
  <2> QED
    BY <1>10, <2>1, <2>2, <2>3, <2>4 DEF Load
<1>11. ASSUME MainFails \/ Crash PROVE LineInv'
  <2>1. Stop
    BY <1>11 DEF MainFails, Crash
  <2>2. (\A p \in Procs : task'[p].op = "idle") /\ load_lock' = <<>>
    BY <2>1, OtherEffects DEF Stop
  <2> QED
    BY <2>2 DEF LineInv, InLine, OnceInLine
<1>12. ASSUME \/ \E c \in Codes : Age(c)
              \/ Start \/ Serve \/ UNCHANGED vars
       PROVE LineInv'
  <2>1. task' = task /\ load_lock' = load_lock
    BY <1>12 DEF Age, Start, Serve, vars
  <2> QED
    BY <2>1 DEF LineInv, InLine, OnceInLine, Holds
<1> QED
  BY <1>4, <1>5, <1>6, <1>7, <1>8, <1>9, <1>10, <1>11, <1>12 DEF Next

-----------------------------------------------------------------------------
(* The head of the line is one process.                                    *)
LEMMA OneHolder ==
  ASSUME LineInv, NEW p \in Procs, NEW q \in Procs, task[p].op \in FileOps, task[q].op \in FileOps
  PROVE  p = q
  BY DEF LineInv, Holds

(* Nobody works on the files of a language for a miss once it is loaded:   *)
(* only the holder of the lock inserts, and only waiting requests look a   *)
(* second time.                                                            *)
LEMMA MissStep == TypeOK /\ PhaseInv /\ LineInv /\ OneLoadPerMiss /\ [Next]_vars => OneLoadPerMiss'
<1> SUFFICES ASSUME TypeOK, PhaseInv, LineInv, OneLoadPerMiss, [Next]_vars,
                    NEW p \in Procs, task'[p].op \in FileOps, task'[p].source = NoUrl
             PROVE  engines'[task'[p].code] = NotLoaded
  BY DEF OneLoadPerMiss, FileOps
<1> USE IdleShape, EngineRegistryAssumption DEF Procs
<1>1. ASSUME task[p].op \in FileOps, task'[p].code = task[p].code, task'[p].source = task[p].source,
             engines' = engines
      PROVE  engines'[task'[p].code] = NotLoaded
  BY <1>1 DEF OneLoadPerMiss, FileOps
<1>2. ASSUME NEW q \in Procs, Load(q) PROVE engines'[task'[p].code] = NotLoaded
  <2>1. CASE p = q
    <3>1. CASE Acquire(q)
      <4>1. /\ ~FoundOnSecondLook(p) /\ task'[p].code = task[p].code /\ task'[p].source = task[p].source
            /\ engines' = engines
        BY <2>1, <3>1, LoadEffects DEF Rests, Moves, Acquire, FileOps
      <4> QED
        BY <4>1 DEF FoundOnSecondLook
    <3>2. CASE Downloaded(q) \/ Retry(q) \/ WriteAff(q) \/ WriteDic(q)
      <4>1. /\ task[p].op \in FileOps /\ task'[p].code = task[p].code /\ task'[p].source = task[p].source
            /\ engines' = engines
        BY <2>1, <3>2, LoadEffects DEF Moves, Downloaded, Retry, WriteAff, WriteDic, FileOps
      <4> QED
        BY <1>1, <4>1
    <3>3. ~Insert(q) /\ ~Answer(q)
      BY <2>1, LoadEffects DEF Moves, Rests, FileOps
    <3> QED
      BY <1>2, <3>1, <3>2, <3>3 DEF Load
  <2>2. CASE p # q
    <3>1. task'[p] = task[p]
      BY <1>2, <2>2, LoadMoves DEF Others
    <3>2. ~Insert(q)
      BY <2>2, <3>1, OneHolder DEF Insert, FileOps
    <3>3. engines' = engines
      BY <1>2, <3>2 DEF Load, Acquire, Downloaded, Retry, WriteAff, WriteDic, Answer
    <3> QED
      BY <1>1, <3>1, <3>3
  <2> QED
    BY <2>1, <2>2
<1>3. ASSUME NEW q \in Procs, Others(q), task'[q].op \notin FileOps, engines' = engines
      PROVE  engines'[task'[p].code] = NotLoaded
  BY <1>1, <1>3 DEF Others
<1>4. ASSUME NEW t \in Tasks, NEW c \in Codes,
             resolve_engine(t, c) \/ \E u \in Urls : RegisterUpsert(t, c, u)
      PROVE  engines'[task'[p].code] = NotLoaded
  <2>1. Others(t) /\ task'[t].op \in {"waiting", "registered"}
    BY <1>4, RequestEffects DEF Waits
  <2>2. engines' = engines
    BY <1>4 DEF resolve_engine, RegisterUpsert
  <2> QED
    BY <1>3, <2>1, <2>2 DEF FileOps
<1>5. ASSUME NEW t \in Tasks, RegisterSelect(t) \/ RegisterCache(t) \/ Fail(t) \/ Leave(t)
      PROVE  engines'[task'[p].code] = NotLoaded
  <2>1. Others(t) /\ task'[t].op \in {"waiting", "selected", "idle"}
    BY <1>5, RequestEffects, OtherEffects DEF Waits, Moves, Rests
  <2>2. engines' = engines
    BY <1>5 DEF RegisterSelect, RegisterCache, Fail, Leave, Ends
  <2> QED
    BY <1>3, <2>1, <2>2 DEF FileOps
<1>6. ASSUME NEW c \in Codes, Warm(c) PROVE engines'[task'[p].code] = NotLoaded
  BY <1>3, <1>6, OtherEffects DEF Warm, Waits, FileOps
<1>7. ~MainFails /\ ~Crash
  BY OtherEffects DEF MainFails, Crash, FileOps
<1>8. ASSUME \/ \E c \in Codes : Age(c)
             \/ Start \/ Serve \/ UNCHANGED vars
      PROVE  engines'[task'[p].code] = NotLoaded
  <2>1. task' = task /\ engines' = engines
    BY <1>8 DEF Age, Start, Serve, vars
  <2> QED
    BY <1>1, <2>1
<1> QED
  BY <1>2, <1>4, <1>5, <1>6, <1>7, <1>8 DEF Next

-----------------------------------------------------------------------------
(* A step that leaves files and engines alone, of a process that is not    *)
(* between its two writes.                                                 *)
LEMMA QuietStep ==
  ASSUME FileInv, PairInv, NEW q \in Procs, UNCHANGED <<disk, engines, hist>>, Others(q),
         task[q].op # "write_dic", FileHolds(q)'
  PROVE  FileInv' /\ PairInv'
<1>1. ASSUME NEW p \in Procs PROVE FileHolds(p)'
  <2>1. CASE p = q
    BY <2>1
  <2>2. CASE p # q
    <3>1. task'[p] = task[p] /\ FileHolds(p)
      BY <2>2 DEF Others, FileInv
    <3> QED
      BY <3>1 DEF FileHolds, Present, Paired, Known
  <2> QED
    BY <2>1, <2>2
<1>2. ASSUME NEW c \in Codes PROVE PairHolds(c)'
  <2>1. PairHolds(c)
    BY DEF PairInv
  <2>2. BetweenWrites(c) => BetweenWrites(c)'
    BY DEF BetweenWrites, Others
  <2> QED
    BY <2>1, <2>2 DEF PairHolds, Present, Paired, is_fresh
<1> QED
  BY <1>1, <1>2 DEF FileInv, PairInv

(* A load asks a real URL, and the registered one when there is one.       *)
LEMMA SourceUrl ==
  ASSUME NEW u \in Sources
  PROVE  base_url(u) \in Urls /\ base_url(u) # NoUrl /\ (u # NoUrl => base_url(u) = u)
  BY EngineRegistryAssumption DEF base_url, Sources

(* Looking at the files, and downloading new ones.                         *)
LEMMA LookQuiet ==
  ASSUME TypeOK, LineInv, FileInv, PairInv, NEW q \in Procs,
         Acquire(q) \/ Downloaded(q) \/ Retry(q) \/ Answer(q)
  PROVE  FileInv' /\ PairInv'
<1>1. Others(q) /\ UNCHANGED <<disk, engines, hist>>
  BY LoadEffects DEF Acquire, Downloaded, Retry, Answer, Moves, Rests
<1>2. task[q].op # "write_dic" /\ FileHolds(q)
  BY DEF Acquire, Downloaded, Retry, Answer, FileInv
<1>3. FileHolds(q)'
  <2>1. CASE task'[q].op = "idle"
    BY <2>1 DEF FileHolds, LineOps, FileOps
  <2>2. CASE task'[q].op \in {"aff", "dic", "write_aff"}
    <3>1. task[q].op \in {"waiting", "aff", "dic"} /\ task'[q].fetched = task[q].fetched
      BY <2>2, LoadEffects DEF Acquire, Downloaded, Retry, Moves, Rests
    <3>2. ~task'[q].fetched
      BY <1>2, <3>1 DEF FileHolds, LineOps, FileOps
    <3> QED
      BY <2>2, <3>2 DEF FileHolds
  <2>3. CASE task'[q].op = "parse"
    <3>1. /\ Acquire(q) /\ is_fresh(task[q].code) /\ task'[q].code = task[q].code
          /\ task[q].op = "waiting" /\ Holds(q) /\ task'[q].fetched = task[q].fetched
      BY <2>3, LoadEffects DEF Acquire, Downloaded, Retry, Answer, Moves, Rests
    <3>2. task[q].code \in Codes /\ ~task[q].fetched
      BY <1>2, <3>1, TaskShape DEF FileHolds, LineOps, FileOps
    <3>3. ~BetweenWrites(task[q].code)
      BY <3>1 DEF BetweenWrites, LineInv, FileOps, Holds
    <3>4. Present(task[q].code) /\ Paired(task[q].code)
      BY <3>1, <3>2, <3>3 DEF PairInv, PairHolds, Present, is_fresh
    <3>5. Present(task[q].code)' /\ Paired(task[q].code)'
      BY <1>1, <3>1, <3>4 DEF Present, Paired
    <3>6. ~task'[q].fetched
      BY <3>1, <3>2
    <3> QED
      BY <2>3, <3>1, <3>5, <3>6 DEF FileHolds, LineOps
  <2>4. task'[q].op \in {"idle", "aff", "dic", "write_aff", "parse"}
    BY LoadEffects DEF Acquire, Downloaded, Retry, Answer, Moves, Rests
  <2> QED
    BY <2>1, <2>2, <2>3, <2>4
<1> QED
  BY <1>1, <1>2, <1>3, QuietStep

(* The .aff is written: from here to the .dic the pair is torn.            *)
LEMMA WriteAffKeeps ==
  ASSUME TypeOK, LineInv, FileInv, PairInv, NEW q \in Procs, WriteAff(q)
  PROVE  FileInv' /\ PairInv'
<1> DEFINE c == task[q].code
           u == base_url(task[q].source)
<1>1. /\ c \in Codes /\ u # NoUrl /\ task[q].op = "write_aff"
      /\ task'[q].op = "write_dic" /\ task'[q].code = c /\ task'[q].source = task[q].source
      /\ Others(q) /\ task'[q].fetched = task[q].fetched /\ UNCHANGED <<engines, hist>>
  BY TaskShape, SourceUrl, LoadEffects DEF WriteAff, Moves
<1>2. /\ disk'[c].aff.from = u /\ disk'[c].dic = disk[c].dic
      /\ \A d \in Codes \ {c} : disk'[d] = disk[d]
  BY <1>1 DEF WriteAff, Written, TypeOK
<1>3. ASSUME NEW p \in Procs PROVE FileHolds(p)'
  <2>1. FileHolds(p) /\ FileHolds(q)
    BY DEF FileInv
  <2>2. CASE p = q
    BY <1>1, <1>2, <2>1, <2>2 DEF FileHolds, LineOps, FileOps, base_url
  <2>3. CASE p # q
    <3>1. task'[p] = task[p] /\ task[p].op \notin FileOps
      BY <1>1, <2>3, OneHolder DEF Others, FileOps
    <3> QED
      BY <1>1, <2>1, <3>1 DEF FileHolds, LineOps, FileOps
  <2> QED
    BY <2>2, <2>3
<1>4. ASSUME NEW d \in Codes PROVE PairHolds(d)'
  <2>1. PairHolds(d)
    BY DEF PairInv
  <2>2. CASE d = c
    <3>1. BetweenWrites(d)'
      BY <1>1, <2>2 DEF BetweenWrites
    <3> QED
      BY <1>1, <1>2, <2>1, <2>2, <3>1 DEF PairHolds, Present
  <2>3. CASE d # c
    <3>1. BetweenWrites(d) => BetweenWrites(d)'
      BY <1>1 DEF BetweenWrites, Others
    <3> QED
      BY <1>1, <1>2, <2>1, <2>3, <3>1 DEF PairHolds, Present, Paired, is_fresh
  <2> QED
    BY <2>2, <2>3
<1> QED
  BY <1>3, <1>4 DEF FileInv, PairInv

(* The .dic is written from the same source, under the same lock.          *)
LEMMA WriteDicKeeps ==
  ASSUME TypeOK, LineInv, FileInv, PairInv, NEW q \in Procs, WriteDic(q)
  PROVE  FileInv' /\ PairInv'
<1> DEFINE c == task[q].code
           u == base_url(task[q].source)
<1>1. /\ c \in Codes /\ u # NoUrl /\ task[q].op = "write_dic"
      /\ task'[q].op = "parse" /\ task'[q].code = c /\ task'[q].source = task[q].source
      /\ Others(q) /\ UNCHANGED <<engines, hist>>
  BY TaskShape, SourceUrl, LoadEffects DEF WriteDic, Moves
<1>2. disk[c].aff.from = u
  BY <1>1 DEF FileInv, FileHolds
<1>3. /\ disk'[c].aff.from = u /\ disk'[c].dic.from = u
      /\ \A d \in Codes \ {c} : disk'[d] = disk[d]
  BY <1>1, <1>2 DEF WriteDic, Written, TypeOK
<1>4. ASSUME NEW p \in Procs PROVE FileHolds(p)'
  <2>1. FileHolds(p)
    BY DEF FileInv
  <2>2. CASE p = q
    <3>1. Present(c)' /\ Paired(c)' /\ Known(q)'
      BY <1>1, <1>3 DEF Present, Paired, Known, base_url
    <3> QED
      BY <1>1, <2>2, <3>1 DEF FileHolds, LineOps, FileOps, Present, Paired
  <2>3. CASE p # q
    <3>1. task'[p] = task[p] /\ task[p].op \notin FileOps
      BY <1>1, <2>3, OneHolder DEF Others, FileOps
    <3> QED
      BY <1>1, <2>1, <3>1 DEF FileHolds, LineOps, FileOps
  <2> QED
    BY <2>2, <2>3
<1>5. ASSUME NEW d \in Codes PROVE PairHolds(d)'
  <2>1. PairHolds(d)
    BY DEF PairInv
  <2>2. CASE d = c
    BY <1>1, <1>3, <2>1, <2>2 DEF PairHolds, Present, Paired
  <2>3. CASE d # c
    <3>1. BetweenWrites(d) => BetweenWrites(d)'
      BY <1>1, <2>3 DEF BetweenWrites, Others
    <3> QED
      BY <1>1, <1>3, <2>1, <2>3, <3>1 DEF PairHolds, Present, Paired, is_fresh
  <2> QED
    BY <2>2, <2>3
<1> QED
  BY <1>4, <1>5 DEF FileInv, PairInv

(* The engine is built from the pair on disk.                              *)
LEMMA InsertKeeps ==
  ASSUME TypeOK, LineInv, FileInv, PairInv, NEW q \in Procs, Insert(q)
  PROVE  FileInv' /\ PairInv'
<1>1. /\ task[q].code \in Codes /\ task[q].op = "parse"
      /\ task'[q].op = "loaded" /\ task'[q].code = task[q].code /\ task'[q].source = task[q].source
      /\ task'[q].fetched = task[q].fetched /\ task'[q].engine = OnDisk(task[q].code)
      /\ Others(q) /\ UNCHANGED <<disk, hist>>
  BY TaskShape, LoadEffects DEF Insert, Moves
<1>2. /\ Present(task[q].code) /\ Paired(task[q].code)
      /\ task[q].fetched => Known(q)
  BY <1>1 DEF FileInv, FileHolds
<1>3. /\ engines'[task[q].code] = OnDisk(task[q].code)
      /\ \A d \in Codes \ {task[q].code} : engines'[d] = engines[d]
  BY <1>1 DEF Insert, TypeOK
<1>4. OnDisk(task[q].code) # NotLoaded
  BY <1>2 DEF OnDisk, NotLoaded, Present
<1>5. ASSUME NEW p \in Procs PROVE FileHolds(p)'
  <2>1. FileHolds(p)
    BY DEF FileInv
  <2>2. CASE p = q
    <3>1. OnDisk(task[q].code).aff = disk[task[q].code].aff.from
          /\ OnDisk(task[q].code).dic = disk[task[q].code].dic.from
      BY DEF OnDisk
    <3> QED
      BY <1>1, <1>2, <1>3, <1>4, <2>2, <3>1 DEF FileHolds, LineOps, FileOps, Known, base_url
  <2>3. CASE p # q
    <3>1. task'[p] = task[p] /\ task[p].op \notin FileOps
      BY <1>1, <2>3, OneHolder DEF Others, FileOps
    <3>2. task[p].op = "loaded" => task[p].code \in Codes
      BY TaskShape
    <3>3. task[p].op = "loaded" => engines'[task[p].code] # NotLoaded
      BY <1>3, <1>4, <2>1, <3>2 DEF FileHolds
    <3> QED
      BY <2>1, <3>1, <3>3 DEF FileHolds, LineOps, FileOps, base_url
  <2> QED
    BY <2>2, <2>3
<1>6. ASSUME NEW d \in Codes PROVE PairHolds(d)'
  <2>1. PairHolds(d)
    BY DEF PairInv
  <2>2. BetweenWrites(d) => BetweenWrites(d)'
    BY <1>1 DEF BetweenWrites, Others
  <2>3. engines'[d] # NotLoaded => Present(d)
    BY <1>2, <1>3, <2>1 DEF PairHolds
  <2>4. d \in hist.torn \/ engines'[d].aff = engines'[d].dic
    BY <1>2, <1>3, <2>1 DEF PairHolds, Paired, OnDisk
  <2> QED
    BY <1>1, <2>1, <2>2, <2>3, <2>4 DEF PairHolds, Present, Paired, is_fresh
<1> QED
  BY <1>5, <1>6 DEF FileInv, PairInv

(* A call that ends between its two writes tears the pair, unless the old  *)
(* .dic is one that is_fresh() does not let through.                       *)
LEMMA EndsKeeps ==
  ASSUME TypeOK, FileInv, PairInv, NEW q \in Procs, task[q].op # "idle", Ends(q)
  PROVE  FileInv' /\ PairInv'
<1>1. /\ Rests(q) /\ UNCHANGED <<disk, engines>>
      /\ hist'.torn = hist.torn \union CodeIf(q, Tears(q))
  BY OtherEffects, HistFields DEF Ends
<1>2. ASSUME NEW p \in Procs PROVE FileHolds(p)'
  <2>1. FileHolds(p)
    BY DEF FileInv
  <2>2. CASE p = q
    BY <1>1, <2>2 DEF Rests, FileHolds, LineOps, FileOps
  <2>3. CASE p # q
    <3>1. task'[p] = task[p]
      BY <1>1, <2>3 DEF Rests, Others
    <3> QED
      BY <1>1, <2>1, <3>1 DEF FileHolds, Present, Paired, Known
  <2> QED
    BY <2>2, <2>3
<1>3. ASSUME NEW d \in Codes PROVE PairHolds(d)'
  <2>1. PairHolds(d)
    BY DEF PairInv
  <2>2. CASE task[q].op = "write_dic" /\ task[q].code = d
    <3>1. is_fresh(d) => Tears(q)
      BY <2>2 DEF is_fresh, Tears
    <3>2. is_fresh(d) => d \in hist'.torn
      BY <1>1, <2>2, <3>1 DEF CodeIf
    <3> QED
      BY <1>1, <2>1, <3>2 DEF PairHolds, Present, Paired, is_fresh
  <2>3. CASE ~(task[q].op = "write_dic" /\ task[q].code = d)
    <3>1. BetweenWrites(d) => BetweenWrites(d)'
      BY <1>1, <2>3 DEF BetweenWrites, Rests, Others
    <3> QED
      BY <1>1, <2>1, <3>1 DEF PairHolds, Present, Paired, is_fresh
  <2> QED
    BY <2>2, <2>3
<1> QED
  BY <1>2, <1>3 DEF FileInv, PairInv

(* A restart forgets the engines and may tear what a download had half     *)
(* written.                                                                *)
LEMMA StopKeeps ==
  ASSUME TypeOK, FileInv, PairInv, Stop
  PROVE  FileInv' /\ PairInv'
<1>1. /\ \A p \in Procs : task'[p].op = "idle"
      /\ \A c \in Codes : engines'[c] = NotLoaded
      /\ disk' = disk
      /\ hist'.torn = hist.torn \union UNION {CodeIf(p, Tears(p)) : p \in Procs}
  BY OtherEffects DEF Stop, TypeOK
<1>2. FileInv'
  BY <1>1 DEF FileInv, FileHolds, LineOps, FileOps
<1>3. ASSUME NEW d \in Codes, is_fresh(d) PROVE Paired(d)'
  <2>1. CASE Paired(d)
    BY <1>1, <2>1 DEF Paired
  <2>2. CASE BetweenWrites(d)
    <3>1. PICK p \in Procs : task[p].op = "write_dic" /\ task[p].code = d
      BY <2>2 DEF BetweenWrites
    <3>2. d \in CodeIf(p, Tears(p))
      BY <1>3, <3>1 DEF is_fresh, Tears, CodeIf
    <3>3. d \in UNION {CodeIf(r, Tears(r)) : r \in Procs}
      BY <3>2
    <3> QED
      BY <1>1, <3>3 DEF Paired
  <2> QED
    BY <1>3, <2>1, <2>2 DEF PairInv, PairHolds
<1>4. PairInv'
  BY <1>1, <1>3 DEF PairInv, PairHolds, NotLoaded, is_fresh
<1> QED
  BY <1>2, <1>4

(* A file that ages can only become stale.                                 *)
LEMMA AgeKeeps ==
  ASSUME TypeOK, FileInv, PairInv, NEW c \in Codes, Age(c)
  PROVE  FileInv' /\ PairInv'
<1>1. /\ UNCHANGED <<task, engines, hist>>
      /\ \A d \in Codes : /\ disk'[d].aff.from = disk[d].aff.from
                          /\ disk'[d].dic.from = disk[d].dic.from
                          /\ is_fresh(d)' => is_fresh(d)
  BY AgeFields DEF Age, is_fresh
<1>2. ASSUME NEW p \in Procs PROVE FileHolds(p)'
  <2>1. FileHolds(p) /\ (task[p].op # "idle" => task[p].code \in Codes)
    BY TaskShape DEF FileInv
  <2>2. task[p].op = "idle" => FileHolds(p)'
    BY <1>1 DEF FileHolds, LineOps, FileOps
  <2> QED
    BY <1>1, <2>1, <2>2 DEF FileHolds, Present, Paired, Known
<1>3. ASSUME NEW d \in Codes PROVE PairHolds(d)'
  BY <1>1 DEF PairInv, PairHolds, Present, Paired, BetweenWrites
<1> QED
  BY <1>2, <1>3 DEF FileInv, PairInv

(* Every step keeps what is known of files and pairs.                      *)
LEMMA FileStep ==
  TypeOK /\ PhaseInv /\ LineInv /\ FileInv /\ PairInv /\ [Next]_vars => FileInv' /\ PairInv'
<1> SUFFICES ASSUME TypeOK, PhaseInv, LineInv, FileInv, PairInv, [Next]_vars
             PROVE  FileInv' /\ PairInv'
  OBVIOUS
<1> USE IdleShape, EngineRegistryAssumption DEF Procs
<1>1. ASSUME NEW p \in Procs, Load(p) PROVE FileInv' /\ PairInv'
  BY <1>1, LookQuiet, WriteAffKeeps, WriteDicKeeps, InsertKeeps DEF Load
<1>2. ASSUME NEW q \in Procs, UNCHANGED <<disk, engines, hist>>, Others(q),
             task[q].op \in {"idle", "registered", "selected"},
             \/ task'[q].op \in {"registered", "selected"}
             \/ task'[q].op = "waiting" /\ ~task'[q].fetched
      PROVE  FileInv' /\ PairInv'
  <2>1. FileHolds(q)'
    BY <1>2 DEF FileHolds, LineOps, FileOps
  <2> QED
    BY <1>2, <2>1, QuietStep
<1>3. ASSUME NEW t \in Tasks, NEW c \in Codes, resolve_engine(t, c) PROVE FileInv' /\ PairInv'
  BY <1>2, <1>3, RequestEffects DEF resolve_engine, Waits
<1>4. ASSUME NEW t \in Tasks, NEW c \in Codes, NEW u \in Urls, RegisterUpsert(t, c, u)
      PROVE  FileInv' /\ PairInv'
  <2>1. /\ Others(t) /\ task[t].op = "idle" /\ task'[t].op = "registered"
        /\ UNCHANGED <<disk, engines>> /\ hist' = [hist EXCEPT !.skewed = hist'.skewed]
    BY <1>4, RequestEffects DEF RegisterUpsert, TypeOK
  <2>2. hist'.torn = hist.torn
    BY <2>1 DEF TypeOK
  <2>3. ASSUME NEW p \in Procs PROVE FileHolds(p)'
    <3>1. CASE p = t
      BY <2>1, <3>1 DEF FileHolds, LineOps, FileOps
    <3>2. CASE p # t
      <4>1. task'[p] = task[p] /\ FileHolds(p)
        BY <2>1, <3>2 DEF Others, FileInv
      <4> QED
        BY <2>1, <2>2, <4>1 DEF FileHolds, Present, Paired, Known
    <3> QED
      BY <3>1, <3>2
  <2>4. ASSUME NEW d \in Codes PROVE PairHolds(d)'
    <3>1. PairHolds(d)
      BY DEF PairInv
    <3>2. BetweenWrites(d) => BetweenWrites(d)'
      BY <2>1 DEF BetweenWrites, Others
    <3> QED
      BY <2>1, <2>2, <3>1, <3>2 DEF PairHolds, Present, Paired, is_fresh
  <2> QED
    BY <2>3, <2>4 DEF FileInv, PairInv
<1>5. ASSUME NEW t \in Tasks, RegisterSelect(t) \/ RegisterCache(t) PROVE FileInv' /\ PairInv'
  BY <1>2, <1>5, RequestEffects DEF RegisterSelect, RegisterCache, Waits, Moves
<1>6. ASSUME NEW t \in Tasks, Fail(t) \/ Leave(t) PROVE FileInv' /\ PairInv'
  BY <1>6, RequestEffects, EndsKeeps
<1>7. ASSUME NEW c \in Codes, Warm(c) PROVE FileInv' /\ PairInv'
  BY <1>2, <1>7, OtherEffects DEF Warm, Waits
<1>8. ASSUME NEW c \in Codes, Age(c) PROVE FileInv' /\ PairInv'
  BY <1>8, AgeKeeps
<1>9. ASSUME MainFails \/ Crash PROVE FileInv' /\ PairInv'
  BY <1>9, StopKeeps DEF MainFails, Crash
<1>10. ASSUME Start \/ Serve \/ UNCHANGED vars PROVE FileInv' /\ PairInv'
  <2>1. UNCHANGED <<task, disk, engines>> /\ hist'.torn = hist.torn
    BY <1>10 DEF Start, Serve, vars, TypeOK
  <2> QED
    BY <2>1 DEF FileInv, FileHolds, PairInv, PairHolds, Present, Paired, Known, is_fresh, BetweenWrites
<1> QED
  BY <1>1, <1>3, <1>4, <1>5, <1>6, <1>7, <1>8, <1>9, <1>10 DEF Next

-----------------------------------------------------------------------------
(* A step that is no step of a registration of the language.               *)
LEMMA SourceQuiet ==
  ASSUME NEW c \in Codes, SourceHolds(c), NEW q \in Procs, Others(q),
         task[q].op \notin RegisterOps \/ task[q].code # c,
         task'[q].op \notin RegisterOps \/ task'[q].code # c,
         table'[c] = table[c], dictionaries'[c] = dictionaries[c]
  PROVE  SourceHolds(c)'
<1>1. /\ \A t \in Tasks : Registers(t, c)' <=> Registers(t, c)
      /\ \A t \in Tasks : Registers(t, c) => task'[t] = task[t]
  BY DEF Registers, RegisterOps, Others, Procs
<1>2. \A t \in Tasks : Overlaps(t, c)' <=> Overlaps(t, c)
  BY <1>1 DEF Overlaps
<1> QED
  BY <1>1, <1>2 DEF SourceHolds

(* While one registration of a language is in flight, the table holds its  *)
(* source; it reads that back and puts it in the cache.                    *)
LEMMA SourceStep == TypeOK /\ PhaseInv /\ SourceInv /\ [Next]_vars => SourceInv'
<1> SUFFICES ASSUME TypeOK, PhaseInv, SourceInv, [Next]_vars, phase' # "down",
                    NEW c \in Codes, c \notin hist'.skewed
             PROVE  SourceHolds(c)'
  BY DEF SourceInv
<1> USE IdleShape, EngineRegistryAssumption DEF Procs
<1>1. ASSUME phase # "down", c \notin hist.skewed PROVE SourceHolds(c)
  BY <1>1 DEF SourceInv
<1>2. /\ \A t \in Tasks : task[t].op # "idle" => phase = "up"
      /\ task[Main].op # "idle" => phase = "warming"
  BY DEF PhaseInv
<1>3. ASSUME NEW p \in Procs, Load(p) PROVE SourceHolds(c)'
  <2>1. /\ task[p].op \notin RegisterOps /\ task'[p].op \notin RegisterOps /\ task[p].op # "idle"
        /\ Others(p) /\ UNCHANGED <<table, dictionaries, phase, hist>>
    BY <1>3, LoadMoves DEF LineOps, FileOps, RegisterOps, Rests
  <2>2. SourceHolds(c)
    BY <1>1, <2>1
  <2> QED
    BY <2>1, <2>2, SourceQuiet
<1>4. ASSUME NEW t \in Tasks, NEW d \in Codes, resolve_engine(t, d) PROVE SourceHolds(c)'
  <2>1. /\ task[t].op = "idle" /\ task'[t].op = "waiting" /\ Others(t)
        /\ UNCHANGED <<table, dictionaries, phase, hist>> /\ phase = "up"
    BY <1>4, RequestEffects DEF resolve_engine, Waits
  <2> QED
    BY <1>1, <2>1, SourceQuiet DEF RegisterOps
<1>5. ASSUME NEW t \in Tasks, NEW d \in Codes, NEW u \in Urls, RegisterUpsert(t, d, u)
      PROVE  SourceHolds(c)'
  <2>1. /\ task[t].op = "idle" /\ task'[t].op = "registered" /\ task'[t].code = d
        /\ task'[t].source = u /\ Others(t) /\ phase = "up" /\ phase' = "up"
        /\ dictionaries' = dictionaries /\ table' = [table EXCEPT ![d] = u]
    <3>1. /\ task'[t].op = "registered" /\ task'[t].code = d /\ task'[t].source = u
          /\ Others(t)
      BY <1>5, RequestEffects
    <3>2. /\ task[t].op = "idle" /\ phase = "up" /\ phase' = "up"
          /\ dictionaries' = dictionaries /\ table' = [table EXCEPT ![d] = u]
      BY <1>5 DEF RegisterUpsert
    <3> QED
      BY <3>1, <3>2
  <2>5. hist'.skewed = hist.skewed \union {e \in {d} : Overlaps(t, e)}
    BY <1>5 DEF RegisterUpsert, TypeOK
  <2>2. SourceHolds(c)
    BY <1>1, <2>1, <2>5
  <2>3. CASE c = d
    <3>1. ~Overlaps(t, c)
      BY <2>3, <2>5
    <3>2. /\ \A r \in Tasks \ {t} : ~Registers(r, c)'
          /\ Registers(t, c)' /\ ~Overlaps(t, c)'
      BY <2>1, <2>3, <3>1 DEF Overlaps, Registers, Others
    <3>3. table'[c] = u
      BY <2>1, <2>3 DEF TypeOK
    <3> QED
      BY <2>1, <3>2, <3>3 DEF SourceHolds
  <2>4. CASE c # d
    <3>1. table'[c] = table[c]
      BY <2>1, <2>4 DEF TypeOK
    <3> QED
      BY <2>1, <2>2, <2>4, <3>1, SourceQuiet DEF RegisterOps
  <2> QED
    BY <2>3, <2>4
<1>6. ASSUME NEW t \in Tasks, RegisterSelect(t) PROVE SourceHolds(c)'
  <2>1. /\ task[t].op = "registered" /\ task'[t].op = "selected" /\ task'[t].code = task[t].code
        /\ task'[t].source = task[t].source /\ task'[t].row = table[task[t].code]
        /\ Others(t) /\ UNCHANGED <<table, dictionaries, phase, hist>>
    BY <1>6, RequestEffects DEF RegisterSelect, Moves
  <2>2. SourceHolds(c)
    BY <1>1, <1>2, <2>1
  <2>3. CASE task[t].code = c
    <3>1. /\ \A r \in Tasks : Registers(r, c)' <=> Registers(r, c)
          /\ \A r \in Tasks : Overlaps(r, c)' <=> Overlaps(r, c)
      BY <2>1 DEF Registers, Overlaps, Others
    <3> QED
      BY <2>1, <2>2, <2>3, <3>1 DEF SourceHolds, Others
  <2>4. CASE task[t].code # c
    BY <2>1, <2>2, <2>4, SourceQuiet
  <2> QED
    BY <2>3, <2>4
<1>7. ASSUME NEW t \in Tasks, RegisterCache(t) PROVE SourceHolds(c)'
  <2>1. /\ task[t].op = "selected" /\ task'[t].op = "waiting" /\ task[t].code \in Codes
        /\ dictionaries' = [dictionaries EXCEPT ![task[t].code] = task[t].row]
        /\ Others(t) /\ UNCHANGED <<table, phase, hist>>
    BY <1>7, RequestEffects DEF RegisterCache, Remembered, Waits
  <2>2. SourceHolds(c)
    BY <1>1, <1>2, <2>1
  <2>3. CASE task[t].code = c
    <3>1. Registers(t, c)
      BY <2>1, <2>3 DEF Registers
    <3>2. task[t].row = table[c] /\ ~Overlaps(t, c)
      BY <2>1, <2>2, <3>1 DEF SourceHolds
    <3>3. \A r \in Tasks : ~Registers(r, c)'
      BY <2>1, <3>2 DEF Registers, Overlaps, Others
    <3>4. dictionaries'[c] = table'[c]
      BY <2>1, <2>3, <3>2 DEF TypeOK
    <3> QED
      BY <3>3, <3>4 DEF SourceHolds
  <2>4. CASE task[t].code # c
    <3>1. dictionaries'[c] = dictionaries[c]
      BY <2>1, <2>4 DEF TypeOK
    <3> QED
      BY <2>1, <2>2, <2>4, <3>1, SourceQuiet DEF RegisterOps
  <2> QED
    BY <2>3, <2>4
<1>8. ASSUME NEW t \in Tasks, Fail(t) \/ Leave(t) PROVE SourceHolds(c)'
  <2>1. /\ task[t].op # "idle" /\ task'[t].op = "idle" /\ Others(t)
        /\ UNCHANGED <<table, dictionaries, phase>>
        /\ hist'.skewed = hist.skewed \union CodeIf(t, task[t].op \in {"registered", "selected"})
    BY <1>8, RequestEffects, OtherEffects, HistFields DEF Ends, Rests
  <2>2. SourceHolds(c)
    BY <1>1, <1>2, <2>1
  <2>3. task[t].op \notin RegisterOps \/ task[t].code # c
    BY <2>1 DEF CodeIf, RegisterOps
  <2> QED
    BY <2>1, <2>2, <2>3, SourceQuiet DEF RegisterOps
<1>9. ASSUME NEW d \in Codes, Warm(d) PROVE SourceHolds(c)'
  <2>1. /\ task[Main].op = "idle" /\ task'[Main].op = "waiting" /\ Others(Main)
        /\ UNCHANGED <<table, dictionaries, phase, hist>> /\ phase = "warming"
    BY <1>9, OtherEffects DEF Warm, Waits
  <2> QED
    BY <1>1, <2>1, SourceQuiet DEF RegisterOps
<1>10. ~MainFails /\ ~Crash
  BY DEF MainFails, Crash, Stop
<1>11. ASSUME Start PROVE SourceHolds(c)'
  <2>1. /\ \A t \in Tasks : task'[t].op = "idle"
        /\ dictionaries' = table /\ table' = table
    BY <1>11 DEF Start, PhaseInv
  <2> QED
    BY <2>1 DEF SourceHolds, Registers
<1>12. ASSUME \/ \E d \in Codes : Age(d)
              \/ Serve \/ UNCHANGED vars
       PROVE  SourceHolds(c)'
  <2>1. UNCHANGED <<task, table, dictionaries, hist>> /\ phase # "down"
    BY <1>12 DEF Age, Serve, vars
  <2>2. SourceHolds(c)
    BY <1>1, <2>1
  <2> QED
    BY <2>1, <2>2 DEF SourceHolds, Registers, Overlaps
<1> QED
  BY <1>3, <1>4, <1>5, <1>6, <1>7, <1>8, <1>9, <1>10, <1>11, <1>12 DEF Next

(* A language with a source and no engine has somebody who loads it.       *)
LEMMA WarmStep ==
  TypeOK /\ PhaseInv /\ FileInv /\ WarmInv /\ [Next]_vars => WarmInv'
<1> SUFFICES ASSUME TypeOK, PhaseInv, FileInv, WarmInv, [Next]_vars, NEW c \in Codes,
                    c \notin hist'.failed, dictionaries'[c] # NoUrl, engines'[c] = NotLoaded
             PROVE  c \in unwarmed' \/ \E t \in Tasks : Loads(t, c)'
  BY DEF WarmInv, WarmHolds
<1> USE IdleShape, EngineRegistryAssumption DEF Procs
<1>1. ASSUME hist'.failed = hist.failed \/ hist.failed \subseteq hist'.failed,
             dictionaries'[c] = dictionaries[c], engines' = engines
      PROVE  c \in unwarmed \/ \E t \in Tasks : Loads(t, c)
  BY <1>1 DEF WarmInv, WarmHolds
<1>2. ASSUME NEW q \in Procs, Others(q), hist.failed \subseteq hist'.failed,
             dictionaries'[c] = dictionaries[c], engines' = engines, unwarmed' = unwarmed,
             Loads(q, c) => Loads(q, c)'
      PROVE  c \in unwarmed' \/ \E t \in Tasks : Loads(t, c)'
  BY <1>1, <1>2 DEF Loads, Others
<1>3. ASSUME NEW p \in Procs, Load(p) PROVE c \in unwarmed' \/ \E t \in Tasks : Loads(t, c)'
  <2>1. Others(p) /\ dictionaries' = dictionaries /\ hist' = hist
    BY <1>3, LoadMoves
  <2>2. CASE Answer(p)
    <3>1. engines' = engines /\ task[p].op = "loaded" /\ engines[task[p].code] # NotLoaded
      BY <2>2 DEF Answer, FileInv, FileHolds
    <3>2. task[p].code # c
      BY <3>1
    <3>3. c \in unwarmed => c \in unwarmed'
      BY <2>2, <3>2 DEF Answer
    <3>4. c \in unwarmed \/ \E t \in Tasks : Loads(t, c)
      BY <1>1, <2>1, <3>1
    <3> QED
      BY <2>1, <3>2, <3>3, <3>4 DEF Loads, Others
  <2>3. CASE Insert(p)
    <3>1. engines[c] = NotLoaded /\ task[p].code # c
      <4>1. /\ task[p].op = "parse" /\ task[p].code \in Codes
            /\ engines' = [engines EXCEPT ![task[p].code] = OnDisk(task[p].code)]
        BY <2>3, TaskShape DEF Insert
      <4>2. OnDisk(task[p].code) # NotLoaded
        BY <4>1 DEF FileInv, FileHolds, Present, OnDisk, NotLoaded
      <4> QED
        BY <4>1, <4>2 DEF TypeOK
    <3>2. c \in unwarmed \/ \E t \in Tasks : Loads(t, c)
      BY <2>1, <3>1 DEF WarmInv, WarmHolds
    <3>3. unwarmed' = unwarmed
      BY <2>3 DEF Insert
    <3> QED
      BY <2>1, <3>1, <3>2, <3>3 DEF Loads, Others
  <2>4. CASE Acquire(p) \/ Downloaded(p) \/ Retry(p) \/ WriteAff(p) \/ WriteDic(p)
    <3>1. engines' = engines /\ unwarmed' = unwarmed
      BY <2>4 DEF Acquire, Downloaded, Retry, WriteAff, WriteDic
    <3>2. Loads(p, c) => Loads(p, c)'
      <4>1. Loads(p, c) => ~FoundOnSecondLook(p)
        BY DEF Loads, FoundOnSecondLook
      <4>2. ~Answer(p)
        BY <2>4 DEF Answer, Acquire, Downloaded, Retry, WriteAff, WriteDic
      <4> QED
        BY <1>3, <4>1, <4>2, LoadMoves DEF Loads, FileOps
    <3> QED
      BY <1>2, <2>1, <3>1, <3>2
  <2> QED
    BY <1>3, <2>2, <2>3, <2>4 DEF Load
<1>4. ASSUME NEW t \in Tasks, NEW d \in Codes,
             resolve_engine(t, d) \/ \E u \in Urls : RegisterUpsert(t, d, u)
      PROVE  c \in unwarmed' \/ \E r \in Tasks : Loads(r, c)'
  <2>1. Others(t) /\ ~Loads(t, c)
    <3>1. Others(t)
      BY <1>4, RequestEffects DEF Waits
    <3>2. task[t].op = "idle"
      BY <1>4 DEF resolve_engine, RegisterUpsert
    <3> QED
      BY <3>1, <3>2 DEF Loads
  <2>2. dictionaries' = dictionaries /\ engines' = engines /\ unwarmed' = unwarmed
    BY <1>4 DEF resolve_engine, RegisterUpsert
  <2>3. hist'.failed = hist.failed
    BY <1>4 DEF resolve_engine, RegisterUpsert, TypeOK
  <2> QED
    BY <1>2, <2>1, <2>2, <2>3
<1>5. ASSUME NEW t \in Tasks, RegisterSelect(t) PROVE c \in unwarmed' \/ \E r \in Tasks : Loads(r, c)'
  <2>1. Others(t) /\ (Loads(t, c) => Loads(t, c)')
    BY <1>5, RequestEffects DEF Moves, Loads
  <2> QED
    BY <1>2, <1>5, <2>1 DEF RegisterSelect
<1>6. ASSUME NEW t \in Tasks, RegisterCache(t) PROVE c \in unwarmed' \/ \E r \in Tasks : Loads(r, c)'
  <2>1. /\ task'[t].op = "waiting" /\ task'[t].code = task[t].code /\ task'[t].source = task[t].source
        /\ task[t].source # NoUrl /\ Others(t) /\ UNCHANGED <<engines, unwarmed, hist>>
        /\ dictionaries' = [dictionaries EXCEPT ![task[t].code] = task[t].row]
    BY <1>6, RequestEffects DEF RegisterCache, Remembered, Waits
  <2>2. CASE task[t].code = c
    BY <2>1, <2>2 DEF Loads
  <2>3. CASE task[t].code # c
    <3>1. dictionaries'[c] = dictionaries[c] /\ ~Loads(t, c)
      BY <2>1, <2>3 DEF TypeOK, Loads
    <3> QED
      BY <1>2, <2>1, <3>1
  <2> QED
    BY <2>2, <2>3
<1>7. ASSUME NEW t \in Tasks, Fail(t) \/ Leave(t) PROVE c \in unwarmed' \/ \E r \in Tasks : Loads(r, c)'
  <2>1. /\ Others(t) /\ UNCHANGED <<dictionaries, engines, unwarmed>>
        /\ hist'.failed = hist.failed \union CodeIf(t, task[t].source # NoUrl)
    BY <1>7, RequestEffects, OtherEffects, HistFields DEF Ends, Rests
  <2>2. ~Loads(t, c)
    BY <2>1 DEF Loads, CodeIf
  <2> QED
    BY <1>2, <2>1, <2>2
<1>8. ASSUME NEW d \in Codes, Warm(d) PROVE c \in unwarmed' \/ \E t \in Tasks : Loads(t, c)'
  <2>1. /\ Others(Main) /\ UNCHANGED <<dictionaries, engines, unwarmed, hist>>
        /\ ~Loads(Main, c)
    BY <1>8, OtherEffects DEF Warm, Waits, Loads
  <2> QED
    BY <1>2, <2>1
<1>9. ~MainFails /\ ~Crash
  BY DEF MainFails, Crash, Stop
<1>10. ASSUME Start PROVE c \in unwarmed'
  BY <1>10 DEF Start, ToWarm
<1>11. ASSUME \/ \E d \in Codes : Age(d)
              \/ Serve \/ UNCHANGED vars
       PROVE  c \in unwarmed' \/ \E t \in Tasks : Loads(t, c)'
  <2>1. UNCHANGED <<task, dictionaries, engines, unwarmed, hist>>
    BY <1>11 DEF Age, Serve, vars
  <2> QED
    BY <1>1, <2>1 DEF Loads
<1> QED
  BY <1>3, <1>4, <1>5, <1>6, <1>7, <1>8, <1>9, <1>10, <1>11 DEF Next

-----------------------------------------------------------------------------
EngineInv == PhaseInv /\ LineInv /\ FileInv /\ PairInv /\ SourceInv /\ WarmInv

(* The invariant holds in every reachable state.                           *)
LEMMA EngineInvariant == Spec => [](TypeOK /\ EngineInv /\ OneLoadPerMiss)
<1> USE IdleShape, EngineRegistryAssumption
<1>1. Init => TypeOK
  BY DEF Init, TypeOK, Sources, Files, File, Absent, Engine, NotLoaded
<1>2. Init => PhaseInv /\ LineInv
  BY DEF Init, PhaseInv, LineInv, OnceInLine, InLine, Procs, RegisterOps, LineOps, FileOps
<1>3. Init => FileInv /\ PairInv /\ OneLoadPerMiss
  BY DEF Init, FileInv, FileHolds, PairInv, PairHolds, OneLoadPerMiss, LineOps, FileOps,
         is_fresh, NotLoaded, Absent
<1>4. Init => SourceInv /\ WarmInv
  BY DEF Init, SourceInv, WarmInv, WarmHolds
<1>5. TypeOK /\ EngineInv /\ OneLoadPerMiss /\ [Next]_vars => (TypeOK /\ EngineInv /\ OneLoadPerMiss)'
  <2>1. LineInv => OnceInLine
    BY DEF LineInv
  <2> QED
    BY <2>1, TypeStep, PhaseStep, LineStep, FileStep, MissStep, SourceStep, WarmStep DEF EngineInv
<1> QED
  BY <1>1, <1>2, <1>3, <1>4, <1>5, PTL DEF Spec, EngineInv

(* The registry, the files, the table and every request keep their types.  *)
THEOREM EngineTypeCorrect == Spec => []TypeOK
  BY EngineInvariant, PTL

(* Two misses of one language load it once.                                *)
THEOREM MissesLoadOnce == Spec => []OneLoadPerMiss
  BY EngineInvariant, PTL

(* An engine is built from two files of one source, unless a download of   *)
(* the language once ended between its two writes over a fresh .dic.       *)
THEOREM EnginePairsMatch == Spec => []PairsMatchUntorn
<1>1. EngineInv => PairsMatchUntorn
  BY DEF EngineInv, PairInv, PairHolds, PairsMatchUntorn
<1> QED
  BY <1>1, EngineInvariant, PTL

(* A load that downloaded its files built its engine from them.            *)
THEOREM DownloadsReachEngines == Spec => []DownloadsAreLoaded
<1>1. TypeOK /\ EngineInv => DownloadsAreLoaded
  <2> SUFFICES ASSUME TypeOK, EngineInv, NEW p \in Procs, task[p].op = "loaded", task[p].fetched
               PROVE  /\ task[p].engine.aff = task[p].engine.dic
                      /\ task[p].source # NoUrl => task[p].engine.aff = task[p].source
    BY DEF DownloadsAreLoaded
  <2>1. /\ task[p].engine.aff = base_url(task[p].source)
        /\ task[p].engine.dic = base_url(task[p].source)
    BY DEF EngineInv, FileInv, FileHolds
  <2> QED
    BY <2>1 DEF base_url
<1> QED
  BY <1>1, EngineInvariant, PTL

(* With no registration of a language in flight, the cache of sources has  *)
(* the table's row, unless two overlapped or one was cut.                  *)
THEOREM CachedSourcesFollowTable == Spec => []SourcesFollowTable
<1>1. EngineInv => SourcesFollowTable
  BY DEF EngineInv, SourceInv, SourceHolds, SourcesFollowTable
<1> QED
  BY <1>1, EngineInvariant, PTL

(* A language a serving process knows a source of has an engine, unless a  *)
(* registration of it failed, was cut or is under way.                     *)
THEOREM RegisteredLanguagesLoaded == Spec => []RegisteredIsLoaded
<1>1. EngineInv => RegisteredIsLoaded
  BY DEF EngineInv, PhaseInv, WarmInv, WarmHolds, Loads, RegisteredIsLoaded
<1> QED
  BY <1>1, EngineInvariant, PTL

(* GET /languages lists what the server answers from memory as cached, and *)
(* nothing as registered alone that it could answer from memory.           *)
THEOREM ListingIsUsable == Spec => []ListingFollowsEngines
<1>1. EngineInv => ListingFollowsEngines
  <2> SUFFICES ASSUME EngineInv, phase = "up" PROVE ListingFollowsEngines
    BY DEF ListingFollowsEngines
  <2>1. ASSUME NEW c \in Codes, engines[c] # NotLoaded PROVE \E l \in list_languages : l.code = c /\ l.cached
    <3>1. c \in list_cached_languages
      BY <2>1 DEF EngineInv, PairInv, PairHolds, Present, list_cached_languages
    <3> DEFINE l == [code |-> c, cached |-> c \in list_cached_languages,
                     registered |-> c \in list_dictionaries]
    <3>2. l \in list_languages /\ l.code = c /\ l.cached
      BY <3>1 DEF list_languages
    <3> QED
      BY <3>2
  <2>2. ASSUME NEW l \in list_languages, l.registered, ~l.cached
        PROVE  \/ l.code \in hist.failed
               \/ \E t \in Tasks : task[t].op # "idle" /\ task[t].code = l.code /\ task[t].source # NoUrl
    <3>1. /\ l.code \in Codes /\ dictionaries[l.code] # NoUrl /\ l.code \notin list_cached_languages
      <4>1. PICK c \in list_cached_languages \union list_dictionaries :
              l = [code |-> c, cached |-> c \in list_cached_languages, registered |-> c \in list_dictionaries]
        BY DEF list_languages
      <4>2. l.code = c /\ c \notin list_cached_languages /\ c \in list_dictionaries
        BY <2>2, <4>1
      <4> QED
        BY <4>2 DEF list_dictionaries
    <3>2. engines[l.code] = NotLoaded
      BY <3>1 DEF EngineInv, PairInv, PairHolds, Present, list_cached_languages
    <3>3. l.code \notin unwarmed
      BY DEF EngineInv, PhaseInv
    <3> QED
      BY <3>1, <3>2, <3>3 DEF EngineInv, WarmInv, WarmHolds, Loads
  <2> QED
    BY <2>1, <2>2 DEF ListingFollowsEngines
<1> QED
  BY <1>1, EngineInvariant, PTL
==============================================================================
