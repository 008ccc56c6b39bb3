------------------------------ MODULE KeyStore ------------------------------
(***************************************************************************)
(* API keys: the RwLock cache `keys` (by key_hash) of src/src/store.rs,    *)
(* the table api_keys, the calls of the server on them (create_key,        *)
(* revoke_key, rotate_key, authenticate), the start of the server (open)   *)
(* and the offline command reset-platform-key (cli.rs, open_for_cli,       *)
(* reset_bootstrap_platform_key), a process of its own with a cache of its *)
(* own on the same table.                                                  *)
(*                                                                         *)
(* Grain.  A critical section under the RwLock is one step, a statement    *)
(* sent to the pool is one step.  A raw key and its hash are one value.    *)
(* Left out: the expiry of a key, which every reader compares with the     *)
(* clock and no call changes, and last_used_at, which no decision reads.   *)
(***************************************************************************)
CONSTANTS
  TenantKeys,  \* ids of keys made through the API, for one tenant
  BootKeys,    \* ids of platform keys labelled "bootstrap"
  Hashes,      \* values generate_raw_key() may return, through hash_key
  None,        \* no id, no hash
  Calls,       \* requests that may be in flight together
  Clis,        \* runs of reset-platform-key that may overlap
  Faults       \* what may go wrong: "fail", "cancel", "crash"

Ids == TenantKeys \union BootKeys

ASSUME KeyStoreAssumption ==
  /\ TenantKeys \intersect BootKeys = {}
  /\ None \notin Ids \union Hashes
  /\ Faults \subseteq {"fail", "cancel", "crash"}

VARIABLES
  rows,      \* the table: the hash in force for each id, and revoked_at
  cache,     \* Store.keys: what each hash stands for in the server's memory
  phase,     \* the server process: "down", "boot" (in Store::open), "up"
  boot,      \* the bootstrap key open made and main has not printed yet
  poisoned,  \* a thread panicked while it held the cache for writing
  call,      \* where each request stands at its await
  cli,       \* where each reset-platform-key stands
  book,      \* history: what the holders of keys were told, who raced whom
  overlapped \* history: rotations in flight that another rotation of the same
             \* key overlapped

vars == <<rows, cache, phase, boot, poisoned, call, cli, book, overlapped>>

NoRow == [hash |-> None, revoked |-> FALSE]

Row == [hash: Hashes \union {None}, revoked: BOOLEAN]

NoEntry == [id |-> None, revoked |-> FALSE]

KeyRecord == [id: Ids \union {None}, revoked: BOOLEAN]

NewRow(h) == [hash |-> h, revoked |-> FALSE]

(***************************************************************************)
(* A request is idle or waits:                                             *)
(*   created          INSERT done, cache insert to come                    *)
(*   revoke, revoked  before and after its UPDATE                          *)
(*   rotate, rotated  before and after its UPDATE                          *)
(*   lookup, loaded   authenticate missed the cache: before and after the  *)
(*                    SELECT by hash                                       *)
(***************************************************************************)
Idle == [op |-> "idle"]

Creating == [op: {"created"}, id: TenantKeys, new: Hashes]

Changing == [op: {"revoke", "revoked", "rotate"}, id: TenantKeys, old: Hashes]

Rotated == [op: {"rotated"}, id: TenantKeys, old: Hashes, new: Hashes]

Lookup == [op: {"lookup"}, hash: Hashes]

Loaded == [op: {"loaded"}, hash: Hashes, id: Ids]

CallState == {Idle} \union Creating \union Changing \union Rotated \union Lookup \union Loaded

\* The command knows the active bootstrap keys of the moment it opened the
\* store; after its statement it knows the value it is about to print.
Opened == [op: {"open"}, seen: SUBSET BootKeys]

Written == [op: {"written"}, id: BootKeys, new: Hashes]

CliState == {Idle} \union Opened \union Written

(***************************************************************************)
(* What the outside knows.                                                 *)
(*   of        the key each value generated so far was generated for       *)
(*   issued    values that were handed to somebody                         *)
(*   holder    the value handed out last for each key                      *)
(*   retired   keys whose revocation was acknowledged                      *)
(*   replaced  values that must not work: a rotation away from them was    *)
(*             acknowledged, or the value that replaced them was used      *)
(*   torn      keys for which, since the server loaded, two calls          *)
(*             overlapped or one was cut after its statement               *)
(*   lapsed    keys whose row changed with nobody told the outcome, or     *)
(*             that two processes changed at once                          *)
(*   unseen    bootstrap keys a reset made since the server loaded         *)
(*   rivals    pairs of bootstrap keys: the first was made after the maker *)
(*             of the second had looked for one, before it made its own    *)
(***************************************************************************)
Book == [of: [Hashes -> Ids \union {None}], issued: SUBSET Hashes,
         holder: [Ids -> Hashes \union {None}], retired: SUBSET Ids,
         replaced: SUBSET Hashes, torn: SUBSET Ids, lapsed: SUBSET Ids,
         unseen: SUBSET BootKeys, rivals: SUBSET (BootKeys \X BootKeys)]

TypeOK ==
  /\ rows \in [Ids -> Row]
  /\ cache \in [Hashes -> KeyRecord]
  /\ phase \in {"down", "boot", "up"}
  /\ boot \in Hashes \union {None}
  /\ poisoned \in BOOLEAN
  /\ call \in [Calls -> CallState]
  /\ cli \in [Clis -> CliState]
  /\ book \in Book
  /\ overlapped \in SUBSET Calls

Init ==
  /\ rows = [k \in Ids |-> NoRow]
  /\ cache = [h \in Hashes |-> NoEntry]
  /\ phase = "down"
  /\ boot = None
  /\ poisoned = FALSE
  /\ call = [c \in Calls |-> Idle]
  /\ cli = [p \in Clis |-> Idle]
  /\ book = [of |-> [h \in Hashes |-> None], issued |-> {}, holder |-> [k \in Ids |-> None],
             retired |-> {}, replaced |-> {}, torn |-> {}, lapsed |-> {},
             unseen |-> {}, rivals |-> {}]
  /\ overlapped = {}

is_active(r) == r.hash # None /\ ~r.revoked

Cached(h) == cache[h].id # None

\* What `authenticate` would let in now: the cache first, then the table.
Accepts(h) ==
  \/ Cached(h) /\ ~cache[h].revoked
  \/ \E k \in Ids : rows[k].hash = h /\ is_active(rows[k])

Changers(k) == {c \in Calls :
  call[c].op \in {"revoke", "revoked", "rotate", "rotated"} /\ call[c].id = k}

Rotators(k) == {c \in Changers(k) : call[c].op \in {"rotate", "rotated"}}

Readers(k) == {c \in Calls : call[c].op = "loaded" /\ call[c].id = k}

Resetters(k) == {p \in Clis :
  \/ cli[p].op = "open" /\ cli[p].seen = {k}
  \/ cli[p].op = "written" /\ cli[p].id = k}

ActiveBootKeys == {k \in BootKeys : is_active(rows[k])}

\* Mutant: the question is asked before reload_caches filled the cache.
AskedTooEarly == FALSE

has_active_platform_key == \E h \in Hashes : cache[h].id \in BootKeys /\ ~cache[h].revoked

\* Steps of the history.
Mint(b, h, k) == [b EXCEPT !.of = [g \in Hashes |-> IF g = h THEN k ELSE b.of[g]]]

Issue(b, h, k) ==
  [b EXCEPT !.issued = @ \union {h}, !.holder = [j \in Ids |-> IF j = k THEN h ELSE b.holder[j]]]

Tear(b, ids) == [b EXCEPT !.torn = @ \union ids]

Lapse(b, ids) == [b EXCEPT !.lapsed = @ \union ids]

Rival(b, js, k) == [b EXCEPT !.rivals = @ \union (js \X {k})]

\* A value worked.  If it is the one in force, every other value of its key is
\* one it replaced.
Used(b, h) ==
  [b EXCEPT !.replaced = @ \union
     {g \in Hashes \ {h} : \E k \in Ids : b.of[g] = k /\ rows[k].hash = h}]

\* A call that answers is no longer in flight.
Answer(c) ==
  /\ call' = [call EXCEPT ![c] = Idle]
  /\ overlapped' = overlapped \ {c}

Serving == phase = "up" /\ ~poisoned

-----------------------------------------------------------------------------
(***************************************************************************)
(* create_key -> create_key_internal.                                      *)
(***************************************************************************)
CreateInsert(c, k, h) ==
  /\ Serving /\ call[c] = Idle
  /\ rows[k] = NoRow
  /\ book.of[h] = None
  /\ rows' = [rows EXCEPT ![k] = NewRow(h)]
  /\ call' = [call EXCEPT ![c] = [op |-> "created", id |-> k, new |-> h]]
  /\ book' = Mint(book, h, k)
  /\ UNCHANGED <<cache, phase, boot, poisoned, cli, overlapped>>

CreateCache(c) ==
  /\ ~poisoned
  /\ call[c].op = "created"
  /\ cache' = [cache EXCEPT ![call[c].new] = [id |-> call[c].id, revoked |-> FALSE]]
  /\ Answer(c)
  /\ book' = Issue(book, call[c].new, call[c].id)
  /\ UNCHANGED <<rows, phase, boot, poisoned, cli>>

(***************************************************************************)
(* revoke_key and rotate_key begin alike: the hash cached for the id is    *)
(* remembered across the await.  Keys without a tenant are not found.      *)
(***************************************************************************)
Begin(c, h, op) ==
  /\ Serving /\ call[c] = Idle
  /\ cache[h].id \in TenantKeys
  /\ call' = [call EXCEPT ![c] = [op |-> op, id |-> cache[h].id, old |-> h]]
  /\ book' = Tear(book, {k \in {cache[h].id} : Changers(k) # {}})
  /\ UNCHANGED <<rows, cache, phase, boot, poisoned, cli>>

RevokeBegin(c, h) == Begin(c, h, "revoke") /\ UNCHANGED overlapped

RotateBegin(c, h) ==
  /\ Begin(c, h, "rotate")
  /\ overlapped' = overlapped \union
       (IF Rotators(cache[h].id) = {} THEN {} ELSE Rotators(cache[h].id) \union {c})

RevokeWrite(c) ==
  /\ call[c].op = "revoke"
  /\ rows' = [rows EXCEPT ![call[c].id].revoked = TRUE]
  /\ call' = [call EXCEPT ![c].op = "revoked"]
  /\ UNCHANGED <<cache, phase, boot, poisoned, cli, book, overlapped>>

\* The entry is looked up again by the hash read before the await: nothing is
\* revoked in the cache when it has moved to another hash.
RevokeCache(c) ==
  /\ ~poisoned
  /\ call[c].op = "revoked"
  /\ cache' = [h \in Hashes |->
       IF h = call[c].old /\ Cached(h) THEN [id |-> cache[h].id, revoked |-> TRUE] ELSE cache[h]]
  /\ Answer(c)
  /\ book' = [book EXCEPT !.retired = @ \union {call[c].id}]
  /\ UNCHANGED <<rows, phase, boot, poisoned, cli>>

-----------------------------------------------------------------------------
\* Mutant: the UPDATE names no row.
RehashedNothing(k, h) == rows

\* UPDATE api_keys SET key_hash = h WHERE id = k, in the server and the command.
Rehashed(k, h) == [rows EXCEPT ![k].hash = h]

(***************************************************************************)
(* rotate_key -> rotate_key_by_hash.  The UPDATE names the id only, the    *)
(* cache is changed through the hash read before the await.                *)
(***************************************************************************)
RotateWrite(c, h) ==
  /\ call[c].op = "rotate"
  /\ book.of[h] = None
  /\ rows' = Rehashed(call[c].id, h)
  /\ call' = [call EXCEPT ![c] = [op |-> "rotated", id |-> call[c].id,
                                  old |-> call[c].old, new |-> h]]
  /\ book' = Tear(Mint(book, h, call[c].id), {k \in {call[c].id} : Readers(k) # {}})
  /\ UNCHANGED <<cache, phase, boot, poisoned, cli, overlapped>>

\* Mutant: the rotated record is built anew instead of taken out of the cache.
MovedFresh(old, new) == [h \in Hashes |->
  CASE h = new -> [id |-> cache[old].id, revoked |-> FALSE]
    [] h = old /\ h # new -> NoEntry
    [] OTHER -> cache[h]]

\* Mutant: the record is read from the cache and not removed.
MovedCopy(old, new) == [h \in Hashes |-> IF h = new THEN cache[old] ELSE cache[h]]

\* keys.remove(old), then keys.insert(new): everything but the hash is kept.
Moved(old, new) == [h \in Hashes |->
  CASE h = new -> cache[old]
    [] h = old /\ h # new -> NoEntry
    [] OTHER -> cache[h]]

\* The entry a rotation remembered is not in the cache any more.
EntryGone(c) == call[c].op = "rotated" /\ ~Cached(call[c].old)

RotateCache(c) ==
  /\ ~poisoned
  /\ call[c].op = "rotated" /\ ~EntryGone(c)
  /\ cache' = Moved(call[c].old, call[c].new)
  /\ Answer(c)
  /\ book' = [Issue(book, call[c].new, call[c].id) EXCEPT !.replaced = @ \union {call[c].old}]
  /\ UNCHANGED <<rows, phase, boot, poisoned, cli>>

\* expect("checked above") on an entry that is gone, with the write guard held.
RotatePanics(c) ==
  /\ ~poisoned
  /\ EntryGone(c)
  /\ poisoned' = TRUE
  /\ Answer(c)
  /\ book' = Lapse(book, {call[c].id})
  /\ UNCHANGED <<rows, cache, phase, boot, cli>>

-----------------------------------------------------------------------------
(***************************************************************************)
(* authenticate, with a value that was handed out (no other is in the      *)
(* table).  A hit ends it.  A miss, or an inactive entry, asks the table   *)
(* and installs what it answered after the await.                          *)
(***************************************************************************)
AuthHit(h) ==
  /\ Serving
  /\ h \in book.issued
  /\ Cached(h) /\ ~cache[h].revoked
  /\ book' = Used(book, h)
  /\ UNCHANGED <<rows, cache, phase, boot, poisoned, call, cli, overlapped>>

AuthMiss(c, h) ==
  /\ Serving /\ call[c] = Idle
  /\ h \in book.issued
  /\ ~(Cached(h) /\ ~cache[h].revoked)
  /\ call' = [call EXCEPT ![c] = [op |-> "lookup", hash |-> h]]
  /\ UNCHANGED <<rows, cache, phase, boot, poisoned, cli, book, overlapped>>

AuthLoad(c) ==
  /\ call[c].op = "lookup"
  /\ \/ \E k \in Ids :
          /\ rows[k].hash = call[c].hash /\ is_active(rows[k])
          /\ call' = [call EXCEPT ![c] = [op |-> "loaded", hash |-> call[c].hash, id |-> k]]
          /\ UNCHANGED overlapped
     \/ /\ \A k \in Ids : ~(rows[k].hash = call[c].hash /\ is_active(rows[k]))
        /\ Answer(c)
  /\ UNCHANGED <<rows, cache, phase, boot, poisoned, cli, book>>

\* Mutant: the stale hashes of the id are left in the cache.
InstalledBeside(h, k) == [g \in Hashes |->
  IF g = h THEN [id |-> k, revoked |-> FALSE] ELSE cache[g]]

\* Mutant: the test of the retain is inverted.
InstalledAlone(h, k) == [g \in Hashes |->
  IF g = h THEN [id |-> k, revoked |-> FALSE]
  ELSE IF cache[g].id = k THEN cache[g] ELSE NoEntry]

\* keys.retain(other ids), then keys.insert.
Installed(h, k) == [g \in Hashes |->
  IF g = h THEN [id |-> k, revoked |-> FALSE]
  ELSE IF cache[g].id = k THEN NoEntry ELSE cache[g]]

AuthInsert(c) ==
  /\ ~poisoned
  /\ call[c].op = "loaded"
  /\ cache' = Installed(call[c].hash, call[c].id)
  /\ Answer(c)
  /\ book' = Used(book, call[c].hash)
  /\ UNCHANGED <<rows, phase, boot, poisoned, cli>>

-----------------------------------------------------------------------------
\* The statement returns an error, or the future is dropped before it ran.
CallFails(c) ==
  /\ "fail" \in Faults
  /\ call[c].op \in {"revoke", "rotate", "lookup"}
  /\ Answer(c)
  /\ UNCHANGED <<rows, cache, phase, boot, poisoned, cli, book>>

\* The future is dropped after its statement ran (the client went away), or
\* panics on the poisoned lock: the cache step never happens.
CallCut(c) ==
  /\ "cancel" \in Faults \/ poisoned
  /\ call[c].op \in {"created", "revoked", "rotated", "loaded"}
  /\ Answer(c)
  /\ book' = IF call[c].op \in {"revoked", "rotated"}
             THEN Lapse(Tear(book, {call[c].id}), {call[c].id})
             ELSE book
  /\ UNCHANGED <<rows, cache, phase, boot, poisoned, cli>>

-----------------------------------------------------------------------------
(***************************************************************************)
(* The server starts: open_internal -> reload_caches, then open makes a    *)
(* platform key when its cache shows no active one, and main prints it     *)
(* after the dictionaries are warm.  Only then are requests served.        *)
(***************************************************************************)
\* Mutant: revoked_at is not read back.
reload_caches_active == [h \in Hashes |->
  IF \E k \in Ids : rows[k].hash = h
  THEN [id |-> CHOOSE k \in Ids : rows[k].hash = h, revoked |-> FALSE]
  ELSE NoEntry]

reload_caches == [h \in Hashes |->
  IF \E k \in Ids : rows[k].hash = h
  THEN LET k == CHOOSE k \in Ids : rows[k].hash = h IN [id |-> k, revoked |-> rows[k].revoked]
  ELSE NoEntry]

ServerLoad ==
  /\ phase = "down"
  /\ phase' = "boot"
  /\ cache' = reload_caches
  /\ book' = [book EXCEPT !.torn = {}, !.unseen = {}]
  /\ UNCHANGED <<rows, boot, poisoned, call, cli, overlapped>>

BootCreate(k, h) ==
  /\ phase = "boot"
  /\ ~has_active_platform_key
  /\ rows[k] = NoRow
  /\ book.of[h] = None
  /\ rows' = [rows EXCEPT ![k] = NewRow(h)]
  /\ cache' = [cache EXCEPT ![h] = [id |-> k, revoked |-> FALSE]]
  /\ boot' = h
  /\ book' = Rival(Mint(book, h, k), book.unseen, k)
  /\ UNCHANGED <<phase, poisoned, call, cli, overlapped>>

Serve ==
  /\ phase = "boot"
  /\ has_active_platform_key
  /\ phase' = "up"
  /\ boot' = None
  /\ book' = IF boot = None THEN book ELSE Issue(book, boot, book.of[boot])
  /\ UNCHANGED <<rows, cache, poisoned, call, cli, overlapped>>

\* The process stops: killed, or main returned (a dictionary that does not warm
\* ends it between the two steps above, and the new key was never printed).
Crash ==
  /\ "crash" \in Faults
  /\ phase # "down"
  /\ phase' = "down"
  /\ cache' = [h \in Hashes |-> NoEntry]
  /\ boot' = None
  /\ poisoned' = FALSE
  /\ call' = [c \in Calls |-> Idle]
  /\ overlapped' = {}
  /\ book' = Lapse(book, {k \in Ids : \/ \E c \in Changers(k) : call[c].op \in {"revoked", "rotated"}
                                      \/ boot # None /\ book.of[boot] = k})
  /\ UNCHANGED <<rows, cli>>

-----------------------------------------------------------------------------
(***************************************************************************)
(* reset-platform-key: open_for_cli, then reset_bootstrap_platform_key on  *)
(* what was loaded, then print_output.                                     *)
(***************************************************************************)
CliOpen(p) ==
  /\ cli[p] = Idle
  /\ cli' = [cli EXCEPT ![p] = [op |-> "open", seen |-> ActiveBootKeys]]
  /\ UNCHANGED <<rows, cache, phase, boot, poisoned, call, book, overlapped>>

CliCreate(p, k, h) ==
  /\ cli[p].op = "open" /\ cli[p].seen = {}
  /\ rows[k] = NoRow
  /\ book.of[h] = None
  /\ rows' = [rows EXCEPT ![k] = NewRow(h)]
  /\ cli' = [cli EXCEPT ![p] = [op |-> "written", id |-> k, new |-> h]]
  /\ book' = [Rival(Mint(book, h, k), ActiveBootKeys \ cli[p].seen, k)
               EXCEPT !.unseen = @ \union {k}]
  /\ UNCHANGED <<cache, phase, boot, poisoned, call, overlapped>>

CliRotate(p, k, h) ==
  /\ cli[p].op = "open" /\ cli[p].seen = {k}
  /\ book.of[h] = None
  /\ rows' = Rehashed(k, h)
  /\ cli' = [cli EXCEPT ![p] = [op |-> "written", id |-> k, new |-> h]]
  /\ book' = Lapse(Tear(Mint(book, h, k), {j \in {k} : Readers(k) # {}}),
                   {j \in {k} : Resetters(k) # {p} \/ (boot # None /\ book.of[boot] = k)})
  /\ UNCHANGED <<cache, phase, boot, poisoned, call, overlapped>>

CliBail(p) ==
  /\ cli[p].op = "open"
  /\ cli[p].seen # {} /\ \A k \in BootKeys : cli[p].seen # {k}
  /\ cli' = [cli EXCEPT ![p] = Idle]
  /\ UNCHANGED <<rows, cache, phase, boot, poisoned, call, book, overlapped>>

CliPrint(p) ==
  /\ cli[p].op = "written"
  /\ cli' = [cli EXCEPT ![p] = Idle]
  /\ book' = Issue(book, cli[p].new, cli[p].id)
  /\ UNCHANGED <<rows, cache, phase, boot, poisoned, call, overlapped>>

CliDies(p) ==
  /\ "crash" \in Faults
  /\ cli[p] # Idle
  /\ cli' = [cli EXCEPT ![p] = Idle]
  /\ book' = Lapse(book, {k \in BootKeys : cli[p].op = "written" /\ cli[p].id = k})
  /\ UNCHANGED <<rows, cache, phase, boot, poisoned, call, overlapped>>

Next ==
  \/ \E c \in Calls, k \in TenantKeys, h \in Hashes : CreateInsert(c, k, h)
  \/ \E c \in Calls, h \in Hashes : RevokeBegin(c, h) \/ RotateBegin(c, h)
  \/ \E c \in Calls, h \in Hashes : RotateWrite(c, h) \/ AuthMiss(c, h)
  \/ \E c \in Calls : CreateCache(c) \/ RevokeWrite(c) \/ RevokeCache(c)
  \/ \E c \in Calls : RotateCache(c) \/ RotatePanics(c)
  \/ \E c \in Calls : AuthLoad(c) \/ AuthInsert(c)
  \/ \E c \in Calls : CallFails(c) \/ CallCut(c)
  \/ \E h \in Hashes : AuthHit(h)
  \/ ServerLoad \/ Serve \/ Crash
  \/ \E k \in BootKeys, h \in Hashes : BootCreate(k, h)
  \/ \E p \in Clis : CliOpen(p) \/ CliBail(p) \/ CliPrint(p) \/ CliDies(p)
  \/ \E p \in Clis, k \in BootKeys, h \in Hashes : CliCreate(p, k, h) \/ CliRotate(p, k, h)

Spec == Init /\ [][Next]_vars

-----------------------------------------------------------------------------
(***************************************************************************)
(* F26 and F27 for the keys on which, since the server loaded, no two      *)
(* calls overlapped and no call was cut between its statement and its      *)
(* cache step: a key whose revocation was acknowledged, and a value that   *)
(* was replaced, fail authentication, whatever requests are in flight,     *)
(* through cache or table, in this run of the server or a later one.       *)
(***************************************************************************)
Dead(h) == book.of[h] \in book.retired \/ h \in book.replaced

DeadKeysFail == Serving =>
  \A h \in Hashes : Dead(h) => ~Accepts(h) \/ book.of[h] \in book.torn

(***************************************************************************)
(* A value handed to somebody works until its key is revoked or rotated,   *)
(* across requests, restarts and resets by another process: revoke, rotate *)
(* and authenticate never take the cache or the table away from it.        *)
(***************************************************************************)
Quiet(k) == Changers(k) = {} /\ Resetters(k) = {} /\ k \notin book.retired \union book.lapsed

IssuedKeysWork == Serving =>
  \A k \in Ids : book.holder[k] # None /\ Quiet(k) => Accepts(book.holder[k])

(***************************************************************************)
(* One key is cached under one hash.  list_keys, revoke_key, rotate_key    *)
(* and touch_last_used look a key up by its id and take the first entry.   *)
(***************************************************************************)
OneHashPerKey == \A g, h \in Hashes :
  Cached(g) /\ cache[g].id = cache[h].id => g = h

(***************************************************************************)
(* A rotation whose UPDATE is done finds its entry gone, so that it panics *)
(* at expect("checked above") and poisons the cache, only if this very     *)
(* rotation was in flight together with another one of the same key.  No   *)
(* lookup that installs a row, no revocation, no reset by another process, *)
(* no call on another key and no call that was cut takes the entry away.   *)
(***************************************************************************)
PanicNeedsOverlap == \A c \in Calls : EntryGone(c) => c \in overlapped

(***************************************************************************)
(* Of two active bootstrap keys, which make every later reset ambiguous,   *)
(* one was made while the maker of the other stood between its look at the *)
(* table and its INSERT: the server starting and the command, or two       *)
(* commands, decided at the same time.  A key that a crash or a death left *)
(* unprinted, however long ago, keeps a second one from being made.        *)
(***************************************************************************)
OneBootstrapKey == \A j, k \in ActiveBootKeys :
  j = k \/ <<j, k>> \in book.rivals \/ <<k, j>> \in book.rivals

(***************************************************************************)
(* The store implements the key directory: between them, cache and table   *)
(* accept the value in force of every key that is not revoked, at every    *)
(* moment, and accept nothing again that they once refused, across         *)
(* requests, resets, stops and starts, unless two calls on its key         *)
(* overlapped, or one was cut between its statement and its cache step.    *)
(***************************************************************************)
Directory == INSTANCE KeyDirectory WITH
  value   <- [k \in Ids |-> rows[k].hash],
  revoked <- {k \in Ids : rows[k].revoked},
  of      <- book.of,
  works   <- {h \in Hashes : Accepts(h)},
  shaken  <- book.torn

DirectorySpec == Directory!Spec

(***************************************************************************)
(* F26 as REQUIREMENTS.md states it, of every key: "Revoked keys fail      *)
(* authentication immediately."                                            *)
(***************************************************************************)
RevokedKeysFail == Serving =>
  \A h \in book.issued : book.of[h] \in book.retired => ~Accepts(h)
=============================================================================
