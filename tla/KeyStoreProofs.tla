--------------------------- MODULE KeyStoreProofs ---------------------------
(***************************************************************************)
(* Theorems about KeyStore, for every set of keys, values, requests and    *)
(* runs of reset-platform-key, and every choice of faults.                 *)
(*                                                                         *)
(* The invariant is KeyInv.  Most of it, KeyHolds, is said of one key at a *)
(* time, because every step but the start and the stop of the server       *)
(* touches at most one key, and what is said of the others is carried over *)
(* by one lemma:                                                           *)
(*   Named     the row and the cached values of a key are its own          *)
(*   Asked     the requests in flight on a key know it by its own values   *)
(*   Told      so do the reset commands and the holder                     *)
(*   Making    a key whose creation is in flight is in no cache, and no    *)
(*             other request knows it                                      *)
(*   Alone     a key is cached under one value; the value in force of a    *)
(*             tenant's key, once handed out, is cached, so that           *)
(*             authenticate never reads such a key back from the table     *)
(*   Untorn    what the caller of a change may rely on across its await    *)
(*   Replaced  where a value that was replaced can no longer be            *)
(*   Held      who is still to be told a value in force nobody holds       *)
(* The rest relates keys: PhaseInv, what is empty while the server is down *)
(* or starts; LookupInv, what a request knows that missed the cache;       *)
(* ResetInv, what an open reset command knows.  Who raced whom is kept     *)
(* apart, in RaceInv, which stands on KeyInv.                              *)
(***************************************************************************)
EXTENDS KeyStore, TLAPS

ChangeOps == {"revoke", "revoked", "rotate", "rotated"}

KeyOps == ChangeOps \union {"created", "loaded"}

On(c, k) == call[c].op \in KeyOps /\ call[c].id = k

Makes(c, k) == call[c].op = "created" /\ call[c].id = k

Changes(c, k) == call[c].op \in ChangeOps /\ call[c].id = k

Reads(c, k) == call[c].op = "loaded" /\ call[c].id = k

Prints(p, k) == cli[p].op = "written" /\ cli[p].id = k

Named(k) ==
  /\ rows[k].hash # None => book.of[rows[k].hash] = k
  /\ \A h \in Hashes : book.of[h] = k => rows[k].hash # None
  /\ \A h \in Hashes : cache[h].id = k => /\ book.of[h] = k
                                          /\ cache[h].revoked => rows[k].revoked
  /\ rows[k].revoked => k \in TenantKeys
  /\ k \in book.retired => rows[k].revoked

Asked(k) == \A c \in Calls :
  /\ Makes(c, k) => book.of[call[c].new] = k
  /\ Changes(c, k) =>
       /\ book.of[call[c].old] = k
       /\ call[c].op = "revoked" => rows[k].revoked
       /\ call[c].op = "rotated" =>
            /\ book.of[call[c].new] = k
            /\ call[c].old # call[c].new /\ rows[k].hash # call[c].old
  /\ Reads(c, k) => book.of[call[c].hash] = k /\ k \in BootKeys

Told(k) ==
  /\ \A p \in Clis : Prints(p, k) => book.of[cli[p].new] = k
  /\ book.holder[k] # None => /\ book.holder[k] \in book.issued
                              /\ book.of[book.holder[k]] = k

Sole(k, h) == \A g \in Hashes : book.of[g] = k => g = h

Making(k) ==
  \A c \in Calls : Makes(c, k) =>
    /\ rows[k] = NewRow(call[c].new) /\ call[c].new \notin book.issued
    /\ Sole(k, call[c].new)
    /\ \A h \in Hashes : cache[h].id # k
    /\ \A d \in Calls \ {c} : ~On(d, k)

Alone(k) ==
  /\ \A g, h \in Hashes : cache[g].id = k /\ cache[h].id = k => g = h
  /\ (k \in TenantKeys /\ phase # "down" /\ rows[k].hash \in book.issued) =>
       cache[rows[k].hash].id = k

UntornTenant(k) ==
  /\ \A c, d \in Calls : Changes(c, k) /\ Changes(d, k) => c = d
  /\ \A c \in Calls : Changes(c, k) =>
       /\ cache[call[c].old].id = k
       /\ rows[k].hash = IF call[c].op = "rotated" THEN call[c].new ELSE call[c].old
  /\ \A h \in Hashes : cache[h].id = k =>
       /\ h = rows[k].hash \/ \E c \in Calls : Changes(c, k) /\ call[c].op = "rotated"
       /\ rows[k].revoked =>
            cache[h].revoked \/ \E c \in Calls : Changes(c, k) /\ call[c].op = "revoked"
       /\ k \in book.retired => cache[h].revoked

UntornBoot(k) == \A c \in Calls : Reads(c, k) => call[c].hash = rows[k].hash

Untorn(k) == k \notin book.torn =>
  /\ k \in TenantKeys => UntornTenant(k)
  /\ k \in BootKeys => UntornBoot(k)

Replaced(k) ==
  \A h \in book.replaced : book.of[h] = k =>
    rows[k].hash # h /\ (k \in book.torn \/ cache[h].id # k)

TenantHeld(k) ==
  /\ (rows[k].hash # None /\ rows[k].hash \notin book.issued) =>
       \/ Sole(k, rows[k].hash)
       \/ \E c \in Calls : /\ Changes(c, k) /\ call[c].op = "rotated"
                           /\ call[c].new = rows[k].hash
  /\ rows[k].revoked =>
       k \in book.retired \/ \E c \in Calls : Changes(c, k) /\ call[c].op = "revoked"

BootHeld(k) ==
  /\ \A p \in Clis : Prints(p, k) => cli[p].new = rows[k].hash
  /\ (boot # None /\ book.of[boot] = k) => boot = rows[k].hash
  /\ (rows[k].hash # None /\ rows[k].hash \notin book.issued) =>
       boot = rows[k].hash \/ \E p \in Clis : Prints(p, k)

Held(k) ==
  /\ k \in TenantKeys \ book.lapsed => TenantHeld(k)
  /\ k \in BootKeys \ book.lapsed => BootHeld(k)
  /\ ((k \in TenantKeys \/ k \notin book.lapsed) /\ book.holder[k] # None) =>
       book.holder[k] = rows[k].hash \/ rows[k].hash \notin book.issued

KeyHolds(k) ==
  Named(k) /\ Asked(k) /\ Told(k) /\ Making(k) /\ Alone(k) /\ Untorn(k) /\ Replaced(k) /\ Held(k)

PhaseInv ==
  /\ phase # "up" => (\A c \in Calls : call[c] = Idle) /\ ~poisoned
  /\ phase = "down" => \A h \in Hashes : cache[h] = NoEntry
  /\ boot # None => phase = "boot" /\ book.of[boot] \in BootKeys /\ has_active_platform_key

LookupInv ==
  /\ \A h \in book.issued \union book.replaced : book.of[h] # None
  /\ \A c \in Calls : call[c].op = "lookup" =>
       /\ call[c].hash \in book.issued
       /\ \A k \in TenantKeys : rows[k].hash = call[c].hash => rows[k].revoked

ResetInv ==
  \A p \in Clis : cli[p].op = "open" => \A k \in cli[p].seen : rows[k].hash # None

KeyInv ==
  /\ \A k \in Ids : KeyHolds(k)
  /\ PhaseInv /\ LookupInv /\ ResetInv

-----------------------------------------------------------------------------
(* What a request or a command waits for tells the fields it carries.      *)
LEMMA CallShape ==
  ASSUME TypeOK, NEW c \in Calls
  PROVE  /\ call[c].op = "idle" <=> call[c] = Idle
         /\ call[c].op \in {"idle", "lookup"} \union KeyOps
         /\ call[c].op \in {"created", "rotated"} => call[c].new \in Hashes
         /\ call[c].op \in ChangeOps => call[c].old \in Hashes
         /\ call[c].op \in ChangeOps \union {"created"} => call[c].id \in TenantKeys
         /\ call[c].op \in {"lookup", "loaded"} => call[c].hash \in Hashes
         /\ call[c].op = "loaded" => call[c].id \in Ids
         /\ call[c].op \in KeyOps => call[c].id \in Ids
<1>1. call[c] \in {Idle} \union Creating \union Changing \union Rotated \union Lookup \union Loaded
  BY DEF TypeOK, CallState
<1> QED
  BY <1>1 DEF Idle, Creating, Changing, Rotated, Lookup, Loaded, KeyOps, ChangeOps, Ids

(* The same of a run of reset-platform-key.                                *)
LEMMA CliShape ==
  ASSUME TypeOK, NEW p \in Clis
  PROVE  /\ cli[p].op \in {"idle", "open", "written"}
         /\ cli[p].op = "open" => cli[p].seen \subseteq BootKeys
         /\ cli[p].op = "written" => cli[p].new \in Hashes /\ cli[p].id \in BootKeys
<1>1. cli[p] \in {Idle} \union Opened \union Written
  BY DEF TypeOK, CliState
<1> QED
  BY <1>1 DEF Idle, Opened, Written

(* An idle request waits for nothing.                                      *)
LEMMA IdleShape == Idle.op = "idle"
  BY DEF Idle

(* The sets of ids and of values have nothing in common with None.         *)
LEMMA Constants ==
  /\ None \notin Ids /\ None \notin Hashes
  /\ TenantKeys \subseteq Ids /\ BootKeys \subseteq Ids
  /\ \A k \in Ids : k \in TenantKeys <=> k \notin BootKeys
  BY KeyStoreAssumption DEF Ids

-----------------------------------------------------------------------------
(* The steps of the history keep its type and move the fields they name.   *)
LEMMA MintFields ==
  ASSUME NEW b \in Book, NEW h \in Hashes, NEW k \in Ids
  PROVE  /\ Mint(b, h, k) \in Book
         /\ Mint(b, h, k).of[h] = k
         /\ \A g \in Hashes \ {h} : Mint(b, h, k).of[g] = b.of[g]
         /\ Mint(b, h, k).issued = b.issued /\ Mint(b, h, k).holder = b.holder
         /\ Mint(b, h, k).retired = b.retired /\ Mint(b, h, k).replaced = b.replaced
         /\ Mint(b, h, k).unseen = b.unseen /\ Mint(b, h, k).rivals = b.rivals
         /\ Mint(b, h, k).torn = b.torn /\ Mint(b, h, k).lapsed = b.lapsed
  BY DEF Mint, Book

(* A value is handed to the caller.                                        *)
LEMMA IssueFields ==
  ASSUME NEW b \in Book, NEW h \in Hashes, NEW k \in Ids
  PROVE  /\ Issue(b, h, k) \in Book
         /\ Issue(b, h, k).of = b.of /\ Issue(b, h, k).issued = b.issued \union {h}
         /\ Issue(b, h, k).holder[k] = h
         /\ \A j \in Ids \ {k} : Issue(b, h, k).holder[j] = b.holder[j]
         /\ Issue(b, h, k).retired = b.retired /\ Issue(b, h, k).replaced = b.replaced
         /\ Issue(b, h, k).unseen = b.unseen /\ Issue(b, h, k).rivals = b.rivals
         /\ Issue(b, h, k).torn = b.torn /\ Issue(b, h, k).lapsed = b.lapsed
  BY DEF Issue, Book

(* The caches of some keys are no longer relied upon.                      *)
LEMMA TearFields ==
  ASSUME NEW b \in Book, NEW s \in SUBSET Ids
  PROVE  /\ Tear(b, s) \in Book
         /\ Tear(b, s).of = b.of /\ Tear(b, s).issued = b.issued /\ Tear(b, s).holder = b.holder
         /\ Tear(b, s).retired = b.retired /\ Tear(b, s).replaced = b.replaced
         /\ Tear(b, s).unseen = b.unseen /\ Tear(b, s).rivals = b.rivals
         /\ Tear(b, s).torn = b.torn \union s /\ Tear(b, s).lapsed = b.lapsed
  BY DEF Tear, Book

(* The values of some keys are in nobody's hands.                          *)
LEMMA LapseFields ==
  ASSUME NEW b \in Book, NEW s \in SUBSET Ids
  PROVE  /\ Lapse(b, s) \in Book
         /\ Lapse(b, s).of = b.of /\ Lapse(b, s).issued = b.issued /\ Lapse(b, s).holder = b.holder
         /\ Lapse(b, s).retired = b.retired /\ Lapse(b, s).replaced = b.replaced
         /\ Lapse(b, s).unseen = b.unseen /\ Lapse(b, s).rivals = b.rivals
         /\ Lapse(b, s).torn = b.torn /\ Lapse(b, s).lapsed = b.lapsed \union s
  BY DEF Lapse, Book

(* A key was made behind the back of whoever looked before.                *)
LEMMA RivalFields ==
  ASSUME NEW b \in Book, NEW s \in SUBSET BootKeys, NEW k \in BootKeys
  PROVE  /\ Rival(b, s, k) \in Book
         /\ Rival(b, s, k).of = b.of /\ Rival(b, s, k).issued = b.issued
         /\ Rival(b, s, k).holder = b.holder
         /\ Rival(b, s, k).retired = b.retired /\ Rival(b, s, k).replaced = b.replaced
         /\ Rival(b, s, k).torn = b.torn /\ Rival(b, s, k).lapsed = b.lapsed
         /\ Rival(b, s, k).unseen = b.unseen
         /\ b.rivals \subseteq Rival(b, s, k).rivals
         /\ \A j \in s : <<j, k>> \in Rival(b, s, k).rivals
  BY DEF Rival, Book

(* A value is used: the others of its key are replaced.                    *)
LEMMA UsedFields ==
  ASSUME NEW b \in Book, NEW h \in Hashes
  PROVE  /\ Used(b, h) \in Book
         /\ Used(b, h).of = b.of /\ Used(b, h).issued = b.issued /\ Used(b, h).holder = b.holder
         /\ Used(b, h).retired = b.retired
         /\ Used(b, h).replaced = b.replaced \union
              {g \in Hashes \ {h} : \E k \in Ids : b.of[g] = k /\ rows[k].hash = h}
         /\ Used(b, h).unseen = b.unseen /\ Used(b, h).rivals = b.rivals
         /\ Used(b, h).torn = b.torn /\ Used(b, h).lapsed = b.lapsed
  BY DEF Used, Book

(* A step of a request leaves the others alone.                            *)
Others(c) == \A d \in Calls \ {c} : call'[d] = call[d]

(* A request that goes on.                                                 *)
LEMMA Moved1 ==
  ASSUME TypeOK, NEW c \in Calls, NEW s \in CallState, call' = [call EXCEPT ![c] = s]
  PROVE  call'[c] = s /\ Others(c) /\ call' \in [Calls -> CallState]
  BY DEF TypeOK, Others

(* A request that answers.                                                 *)
LEMMA Answered ==
  ASSUME TypeOK, NEW c \in Calls, Answer(c)
  PROVE  /\ call'[c] = Idle /\ call'[c].op = "idle" /\ Others(c) /\ call' \in [Calls -> CallState]
         /\ overlapped' \in SUBSET Calls
  BY DEF Answer, TypeOK, CallState, Idle, Others

OtherClis(p) == \A q \in Clis \ {p} : cli'[q] = cli[q]

(* A run of reset-platform-key leaves the others alone.                    *)
LEMMA CliMoved ==
  ASSUME TypeOK, NEW p \in Clis, NEW s \in CliState, cli' = [cli EXCEPT ![p] = s]
  PROVE  cli'[p] = s /\ OtherClis(p) /\ cli' \in [Clis -> CliState]
  BY DEF TypeOK, OtherClis

(* One UPDATE or INSERT changes one row.                                   *)
OtherRows(k) == \A j \in Ids \ {k} : rows'[j] = rows[j]

(* The three ways a row changes.                                           *)
LEMMA RowSet ==
  ASSUME TypeOK, NEW k \in Ids, NEW h \in Hashes
  PROVE  /\ rows' = [rows EXCEPT ![k] = NewRow(h)] =>
              /\ rows' \in [Ids -> Row] /\ OtherRows(k)
              /\ rows'[k] = NewRow(h) /\ rows'[k].hash = h /\ rows'[k].revoked = FALSE
         /\ rows' = [rows EXCEPT ![k].hash = h] =>
              /\ rows' \in [Ids -> Row] /\ OtherRows(k)
              /\ rows'[k].hash = h /\ rows'[k].revoked = rows[k].revoked
         /\ rows' = [rows EXCEPT ![k].revoked = TRUE] =>
              /\ rows' \in [Ids -> Row] /\ OtherRows(k)
              /\ rows'[k].hash = rows[k].hash /\ rows'[k].revoked
<1>1. NewRow(h) \in Row /\ NewRow(h).hash = h /\ NewRow(h).revoked = FALSE
  BY DEF Row, NewRow
<1>2. rows \in [Ids -> Row]
  BY DEF TypeOK
<1>3. rows' = [rows EXCEPT ![k] = NewRow(h)] => /\ rows' \in [Ids -> Row] /\ OtherRows(k)
                                                /\ rows'[k] = NewRow(h)
  BY <1>1, <1>2 DEF OtherRows
<1>4. rows' = [rows EXCEPT ![k].hash = h] =>
        /\ rows' \in [Ids -> Row] /\ OtherRows(k)
        /\ rows'[k].hash = h /\ rows'[k].revoked = rows[k].revoked
  BY <1>2 DEF OtherRows, Row
<1>5. rows' = [rows EXCEPT ![k].revoked = TRUE] =>
        /\ rows' \in [Ids -> Row] /\ OtherRows(k)
        /\ rows'[k].hash = rows[k].hash /\ rows'[k].revoked
  BY <1>2 DEF OtherRows, Row
<1> QED
  BY <1>1, <1>3, <1>4, <1>5
-----------------------------------------------------------------------------
(* What each action does, field by field.                                  *)
LEMMA CreateInsertDoes ==
  ASSUME TypeOK, NEW c \in Calls, NEW k \in TenantKeys, NEW h \in Hashes, CreateInsert(c, k, h)
  PROVE  /\ TypeOK'
         /\ call[c].op = "idle" /\ Others(c)
         /\ call'[c].op = "created" /\ call'[c].id = k /\ call'[c].new = h
         /\ rows[k] = NoRow /\ rows'[k] = NewRow(h) /\ rows'[k].hash = h /\ ~rows'[k].revoked
         /\ OtherRows(k)
         /\ book.of[h] = None /\ book' = Mint(book, h, k)
         /\ UNCHANGED <<cache, phase, boot, poisoned, cli>>
<1>1. [op |-> "created", id |-> k, new |-> h] \in CallState /\ k \in Ids
  BY Constants DEF CallState, Creating
<1>2. Mint(book, h, k) \in Book
  BY <1>1, MintFields DEF TypeOK
<1> QED
  BY <1>1, <1>2, Moved1, RowSet, IdleShape DEF CreateInsert, TypeOK

(* CreateCache: the created key enters the cache.                          *)
LEMMA CreateCacheDoes ==
  ASSUME TypeOK, NEW c \in Calls, CreateCache(c), NEW k, k = call[c].id, NEW h, h = call[c].new
  PROVE  /\ TypeOK'
         /\ call[c].op = "created" /\ call'[c].op = "idle" /\ Others(c)
         /\ k \in TenantKeys /\ h \in Hashes
         /\ cache'[h].id = k /\ ~cache'[h].revoked
         /\ \A g \in Hashes \ {h} : cache'[g] = cache[g]
         /\ book' = Issue(book, h, k)
         /\ UNCHANGED <<rows, phase, boot, poisoned, cli>>
<1>1. call[c].op = "created" /\ k \in TenantKeys /\ h \in Hashes /\ k \in Ids
  BY CallShape, Constants DEF CreateCache
<1>2. Issue(book, h, k) \in Book
  BY <1>1, IssueFields DEF TypeOK
<1>3. [id |-> k, revoked |-> FALSE] \in KeyRecord
  BY <1>1 DEF KeyRecord
<1> QED
  BY <1>1, <1>2, <1>3, Answered DEF CreateCache, TypeOK

(* Begin: a revocation or a rotation looks the key up in the cache.        *)
LEMMA BeginDoes ==
  ASSUME TypeOK, NEW c \in Calls, NEW h \in Hashes, NEW op \in {"revoke", "rotate"}, Begin(c, h, op),
         overlapped' \in SUBSET Calls, NEW k, k = cache[h].id
  PROVE  /\ TypeOK'
         /\ call[c].op = "idle" /\ Others(c)
         /\ call'[c].op = op /\ call'[c].id = k /\ call'[c].old = h
         /\ k \in TenantKeys
         /\ book'.of = book.of /\ book'.issued = book.issued /\ book'.holder = book.holder
         /\ book'.retired = book.retired /\ book'.replaced = book.replaced
         /\ book.torn \subseteq book'.torn /\ book'.lapsed = book.lapsed
         /\ k \notin book'.torn => \A d \in Calls : ~Changes(d, k)
         /\ UNCHANGED <<rows, cache, phase, boot, poisoned, cli>>
<1>1. k \in TenantKeys /\ k \in Ids /\ call[c].op = "idle"
  BY Constants, IdleShape DEF Begin
<1>2. [op |-> op, id |-> k, old |-> h] \in CallState
  BY <1>1 DEF CallState, Changing
<1>3. PICK s \in SUBSET Ids : s = {j \in {k} : Changers(j) # {}}
  BY <1>1
<1>4. book' = Tear(book, s) /\ book \in Book
  BY <1>3 DEF Begin, TypeOK
<1>5. /\ book' \in Book
      /\ book'.of = book.of /\ book'.issued = book.issued /\ book'.holder = book.holder
      /\ book'.retired = book.retired /\ book'.replaced = book.replaced
      /\ book'.torn = book.torn \union s /\ book'.lapsed = book.lapsed
  BY <1>4, TearFields
<1>6. k \notin s => \A d \in Calls : ~Changes(d, k)
  BY <1>3 DEF Changers, Changes, ChangeOps
<1> QED
  BY <1>1, <1>2, <1>5, <1>6, Moved1 DEF Begin, TypeOK

(* RevokeWrite: the UPDATE of a revocation.                                *)
LEMMA RevokeWriteDoes ==
  ASSUME TypeOK, NEW c \in Calls, RevokeWrite(c), NEW k, k = call[c].id
  PROVE  /\ TypeOK'
         /\ call[c].op = "revoke" /\ call'[c].op = "revoked" /\ Others(c)
         /\ call'[c].id = k /\ call'[c].old = call[c].old
         /\ k \in TenantKeys /\ call[c].old \in Hashes
         /\ rows'[k].hash = rows[k].hash /\ rows'[k].revoked /\ OtherRows(k)
         /\ UNCHANGED <<cache, phase, boot, poisoned, cli, book>>
<1>1. call[c].op = "revoke" /\ k \in TenantKeys /\ k \in Ids /\ call[c].old \in Hashes
  BY CallShape, Constants DEF RevokeWrite, ChangeOps
<1>2. call[c] \in Changing
  BY <1>1 DEF TypeOK, CallState, Idle, Creating, Changing, Rotated, Lookup, Loaded
<1>3. PICK s : s = [call[c] EXCEPT !.op = "revoked"]
  OBVIOUS
<1>4. s \in Changing /\ s.op = "revoked" /\ s.id = call[c].id /\ s.old = call[c].old
  BY <1>2, <1>3 DEF Changing
<1>5. s \in CallState
  BY <1>4 DEF CallState
<1>6. call' = [call EXCEPT ![c] = s]
  BY <1>3 DEF RevokeWrite, TypeOK
<1>7. call'[c] = s /\ Others(c) /\ call' \in [Calls -> CallState]
  BY <1>5, <1>6, Moved1
<1>8. rows' \in [Ids -> Row] /\ OtherRows(k) /\ rows'[k].hash = rows[k].hash /\ rows'[k].revoked
  <2>1. rows' = [rows EXCEPT ![k].revoked = TRUE]
    BY DEF RevokeWrite
  <2> QED
    BY <1>1, <1>4, <2>1, RowSet DEF TypeOK
<1> QED
  BY <1>1, <1>4, <1>7, <1>8 DEF RevokeWrite, TypeOK

(* RevokeCache: the cache entry under the old value is revoked.            *)
LEMMA RevokeCacheDoes ==
  ASSUME TypeOK, NEW c \in Calls, RevokeCache(c), NEW k, k = call[c].id
  PROVE  /\ TypeOK'
         /\ call[c].op = "revoked" /\ call'[c].op = "idle" /\ Others(c)
         /\ k \in TenantKeys /\ call[c].old \in Hashes
         /\ \A h \in Hashes : /\ cache'[h].id = cache[h].id
                              /\ h = call[c].old /\ Cached(h) => cache'[h].revoked
                              /\ h # call[c].old => cache'[h] = cache[h]
         /\ book'.retired = book.retired \union {k}
         /\ book'.of = book.of /\ book'.issued = book.issued /\ book'.holder = book.holder
         /\ book'.replaced = book.replaced /\ book'.torn = book.torn /\ book'.lapsed = book.lapsed
         /\ UNCHANGED <<rows, phase, boot, poisoned, cli>>
<1>1. call[c].op = "revoked" /\ k \in TenantKeys /\ k \in Ids /\ call[c].old \in Hashes
  BY CallShape, Constants DEF RevokeCache, ChangeOps
<1>2. \A h \in Hashes : [id |-> cache[h].id, revoked |-> TRUE] \in KeyRecord
  BY DEF TypeOK, KeyRecord
<1>3. cache' \in [Hashes -> KeyRecord]
  BY <1>2 DEF RevokeCache, TypeOK
<1>4. \A h \in Hashes : /\ cache'[h].id = cache[h].id
                        /\ h = call[c].old /\ Cached(h) => cache'[h].revoked
                        /\ h # call[c].old => cache'[h] = cache[h]
  BY DEF RevokeCache
<1>5. book' = [book EXCEPT !.retired = @ \union {k}] /\ book \in Book
  BY DEF RevokeCache, TypeOK
<1>6. /\ book' \in Book /\ book'.retired = book.retired \union {k}
      /\ book'.of = book.of /\ book'.issued = book.issued /\ book'.holder = book.holder
      /\ book'.replaced = book.replaced /\ book'.torn = book.torn /\ book'.lapsed = book.lapsed
  BY <1>1, <1>5 DEF Book
<1> QED
  BY <1>1, <1>3, <1>4, <1>6, Answered DEF RevokeCache, TypeOK

(* RotateWrite: the UPDATE of a rotation.                                  *)
LEMMA RotateWriteDoes ==
  ASSUME TypeOK, NEW c \in Calls, NEW h \in Hashes, RotateWrite(c, h), NEW k, k = call[c].id
  PROVE  /\ TypeOK'
         /\ call[c].op = "rotate" /\ call'[c].op = "rotated" /\ Others(c)
         /\ call'[c].id = k /\ call'[c].old = call[c].old /\ call'[c].new = h
         /\ k \in TenantKeys /\ call[c].old \in Hashes
         /\ rows'[k].hash = h /\ rows'[k].revoked = rows[k].revoked /\ OtherRows(k)
         /\ book.of[h] = None
         /\ book'.of[h] = k
         /\ \A g \in Hashes \ {h} : book'.of[g] = book.of[g]
         /\ book'.issued = book.issued /\ book'.holder = book.holder
         /\ book'.retired = book.retired /\ book'.replaced = book.replaced
         /\ book.torn \subseteq book'.torn /\ book'.lapsed = book.lapsed
         /\ UNCHANGED <<cache, phase, boot, poisoned, cli>>
<1>1. call[c].op = "rotate" /\ k \in TenantKeys /\ k \in Ids /\ call[c].old \in Hashes
  BY CallShape, Constants DEF RotateWrite, ChangeOps
<1>2. [op |-> "rotated", id |-> k, old |-> call[c].old, new |-> h] \in CallState
  BY <1>1 DEF CallState, Rotated
<1>3. /\ book' \in Book /\ book'.of[h] = k
      /\ \A g \in Hashes \ {h} : book'.of[g] = book.of[g]
      /\ book'.issued = book.issued /\ book'.holder = book.holder
      /\ book'.retired = book.retired /\ book'.replaced = book.replaced
      /\ book.torn \subseteq book'.torn /\ book'.lapsed = book.lapsed
  <2>1. PICK b, s : b = Mint(book, h, k) /\ s = {j \in {k} : Readers(j) # {}}
    OBVIOUS
  <2>2. book \in Book /\ s \in SUBSET Ids /\ book' = Tear(b, s)
    BY <1>1, <2>1 DEF TypeOK, RotateWrite
  <2>3. /\ b \in Book /\ b.of[h] = k /\ \A g \in Hashes \ {h} : b.of[g] = book.of[g]
        /\ b.issued = book.issued /\ b.holder = book.holder
        /\ b.retired = book.retired /\ b.replaced = book.replaced
        /\ b.torn = book.torn /\ b.lapsed = book.lapsed
    BY <1>1, <2>1, <2>2, MintFields
  <2>4. /\ book' \in Book /\ book'.of = b.of /\ book'.issued = b.issued /\ book'.holder = b.holder
        /\ book'.retired = b.retired /\ book'.replaced = b.replaced
        /\ book'.torn = b.torn \union s /\ book'.lapsed = b.lapsed
    BY <2>2, <2>3, TearFields
  <2> QED
    BY <2>3, <2>4
<1>4. rows' \in [Ids -> Row] /\ OtherRows(k) /\ rows'[k].hash = h /\ rows'[k].revoked = rows[k].revoked
  BY <1>1, RowSet DEF RotateWrite, Rehashed
<1> QED
  BY <1>1, <1>2, <1>3, <1>4, Moved1 DEF RotateWrite, TypeOK

(* RotateCache: the cache entry moves to the new value.                    *)
LEMMA RotateCacheDoes ==
  ASSUME TypeOK, NEW c \in Calls, RotateCache(c),
         NEW k, k = call[c].id, NEW g, g = call[c].old, NEW h, h = call[c].new
  PROVE  /\ TypeOK'
         /\ call[c].op = "rotated" /\ call'[c].op = "idle" /\ Others(c)
         /\ k \in TenantKeys /\ g \in Hashes /\ h \in Hashes
         /\ Cached(g) /\ cache'[h] = cache[g] /\ (g # h => cache'[g] = NoEntry)
         /\ \A f \in Hashes \ {g, h} : cache'[f] = cache[f]
         /\ book'.replaced = book.replaced \union {g}
         /\ book'.issued = book.issued \union {h} /\ book'.holder[k] = h
         /\ \A j \in Ids \ {k} : book'.holder[j] = book.holder[j]
         /\ book'.of = book.of /\ book'.retired = book.retired
         /\ book'.torn = book.torn /\ book'.lapsed = book.lapsed
         /\ UNCHANGED <<rows, phase, boot, poisoned, cli>>
<1>1. call[c].op = "rotated" /\ k \in TenantKeys /\ k \in Ids /\ g \in Hashes /\ h \in Hashes
  BY CallShape, Constants DEF RotateCache, ChangeOps
<1>2. NoEntry \in KeyRecord
  BY DEF NoEntry, KeyRecord
<1>3. cache' \in [Hashes -> KeyRecord]
  BY <1>1, <1>2 DEF RotateCache, Moved, TypeOK
<1>4. /\ Cached(g) /\ cache'[h] = cache[g] /\ (g # h => cache'[g] = NoEntry)
      /\ \A f \in Hashes \ {g, h} : cache'[f] = cache[f]
  BY <1>1 DEF RotateCache, EntryGone, Moved
<1>5. PICK b : b = Issue(book, h, k)
  OBVIOUS
<1>6. /\ b \in Book /\ b.of = book.of /\ b.issued = book.issued \union {h} /\ b.holder[k] = h
      /\ \A j \in Ids \ {k} : b.holder[j] = book.holder[j]
      /\ b.retired = book.retired /\ b.replaced = book.replaced
      /\ b.torn = book.torn /\ b.lapsed = book.lapsed
  BY <1>1, <1>5, IssueFields DEF TypeOK
<1>7. book' = [b EXCEPT !.replaced = @ \union {g}]
  BY <1>5 DEF RotateCache
<1>8. /\ book' \in Book /\ book'.replaced = b.replaced \union {g}
      /\ book'.of = b.of /\ book'.issued = b.issued /\ book'.holder = b.holder
      /\ book'.retired = b.retired /\ book'.torn = b.torn /\ book'.lapsed = b.lapsed
  BY <1>1, <1>6, <1>7 DEF Book
<1> QED
  BY <1>1, <1>3, <1>4, <1>6, <1>8, Answered DEF RotateCache, TypeOK

(* RotatePanics: the cache entry is gone, and the lock is poisoned.        *)
LEMMA RotatePanicsDoes ==
  ASSUME TypeOK, NEW c \in Calls, RotatePanics(c), NEW k, k = call[c].id
  PROVE  /\ TypeOK'
         /\ call[c].op = "rotated" /\ call'[c].op = "idle" /\ Others(c)
         /\ k \in TenantKeys /\ call[c].old \in Hashes /\ ~Cached(call[c].old)
         /\ book' = Lapse(book, {k})
         /\ UNCHANGED <<rows, cache, phase, boot, cli>>
<1>1. call[c].op = "rotated" /\ k \in TenantKeys /\ k \in Ids /\ call[c].old \in Hashes
  BY CallShape, Constants DEF RotatePanics, EntryGone, ChangeOps
<1>2. Lapse(book, {k}) \in Book
  BY <1>1, LapseFields DEF TypeOK
<1> QED
  BY <1>1, <1>2, Answered DEF RotatePanics, EntryGone, TypeOK

(* AuthHit: the value is in the cache.                                     *)
LEMMA AuthHitDoes ==
  ASSUME TypeOK, NEW h \in Hashes, AuthHit(h)
  PROVE  /\ TypeOK'
         /\ h \in book.issued /\ Cached(h)
         /\ book' = Used(book, h)
         /\ UNCHANGED <<rows, cache, phase, boot, poisoned, call, cli>>
  BY UsedFields DEF AuthHit, TypeOK

(* AuthMiss: the value is not in the cache.                                *)
LEMMA AuthMissDoes ==
  ASSUME TypeOK, NEW c \in Calls, NEW h \in Hashes, AuthMiss(c, h)
  PROVE  /\ TypeOK'
         /\ call[c].op = "idle" /\ call'[c].op = "lookup" /\ call'[c].hash = h /\ Others(c)
         /\ phase = "up" /\ h \in book.issued /\ (Cached(h) => cache[h].revoked)
         /\ UNCHANGED <<rows, cache, phase, boot, poisoned, cli, book>>
<1>1. [op |-> "lookup", hash |-> h] \in CallState
  BY DEF CallState, Lookup
<1> QED
  BY <1>1, Moved1, IdleShape DEF AuthMiss, Serving, TypeOK

(* AuthLoad: the SELECT of authenticate.                                   *)
LEMMA AuthLoadDoes ==
  ASSUME TypeOK, NEW c \in Calls, AuthLoad(c)
  PROVE  /\ TypeOK'
         /\ call[c].op = "lookup" /\ call[c].hash \in Hashes /\ Others(c)
         /\ \/ call'[c].op = "idle"
            \/ \E k \in Ids : /\ rows[k].hash = call[c].hash /\ ~rows[k].revoked
                              /\ call'[c].op = "loaded" /\ call'[c].id = k
                              /\ call'[c].hash = call[c].hash
         /\ UNCHANGED <<rows, cache, phase, boot, poisoned, cli, book>>
<1>1. call[c].op = "lookup" /\ call[c].hash \in Hashes
  BY CallShape DEF AuthLoad
<1>2. CASE Answer(c)
  BY <1>1, <1>2, Answered DEF AuthLoad, TypeOK
<1>3. CASE \E k \in Ids : /\ rows[k].hash = call[c].hash /\ is_active(rows[k])
                          /\ call' = [call EXCEPT ![c] =
                               [op |-> "loaded", hash |-> call[c].hash, id |-> k]]
  <2>1. PICK k \in Ids : /\ rows[k].hash = call[c].hash /\ is_active(rows[k])
                         /\ call' = [call EXCEPT ![c] =
                              [op |-> "loaded", hash |-> call[c].hash, id |-> k]]
    BY <1>3
  <2>2. [op |-> "loaded", hash |-> call[c].hash, id |-> k] \in CallState
    BY <1>1 DEF CallState, Loaded
  <2> QED
    BY <1>1, <2>1, <2>2, Moved1 DEF AuthLoad, TypeOK, is_active
<1> QED
  BY <1>2, <1>3 DEF AuthLoad

(* AuthInsert: the row that was read enters the cache.                     *)
LEMMA AuthInsertDoes ==
  ASSUME TypeOK, NEW c \in Calls, AuthInsert(c), NEW k, k = call[c].id, NEW h, h = call[c].hash
  PROVE  /\ TypeOK'
         /\ call[c].op = "loaded" /\ call'[c].op = "idle" /\ Others(c)
         /\ k \in Ids /\ h \in Hashes
         /\ cache'[h].id = k /\ ~cache'[h].revoked
         /\ \A g \in Hashes \ {h} : IF cache[g].id = k THEN cache'[g] = NoEntry ELSE cache'[g] = cache[g]
         /\ book' = Used(book, h)
         /\ UNCHANGED <<rows, phase, boot, poisoned, cli>>
<1>1. call[c].op = "loaded" /\ k \in Ids /\ h \in Hashes
  BY CallShape DEF AuthInsert
<1>2. NoEntry \in KeyRecord /\ [id |-> k, revoked |-> FALSE] \in KeyRecord
  BY <1>1 DEF NoEntry, KeyRecord
<1>3. /\ cache' \in [Hashes -> KeyRecord]
      /\ cache'[h] = [id |-> k, revoked |-> FALSE]
      /\ \A g \in Hashes \ {h} : IF cache[g].id = k THEN cache'[g] = NoEntry ELSE cache'[g] = cache[g]
  BY <1>1, <1>2 DEF AuthInsert, Installed, TypeOK
<1>4. Used(book, h) \in Book
  BY <1>1, UsedFields DEF TypeOK
<1> QED
  BY <1>1, <1>3, <1>4, Answered DEF AuthInsert, TypeOK

(* CallFails: a statement fails.                                           *)
LEMMA CallFailsDoes ==
  ASSUME TypeOK, NEW c \in Calls, CallFails(c)
  PROVE  /\ TypeOK'
         /\ call[c].op \in {"revoke", "rotate", "lookup"} /\ call'[c].op = "idle" /\ Others(c)
         /\ UNCHANGED <<rows, cache, phase, boot, poisoned, cli, book>>
  BY Answered DEF CallFails, TypeOK

(* CallCut: the client goes away.                                          *)
LEMMA CallCutDoes ==
  ASSUME TypeOK, NEW c \in Calls, CallCut(c), NEW k, k = call[c].id
  PROVE  /\ TypeOK'
         /\ call[c].op \in {"created", "revoked", "rotated", "loaded"} /\ k \in Ids
         /\ call'[c].op = "idle" /\ Others(c)
         /\ book'.of = book.of /\ book'.issued = book.issued /\ book'.holder = book.holder
         /\ book'.retired = book.retired /\ book'.replaced = book.replaced
         /\ book.torn \subseteq book'.torn /\ book.lapsed \subseteq book'.lapsed
         /\ call[c].op \in {"revoked", "rotated"} => k \in book'.torn /\ k \in book'.lapsed
         /\ UNCHANGED <<rows, cache, phase, boot, poisoned, cli>>
<1>1. call[c].op \in {"created", "revoked", "rotated", "loaded"} /\ k \in Ids
  BY CallShape, Constants DEF CallCut, ChangeOps, KeyOps
<1>2. PICK b : b = Tear(book, {k})
  OBVIOUS
<1>3. /\ b \in Book /\ b.of = book.of /\ b.issued = book.issued /\ b.holder = book.holder
      /\ b.retired = book.retired /\ b.replaced = book.replaced
      /\ b.torn = book.torn \union {k} /\ b.lapsed = book.lapsed
  BY <1>1, <1>2, TearFields DEF TypeOK
<1>4. book' \in {book, Lapse(b, {k})}
      /\ (call[c].op \in {"revoked", "rotated"} => book' = Lapse(b, {k}))
  BY <1>2 DEF CallCut
<1>5. /\ book' \in Book
      /\ book'.of = book.of /\ book'.issued = book.issued /\ book'.holder = book.holder
      /\ book'.retired = book.retired /\ book'.replaced = book.replaced
      /\ book.torn \subseteq book'.torn /\ book.lapsed \subseteq book'.lapsed
      /\ call[c].op \in {"revoked", "rotated"} => k \in book'.torn /\ k \in book'.lapsed
  <2>1. /\ Lapse(b, {k}) \in Book /\ Lapse(b, {k}).of = b.of /\ Lapse(b, {k}).issued = b.issued
        /\ Lapse(b, {k}).holder = b.holder /\ Lapse(b, {k}).retired = b.retired
        /\ Lapse(b, {k}).replaced = b.replaced /\ Lapse(b, {k}).torn = b.torn
        /\ Lapse(b, {k}).lapsed = b.lapsed \union {k}
    BY <1>1, <1>3, LapseFields
  <2>2. book \in Book
    BY DEF TypeOK
  <2> QED
    BY <1>3, <1>4, <2>1, <2>2
<1> QED
  BY <1>1, <1>5, Answered DEF CallCut, TypeOK

(* ServerLoad: the start reads the table.                                  *)
LEMMA ServerLoadDoes ==
  ASSUME TypeOK, ServerLoad
  PROVE  /\ TypeOK'
         /\ phase = "down" /\ phase' = "boot"
         /\ \A h \in Hashes :
              \/ /\ cache'[h] = NoEntry
                 /\ \A k \in Ids : rows[k].hash # h
              \/ \E k \in Ids : /\ rows[k].hash = h /\ cache'[h].id = k
                                /\ cache'[h].revoked = rows[k].revoked
         /\ book'.torn = {}
         /\ book'.of = book.of /\ book'.issued = book.issued /\ book'.holder = book.holder
         /\ book'.retired = book.retired /\ book'.replaced = book.replaced
         /\ book'.lapsed = book.lapsed
         /\ UNCHANGED <<rows, boot, poisoned, call, cli>>
<1>1. ASSUME NEW h \in Hashes
      PROVE  /\ cache'[h] \in KeyRecord
             /\ \/ /\ cache'[h] = NoEntry
                   /\ \A k \in Ids : rows[k].hash # h
                \/ \E k \in Ids : /\ rows[k].hash = h /\ cache'[h].id = k
                                  /\ cache'[h].revoked = rows[k].revoked
  <2>1. CASE \A k \in Ids : rows[k].hash # h
    <3>1. cache'[h] = NoEntry
      BY <2>1 DEF ServerLoad, reload_caches
    <3>2. NoEntry \in KeyRecord
      BY DEF NoEntry, KeyRecord
    <3> QED
      BY <2>1, <3>1, <3>2
  <2>2. CASE \E k \in Ids : rows[k].hash = h
    <3>1. PICK k : k = CHOOSE j \in Ids : rows[j].hash = h
      OBVIOUS
    <3>2. k \in Ids /\ rows[k].hash = h
      BY <2>2, <3>1
    <3>3. cache'[h] = [id |-> k, revoked |-> rows[k].revoked]
      BY <2>2, <3>1 DEF ServerLoad, reload_caches
    <3>4. rows[k].revoked \in BOOLEAN
      BY <3>2 DEF TypeOK, Row
    <3> QED
      BY <3>2, <3>3, <3>4 DEF KeyRecord
  <2> QED
    BY <2>1, <2>2
<1>2. cache' \in [Hashes -> KeyRecord]
  BY <1>1 DEF ServerLoad, reload_caches
<1>3. /\ book' \in Book /\ book'.torn = {}
      /\ book'.of = book.of /\ book'.issued = book.issued /\ book'.holder = book.holder
      /\ book'.retired = book.retired /\ book'.replaced = book.replaced
      /\ book'.lapsed = book.lapsed
  BY DEF ServerLoad, TypeOK, Book
<1> QED
  BY <1>1, <1>2, <1>3 DEF ServerLoad, TypeOK

(* BootCreate: the first bootstrap key is made.                            *)
LEMMA BootCreateDoes ==
  ASSUME TypeOK, NEW k \in BootKeys, NEW h \in Hashes, BootCreate(k, h)
  PROVE  /\ TypeOK'
         /\ phase = "boot" /\ ~has_active_platform_key
         /\ rows[k] = NoRow /\ rows'[k] = NewRow(h) /\ rows'[k].hash = h /\ ~rows'[k].revoked
         /\ OtherRows(k)
         /\ cache'[h].id = k /\ ~cache'[h].revoked
         /\ \A g \in Hashes \ {h} : cache'[g] = cache[g]
         /\ boot' = h /\ book.of[h] = None
         /\ book'.of[h] = k
         /\ \A g \in Hashes \ {h} : book'.of[g] = book.of[g]
         /\ book'.issued = book.issued /\ book'.holder = book.holder
         /\ book'.retired = book.retired /\ book'.replaced = book.replaced
         /\ book'.torn = book.torn /\ book'.lapsed = book.lapsed
         /\ UNCHANGED <<phase, poisoned, call, cli>>
<1>1. k \in Ids /\ [id |-> k, revoked |-> FALSE] \in KeyRecord
  BY Constants DEF KeyRecord
<1>2. /\ book' \in Book /\ book'.of[h] = k
      /\ \A g \in Hashes \ {h} : book'.of[g] = book.of[g]
      /\ book'.issued = book.issued /\ book'.holder = book.holder
      /\ book'.retired = book.retired /\ book'.replaced = book.replaced
      /\ book'.torn = book.torn /\ book'.lapsed = book.lapsed
  <2>1. PICK b : b = Mint(book, h, k)
    OBVIOUS
  <2>2. book \in Book /\ book.unseen \in SUBSET BootKeys /\ book' = Rival(b, book.unseen, k)
    BY <2>1 DEF TypeOK, Book, BootCreate
  <2>3. /\ b \in Book /\ b.of[h] = k /\ \A g \in Hashes \ {h} : b.of[g] = book.of[g]
        /\ b.issued = book.issued /\ b.holder = book.holder
        /\ b.retired = book.retired /\ b.replaced = book.replaced
        /\ b.torn = book.torn /\ b.lapsed = book.lapsed
    BY <1>1, <2>1, <2>2, MintFields
  <2>4. /\ book' \in Book /\ book'.of = b.of /\ book'.issued = b.issued /\ book'.holder = b.holder
        /\ book'.retired = b.retired /\ book'.replaced = b.replaced
        /\ book'.torn = b.torn /\ book'.lapsed = b.lapsed
    BY <2>2, <2>3, RivalFields
  <2> QED
    BY <2>3, <2>4
<1> QED
  BY <1>1, <1>2, RowSet DEF BootCreate, TypeOK

(* Serve: the server listens, its key printed.                             *)
LEMMA ServeDoes ==
  ASSUME TypeOK, PhaseInv, Serve
  PROVE  /\ TypeOK'
         /\ phase = "boot" /\ has_active_platform_key /\ phase' = "up" /\ boot' = None
         /\ boot = None => book' = book
         /\ boot # None => /\ boot \in Hashes /\ book.of[boot] \in BootKeys
                           /\ book' = Issue(book, boot, book.of[boot])
         /\ UNCHANGED <<rows, cache, poisoned, call, cli>>
<1>1. boot # None => /\ boot \in Hashes /\ book.of[boot] \in BootKeys /\ book.of[boot] \in Ids
                     /\ Issue(book, boot, book.of[boot]) \in Book
  BY Constants, IssueFields DEF TypeOK, PhaseInv
<1> QED
  BY <1>1 DEF Serve, TypeOK

(* Crash: the process ends.                                                *)
LEMMA CrashDoes ==
  ASSUME TypeOK, Crash
  PROVE  /\ TypeOK'
         /\ phase # "down" /\ phase' = "down" /\ boot' = None /\ ~poisoned'
         /\ \A h \in Hashes : cache'[h] = NoEntry
         /\ \A c \in Calls : call'[c] = Idle
         /\ book'.of = book.of /\ book'.issued = book.issued /\ book'.holder = book.holder
         /\ book'.retired = book.retired /\ book'.replaced = book.replaced
         /\ book'.torn = book.torn /\ book.lapsed \subseteq book'.lapsed
         /\ \A k \in Ids \ book'.lapsed :
              /\ \A c \in Calls : Changes(c, k) => call[c].op \notin {"revoked", "rotated"}
              /\ boot # None => book.of[boot] # k
         /\ UNCHANGED <<rows, cli>>
<1>1. /\ book' \in Book
      /\ book'.of = book.of /\ book'.issued = book.issued /\ book'.holder = book.holder
      /\ book'.retired = book.retired /\ book'.replaced = book.replaced
      /\ book'.torn = book.torn /\ book.lapsed \subseteq book'.lapsed
      /\ \A k \in Ids \ book'.lapsed :
           /\ \A c \in Calls : Changes(c, k) => call[c].op \notin {"revoked", "rotated"}
           /\ boot # None => book.of[boot] # k
  <2>1. PICK s : s = {k \in Ids : \/ \E c \in Changers(k) : call[c].op \in {"revoked", "rotated"}
                                  \/ boot # None /\ book.of[boot] = k}
    OBVIOUS
  <2>2. book \in Book /\ s \in SUBSET Ids /\ book' = Lapse(book, s)
    BY <2>1 DEF TypeOK, Crash
  <2>3. \A k \in Ids \ s : /\ \A c \in Calls : Changes(c, k) => call[c].op \notin {"revoked", "rotated"}
                           /\ boot # None => book.of[boot] # k
    BY <2>1 DEF Changers, Changes, ChangeOps
  <2> QED
    BY <2>2, <2>3, LapseFields
<1> QED
  BY <1>1 DEF Crash, TypeOK, NoEntry, KeyRecord, CallState

(* CliOpen: reset-platform-key reads the table.                            *)
LEMMA CliOpenDoes ==
  ASSUME TypeOK, NEW p \in Clis, CliOpen(p)
  PROVE  /\ TypeOK'
         /\ cli[p].op = "idle" /\ cli'[p].op = "open" /\ cli'[p].seen = ActiveBootKeys /\ OtherClis(p)
         /\ UNCHANGED <<rows, cache, phase, boot, poisoned, call, book>>
<1>1. [op |-> "open", seen |-> ActiveBootKeys] \in CliState
  BY DEF CliState, Opened, ActiveBootKeys
<1> QED
  BY <1>1, CliMoved, IdleShape DEF CliOpen, TypeOK

(* CliCreate: it inserts a first key.                                      *)
LEMMA CliCreateDoes ==
  ASSUME TypeOK, NEW p \in Clis, NEW k \in BootKeys, NEW h \in Hashes, CliCreate(p, k, h)
  PROVE  /\ TypeOK'
         /\ cli[p].op = "open" /\ OtherClis(p)
         /\ cli'[p].op = "written" /\ cli'[p].id = k /\ cli'[p].new = h
         /\ rows[k] = NoRow /\ rows'[k] = NewRow(h) /\ rows'[k].hash = h /\ ~rows'[k].revoked
         /\ OtherRows(k)
         /\ book.of[h] = None
         /\ book'.of[h] = k
         /\ \A g \in Hashes \ {h} : book'.of[g] = book.of[g]
         /\ book'.issued = book.issued /\ book'.holder = book.holder
         /\ book'.retired = book.retired /\ book'.replaced = book.replaced
         /\ book'.torn = book.torn /\ book'.lapsed = book.lapsed
         /\ UNCHANGED <<cache, phase, boot, poisoned, call>>
<1>1. k \in Ids /\ [op |-> "written", id |-> k, new |-> h] \in CliState
  BY Constants DEF CliState, Written
<1>2. /\ book' \in Book /\ book'.of[h] = k
      /\ \A g \in Hashes \ {h} : book'.of[g] = book.of[g]
      /\ book'.issued = book.issued /\ book'.holder = book.holder
      /\ book'.retired = book.retired /\ book'.replaced = book.replaced
      /\ book'.torn = book.torn /\ book'.lapsed = book.lapsed
  <2>1. PICK b, s : b = Mint(book, h, k) /\ s = ActiveBootKeys \ cli[p].seen
    OBVIOUS
  <2>2. PICK d : d = Rival(b, s, k)
    OBVIOUS
  <2>3. book \in Book /\ s \in SUBSET BootKeys /\ book' = [d EXCEPT !.unseen = @ \union {k}]
    BY <2>1, <2>2 DEF TypeOK, CliCreate, ActiveBootKeys
  <2>4. /\ b \in Book /\ b.of[h] = k /\ \A g \in Hashes \ {h} : b.of[g] = book.of[g]
        /\ b.issued = book.issued /\ b.holder = book.holder
        /\ b.retired = book.retired /\ b.replaced = book.replaced
        /\ b.torn = book.torn /\ b.lapsed = book.lapsed
    BY <1>1, <2>1, <2>3, MintFields
  <2>5. /\ d \in Book /\ d.of = b.of /\ d.issued = b.issued /\ d.holder = b.holder
        /\ d.retired = b.retired /\ d.replaced = b.replaced
        /\ d.torn = b.torn /\ d.lapsed = b.lapsed
    BY <2>2, <2>3, <2>4, RivalFields
  <2>6. /\ book' \in Book /\ book'.of = d.of /\ book'.issued = d.issued /\ book'.holder = d.holder
        /\ book'.retired = d.retired /\ book'.replaced = d.replaced
        /\ book'.torn = d.torn /\ book'.lapsed = d.lapsed
    BY <2>3, <2>5 DEF Book
  <2> QED
    BY <2>4, <2>5, <2>6
<1> QED
  BY <1>1, <1>2, RowSet, CliMoved DEF CliCreate, TypeOK

(* CliRotate: it replaces the value of the one it saw.                     *)
LEMMA CliRotateDoes ==
  ASSUME TypeOK, NEW p \in Clis, NEW k \in BootKeys, NEW h \in Hashes, CliRotate(p, k, h)
  PROVE  /\ TypeOK'
         /\ cli[p].op = "open" /\ cli[p].seen = {k} /\ OtherClis(p)
         /\ cli'[p].op = "written" /\ cli'[p].id = k /\ cli'[p].new = h
         /\ rows'[k].hash = h /\ rows'[k].revoked = rows[k].revoked /\ OtherRows(k)
         /\ book.of[h] = None
         /\ book'.of[h] = k
         /\ \A g \in Hashes \ {h} : book'.of[g] = book.of[g]
         /\ book'.issued = book.issued /\ book'.holder = book.holder
         /\ book'.retired = book.retired /\ book'.replaced = book.replaced
         /\ book.torn \subseteq book'.torn /\ book.lapsed \subseteq book'.lapsed
         /\ k \notin book'.torn => \A c \in Calls : ~Reads(c, k)
         /\ k \notin book'.lapsed => /\ \A q \in Clis \ {p} : ~Prints(q, k)
                                     /\ boot # None => book.of[boot] # k
         /\ UNCHANGED <<cache, phase, boot, poisoned, call>>
<1>1. k \in Ids /\ [op |-> "written", id |-> k, new |-> h] \in CliState
  BY Constants DEF CliState, Written
<1>2. /\ book' \in Book /\ book'.of[h] = k
      /\ \A g \in Hashes \ {h} : book'.of[g] = book.of[g]
      /\ book'.issued = book.issued /\ book'.holder = book.holder
      /\ book'.retired = book.retired /\ book'.replaced = book.replaced
      /\ book.torn \subseteq book'.torn /\ book.lapsed \subseteq book'.lapsed
      /\ k \notin book'.torn => \A c \in Calls : ~Reads(c, k)
      /\ k \notin book'.lapsed => /\ \A q \in Clis \ {p} : ~Prints(q, k)
                                  /\ boot # None => book.of[boot] # k
  <2>1. PICK b, r, s : /\ b = Mint(book, h, k)
                       /\ r = {j \in {k} : Readers(k) # {}}
                       /\ s = {j \in {k} : Resetters(k) # {p} \/ (boot # None /\ book.of[boot] = k)}
    OBVIOUS
  <2>2. PICK d : d = Tear(b, r)
    OBVIOUS
  <2>3. book \in Book /\ r \in SUBSET Ids /\ s \in SUBSET Ids /\ book' = Lapse(d, s)
    BY <1>1, <2>1, <2>2 DEF TypeOK, CliRotate
  <2>4. /\ b \in Book /\ b.of[h] = k /\ \A g \in Hashes \ {h} : b.of[g] = book.of[g]
        /\ b.issued = book.issued /\ b.holder = book.holder
        /\ b.retired = book.retired /\ b.replaced = book.replaced
        /\ b.torn = book.torn /\ b.lapsed = book.lapsed
    BY <1>1, <2>1, <2>3, MintFields
  <2>5. /\ d \in Book /\ d.of = b.of /\ d.issued = b.issued /\ d.holder = b.holder
        /\ d.retired = b.retired /\ d.replaced = b.replaced
        /\ d.torn = b.torn \union r /\ d.lapsed = b.lapsed
    BY <2>2, <2>3, <2>4, TearFields
  <2>6. /\ book' \in Book /\ book'.of = d.of /\ book'.issued = d.issued /\ book'.holder = d.holder
        /\ book'.retired = d.retired /\ book'.replaced = d.replaced
        /\ book'.torn = d.torn /\ book'.lapsed = d.lapsed \union s
    BY <2>3, <2>5, LapseFields
  <2>7. k \notin r => \A c \in Calls : ~Reads(c, k)
    BY <2>1 DEF Readers, Reads
  <2>8. k \notin s => /\ \A q \in Clis \ {p} : ~Prints(q, k)
                      /\ boot # None => book.of[boot] # k
    BY <2>1 DEF Resetters, Prints
  <2> QED
    BY <2>4, <2>5, <2>6, <2>7, <2>8
<1>3. rows' \in [Ids -> Row] /\ OtherRows(k) /\ rows'[k].hash = h /\ rows'[k].revoked = rows[k].revoked
  BY <1>1, RowSet DEF CliRotate, Rehashed
<1> QED
  BY <1>1, <1>2, <1>3, CliMoved DEF CliRotate, TypeOK

(* CliBail: it refuses.                                                    *)
LEMMA CliBailDoes ==
  ASSUME TypeOK, NEW p \in Clis, CliBail(p)
  PROVE  /\ TypeOK'
         /\ cli[p].op = "open" /\ cli'[p].op = "idle" /\ OtherClis(p)
         /\ UNCHANGED <<rows, cache, phase, boot, poisoned, call, book>>
<1>1. Idle \in CliState
  BY DEF CliState
<1> QED
  BY <1>1, CliMoved, IdleShape DEF CliBail, TypeOK

(* CliPrint: it prints the value.                                          *)
LEMMA CliPrintDoes ==
  ASSUME TypeOK, NEW p \in Clis, CliPrint(p), NEW k, k = cli[p].id, NEW h, h = cli[p].new
  PROVE  /\ TypeOK'
         /\ cli[p].op = "written" /\ cli'[p].op = "idle" /\ OtherClis(p)
         /\ k \in BootKeys /\ h \in Hashes
         /\ book' = Issue(book, h, k)
         /\ UNCHANGED <<rows, cache, phase, boot, poisoned, call>>
<1>1. Idle \in CliState
  BY DEF CliState
<1>2. k \in BootKeys /\ k \in Ids /\ h \in Hashes
  BY CliShape, Constants DEF CliPrint
<1>3. Issue(book, h, k) \in Book
  BY <1>2, IssueFields DEF TypeOK
<1> QED
  BY <1>1, <1>2, <1>3, CliMoved, IdleShape DEF CliPrint, TypeOK

(* CliDies: it ends before it prints.                                      *)
LEMMA CliDiesDoes ==
  ASSUME TypeOK, NEW p \in Clis, CliDies(p)
  PROVE  /\ TypeOK'
         /\ cli'[p].op = "idle" /\ OtherClis(p)
         /\ book'.of = book.of /\ book'.issued = book.issued /\ book'.holder = book.holder
         /\ book'.retired = book.retired /\ book'.replaced = book.replaced
         /\ book'.torn = book.torn /\ book.lapsed \subseteq book'.lapsed
         /\ \A k \in BootKeys \ book'.lapsed : ~Prints(p, k)
         /\ UNCHANGED <<rows, cache, phase, boot, poisoned, call>>
<1>1. Idle \in CliState
  BY DEF CliState
<1>2. /\ book' \in Book
      /\ book'.of = book.of /\ book'.issued = book.issued /\ book'.holder = book.holder
      /\ book'.retired = book.retired /\ book'.replaced = book.replaced
      /\ book'.torn = book.torn /\ book.lapsed \subseteq book'.lapsed
      /\ \A k \in BootKeys \ book'.lapsed : ~Prints(p, k)
  <2>1. PICK s : s = {k \in BootKeys : cli[p].op = "written" /\ cli[p].id = k}
    OBVIOUS
  <2>2. book \in Book /\ s \in SUBSET Ids /\ book' = Lapse(book, s)
    BY <2>1, Constants DEF TypeOK, CliDies
  <2>3. \A k \in BootKeys \ s : ~Prints(p, k)
    BY <2>1 DEF Prints
  <2> QED
    BY <2>2, <2>3, LapseFields
<1> QED
  BY <1>1, <1>2, CliMoved, IdleShape DEF CliDies, TypeOK

-----------------------------------------------------------------------------
(***************************************************************************)
(* A step leaves a key alone.                                              *)
(***************************************************************************)
SameStore(k) ==
  /\ rows'[k] = rows[k]
  /\ \A h \in Hashes : cache[h].id = k \/ cache'[h].id = k => cache'[h] = cache[h]
  /\ phase' # "down" => phase # "down"

SameRequests(k) == \A c \in Calls : call'[c] = call[c] \/ (~On(c, k) /\ ~On(c, k)')

SameBook(k) ==
  /\ \A h \in Hashes : book'.of[h] = k <=> book.of[h] = k
  /\ \A h \in Hashes : book.of[h] = k => /\ h \in book'.issued <=> h \in book.issued
                                         /\ h \in book'.replaced => h \in book.replaced
  /\ book'.holder[k] = book.holder[k]
  /\ k \in book'.retired <=> k \in book.retired
  /\ k \in book.torn => k \in book'.torn
  /\ k \in book.lapsed => k \in book'.lapsed

SameReset(k) ==
  /\ \A p \in Clis : cli'[p] = cli[p] \/ (~Prints(p, k) /\ ~Prints(p, k)')
  /\ boot' = boot \/ ((boot # None => book.of[boot] # k) /\ (boot' # None => book'.of[boot'] # k))

(* What holds of a key that a step leaves alone goes on holding.           *)
LEMMA Undisturbed ==
  ASSUME TypeOK, TypeOK', NEW k \in Ids, KeyHolds(k),
         SameStore(k), SameRequests(k), SameBook(k), SameReset(k)
  PROVE  KeyHolds(k)'
<1>1. \A c \in Calls : /\ Makes(c, k)' <=> Makes(c, k)
                       /\ Changes(c, k)' <=> Changes(c, k)
                       /\ Reads(c, k)' <=> Reads(c, k)
                       /\ On(c, k)' <=> On(c, k)
                       /\ On(c, k) => call'[c] = call[c]
  BY DEF SameRequests, On, Makes, Changes, Reads, KeyOps
<1>2. \A c \in Calls : Makes(c, k) \/ Changes(c, k) \/ Reads(c, k) => On(c, k)
  BY DEF On, Makes, Changes, Reads, KeyOps
<1>3. \A c \in Calls :
        /\ Makes(c, k) => call[c].new \in Hashes
        /\ Changes(c, k) => call[c].old \in Hashes
        /\ Changes(c, k) /\ call[c].op = "rotated" => call[c].new \in Hashes
        /\ Reads(c, k) => call[c].hash \in Hashes
  BY CallShape DEF Makes, Changes, Reads
<1>4. \A p \in Clis : Prints(p, k)' <=> Prints(p, k)
  BY DEF SameReset, Prints
<1>5. \A p \in Clis : Prints(p, k) => cli'[p] = cli[p] /\ cli[p].new \in Hashes
  BY CliShape DEF SameReset, Prints
<1>6. rows'[k] = rows[k] /\ rows[k].hash \in Hashes \union {None}
  BY DEF SameStore, TypeOK, Row
<1>7. \A h \in Hashes : /\ cache[h].id = k => cache'[h] = cache[h]
                        /\ cache'[h].id = k <=> cache[h].id = k
  BY DEF SameStore
<1>8. book.holder[k] \in Hashes \union {None}
  BY DEF TypeOK, Book
<1>9. book.issued \subseteq Hashes /\ book'.issued \subseteq Hashes /\ book'.replaced \subseteq Hashes
  BY DEF TypeOK, Book
<1>10. Named(k)'
  BY <1>6, <1>7 DEF KeyHolds, Named, SameBook
<1>11. Asked(k)'
  BY <1>1, <1>2, <1>3, <1>6 DEF KeyHolds, Asked, SameBook
<1>12. Told(k)'
  BY <1>4, <1>5, <1>8 DEF KeyHolds, Told, SameBook
<1>13. Sole(k, rows[k].hash)' <=> Sole(k, rows[k].hash)
  BY <1>6 DEF Sole, SameBook
<1>14. Making(k)'
  <2>1. \A c \in Calls : Makes(c, k) => (Sole(k, call[c].new)' <=> Sole(k, call[c].new))
    BY <1>1, <1>2 DEF Sole, SameBook
  <2>2. \A c \in Calls : Makes(c, k) => book.of[call[c].new] = k
    BY DEF KeyHolds, Asked
  <2> QED
    BY <1>1, <1>2, <1>3, <1>6, <1>7, <2>1, <2>2 DEF KeyHolds, Making, SameBook, NewRow
<1>15. Alone(k)'
  <2>1. rows[k].hash \in book.issued => rows[k].hash \in Hashes /\ book.of[rows[k].hash] = k
    BY <1>9, Constants DEF KeyHolds, Named
  <2>2. rows[k].hash \in book'.issued => rows[k].hash \in Hashes /\ book.of[rows[k].hash] = k
    BY <1>9, Constants DEF KeyHolds, Named
  <2> QED
    BY <1>6, <1>7, <2>1, <2>2 DEF KeyHolds, Alone, SameBook, SameStore
<1>16. Untorn(k)'
  <2>1. UntornTenant(k) => UntornTenant(k)'
    BY <1>1, <1>2, <1>3, <1>6, <1>7 DEF UntornTenant, SameBook
  <2>2. UntornBoot(k) => UntornBoot(k)'
    BY <1>1, <1>2, <1>6 DEF UntornBoot
  <2> QED
    BY <2>1, <2>2 DEF KeyHolds, Untorn, SameBook
<1>17. Replaced(k)'
  BY <1>6, <1>7, <1>9 DEF KeyHolds, Replaced, SameBook
<1>18. Held(k)'
  <2>1. (rows[k].hash # None /\ rows[k].hash \notin book'.issued) => rows[k].hash \notin book.issued
    BY <1>6, Constants DEF KeyHolds, Named, SameBook
  <2>2. TenantHeld(k) => TenantHeld(k)'
    BY <1>1, <1>2, <1>6, <1>13, <2>1 DEF TenantHeld, SameBook
  <2>3. BootHeld(k) => BootHeld(k)'
    <3>1. (boot' # None /\ book'.of[boot'] = k) => boot' = boot /\ book.of[boot] = k
      BY DEF SameReset, SameBook, TypeOK
    <3>2. rows[k].hash # None /\ boot = rows[k].hash => boot' = boot
      BY <1>6, Constants DEF KeyHolds, Named, SameReset
    <3> QED
      BY <1>4, <1>5, <1>6, <2>1, <3>1, <3>2 DEF BootHeld
  <2>4. (book'.holder[k] # None /\ rows[k].hash \in book'.issued) => rows[k].hash \in book.issued
    BY <1>9, Constants DEF KeyHolds, Named, SameBook
  <2> QED
    BY <1>6, <2>2, <2>3, <2>4 DEF KeyHolds, Held, SameBook
<1> QED
  BY <1>10, <1>11, <1>12, <1>14, <1>15, <1>16, <1>17, <1>18 DEF KeyHolds

(* A request in flight means that the server is up and has printed its key. *)
LEMMA InFlight ==
  ASSUME PhaseInv, NEW c \in Calls, call[c].op # "idle" \/ Serving
  PROVE  phase = "up" /\ boot = None
  BY IdleShape DEF PhaseInv, Serving

(* The relations between keys that a step of a request does not concern.   *)
LEMMA RequestKeepsRest ==
  ASSUME TypeOK, PhaseInv, ResetInv, phase = "up", UNCHANGED <<phase, boot, cli>>,
         \A k \in BootKeys : rows'[k] = rows[k],
         book.lapsed \subseteq book'.lapsed
  PROVE  PhaseInv' /\ ResetInv'
<1>1. boot = None
  BY DEF PhaseInv
<1>2. PhaseInv'
  BY <1>1 DEF PhaseInv
<1>3. \A p \in Clis : cli[p].op = "open" => cli[p].seen \subseteq BootKeys
  BY CliShape
<1>4. ResetInv'
  BY <1>3 DEF ResetInv
<1> QED
  BY <1>2, <1>4

(* When LookupInv outlives a step that starts no lookup and mints known    *)
(* values.                                                                 *)
LEMMA LookupKept ==
  ASSUME TypeOK', LookupInv,
         \A h \in Hashes : book.of[h] # None => book'.of[h] # None,
         book.issued \subseteq book'.issued,
         \A h \in book'.issued \union book'.replaced :
           h \in book.issued \union book.replaced \/ book'.of[h] # None,
         \A c \in Calls : call'[c].op = "lookup" => call'[c] = call[c],
         \A k \in TenantKeys :
           \/ rows'[k].hash = rows[k].hash /\ (rows[k].revoked => rows'[k].revoked)
           \/ book.of[rows'[k].hash] = None
  PROVE  LookupInv'
<1>1. book'.issued \subseteq Hashes /\ book'.replaced \subseteq Hashes
  BY DEF TypeOK, Book
<1>2. \A h \in book'.issued \union book'.replaced : book'.of[h] # None
  BY <1>1 DEF LookupInv
<1>3. ASSUME NEW c \in Calls, call'[c].op = "lookup", NEW k \in TenantKeys,
             rows'[k].hash = call'[c].hash
      PROVE  rows'[k].revoked
  BY <1>3 DEF LookupInv
<1> QED
  BY <1>2, <1>3 DEF LookupInv

-----------------------------------------------------------------------------
(* The steps of create_key.                                                *)
LEMMA CreateInsertKeeps ==
  ASSUME TypeOK, KeyInv, NEW c \in Calls, NEW k \in TenantKeys, NEW h \in Hashes,
         CreateInsert(c, k, h)
  PROVE  KeyInv'
<1>1. /\ TypeOK'
      /\ call[c].op = "idle" /\ Others(c)
      /\ call'[c].op = "created" /\ call'[c].id = k /\ call'[c].new = h
      /\ rows[k] = NoRow /\ rows'[k] = NewRow(h) /\ rows'[k].hash = h /\ ~rows'[k].revoked
      /\ OtherRows(k)
      /\ book.of[h] = None /\ book' = Mint(book, h, k)
      /\ UNCHANGED <<cache, phase, boot, poisoned, cli>>
  BY CreateInsertDoes
<1>2. /\ k \in Ids /\ None \notin Ids /\ None \notin Hashes
      /\ phase = "up" /\ boot = None
      /\ rows[k].hash = None
  BY <1>1, InFlight, Constants DEF CreateInsert, KeyInv, NoRow
<1>3. /\ book'.of[h] = k
      /\ \A g \in Hashes \ {h} : book'.of[g] = book.of[g]
      /\ book'.issued = book.issued /\ book'.holder = book.holder
      /\ book'.retired = book.retired /\ book'.replaced = book.replaced
      /\ book'.torn = book.torn /\ book'.lapsed = book.lapsed
  <2>1. book \in Book
    BY DEF TypeOK
  <2> QED
    BY <1>1, <1>2, <2>1, MintFields
<1>4. ASSUME NEW j \in Ids \ {k} PROVE KeyHolds(j)'
  <2>1. SameStore(j) /\ SameReset(j)
    BY <1>1 DEF SameStore, SameReset, OtherRows
  <2>2. SameRequests(j)
    BY <1>1 DEF SameRequests, Others, On, KeyOps, ChangeOps
  <2>3. SameBook(j)
    BY <1>1, <1>2, <1>3 DEF SameBook, KeyInv, LookupInv
  <2> QED
    BY <1>1, <2>1, <2>2, <2>3, Undisturbed DEF KeyInv
<1>5. KeyHolds(k)
  BY <1>2 DEF KeyInv
<1>6. /\ \A g \in Hashes : book.of[g] # k /\ cache[g].id # k
      /\ book.holder[k] = None
      /\ k \notin book.retired
  BY <1>1, <1>2, <1>5 DEF KeyHolds, Named, Told, TypeOK, Book, NoRow
<1>7. \A d \in Calls \ {c} : ~On(d, k) /\ ~On(d, k)'
  BY <1>1, <1>5, <1>6, CallShape DEF KeyHolds, Asked, On, KeyOps, Makes, Changes, Reads, Others
<1>8. h \notin book.issued /\ h \notin book.replaced
  BY <1>1 DEF KeyInv, LookupInv
<1>9. /\ \A d \in Calls : ~Changes(d, k)' /\ ~Reads(d, k)' /\ (Makes(d, k)' => d = c)
      /\ \A p \in Clis : ~Prints(p, k)'
  <2>1. \A p \in Clis : ~Prints(p, k)
    BY <1>5, <1>6, CliShape DEF KeyHolds, Told, Prints
  <2>2. \A d \in Calls \ {c} : ~Changes(d, k)' /\ ~Reads(d, k)' /\ ~Makes(d, k)'
    BY <1>7 DEF On, Changes, Reads, Makes, KeyOps
  <2> QED
    BY <1>1, <2>1, <2>2 DEF Changes, Reads, Prints, ChangeOps
<1>10. Named(k)' /\ Asked(k)' /\ Told(k)'
  <2>1. Named(k)'
    BY <1>1, <1>2, <1>3, <1>6 DEF Named
  <2>2. Asked(k)'
    BY <1>1, <1>3, <1>9 DEF Asked
  <2>3. Told(k)'
    BY <1>1, <1>3, <1>6, <1>9 DEF Told
  <2> QED
    BY <2>1, <2>2, <2>3
<1>11. Making(k)'
  <2>1. Sole(k, h)'
    BY <1>3, <1>6 DEF Sole
  <2> QED
    BY <1>1, <1>3, <1>6, <1>7, <1>8, <1>9, <2>1 DEF Making
<1>12. Alone(k)' /\ Untorn(k)' /\ Replaced(k)'
  <2>1. k \notin BootKeys
    BY <1>2, Constants
  <2>2. Alone(k)'
    BY <1>1, <1>3, <1>6, <1>8 DEF Alone
  <2>3. Untorn(k)'
    BY <1>1, <1>6, <1>9, <2>1 DEF Untorn, UntornTenant
  <2>4. Replaced(k)'
    BY <1>1, <1>3, <1>6, <1>8 DEF Replaced, TypeOK, Book
  <2> QED
    BY <2>2, <2>3, <2>4
<1>13. Held(k)'
  <2>1. Sole(k, rows[k].hash)'
    BY <1>1, <1>3, <1>6 DEF Sole
  <2> QED
    BY <1>1, <1>2, <1>3, <1>6, <2>1, Constants DEF Held, TenantHeld
<1>14. LookupInv'
  <2>1. \A d \in Calls : call'[d].op = "lookup" => call'[d] = call[d]
    BY <1>1 DEF Others
  <2>2. \A j \in TenantKeys : rows'[j] = rows[j] \/ book.of[rows'[j].hash] = None
    BY <1>1, Constants DEF OtherRows
  <2> QED
    BY <1>1, <1>2, <1>3, <2>1, <2>2, LookupKept DEF KeyInv
<1>15. PhaseInv' /\ ResetInv'
  BY <1>1, <1>2, <1>3, RequestKeepsRest, Constants DEF KeyInv, OtherRows
<1> QED
  BY <1>4, <1>10, <1>11, <1>12, <1>13, <1>14, <1>15 DEF KeyInv, KeyHolds

(* CreateCache: the created key enters the cache.                          *)
LEMMA CreateCacheKeeps ==
  ASSUME TypeOK, KeyInv, NEW c \in Calls, CreateCache(c)
  PROVE  KeyInv'
<1>0. PICK k, h : k = call[c].id /\ h = call[c].new
  OBVIOUS
<1>1. /\ TypeOK'
      /\ call[c].op = "created" /\ call'[c].op = "idle" /\ Others(c)
      /\ k \in TenantKeys /\ h \in Hashes
      /\ cache'[h].id = k /\ ~cache'[h].revoked
      /\ \A g \in Hashes \ {h} : cache'[g] = cache[g]
      /\ book' = Issue(book, h, k)
      /\ UNCHANGED <<rows, phase, boot, poisoned, cli>>
  BY <1>0, CreateCacheDoes
<1>2. /\ k \in Ids /\ k \notin BootKeys /\ None \notin Ids /\ None \notin Hashes
      /\ phase = "up" /\ boot = None /\ KeyHolds(k) /\ Makes(c, k)
  BY <1>0, <1>1, InFlight, Constants DEF KeyInv, Makes
<1>3. /\ book'.of = book.of /\ book'.issued = book.issued \union {h}
      /\ book'.holder[k] = h
      /\ \A j \in Ids \ {k} : book'.holder[j] = book.holder[j]
      /\ book'.retired = book.retired /\ book'.replaced = book.replaced
      /\ book'.torn = book.torn /\ book'.lapsed = book.lapsed
  <2>1. book \in Book
    BY DEF TypeOK
  <2> QED
    BY <1>1, <1>2, <2>1, IssueFields
<1>4. /\ book.of[h] = k /\ rows[k] = NewRow(h) /\ h \notin book.issued /\ Sole(k, h)
      /\ \A g \in Hashes : cache[g].id # k
      /\ \A d \in Calls \ {c} : ~On(d, k)
  BY <1>0, <1>2 DEF KeyHolds, Asked, Making
<1>5. rows[k].hash = h /\ ~rows[k].revoked
  BY <1>4 DEF NewRow
<1>6. ASSUME NEW j \in Ids \ {k} PROVE KeyHolds(j)'
  <2>1. KeyHolds(j) /\ cache[h].id # j
    BY <1>4, <1>1 DEF KeyInv, KeyHolds, Named
  <2>2. SameStore(j) /\ SameReset(j)
    BY <1>1, <2>1 DEF SameStore, SameReset
  <2>3. SameRequests(j)
    BY <1>0, <1>1 DEF SameRequests, Others, On, KeyOps, ChangeOps
  <2>4. SameBook(j)
    BY <1>1, <1>3, <1>4 DEF SameBook
  <2> QED
    BY <1>1, <2>1, <2>2, <2>3, <2>4, Undisturbed
<1>7. \A d \in Calls : ~Changes(d, k)' /\ ~Reads(d, k)' /\ ~Makes(d, k)'
  BY <1>1, <1>4 DEF On, Changes, Reads, Makes, KeyOps, ChangeOps, Others
<1>8. Named(k)' /\ Asked(k)' /\ Told(k)' /\ Making(k)'
  <2>1. Named(k)'
    BY <1>1, <1>2, <1>3, <1>4, <1>5 DEF KeyHolds, Named
  <2>2. Asked(k)' /\ Making(k)'
    BY <1>7 DEF Asked, Making
  <2>3. Told(k)'
    BY <1>1, <1>2, <1>3, <1>4 DEF KeyHolds, Told, Prints
  <2> QED
    BY <2>1, <2>2, <2>3
<1>9. Alone(k)' /\ Untorn(k)' /\ Replaced(k)'
  <2>1. Alone(k)'
    BY <1>1, <1>3, <1>4, <1>5 DEF Alone
  <2>2. k \notin book.retired
    BY <1>2, <1>5 DEF KeyHolds, Named
  <2>3. Untorn(k)'
    BY <1>1, <1>2, <1>3, <1>4, <1>5, <1>7, <2>2 DEF Untorn, UntornTenant
  <2>4. \A g \in book.replaced : book.of[g] # k
    BY <1>2, <1>4, <1>5 DEF KeyHolds, Replaced, Sole, TypeOK, Book
  <2>5. Replaced(k)'
    BY <1>3, <2>4 DEF Replaced
  <2> QED
    BY <2>1, <2>3, <2>5
<1>10. Held(k)'
  BY <1>1, <1>2, <1>3, <1>5 DEF Held, TenantHeld
<1>11. LookupInv'
  <2>1. \A d \in Calls : call'[d].op = "lookup" => call'[d] = call[d]
    BY <1>1 DEF Others
  <2> QED
    BY <1>1, <1>2, <1>3, <1>4, <2>1, LookupKept DEF KeyInv
<1>12. PhaseInv' /\ ResetInv'
  BY <1>1, <1>2, <1>3, RequestKeepsRest DEF KeyInv
<1> QED
  BY <1>6, <1>8, <1>9, <1>10, <1>11, <1>12 DEF KeyInv, KeyHolds

-----------------------------------------------------------------------------
(* revoke_key and rotate_key remember a cached value.                      *)
LEMMA BeginKeeps ==
  ASSUME TypeOK, KeyInv, NEW c \in Calls, NEW h \in Hashes, NEW op \in {"revoke", "rotate"},
         Begin(c, h, op), overlapped' \in SUBSET Calls
  PROVE  KeyInv'
<1>0. PICK k : k = cache[h].id
  OBVIOUS
<1>1. /\ TypeOK'
      /\ call[c].op = "idle" /\ Others(c)
      /\ call'[c].op = op /\ call'[c].id = k /\ call'[c].old = h
      /\ k \in TenantKeys
      /\ book'.of = book.of /\ book'.issued = book.issued /\ book'.holder = book.holder
      /\ book'.retired = book.retired /\ book'.replaced = book.replaced
      /\ book.torn \subseteq book'.torn /\ book'.lapsed = book.lapsed
      /\ k \notin book'.torn => \A d \in Calls : ~Changes(d, k)
      /\ UNCHANGED <<rows, cache, phase, boot, poisoned, cli>>
  BY <1>0, BeginDoes
<1>2. /\ k \in Ids /\ k \notin BootKeys /\ None \notin Ids /\ None \notin Hashes
      /\ phase = "up" /\ boot = None /\ KeyHolds(k)
  BY <1>1, InFlight, Constants DEF KeyInv, Begin
<1>4. ASSUME NEW j \in Ids \ {k} PROVE KeyHolds(j)'
  <2>1. SameStore(j) /\ SameReset(j) /\ SameBook(j)
    BY <1>1 DEF SameStore, SameReset, SameBook
  <2>2. SameRequests(j)
    BY <1>1 DEF SameRequests, Others, On, KeyOps, ChangeOps
  <2> QED
    BY <1>1, <2>1, <2>2, Undisturbed DEF KeyInv
<1>5. /\ \A d \in Calls : Makes(d, k)' <=> Makes(d, k)
      /\ \A d \in Calls : Reads(d, k)' <=> Reads(d, k)
      /\ \A d \in Calls \ {c} : (Changes(d, k)' <=> Changes(d, k)) /\ call'[d] = call[d]
      /\ ~Makes(c, k) /\ ~Reads(c, k) /\ ~Changes(c, k) /\ Changes(c, k)'
      /\ call'[c].op \notin {"revoked", "rotated"}
  BY <1>1 DEF Makes, Reads, Changes, Others, ChangeOps
<1>6. book.of[h] = k
  BY <1>0, <1>2 DEF KeyHolds, Named
<1>7. Named(k)' /\ Told(k)' /\ Alone(k)' /\ Replaced(k)'
  <2>1. Named(k)' /\ Alone(k)'
    BY <1>1, <1>2 DEF KeyHolds, Named, Alone
  <2>2. Told(k)'
    BY <1>1, <1>2 DEF KeyHolds, Told, Prints
  <2>3. Replaced(k)'
    BY <1>1, <1>2 DEF KeyHolds, Replaced
  <2> QED
    BY <2>1, <2>2, <2>3
<1>8. Asked(k)'
  BY <1>1, <1>2, <1>5, <1>6 DEF KeyHolds, Asked
<1>9. Making(k)'
  <2>1. \A d \in Calls : ~Makes(d, k)
    BY <1>0, <1>2 DEF KeyHolds, Making
  <2> QED
    BY <1>5, <2>1 DEF Making
<1>10. Untorn(k)'
  <2> SUFFICES ASSUME k \notin book'.torn PROVE UntornTenant(k)'
    BY <1>2 DEF Untorn
  <2>1. UntornTenant(k) /\ \A d \in Calls : ~Changes(d, k)
    BY <1>1, <1>2 DEF KeyHolds, Untorn
  <2> QED
    BY <1>0, <1>1, <1>5, <2>1 DEF UntornTenant
<1>11. Held(k)'
  <2>1. TenantHeld(k) => TenantHeld(k)'
    BY <1>1, <1>5 DEF TenantHeld, Sole
  <2> QED
    BY <1>1, <1>2, <2>1 DEF KeyHolds, Held
<1>12. LookupInv'
  <2>1. \A d \in Calls : call'[d].op = "lookup" => call'[d] = call[d]
    BY <1>1 DEF Others
  <2> QED
    BY <1>1, <1>2, <2>1, LookupKept DEF KeyInv
<1>13. PhaseInv' /\ ResetInv'
  BY <1>1, <1>2, RequestKeepsRest DEF KeyInv
<1> QED
  BY <1>4, <1>7, <1>8, <1>9, <1>10, <1>11, <1>12, <1>13 DEF KeyInv, KeyHolds

(* RevokeWrite: the UPDATE of a revocation.                                *)
LEMMA RevokeWriteKeeps ==
  ASSUME TypeOK, KeyInv, NEW c \in Calls, RevokeWrite(c)
  PROVE  KeyInv'
<1>0. PICK k : k = call[c].id
  OBVIOUS
<1>1. /\ TypeOK'
      /\ call[c].op = "revoke" /\ call'[c].op = "revoked" /\ Others(c)
      /\ call'[c].id = k /\ call'[c].old = call[c].old
      /\ k \in TenantKeys /\ call[c].old \in Hashes
      /\ rows'[k].hash = rows[k].hash /\ rows'[k].revoked /\ OtherRows(k)
      /\ UNCHANGED <<cache, phase, boot, poisoned, cli, book>>
  BY <1>0, RevokeWriteDoes
<1>2. /\ k \in Ids /\ k \notin BootKeys
      /\ phase = "up" /\ boot = None /\ KeyHolds(k)
      /\ Changes(c, k) /\ ~Makes(c, k) /\ ~Reads(c, k) /\ On(c, k)
  BY <1>0, <1>1, InFlight, Constants DEF KeyInv, Changes, Makes, Reads, ChangeOps, On, KeyOps
<1>3. ASSUME NEW j \in Ids \ {k} PROVE KeyHolds(j)'
  <2>1. SameStore(j) /\ SameReset(j) /\ SameBook(j)
    BY <1>1 DEF SameStore, SameReset, SameBook, OtherRows
  <2>2. SameRequests(j)
    BY <1>0, <1>1 DEF SameRequests, Others, On
  <2> QED
    BY <1>1, <2>1, <2>2, Undisturbed DEF KeyInv
<1>4. /\ \A d \in Calls : Makes(d, k)' <=> Makes(d, k)
      /\ \A d \in Calls : Reads(d, k)' <=> Reads(d, k)
      /\ \A d \in Calls : Changes(d, k)' <=> Changes(d, k)
      /\ \A d \in Calls \ {c} : call'[d] = call[d]
  BY <1>0, <1>1 DEF Makes, Reads, Changes, Others, ChangeOps
<1>5. \A d \in Calls : ~Makes(d, k)
  BY <1>2 DEF KeyHolds, Making
<1>6. Named(k)' /\ Told(k)' /\ Alone(k)' /\ Replaced(k)'
  <2>1. Named(k)' /\ Alone(k)'
    BY <1>1, <1>2 DEF KeyHolds, Named, Alone
  <2>2. Told(k)'
    BY <1>1, <1>2 DEF KeyHolds, Told, Prints
  <2>3. Replaced(k)'
    BY <1>1, <1>2 DEF KeyHolds, Replaced
  <2> QED
    BY <2>1, <2>2, <2>3
<1>7. Asked(k)' /\ Making(k)'
  BY <1>1, <1>2, <1>4, <1>5 DEF KeyHolds, Asked, Making
<1>8. Untorn(k)'
  <2> SUFFICES ASSUME k \notin book'.torn PROVE UntornTenant(k)'
    BY <1>2 DEF Untorn
  <2>1. UntornTenant(k)
    BY <1>1, <1>2 DEF KeyHolds, Untorn
  <2>2. \A d \in Calls : Changes(d, k) => d = c
    BY <1>2, <2>1 DEF UntornTenant
  <2> QED
    BY <1>1, <1>2, <1>4, <2>1, <2>2 DEF UntornTenant
<1>9. Held(k)'
  <2>1. TenantHeld(k) => TenantHeld(k)'
    BY <1>1, <1>2, <1>4 DEF TenantHeld, Sole
  <2> QED
    BY <1>1, <1>2, <2>1 DEF KeyHolds, Held
<1>10. LookupInv'
  <2>1. \A d \in Calls : call'[d].op = "lookup" => call'[d] = call[d]
    BY <1>1 DEF Others
  <2>2. \A j \in TenantKeys : rows'[j].hash = rows[j].hash /\ (rows[j].revoked => rows'[j].revoked)
    BY <1>1, Constants DEF OtherRows
  <2> QED
    BY <1>1, <2>1, <2>2, LookupKept DEF KeyInv
<1>11. PhaseInv' /\ ResetInv'
  BY <1>1, <1>2, RequestKeepsRest, Constants DEF KeyInv, OtherRows
<1> QED
  BY <1>3, <1>6, <1>7, <1>8, <1>9, <1>10, <1>11 DEF KeyInv, KeyHolds

(* RevokeCache: the cache entry under the old value is revoked.            *)
LEMMA RevokeCacheKeeps ==
  ASSUME TypeOK, KeyInv, NEW c \in Calls, RevokeCache(c)
  PROVE  KeyInv'
<1>0. PICK k, g : k = call[c].id /\ g = call[c].old
  OBVIOUS
<1>1. /\ TypeOK'
      /\ call[c].op = "revoked" /\ call'[c].op = "idle" /\ Others(c)
      /\ k \in TenantKeys /\ g \in Hashes
      /\ \A h \in Hashes : /\ cache'[h].id = cache[h].id
                           /\ h = g /\ Cached(h) => cache'[h].revoked
                           /\ h # g => cache'[h] = cache[h]
      /\ book'.retired = book.retired \union {k}
      /\ book'.of = book.of /\ book'.issued = book.issued /\ book'.holder = book.holder
      /\ book'.replaced = book.replaced /\ book'.torn = book.torn /\ book'.lapsed = book.lapsed
      /\ UNCHANGED <<rows, phase, boot, poisoned, cli>>
  BY <1>0, RevokeCacheDoes
<1>2. /\ k \in Ids /\ k \notin BootKeys
      /\ phase = "up" /\ boot = None /\ KeyHolds(k)
      /\ Changes(c, k) /\ ~Makes(c, k) /\ ~Reads(c, k) /\ On(c, k)
  BY <1>0, <1>1, InFlight, Constants DEF KeyInv, Changes, Makes, Reads, ChangeOps, On, KeyOps
<1>3. book.of[g] = k /\ rows[k].revoked
  BY <1>0, <1>1, <1>2 DEF KeyHolds, Asked
<1>4. ASSUME NEW j \in Ids \ {k} PROVE KeyHolds(j)'
  <2>1. KeyHolds(j) /\ cache[g].id # j
    BY <1>1, <1>3 DEF KeyInv, KeyHolds, Named
  <2>2. SameStore(j) /\ SameReset(j) /\ SameBook(j)
    BY <1>1, <2>1 DEF SameStore, SameReset, SameBook
  <2>3. SameRequests(j)
    BY <1>0, <1>1 DEF SameRequests, Others, On, KeyOps, ChangeOps
  <2> QED
    BY <1>1, <2>1, <2>2, <2>3, Undisturbed
<1>5. /\ \A d \in Calls : Makes(d, k)' <=> Makes(d, k)
      /\ \A d \in Calls : Reads(d, k)' <=> Reads(d, k)
      /\ \A d \in Calls \ {c} : (Changes(d, k)' <=> Changes(d, k)) /\ call'[d] = call[d]
      /\ ~Changes(c, k)' /\ ~Makes(c, k) /\ ~Reads(c, k)
  BY <1>0, <1>1 DEF Makes, Reads, Changes, Others, ChangeOps
<1>6. \A d \in Calls : ~Makes(d, k)
  BY <1>2 DEF KeyHolds, Making
<1>7. Named(k)' /\ Told(k)' /\ Alone(k)' /\ Replaced(k)'
  <2>1. Named(k)'
    BY <1>1, <1>2, <1>3 DEF KeyHolds, Named
  <2>2. Told(k)'
    BY <1>1, <1>2 DEF KeyHolds, Told, Prints
  <2>3. Replaced(k)'
    BY <1>1, <1>2 DEF KeyHolds, Replaced, TypeOK, Book
  <2>4. rows[k].hash \in book.issued => rows[k].hash \in Hashes
    BY DEF TypeOK, Book
  <2>5. Alone(k)'
    BY <1>1, <1>2, <2>4 DEF KeyHolds, Alone
  <2> QED
    BY <2>1, <2>2, <2>3, <2>5
<1>8. Asked(k)' /\ Making(k)'
  BY <1>1, <1>2, <1>5, <1>6 DEF KeyHolds, Asked, Making
<1>9. Untorn(k)'
  <2> SUFFICES ASSUME k \notin book'.torn PROVE UntornTenant(k)'
    BY <1>2 DEF Untorn
  <2>1. UntornTenant(k)
    BY <1>1, <1>2 DEF KeyHolds, Untorn
  <2>2. \A d \in Calls : Changes(d, k) => d = c
    BY <1>2, <2>1 DEF UntornTenant
  <2>3. rows[k].hash = g /\ cache[g].id = k
    BY <1>0, <1>1, <1>2, <2>1 DEF UntornTenant
  <2>4. \A h \in Hashes : cache[h].id = k => h = g
    BY <1>1, <1>2, <2>3 DEF KeyHolds, Alone
  <2>5. Cached(g)
    BY <1>2, <2>3, Constants DEF Cached
  <2> QED
    BY <1>1, <1>5, <2>2, <2>3, <2>4, <2>5 DEF UntornTenant
<1>10. Held(k)'
  <2>1. TenantHeld(k) => TenantHeld(k)'
    BY <1>0, <1>1, <1>2, <1>5 DEF TenantHeld, Sole
  <2> QED
    BY <1>1, <1>2, <2>1 DEF KeyHolds, Held
<1>11. LookupInv'
  <2>1. \A d \in Calls : call'[d].op = "lookup" => call'[d] = call[d]
    BY <1>1 DEF Others
  <2> QED
    BY <1>1, <2>1, LookupKept DEF KeyInv
<1>12. PhaseInv' /\ ResetInv'
  BY <1>1, <1>2, RequestKeepsRest DEF KeyInv
<1> QED
  BY <1>4, <1>7, <1>8, <1>9, <1>10, <1>11, <1>12 DEF KeyInv, KeyHolds

(* RotateWrite: the UPDATE of a rotation.                                  *)
LEMMA RotateWriteKeeps ==
  ASSUME TypeOK, KeyInv, NEW c \in Calls, NEW h \in Hashes, RotateWrite(c, h)
  PROVE  KeyInv'
<1>0. PICK k, g : k = call[c].id /\ g = call[c].old
  OBVIOUS
<1>1. /\ TypeOK'
      /\ call[c].op = "rotate" /\ call'[c].op = "rotated" /\ Others(c)
      /\ call'[c].id = k /\ call'[c].old = g /\ call'[c].new = h
      /\ k \in TenantKeys /\ g \in Hashes
      /\ rows'[k].hash = h /\ rows'[k].revoked = rows[k].revoked /\ OtherRows(k)
      /\ book.of[h] = None
      /\ book'.of[h] = k
      /\ \A f \in Hashes \ {h} : book'.of[f] = book.of[f]
      /\ book'.issued = book.issued /\ book'.holder = book.holder
      /\ book'.retired = book.retired /\ book'.replaced = book.replaced
      /\ book.torn \subseteq book'.torn /\ book'.lapsed = book.lapsed
      /\ UNCHANGED <<cache, phase, boot, poisoned, cli>>
  BY <1>0, RotateWriteDoes
<1>2. /\ k \in Ids /\ k \notin BootKeys /\ None \notin Ids /\ None \notin Hashes
      /\ phase = "up" /\ boot = None /\ KeyHolds(k)
      /\ Changes(c, k) /\ ~Makes(c, k) /\ ~Reads(c, k) /\ On(c, k)
  BY <1>0, <1>1, InFlight, Constants DEF KeyInv, Changes, Makes, Reads, ChangeOps, On, KeyOps
<1>3. /\ h \notin book.issued /\ h \notin book.replaced /\ cache[h].id # k
      /\ book.of[g] = k /\ g # h
  BY <1>0, <1>1, <1>2 DEF KeyInv, LookupInv, KeyHolds, Named, Asked
<1>4. ASSUME NEW j \in Ids \ {k} PROVE KeyHolds(j)'
  <2>1. SameStore(j) /\ SameReset(j)
    BY <1>1 DEF SameStore, SameReset, OtherRows
  <2>2. SameBook(j)
    BY <1>1, <1>2 DEF SameBook
  <2>3. SameRequests(j)
    BY <1>0, <1>1 DEF SameRequests, Others, On
  <2> QED
    BY <1>1, <2>1, <2>2, <2>3, Undisturbed DEF KeyInv
<1>5. /\ \A d \in Calls : Makes(d, k)' <=> Makes(d, k)
      /\ \A d \in Calls : Reads(d, k)' <=> Reads(d, k)
      /\ \A d \in Calls : Changes(d, k)' <=> Changes(d, k)
      /\ \A d \in Calls \ {c} : call'[d] = call[d]
  BY <1>0, <1>1 DEF Makes, Reads, Changes, Others, ChangeOps
<1>6. /\ \A d \in Calls : ~Makes(d, k)
      /\ \A d \in Calls : ~Reads(d, k)
  BY <1>2 DEF KeyHolds, Making, Asked
<1>7. \A d \in Calls : Changes(d, k) =>
        /\ call[d].old \in Hashes
        /\ call[d].op = "rotated" => call[d].new \in Hashes
  BY CallShape DEF Changes
<1>8. Named(k)' /\ Told(k)' /\ Alone(k)' /\ Replaced(k)'
  <2>1. Named(k)'
    BY <1>1, <1>2, <1>3 DEF KeyHolds, Named
  <2>2. Alone(k)'
    BY <1>1, <1>2, <1>3 DEF KeyHolds, Alone
  <2>3. Told(k)'
    <3>1. \A p \in Clis : Prints(p, k) => cli[p].new \in Hashes
      BY CliShape DEF Prints
    <3>2. book.holder[k] \in Hashes \union {None}
      BY <1>2 DEF TypeOK, Book
    <3> QED
      BY <1>1, <1>2, <3>1, <3>2 DEF KeyHolds, Told, Prints
  <2>4. Replaced(k)'
    BY <1>1, <1>2, <1>3 DEF KeyHolds, Replaced, TypeOK, Book
  <2> QED
    BY <2>1, <2>2, <2>3, <2>4
<1>9. Asked(k)' /\ Making(k)'
  <2>1. Making(k)'
    BY <1>5, <1>6 DEF Making
  <2>2. \A d \in Calls : Changes(d, k) => book.of[call[d].old] = k /\ call[d].old # h
    BY <1>1, <1>2 DEF KeyHolds, Asked
  <2>3. Asked(k)'
    BY <1>1, <1>2, <1>3, <1>5, <1>6, <1>7, <2>2 DEF KeyHolds, Asked
  <2> QED
    BY <2>1, <2>3
<1>10. Untorn(k)'
  <2> SUFFICES ASSUME k \notin book'.torn PROVE UntornTenant(k)'
    BY <1>2 DEF Untorn
  <2>1. UntornTenant(k)
    BY <1>1, <1>2 DEF KeyHolds, Untorn
  <2>2. \A d \in Calls : Changes(d, k) => d = c
    BY <1>2, <2>1 DEF UntornTenant
  <2> QED
    BY <1>0, <1>1, <1>2, <1>5, <2>1, <2>2 DEF UntornTenant
<1>11. Held(k)'
  <2>1. TenantHeld(k) => TenantHeld(k)'
    BY <1>0, <1>1, <1>2, <1>5 DEF TenantHeld
  <2> QED
    BY <1>1, <1>2, <1>3, <2>1 DEF KeyHolds, Held
<1>12. LookupInv'
  <2>1. \A d \in Calls : call'[d].op = "lookup" => call'[d] = call[d]
    BY <1>1 DEF Others
  <2>2. \A j \in TenantKeys : rows'[j] = rows[j] \/ book.of[rows'[j].hash] = None
    BY <1>1, Constants DEF OtherRows
  <2> QED
    BY <1>1, <1>2, <2>1, <2>2, LookupKept DEF KeyInv
<1>13. PhaseInv' /\ ResetInv'
  BY <1>1, <1>2, RequestKeepsRest, Constants DEF KeyInv, OtherRows
<1> QED
  BY <1>4, <1>8, <1>9, <1>10, <1>11, <1>12, <1>13 DEF KeyInv, KeyHolds

(* RotateCache: the cache entry moves to the new value.                    *)
LEMMA RotateCacheKeeps ==
  ASSUME TypeOK, KeyInv, NEW c \in Calls, RotateCache(c)
  PROVE  KeyInv'
<1>0. PICK k, g, h : k = call[c].id /\ g = call[c].old /\ h = call[c].new
  OBVIOUS
<1>1. /\ TypeOK'
      /\ call[c].op = "rotated" /\ call'[c].op = "idle" /\ Others(c)
      /\ k \in TenantKeys /\ g \in Hashes /\ h \in Hashes
      /\ Cached(g) /\ cache'[h] = cache[g] /\ (g # h => cache'[g] = NoEntry)
      /\ \A f \in Hashes \ {g, h} : cache'[f] = cache[f]
      /\ book'.replaced = book.replaced \union {g}
      /\ book'.issued = book.issued \union {h} /\ book'.holder[k] = h
      /\ \A j \in Ids \ {k} : book'.holder[j] = book.holder[j]
      /\ book'.of = book.of /\ book'.retired = book.retired
      /\ book'.torn = book.torn /\ book'.lapsed = book.lapsed
      /\ UNCHANGED <<rows, phase, boot, poisoned, cli>>
  BY <1>0, RotateCacheDoes
<1>2. /\ k \in Ids /\ k \notin BootKeys /\ None \notin Ids /\ None \notin Hashes
      /\ phase = "up" /\ boot = None /\ KeyHolds(k)
      /\ Changes(c, k) /\ ~Makes(c, k) /\ ~Reads(c, k) /\ On(c, k)
  BY <1>0, <1>1, InFlight, Constants DEF KeyInv, Changes, Makes, Reads, ChangeOps, On, KeyOps
<1>3. /\ book.of[g] = k /\ book.of[h] = k /\ g # h /\ rows[k].hash # g
      /\ cache'[g] = NoEntry /\ cache'[g].id = None
  BY <1>0, <1>1, <1>2 DEF KeyHolds, Asked, NoEntry
<1>4. cache[g].id = k
  <2>1. cache[g].id \in Ids
    BY <1>1 DEF Cached, TypeOK, KeyRecord
  <2> QED
    BY <1>1, <1>3, <2>1 DEF KeyInv, KeyHolds, Named
<1>5. \A f \in Hashes : cache[f].id = k => f = g
  BY <1>1, <1>2, <1>4 DEF KeyHolds, Alone
<1>6. \A f \in Hashes : cache'[f].id = k => f = h
  BY <1>1, <1>2, <1>3, <1>5
<1>7. ASSUME NEW j \in Ids \ {k} PROVE KeyHolds(j)'
  <2>1. KeyHolds(j) /\ cache[g].id # j /\ cache[h].id # j /\ cache'[h].id # j /\ cache'[g].id # j
    BY <1>1, <1>2, <1>3, <1>4 DEF KeyInv, KeyHolds, Named
  <2>2. SameStore(j) /\ SameReset(j)
    BY <1>1, <2>1 DEF SameStore, SameReset
  <2>3. SameBook(j)
    BY <1>1, <1>3 DEF SameBook
  <2>4. SameRequests(j)
    BY <1>0, <1>1 DEF SameRequests, Others, On, KeyOps, ChangeOps
  <2> QED
    BY <1>1, <2>1, <2>2, <2>3, <2>4, Undisturbed
<1>8. /\ \A d \in Calls : Makes(d, k)' <=> Makes(d, k)
      /\ \A d \in Calls : Reads(d, k)' <=> Reads(d, k)
      /\ \A d \in Calls \ {c} : (Changes(d, k)' <=> Changes(d, k)) /\ call'[d] = call[d]
      /\ ~Changes(c, k)'
  BY <1>0, <1>1 DEF Makes, Reads, Changes, Others, ChangeOps
<1>9. /\ \A d \in Calls : ~Makes(d, k)
      /\ \A d \in Calls : ~Reads(d, k)
  BY <1>2 DEF KeyHolds, Making, Asked
<1>10. rows[k].hash \in Hashes \union {None} /\ book.issued \subseteq Hashes /\ book.replaced \subseteq Hashes
  BY <1>2 DEF TypeOK, Row, Book
<1>11. Named(k)' /\ Told(k)' /\ Alone(k)'
  <2>1. Named(k)'
    BY <1>1, <1>2, <1>3, <1>4, <1>6 DEF KeyHolds, Named
  <2>2. Told(k)'
    BY <1>1, <1>2, <1>3 DEF KeyHolds, Told, Prints
  <2>3. rows[k].hash \in book'.issued => rows[k].hash = h
    BY <1>1, <1>2, <1>3, <1>5, <1>10 DEF KeyHolds, Alone
  <2>4. Alone(k)'
    BY <1>1, <1>4, <1>6, <2>3 DEF Alone
  <2> QED
    BY <2>1, <2>2, <2>4
<1>12. Asked(k)' /\ Making(k)'
  BY <1>1, <1>2, <1>8, <1>9 DEF KeyHolds, Asked, Making
<1>13. k \notin book.torn => /\ UntornTenant(k) /\ rows[k].hash = h
                             /\ \A d \in Calls : Changes(d, k) => d = c
  BY <1>0, <1>1, <1>2 DEF KeyHolds, Untorn, UntornTenant
<1>14. Untorn(k)'
  <2> SUFFICES ASSUME k \notin book'.torn PROVE UntornTenant(k)'
    BY <1>2 DEF Untorn
  <2>1. \A d \in Calls : ~Changes(d, k)'
    BY <1>1, <1>8, <1>13
  <2>2. /\ rows[k].revoked => cache[g].revoked
        /\ k \in book.retired => cache[g].revoked
    BY <1>1, <1>4, <1>13 DEF UntornTenant
  <2> QED
    BY <1>1, <1>6, <1>13, <2>1, <2>2 DEF UntornTenant
<1>15. Replaced(k)'
  BY <1>1, <1>2, <1>3, <1>6, <1>10, <1>13 DEF KeyHolds, Replaced
<1>16. Held(k)'
  <2>1. rows[k].hash # h /\ TenantHeld(k) => TenantHeld(k)'
    BY <1>0, <1>1, <1>2, <1>8 DEF TenantHeld, Sole
  <2>2. TenantHeld(k) /\ rows[k].hash = h => TenantHeld(k)'
    BY <1>0, <1>1, <1>2, <1>8 DEF TenantHeld
  <2>3. rows[k].hash \in book'.issued => rows[k].hash = h
    BY <1>1, <1>2, <1>3, <1>5, <1>10 DEF KeyHolds, Alone
  <2> QED
    BY <1>1, <1>2, <2>1, <2>2, <2>3 DEF KeyHolds, Held
<1>17. LookupInv'
  <2>1. \A d \in Calls : call'[d].op = "lookup" => call'[d] = call[d]
    BY <1>1 DEF Others
  <2> QED
    BY <1>1, <1>2, <1>3, <2>1, LookupKept DEF KeyInv
<1>18. PhaseInv' /\ ResetInv'
  BY <1>1, <1>2, RequestKeepsRest DEF KeyInv
<1> QED
  BY <1>7, <1>11, <1>12, <1>14, <1>15, <1>16, <1>17, <1>18 DEF KeyInv, KeyHolds

(* A request that ends and changes neither cache nor table takes nothing   *)
(* away but itself.                                                        *)
LEMMA RequestLeaves ==
  ASSUME TypeOK, TypeOK', KeyInv, NEW c \in Calls, call[c].op # "idle", call'[c].op = "idle", Others(c),
         UNCHANGED <<rows, cache, phase, boot, cli>>,
         book'.of = book.of, book'.issued = book.issued, book'.holder = book.holder,
         book'.retired = book.retired, book'.replaced = book.replaced,
         book.torn \subseteq book'.torn, book.lapsed \subseteq book'.lapsed,
         NEW k \in Ids,
         call[c].op \in {"revoked", "rotated"} => \A j \in Ids : On(c, j) => j \in book'.torn /\ j \in book'.lapsed
  PROVE  KeyHolds(k)'
<1>1. CASE ~On(c, k)
  <2>1. SameStore(k) /\ SameReset(k) /\ SameBook(k)
    BY DEF SameStore, SameReset, SameBook
  <2>2. SameRequests(k)
    BY <1>1 DEF SameRequests, Others, On, KeyOps, ChangeOps
  <2> QED
    BY <2>1, <2>2, Undisturbed DEF KeyInv
<1>2. CASE On(c, k)
  <2>1. KeyHolds(k)
    BY DEF KeyInv
  <2>2. /\ \A d \in Calls \ {c} : call'[d] = call[d]
        /\ \A d \in Calls \ {c} : Changes(d, k)' <=> Changes(d, k)
        /\ \A d \in Calls \ {c} : Makes(d, k)' <=> Makes(d, k)
        /\ \A d \in Calls \ {c} : Reads(d, k)' <=> Reads(d, k)
        /\ \A d \in Calls \ {c} : On(d, k)' <=> On(d, k)
        /\ ~Changes(c, k)' /\ ~Makes(c, k)' /\ ~Reads(c, k)' /\ ~On(c, k)'
    BY DEF Changes, Makes, Reads, On, ChangeOps, KeyOps, Others
  <2>3. Named(k)' /\ Told(k)' /\ Alone(k)' /\ Replaced(k)'
    <3>1. Named(k)' /\ Alone(k)'
      BY <2>1 DEF KeyHolds, Named, Alone
    <3>2. Told(k)'
      BY <2>1 DEF KeyHolds, Told, Prints
    <3>3. Replaced(k)'
      BY <2>1 DEF KeyHolds, Replaced
    <3> QED
      BY <3>1, <3>2, <3>3
  <2>4. Asked(k)'
    BY <2>1, <2>2 DEF KeyHolds, Asked
  <2>5. Making(k)'
    <3>1. \A h \in Hashes : Sole(k, h)' <=> Sole(k, h)
      BY DEF Sole
    <3>2. \A d \in Calls : Makes(d, k) => call[d].new \in Hashes
      BY CallShape DEF Makes
    <3> QED
      BY <2>1, <2>2, <3>1, <3>2 DEF KeyHolds, Making, NewRow
  <2>6. Untorn(k)'
    <3>1. k \notin book'.torn /\ UntornTenant(k) => UntornTenant(k)'
      BY <1>2, <2>2 DEF UntornTenant
    <3>2. UntornBoot(k) => UntornBoot(k)'
      BY <2>2 DEF UntornBoot
    <3> QED
      BY <2>1, <3>1, <3>2 DEF KeyHolds, Untorn
  <2>7. Held(k)'
    <3>1. k \notin book'.lapsed /\ TenantHeld(k) => TenantHeld(k)'
      BY <1>2, <2>2 DEF TenantHeld, Sole
    <3>2. BootHeld(k) => BootHeld(k)'
      BY DEF BootHeld, Prints
    <3> QED
      BY <2>1, <3>1, <3>2 DEF KeyHolds, Held
  <2> QED
    BY <2>3, <2>4, <2>5, <2>6, <2>7 DEF KeyHolds
<1> QED
  BY <1>1, <1>2

(* RotatePanics: the cache entry is gone, and the lock is poisoned.        *)
LEMMA RotatePanicsKeeps ==
  ASSUME TypeOK, KeyInv, NEW c \in Calls, RotatePanics(c)
  PROVE  KeyInv'
<1>0. PICK k : k = call[c].id
  OBVIOUS
<1>1. /\ TypeOK'
      /\ call[c].op = "rotated" /\ call'[c].op = "idle" /\ Others(c)
      /\ k \in TenantKeys /\ call[c].old \in Hashes /\ ~Cached(call[c].old)
      /\ book' = Lapse(book, {k})
      /\ UNCHANGED <<rows, cache, phase, boot, cli>>
  BY <1>0, RotatePanicsDoes
<1>2. /\ k \in Ids /\ None \notin Ids /\ phase = "up" /\ KeyHolds(k) /\ Changes(c, k)
  BY <1>0, <1>1, InFlight, Constants DEF KeyInv, Changes, ChangeOps
<1>3. /\ book'.of = book.of /\ book'.issued = book.issued /\ book'.holder = book.holder
      /\ book'.retired = book.retired /\ book'.replaced = book.replaced
      /\ book'.torn = book.torn /\ book'.lapsed = book.lapsed \union {k}
  <2>1. book \in Book /\ {k} \in SUBSET Ids
    BY <1>2 DEF TypeOK
  <2> QED
    BY <1>1, <2>1, LapseFields
<1>4. k \in book.torn
  BY <1>0, <1>1, <1>2 DEF KeyHolds, Untorn, UntornTenant, Cached
<1>5. \A j \in Ids : KeyHolds(j)'
  <2>1. \A j \in Ids : On(c, j) => j \in book'.torn /\ j \in book'.lapsed
    BY <1>0, <1>3, <1>4 DEF On
  <2> QED
    BY <1>1, <1>3, <2>1, RequestLeaves
<1>6. LookupInv'
  <2>1. \A d \in Calls : call'[d].op = "lookup" => call'[d] = call[d]
    BY <1>1 DEF Others
  <2> QED
    BY <1>1, <1>3, <2>1, LookupKept DEF KeyInv
<1>7. PhaseInv' /\ ResetInv'
  BY <1>1, <1>2, <1>3, <1>4, RequestKeepsRest DEF KeyInv
<1> QED
  BY <1>5, <1>6, <1>7 DEF KeyInv

(* CallFails: a statement fails.                                           *)
LEMMA CallFailsKeeps ==
  ASSUME TypeOK, KeyInv, NEW c \in Calls, CallFails(c)
  PROVE  KeyInv'
<1>1. /\ TypeOK'
      /\ call[c].op \in {"revoke", "rotate", "lookup"} /\ call'[c].op = "idle" /\ Others(c)
      /\ UNCHANGED <<rows, cache, phase, boot, poisoned, cli, book>>
  BY CallFailsDoes
<1>2. phase = "up"
  BY <1>1, InFlight DEF KeyInv
<1>3. \A j \in Ids : KeyHolds(j)'
  BY <1>1, RequestLeaves
<1>4. LookupInv'
  <2>1. \A d \in Calls : call'[d].op = "lookup" => call'[d] = call[d]
    BY <1>1 DEF Others
  <2> QED
    BY <1>1, <2>1, LookupKept DEF KeyInv
<1>5. PhaseInv' /\ ResetInv'
  BY <1>1, <1>2, RequestKeepsRest DEF KeyInv
<1> QED
  BY <1>3, <1>4, <1>5 DEF KeyInv

(* CallCut: the client goes away.                                          *)
LEMMA CallCutKeeps ==
  ASSUME TypeOK, KeyInv, NEW c \in Calls, CallCut(c)
  PROVE  KeyInv'
<1>0. PICK k : k = call[c].id
  OBVIOUS
<1>1. /\ TypeOK'
      /\ call[c].op \in {"created", "revoked", "rotated", "loaded"} /\ k \in Ids
      /\ call'[c].op = "idle" /\ Others(c)
      /\ book'.of = book.of /\ book'.issued = book.issued /\ book'.holder = book.holder
      /\ book'.retired = book.retired /\ book'.replaced = book.replaced
      /\ book.torn \subseteq book'.torn /\ book.lapsed \subseteq book'.lapsed
      /\ call[c].op \in {"revoked", "rotated"} => k \in book'.torn /\ k \in book'.lapsed
      /\ UNCHANGED <<rows, cache, phase, boot, poisoned, cli>>
  BY <1>0, CallCutDoes
<1>2. phase = "up"
  BY <1>1, InFlight DEF KeyInv
<1>3. \A j \in Ids : KeyHolds(j)'
  <2>1. call[c].op \in {"revoked", "rotated"} => \A j \in Ids : On(c, j) => j \in book'.torn /\ j \in book'.lapsed
    BY <1>0, <1>1 DEF On
  <2> QED
    BY <1>1, <2>1, RequestLeaves
<1>4. LookupInv'
  <2>1. \A d \in Calls : call'[d].op = "lookup" => call'[d] = call[d]
    BY <1>1 DEF Others
  <2> QED
    BY <1>1, <2>1, LookupKept DEF KeyInv
<1>5. PhaseInv' /\ ResetInv'
  BY <1>1, <1>2, RequestKeepsRest DEF KeyInv
<1> QED
  BY <1>3, <1>4, <1>5 DEF KeyInv

-----------------------------------------------------------------------------
(* The steps of authenticate.  A value that works is never one that was    *)
(* replaced, and makes the values it replaced known.                       *)
LEMMA AuthHitKeeps ==
  ASSUME TypeOK, KeyInv, NEW h \in Hashes, AuthHit(h)
  PROVE  KeyInv'
<1>1. /\ TypeOK'
      /\ h \in book.issued /\ Cached(h)
      /\ book' = Used(book, h)
      /\ UNCHANGED <<rows, cache, phase, boot, poisoned, call, cli>>
  BY AuthHitDoes
<1>2. PICK old : old = {g \in Hashes \ {h} : \E k \in Ids : book.of[g] = k /\ rows[k].hash = h}
  OBVIOUS
<1>3. /\ book'.of = book.of /\ book'.issued = book.issued /\ book'.holder = book.holder
      /\ book'.retired = book.retired /\ book'.replaced = book.replaced \union old
      /\ book'.torn = book.torn /\ book'.lapsed = book.lapsed
  <2>1. book \in Book
    BY DEF TypeOK
  <2> QED
    BY <1>1, <1>2, <2>1, UsedFields
<1>4. \A g \in old : g \in Hashes /\ g # h /\ \E k \in Ids : book.of[g] = k /\ rows[k].hash = h
  BY <1>2
<1>5. phase = "up"
  BY InFlight DEF KeyInv, AuthHit, Serving
<1>6. ASSUME NEW k \in Ids PROVE KeyHolds(k)'
  <2>1. KeyHolds(k)
    BY DEF KeyInv
  <2>2. Named(k)' /\ Asked(k)' /\ Alone(k)'
    BY <1>1, <1>3, <2>1 DEF KeyHolds, Named, Asked, Alone, Makes, Changes, Reads
  <2>3. Told(k)' /\ Making(k)'
    BY <1>1, <1>3, <2>1 DEF KeyHolds, Told, Prints, Making, Makes, On, Sole, NewRow
  <2>4. Untorn(k)'
    BY <1>1, <1>3, <2>1 DEF KeyHolds, Untorn, UntornTenant, UntornBoot, Changes, Reads
  <2>5. Held(k)'
    BY <1>1, <1>3, <2>1 DEF KeyHolds, Held, TenantHeld, BootHeld, Changes, Prints, Sole
  <2>6. Replaced(k)'
    <3> SUFFICES ASSUME NEW g \in old, book.of[g] = k
                 PROVE  rows[k].hash # g /\ cache[g].id # k
      BY <1>1, <1>3, <2>1 DEF KeyHolds, Replaced
    <3>1. g \in Hashes /\ g # h /\ rows[k].hash = h
      BY <1>4, Constants
    <3>2. book.of[h] = k
      BY <2>1, <3>1, Constants DEF KeyHolds, Named
    <3>3. cache[h].id = k
      <4>1. cache[h].id \in Ids
        BY <1>1 DEF Cached, TypeOK, KeyRecord
      <4> QED
        BY <3>2, <4>1 DEF KeyInv, KeyHolds, Named
    <3> QED
      BY <2>1, <3>1, <3>3 DEF KeyHolds, Alone
  <2> QED
    BY <2>2, <2>3, <2>4, <2>5, <2>6 DEF KeyHolds
<1>7. LookupInv'
  <2>1. \A g \in old : book.of[g] # None
    BY <1>4, Constants
  <2> QED
    BY <1>1, <1>3, <2>1, LookupKept DEF KeyInv
<1>8. PhaseInv' /\ ResetInv'
  BY <1>1, <1>3, <1>5, RequestKeepsRest DEF KeyInv
<1> QED
  BY <1>6, <1>7, <1>8 DEF KeyInv

(* AuthMiss: the value is not in the cache.                                *)
LEMMA AuthMissKeeps ==
  ASSUME TypeOK, KeyInv, NEW c \in Calls, NEW h \in Hashes, AuthMiss(c, h)
  PROVE  KeyInv'
<1>1. /\ TypeOK'
      /\ call[c].op = "idle" /\ call'[c].op = "lookup" /\ call'[c].hash = h /\ Others(c)
      /\ phase = "up" /\ h \in book.issued /\ (Cached(h) => cache[h].revoked)
      /\ UNCHANGED <<rows, cache, phase, boot, poisoned, cli, book>>
  BY AuthMissDoes
<1>2. ASSUME NEW j \in Ids PROVE KeyHolds(j)'
  <2>1. SameStore(j) /\ SameReset(j) /\ SameBook(j)
    BY <1>1 DEF SameStore, SameReset, SameBook
  <2>2. SameRequests(j)
    BY <1>1 DEF SameRequests, Others, On, KeyOps, ChangeOps
  <2> QED
    BY <1>1, <2>1, <2>2, Undisturbed DEF KeyInv
<1>3. ASSUME NEW k \in TenantKeys, rows[k].hash = h PROVE rows[k].revoked
  <2>1. k \in Ids /\ KeyHolds(k) /\ k # None
    BY Constants DEF KeyInv
  <2>2. cache[h].id = k
    BY <1>1, <1>3, <2>1 DEF KeyHolds, Alone
  <2> QED
    BY <1>1, <2>1, <2>2 DEF KeyHolds, Named, Cached
<1>4. LookupInv'
  BY <1>1, <1>3 DEF KeyInv, LookupInv, Others
<1>5. PhaseInv' /\ ResetInv'
  BY <1>1, RequestKeepsRest DEF KeyInv
<1> QED
  BY <1>2, <1>4, <1>5 DEF KeyInv

(* AuthLoad: the SELECT of authenticate.                                   *)
LEMMA AuthLoadKeeps ==
  ASSUME TypeOK, KeyInv, NEW c \in Calls, AuthLoad(c)
  PROVE  KeyInv'
<1>1. /\ TypeOK'
      /\ call[c].op = "lookup" /\ call[c].hash \in Hashes /\ Others(c)
      /\ \/ call'[c].op = "idle"
         \/ \E k \in Ids : /\ rows[k].hash = call[c].hash /\ ~rows[k].revoked
                           /\ call'[c].op = "loaded" /\ call'[c].id = k
                           /\ call'[c].hash = call[c].hash
      /\ UNCHANGED <<rows, cache, phase, boot, poisoned, cli, book>>
  BY AuthLoadDoes
<1>2. phase = "up"
  BY <1>1, InFlight DEF KeyInv
<1>3. ASSUME call'[c].op = "idle", NEW j \in Ids PROVE KeyHolds(j)'
  BY <1>1, <1>3, RequestLeaves
<1>4. ASSUME NEW k \in Ids, rows[k].hash = call[c].hash, ~rows[k].revoked,
             call'[c].op = "loaded", call'[c].id = k, call'[c].hash = call[c].hash,
             NEW j \in Ids
      PROVE  KeyHolds(j)'
  <2>1. KeyHolds(j)
    BY DEF KeyInv
  <2>2. CASE j # k
    <3>1. SameStore(j) /\ SameReset(j) /\ SameBook(j)
      BY <1>1 DEF SameStore, SameReset, SameBook
    <3>2. SameRequests(j)
      BY <1>1, <1>4, <2>2 DEF SameRequests, Others, On, KeyOps, ChangeOps
    <3> QED
      BY <1>1, <2>1, <3>1, <3>2, Undisturbed
  <2>3. CASE j = k
    <3>1. j \in BootKeys /\ j \notin TenantKeys
      BY <1>1, <1>4, <2>3, Constants DEF KeyInv, LookupInv
    <3>2. book.of[call[c].hash] = j
      BY <1>1, <1>4, <2>1, <2>3, Constants DEF KeyHolds, Named
    <3>3. /\ \A d \in Calls \ {c} : call'[d] = call[d] /\ (Reads(d, j)' <=> Reads(d, j))
          /\ \A d \in Calls : ~Makes(d, j)' /\ ~Changes(d, j)'
      <4>1. \A d \in Calls : call'[d].op \in ChangeOps \union {"created"} => call'[d].id \in TenantKeys
        BY <1>1, <1>4, CallShape DEF Others, ChangeOps
      <4> QED
        BY <1>1, <3>1, <4>1 DEF Others, Makes, Changes, Reads
    <3>4. Named(j)' /\ Alone(j)' /\ Told(j)' /\ Replaced(j)'
      <4>1. Named(j)' /\ Alone(j)'
        BY <1>1, <2>1 DEF KeyHolds, Named, Alone
      <4>2. Told(j)'
        BY <1>1, <2>1 DEF KeyHolds, Told, Prints
      <4>3. Replaced(j)'
        BY <1>1, <2>1 DEF KeyHolds, Replaced
      <4> QED
        BY <4>1, <4>2, <4>3
    <3>5. Asked(j)' /\ Making(j)'
      BY <1>1, <1>4, <2>1, <3>1, <3>2, <3>3 DEF KeyHolds, Asked, Making
    <3>6. Untorn(j)'
      <4>1. UntornBoot(j) => UntornBoot(j)'
        BY <1>1, <1>4, <2>3, <3>3 DEF UntornBoot
      <4> QED
        BY <1>1, <2>1, <3>1, <4>1 DEF KeyHolds, Untorn
    <3>7. Held(j)'
      <4>1. BootHeld(j) => BootHeld(j)'
        BY <1>1 DEF BootHeld, Prints
      <4> QED
        BY <1>1, <2>1, <3>1, <4>1 DEF KeyHolds, Held
    <3> QED
      BY <3>4, <3>5, <3>6, <3>7 DEF KeyHolds
  <2> QED
    BY <2>2, <2>3
<1>5. \A j \in Ids : KeyHolds(j)'
  BY <1>1, <1>3, <1>4
<1>6. LookupInv'
  <2>1. \A d \in Calls : call'[d].op = "lookup" => call'[d] = call[d]
    BY <1>1 DEF Others
  <2> QED
    BY <1>1, <2>1, LookupKept DEF KeyInv
<1>7. PhaseInv' /\ ResetInv'
  BY <1>1, <1>2, RequestKeepsRest DEF KeyInv
<1> QED
  BY <1>5, <1>6, <1>7 DEF KeyInv

(* AuthInsert: the row that was read enters the cache.                     *)
LEMMA AuthInsertKeeps ==
  ASSUME TypeOK, KeyInv, NEW c \in Calls, AuthInsert(c)
  PROVE  KeyInv'
<1>0. PICK k, h : k = call[c].id /\ h = call[c].hash
  OBVIOUS
<1>1. /\ TypeOK'
      /\ call[c].op = "loaded" /\ call'[c].op = "idle" /\ Others(c)
      /\ k \in Ids /\ h \in Hashes
      /\ cache'[h].id = k /\ ~cache'[h].revoked
      /\ \A g \in Hashes \ {h} : IF cache[g].id = k THEN cache'[g] = NoEntry ELSE cache'[g] = cache[g]
      /\ book' = Used(book, h)
      /\ UNCHANGED <<rows, phase, boot, poisoned, cli>>
  BY <1>0, AuthInsertDoes
<1>2. PICK old : old = {g \in Hashes \ {h} : \E j \in Ids : book.of[g] = j /\ rows[j].hash = h}
  OBVIOUS
<1>3. /\ book'.of = book.of /\ book'.issued = book.issued /\ book'.holder = book.holder
      /\ book'.retired = book.retired /\ book'.replaced = book.replaced \union old
      /\ book'.torn = book.torn /\ book'.lapsed = book.lapsed
  <2>1. book \in Book
    BY DEF TypeOK
  <2> QED
    BY <1>1, <1>2, <2>1, UsedFields
<1>4. \A g \in old : g \in Hashes /\ g # h /\ \E j \in Ids : book.of[g] = j /\ rows[j].hash = h
  BY <1>2
<1>5. /\ phase = "up" /\ KeyHolds(k) /\ None \notin Ids /\ None \notin Hashes
      /\ Reads(c, k)
  BY <1>0, <1>1, InFlight, Constants DEF KeyInv, Reads
<1>6. k \in BootKeys /\ k \notin TenantKeys /\ book.of[h] = k
  BY <1>0, <1>1, <1>5, Constants DEF KeyHolds, Asked
<1>7. NoEntry.id = None
  BY DEF NoEntry
<1>8. \A g \in Hashes : cache'[g].id = k => g = h
  BY <1>1, <1>5, <1>7
<1>9. \A j \in Ids, g \in old : book.of[g] = j => rows[j].hash = h /\ j = k
  <2> SUFFICES ASSUME NEW j \in Ids, NEW g \in old, book.of[g] = j PROVE rows[j].hash = h /\ j = k
    OBVIOUS
  <2>1. rows[j].hash = h
    BY <1>4
  <2> QED
    BY <1>1, <1>5, <1>6, <2>1 DEF KeyInv, KeyHolds, Named
<1>10. ASSUME NEW j \in Ids \ {k} PROVE KeyHolds(j)'
  <2>1. KeyHolds(j) /\ cache[h].id # j
    BY <1>1, <1>6 DEF KeyInv, KeyHolds, Named
  <2>2. SameStore(j) /\ SameReset(j)
    BY <1>1, <1>5, <1>7, <2>1 DEF SameStore, SameReset
  <2>3. SameBook(j)
    BY <1>3, <1>9 DEF SameBook
  <2>4. SameRequests(j)
    BY <1>0, <1>1 DEF SameRequests, Others, On, KeyOps, ChangeOps
  <2> QED
    BY <1>1, <2>1, <2>2, <2>3, <2>4, Undisturbed
<1>11. /\ \A d \in Calls : Reads(d, k)' => Reads(d, k) /\ call'[d] = call[d]
       /\ \A d \in Calls : ~Makes(d, k)' /\ ~Changes(d, k)'
  <2>1. \A d \in Calls : call'[d].op \in ChangeOps \union {"created"} => call'[d].id \in TenantKeys
    BY <1>1, CallShape DEF Others, ChangeOps
  <2> QED
    BY <1>1, <1>6, <2>1 DEF Others, Makes, Changes, Reads
<1>12. Named(k)' /\ Told(k)' /\ Alone(k)'
  <2>1. Named(k)'
    BY <1>1, <1>3, <1>5, <1>6, <1>8 DEF KeyHolds, Named
  <2>2. Told(k)'
    BY <1>1, <1>3, <1>5 DEF KeyHolds, Told, Prints
  <2>3. Alone(k)'
    BY <1>6, <1>8 DEF Alone
  <2> QED
    BY <2>1, <2>2, <2>3
<1>13. Asked(k)' /\ Making(k)'
  BY <1>3, <1>5, <1>11 DEF KeyHolds, Asked, Making
<1>14. Untorn(k)'
  BY <1>1, <1>3, <1>5, <1>6, <1>11 DEF KeyHolds, Untorn, UntornBoot
<1>15. Replaced(k)'
  <2>1. k \notin book.torn => rows[k].hash = h
    BY <1>0, <1>1, <1>5, <1>6 DEF KeyHolds, Untorn, UntornBoot
  <2>2. book.replaced \subseteq Hashes
    BY DEF TypeOK, Book
  <2>3. ASSUME NEW g \in book.replaced, book.of[g] = k
        PROVE  rows[k].hash # g /\ (k \in book.torn \/ cache'[g].id # k)
    BY <1>5, <1>8, <2>1, <2>2, <2>3 DEF KeyHolds, Replaced
  <2>4. ASSUME NEW g \in old, book.of[g] = k
        PROVE  rows[k].hash # g /\ cache'[g].id # k
    BY <1>1, <1>4, <1>8, <1>9, <2>4
  <2> QED
    BY <1>1, <1>3, <2>3, <2>4 DEF Replaced
<1>16. Held(k)'
  <2>1. BootHeld(k) => BootHeld(k)'
    BY <1>1, <1>3 DEF BootHeld, Prints
  <2> QED
    BY <1>1, <1>3, <1>5, <1>6, <2>1 DEF KeyHolds, Held
<1>17. LookupInv'
  <2>1. \A d \in Calls : call'[d].op = "lookup" => call'[d] = call[d]
    BY <1>1 DEF Others
  <2>2. \A g \in old : book.of[g] # None
    BY <1>4, <1>5
  <2> QED
    BY <1>1, <1>3, <2>1, <2>2, LookupKept DEF KeyInv
<1>18. PhaseInv' /\ ResetInv'
  BY <1>1, <1>3, <1>5, RequestKeepsRest DEF KeyInv
<1> QED
  BY <1>10, <1>12, <1>13, <1>14, <1>15, <1>16, <1>17, <1>18 DEF KeyInv, KeyHolds

-----------------------------------------------------------------------------
(* The server starts and stops: every key is touched, no request is in     *)
(* flight.                                                                 *)
LEMMA ServerLoadKeeps == ASSUME TypeOK, KeyInv, ServerLoad PROVE KeyInv'
<1>1. /\ TypeOK'
      /\ phase = "down" /\ phase' = "boot"
      /\ \A h \in Hashes :
           \/ /\ cache'[h] = NoEntry
              /\ \A k \in Ids : rows[k].hash # h
           \/ \E k \in Ids : /\ rows[k].hash = h /\ cache'[h].id = k
                             /\ cache'[h].revoked = rows[k].revoked
      /\ book'.torn = {}
      /\ book'.of = book.of /\ book'.issued = book.issued /\ book'.holder = book.holder
      /\ book'.retired = book.retired /\ book'.replaced = book.replaced
      /\ book'.lapsed = book.lapsed
      /\ UNCHANGED <<rows, boot, poisoned, call, cli>>
  BY ServerLoadDoes
<1>2. /\ \A c \in Calls : call[c].op = "idle"
      /\ boot = None /\ ~poisoned /\ None \notin Ids /\ None \notin Hashes
  BY <1>1, IdleShape, Constants DEF KeyInv, PhaseInv
<1>3. \A c \in Calls, k \in Ids : /\ ~Makes(c, k) /\ ~Changes(c, k) /\ ~Reads(c, k)
                                  /\ ~Makes(c, k)' /\ ~Changes(c, k)' /\ ~Reads(c, k)'
  BY <1>1, <1>2 DEF Makes, Changes, Reads, ChangeOps
<1>4. \A h \in Hashes, k \in Ids : cache'[h].id = k => /\ rows[k].hash = h
                                                       /\ cache'[h].revoked = rows[k].revoked
  BY <1>1, <1>2 DEF NoEntry
<1>5. \A h \in Hashes, k \in Ids : rows[k].hash = h => cache'[h].id = k
  <2> SUFFICES ASSUME NEW h \in Hashes, NEW k \in Ids, rows[k].hash = h PROVE cache'[h].id = k
    OBVIOUS
  <2>1. PICK j \in Ids : rows[j].hash = h /\ cache'[h].id = j
    BY <1>1
  <2> QED
    BY <1>2, <2>1 DEF KeyInv, KeyHolds, Named
<1>6. ASSUME NEW k \in Ids PROVE KeyHolds(k)'
  <2>1. KeyHolds(k)
    BY DEF KeyInv
  <2>2. Named(k)' /\ Told(k)'
    <3>1. Named(k)'
      BY <1>1, <1>2, <1>4, <2>1 DEF KeyHolds, Named
    <3>2. Told(k)'
      BY <1>1, <2>1 DEF KeyHolds, Told, Prints
    <3> QED
      BY <3>1, <3>2
  <2>3. Asked(k)' /\ Making(k)'
    BY <1>3 DEF Asked, Making
  <2>4. Alone(k)'
    <3>1. rows[k].hash \in book.issued => rows[k].hash \in Hashes
      BY DEF TypeOK, Book
    <3> QED
      BY <1>1, <1>4, <1>5, <3>1 DEF Alone
  <2>5. Untorn(k)'
    <3>1. UntornTenant(k)'
      BY <1>1, <1>3, <1>4, <2>1 DEF UntornTenant, KeyHolds, Named
    <3>2. UntornBoot(k)'
      BY <1>3 DEF UntornBoot
    <3> QED
      BY <3>1, <3>2 DEF Untorn
  <2>6. Replaced(k)'
    BY <1>1, <1>4, <2>1 DEF KeyHolds, Replaced, TypeOK, Book
  <2>7. Held(k)'
    <3>1. TenantHeld(k) => TenantHeld(k)'
      BY <1>1, <1>3 DEF TenantHeld, Sole
    <3>2. BootHeld(k) => BootHeld(k)'
      BY <1>1 DEF BootHeld, Prints
    <3> QED
      BY <1>1, <2>1, <3>1, <3>2 DEF KeyHolds, Held
  <2> QED
    BY <2>2, <2>3, <2>4, <2>5, <2>6, <2>7 DEF KeyHolds
<1>7. LookupInv'
  BY <1>1, LookupKept DEF KeyInv
<1>8. PhaseInv'
  BY <1>1, <1>2 DEF KeyInv, PhaseInv
<1>9. ResetInv'
  BY <1>1 DEF KeyInv, ResetInv
<1> QED
  BY <1>1, <1>2, <1>6, <1>7, <1>8, <1>9 DEF KeyInv

(* BootCreate: the first bootstrap key is made.                            *)
LEMMA BootCreateKeeps ==
  ASSUME TypeOK, KeyInv, NEW k \in BootKeys, NEW h \in Hashes, BootCreate(k, h)
  PROVE  KeyInv'
<1>1. /\ TypeOK'
      /\ phase = "boot" /\ ~has_active_platform_key
      /\ rows[k] = NoRow /\ rows'[k] = NewRow(h) /\ rows'[k].hash = h /\ ~rows'[k].revoked
      /\ OtherRows(k)
      /\ cache'[h].id = k /\ ~cache'[h].revoked
      /\ \A g \in Hashes \ {h} : cache'[g] = cache[g]
      /\ boot' = h /\ book.of[h] = None
      /\ book'.of[h] = k
      /\ \A g \in Hashes \ {h} : book'.of[g] = book.of[g]
      /\ book'.issued = book.issued /\ book'.holder = book.holder
      /\ book'.retired = book.retired /\ book'.replaced = book.replaced
      /\ book'.torn = book.torn /\ book'.lapsed = book.lapsed
      /\ UNCHANGED <<phase, poisoned, call, cli>>
  BY BootCreateDoes
<1>2. /\ k \in Ids /\ k \notin TenantKeys /\ None \notin Ids /\ None \notin Hashes
      /\ boot = None /\ ~poisoned /\ KeyHolds(k) /\ rows[k].hash = None
      /\ \A c \in Calls : call[c].op = "idle" /\ call[c] = Idle
  BY <1>1, IdleShape, Constants DEF KeyInv, PhaseInv, NoRow
<1>3. \A c \in Calls, j \in Ids : ~On(c, j) /\ ~On(c, j)' /\ ~Makes(c, j)' /\ ~Changes(c, j)' /\ ~Reads(c, j)'
  BY <1>1, <1>2 DEF On, Makes, Changes, Reads, KeyOps, ChangeOps
<1>4. /\ h \notin book.issued /\ h \notin book.replaced
      /\ \A g \in Hashes : book.of[g] # k /\ cache[g].id # k
      /\ book.holder[k] = None
  <2>1. book.holder[k] \in Hashes \union {None}
    BY <1>2 DEF TypeOK, Book
  <2> QED
    BY <1>1, <1>2, <2>1 DEF KeyInv, LookupInv, KeyHolds, Named, Told
<1>5. \A p \in Clis : ~Prints(p, k)
  BY <1>2, <1>4, CliShape DEF KeyHolds, Told, Prints
<1>6. ASSUME NEW j \in Ids \ {k} PROVE KeyHolds(j)'
  <2>1. KeyHolds(j) /\ cache[h].id # j
    BY <1>1, <1>2 DEF KeyInv, KeyHolds, Named
  <2>2. SameStore(j) /\ SameReset(j)
    BY <1>1, <1>2, <2>1 DEF SameStore, SameReset, OtherRows
  <2>3. SameBook(j)
    BY <1>1, <1>2 DEF SameBook
  <2>4. SameRequests(j)
    BY <1>3 DEF SameRequests
  <2> QED
    BY <1>1, <2>1, <2>2, <2>3, <2>4, Undisturbed
<1>7. Named(k)' /\ Asked(k)' /\ Told(k)' /\ Making(k)'
  <2>1. Named(k)'
    BY <1>1, <1>2, <1>4 DEF KeyHolds, Named, NoRow
  <2>2. Asked(k)' /\ Making(k)'
    BY <1>2, <1>3 DEF Asked, Making
  <2>3. Told(k)'
    BY <1>1, <1>4, <1>5 DEF Told, Prints
  <2> QED
    BY <2>1, <2>2, <2>3
<1>8. Alone(k)' /\ Untorn(k)' /\ Replaced(k)'
  <2>1. Alone(k)' /\ Untorn(k)'
    BY <1>1, <1>2, <1>3, <1>4 DEF Alone, Untorn, UntornBoot
  <2>2. Replaced(k)'
    BY <1>1, <1>4 DEF Replaced, TypeOK, Book
  <2> QED
    BY <2>1, <2>2
<1>9. Held(k)'
  <2>1. BootHeld(k)'
    BY <1>1, <1>5 DEF BootHeld, Prints
  <2> QED
    BY <1>1, <1>2, <1>4, <2>1 DEF Held
<1>10. LookupInv'
  <2>1. \A j \in TenantKeys : rows'[j] = rows[j]
    BY <1>1, <1>2, Constants DEF OtherRows
  <2> QED
    BY <1>1, <1>2, <2>1, LookupKept DEF KeyInv
<1>11. has_active_platform_key'
  BY <1>1 DEF has_active_platform_key
<1>12. PhaseInv'
  BY <1>1, <1>2, <1>11 DEF KeyInv, PhaseInv
<1>13. ResetInv'
  <2>1. \A p \in Clis : cli[p].op = "open" => \A j \in cli[p].seen : j \in Ids /\ rows[j].hash # None
    BY CliShape, Constants DEF KeyInv, ResetInv
  <2> QED
    BY <1>1, <1>2, <2>1 DEF ResetInv, OtherRows
<1> QED
  BY <1>1, <1>2, <1>6, <1>7, <1>8, <1>9, <1>10, <1>12, <1>13 DEF KeyInv, KeyHolds

(* Serve: the server listens, its key printed.                             *)
LEMMA ServeKeeps == ASSUME TypeOK, KeyInv, Serve PROVE KeyInv'
<1>0. PICK k : k = book.of[boot]
  OBVIOUS
<1>1. /\ TypeOK'
      /\ phase = "boot" /\ phase' = "up" /\ boot' = None
      /\ boot = None => book' = book
      /\ boot # None => boot \in Hashes /\ k \in BootKeys /\ book' = Issue(book, boot, k)
      /\ UNCHANGED <<rows, cache, poisoned, call, cli>>
  BY <1>0, ServeDoes DEF KeyInv
<1>2. /\ None \notin Ids /\ None \notin Hashes /\ ~poisoned
      /\ \A c \in Calls : call[c].op = "idle"
      /\ boot # None => k \in Ids /\ k \notin TenantKeys
  BY <1>1, IdleShape, Constants DEF KeyInv, PhaseInv
<1>3. /\ book'.of = book.of
      /\ book.issued \subseteq book'.issued
      /\ boot = None => book'.issued = book.issued
      /\ boot # None => book'.issued = book.issued \union {boot} /\ book'.holder[k] = boot
      /\ \A j \in Ids : (boot # None => j # k) => book'.holder[j] = book.holder[j]
      /\ book'.retired = book.retired /\ book'.replaced = book.replaced
      /\ book'.torn = book.torn /\ book'.lapsed = book.lapsed
  <2>1. book \in Book
    BY DEF TypeOK
  <2>2. CASE boot = None
    BY <1>1, <2>2
  <2>3. CASE boot # None
    BY <1>1, <1>2, <2>1, <2>3, IssueFields
  <2> QED
    BY <2>2, <2>3
<1>4. \A c \in Calls, j \in Ids : ~On(c, j) /\ ~On(c, j)' /\ ~Makes(c, j)' /\ ~Changes(c, j)' /\ ~Reads(c, j)'
  BY <1>1, <1>2 DEF On, Makes, Changes, Reads, KeyOps, ChangeOps
<1>5. ASSUME NEW j \in Ids, boot # None => j # k PROVE KeyHolds(j)'
  <2>1. SameStore(j) /\ SameReset(j)
    BY <1>0, <1>1, <1>5 DEF SameStore, SameReset
  <2>2. SameBook(j)
    BY <1>0, <1>1, <1>3, <1>5 DEF SameBook
  <2>3. SameRequests(j)
    BY <1>4 DEF SameRequests
  <2> QED
    BY <1>1, <2>1, <2>2, <2>3, Undisturbed DEF KeyInv
<1>6. ASSUME boot # None PROVE KeyHolds(k)'
  <2>1. KeyHolds(k)
    BY <1>2, <1>6 DEF KeyInv
  <2>2. Named(k)' /\ Asked(k)' /\ Told(k)' /\ Making(k)'
    <3>1. Named(k)'
      BY <1>1, <1>3, <2>1 DEF KeyHolds, Named
    <3>2. Asked(k)' /\ Making(k)'
      BY <1>2, <1>4, <1>6 DEF Asked, Making
    <3>3. Told(k)'
      BY <1>0, <1>1, <1>3, <1>6, <2>1 DEF KeyHolds, Told, Prints
    <3> QED
      BY <3>1, <3>2, <3>3
  <2>3. Alone(k)' /\ Untorn(k)' /\ Replaced(k)'
    <3>1. Alone(k)'
      BY <1>1, <1>2, <1>6, <2>1 DEF KeyHolds, Alone
    <3>2. Untorn(k)'
      BY <1>2, <1>4, <1>6 DEF Untorn, UntornBoot
    <3>3. Replaced(k)'
      BY <1>1, <1>3, <2>1 DEF KeyHolds, Replaced
    <3> QED
      BY <3>1, <3>2, <3>3
  <2>4. Held(k)'
    <3>1. BootHeld(k) => BootHeld(k)' /\ boot = rows[k].hash
      BY <1>0, <1>1, <1>3, <1>6 DEF BootHeld, Prints
    <3> QED
      BY <1>1, <1>2, <1>3, <1>6, <2>1, <3>1 DEF KeyHolds, Held
  <2> QED
    BY <2>2, <2>3, <2>4 DEF KeyHolds
<1>7. \A j \in Ids : KeyHolds(j)'
  BY <1>5, <1>6
<1>8. LookupInv'
  BY <1>0, <1>1, <1>2, <1>3, LookupKept DEF KeyInv
<1>9. PhaseInv' /\ ResetInv'
  BY <1>1, <1>3 DEF KeyInv, PhaseInv, ResetInv
<1> QED
  BY <1>1, <1>2, <1>7, <1>8, <1>9 DEF KeyInv

(* Crash: the process ends.                                                *)
LEMMA CrashKeeps == ASSUME TypeOK, KeyInv, Crash PROVE KeyInv'
<1>1. /\ TypeOK'
      /\ phase # "down" /\ phase' = "down" /\ boot' = None /\ ~poisoned'
      /\ \A h \in Hashes : cache'[h] = NoEntry
      /\ \A c \in Calls : call'[c] = Idle
      /\ book'.of = book.of /\ book'.issued = book.issued /\ book'.holder = book.holder
      /\ book'.retired = book.retired /\ book'.replaced = book.replaced
      /\ book'.torn = book.torn /\ book.lapsed \subseteq book'.lapsed
      /\ \A k \in Ids \ book'.lapsed :
           /\ \A c \in Calls : Changes(c, k) => call[c].op \notin {"revoked", "rotated"}
           /\ boot # None => book.of[boot] # k
      /\ UNCHANGED <<rows, cli>>
  BY CrashDoes
<1>2. None \notin Ids /\ \A h \in Hashes, k \in Ids : cache'[h].id # k
  BY <1>1, Constants DEF NoEntry
<1>3. \A c \in Calls, k \in Ids : ~Makes(c, k)' /\ ~Changes(c, k)' /\ ~Reads(c, k)'
  BY <1>1, IdleShape DEF Makes, Changes, Reads, ChangeOps
<1>4. ASSUME NEW k \in Ids PROVE KeyHolds(k)'
  <2>1. KeyHolds(k)
    BY DEF KeyInv
  <2>2. Named(k)' /\ Told(k)'
    <3>1. Named(k)'
      BY <1>1, <1>2, <2>1 DEF KeyHolds, Named
    <3>2. Told(k)'
      BY <1>1, <2>1 DEF KeyHolds, Told, Prints
    <3> QED
      BY <3>1, <3>2
  <2>3. Asked(k)' /\ Making(k)' /\ Alone(k)' /\ Untorn(k)'
    <3>1. Asked(k)' /\ Making(k)'
      BY <1>3 DEF Asked, Making
    <3>2. Alone(k)'
      BY <1>1, <1>2 DEF Alone
    <3>3. Untorn(k)'
      BY <1>2, <1>3 DEF Untorn, UntornTenant, UntornBoot
    <3> QED
      BY <3>1, <3>2, <3>3
  <2>4. Replaced(k)'
    BY <1>1, <1>2, <2>1 DEF KeyHolds, Replaced, TypeOK, Book
  <2>5. Held(k)'
    <3>1. k \notin book'.lapsed /\ TenantHeld(k) => TenantHeld(k)'
      BY <1>1 DEF TenantHeld, Sole
    <3>2. k \notin book'.lapsed /\ BootHeld(k) => BootHeld(k)'
      <4>1. rows[k].hash # None => book.of[rows[k].hash] = k
        BY <2>1 DEF KeyHolds, Named
      <4> QED
        BY <1>1, <4>1 DEF BootHeld, Prints
    <3> QED
      BY <1>1, <2>1, <3>1, <3>2 DEF KeyHolds, Held
  <2> QED
    BY <2>2, <2>3, <2>4, <2>5 DEF KeyHolds
<1>5. LookupInv'
  BY <1>1, IdleShape DEF KeyInv, LookupInv
<1>6. PhaseInv' /\ ResetInv'
  BY <1>1 DEF KeyInv, PhaseInv, ResetInv
<1> QED
  BY <1>1, <1>4, <1>5, <1>6 DEF KeyInv

-----------------------------------------------------------------------------
(* The steps of reset-platform-key, beside a server in any phase.          *)
LEMMA CliStays ==
  ASSUME TypeOK, TypeOK', KeyInv, UNCHANGED <<rows, cache, phase, boot, poisoned, call, book>>,
         \A p \in Clis, k \in Ids : cli'[p] = cli[p] \/ (~Prints(p, k) /\ ~Prints(p, k)')
  PROVE  (\A k \in Ids : KeyHolds(k)') /\ LookupInv' /\ PhaseInv'
<1>1. ASSUME NEW k \in Ids PROVE KeyHolds(k)'
  <2>1. SameStore(k) /\ SameReset(k) /\ SameBook(k) /\ SameRequests(k)
    BY DEF SameStore, SameReset, SameBook, SameRequests
  <2> QED
    BY <2>1, Undisturbed DEF KeyInv
<1>2. LookupInv'
  BY LookupKept DEF KeyInv
<1>3. PhaseInv'
  BY DEF KeyInv, PhaseInv, has_active_platform_key
<1> QED
  BY <1>1, <1>2, <1>3

(* CliOpen: reset-platform-key reads the table.                            *)
LEMMA CliOpenKeeps == ASSUME TypeOK, KeyInv, NEW p \in Clis, CliOpen(p) PROVE KeyInv'
<1>1. /\ TypeOK'
      /\ cli[p].op = "idle" /\ cli'[p].op = "open" /\ cli'[p].seen = ActiveBootKeys /\ OtherClis(p)
      /\ UNCHANGED <<rows, cache, phase, boot, poisoned, call, book>>
  BY CliOpenDoes
<1>2. (\A k \in Ids : KeyHolds(k)') /\ LookupInv' /\ PhaseInv'
  <2>1. \A q \in Clis, k \in Ids : cli'[q] = cli[q] \/ (~Prints(q, k) /\ ~Prints(q, k)')
    BY <1>1 DEF OtherClis, Prints
  <2> QED
    BY <1>1, <2>1, CliStays
<1>3. ResetInv'
  <2>1. \A k \in ActiveBootKeys : rows[k].hash # None
    BY DEF ActiveBootKeys, is_active
  <2> QED
    BY <1>1, <2>1 DEF KeyInv, ResetInv, OtherClis
<1> QED
  BY <1>2, <1>3 DEF KeyInv

(* CliBail: it refuses.                                                    *)
LEMMA CliBailKeeps == ASSUME TypeOK, KeyInv, NEW p \in Clis, CliBail(p) PROVE KeyInv'
<1>1. /\ TypeOK'
      /\ cli[p].op = "open" /\ cli'[p].op = "idle" /\ OtherClis(p)
      /\ UNCHANGED <<rows, cache, phase, boot, poisoned, call, book>>
  BY CliBailDoes
<1>2. (\A k \in Ids : KeyHolds(k)') /\ LookupInv' /\ PhaseInv'
  <2>1. \A q \in Clis, k \in Ids : cli'[q] = cli[q] \/ (~Prints(q, k) /\ ~Prints(q, k)')
    BY <1>1 DEF OtherClis, Prints
  <2> QED
    BY <1>1, <2>1, CliStays
<1>3. ResetInv'
  BY <1>1 DEF KeyInv, ResetInv, OtherClis, has_active_platform_key
<1> QED
  BY <1>2, <1>3 DEF KeyInv

(* A reset command writes the row of a bootstrap key, new or known to it.  *)
LEMMA CliWriteKeeps ==
  ASSUME TypeOK, TypeOK', KeyInv, NEW p \in Clis, NEW k \in BootKeys, NEW h \in Hashes,
         cli[p].op = "open", OtherClis(p),
         cli'[p].op = "written", cli'[p].id = k, cli'[p].new = h,
         rows'[k].hash = h, rows'[k].revoked = rows[k].revoked, OtherRows(k),
         book.of[h] = None, book'.of[h] = k,
         \A g \in Hashes \ {h} : book'.of[g] = book.of[g],
         book'.issued = book.issued, book'.holder = book.holder,
         book'.retired = book.retired, book'.replaced = book.replaced,
         book.torn \subseteq book'.torn, book.lapsed \subseteq book'.lapsed,
         k \notin book'.torn => \A c \in Calls : ~Reads(c, k),
         k \notin book'.lapsed => /\ \A q \in Clis \ {p} : ~Prints(q, k)
                                  /\ boot # None => book.of[boot] # k,
         UNCHANGED <<cache, phase, boot, poisoned, call>>
  PROVE  (\A j \in Ids : KeyHolds(j)') /\ LookupInv' /\ PhaseInv'
<1>1. /\ k \in Ids /\ k \notin TenantKeys /\ None \notin Ids /\ None \notin Hashes /\ KeyHolds(k)
      /\ h \notin book.issued /\ h \notin book.replaced
  BY Constants DEF KeyInv, LookupInv
<1>2. ASSUME NEW j \in Ids \ {k} PROVE KeyHolds(j)'
  <2>1. SameStore(j) /\ SameRequests(j)
    BY DEF SameStore, OtherRows, SameRequests
  <2>2. SameBook(j)
    BY <1>1 DEF SameBook
  <2>3. SameReset(j)
    BY DEF SameReset, OtherClis, Prints
  <2> QED
    BY <2>1, <2>2, <2>3, Undisturbed DEF KeyInv
<1>3. /\ \A c \in Calls : ~Makes(c, k) /\ ~Changes(c, k)
      /\ \A c \in Calls : /\ ~Makes(c, k)' /\ ~Changes(c, k)'
                          /\ Reads(c, k)' <=> Reads(c, k)
      /\ \A c \in Calls : Reads(c, k) => call[c].hash \in Hashes
      /\ \A q \in Clis : Prints(q, k) => cli[q].new \in Hashes
  BY <1>1, CallShape, CliShape DEF Makes, Changes, Reads, Prints
<1>4. \A q \in Clis : /\ Prints(q, k)' <=> q = p \/ Prints(q, k)
                      /\ q # p => cli'[q] = cli[q]
  BY DEF Prints, OtherClis
<1>5. Named(k)' /\ Asked(k)' /\ Told(k)' /\ Making(k)'
  <2>1. Named(k)'
    BY <1>1 DEF KeyHolds, Named
  <2>2. Asked(k)'
    BY <1>1, <1>3 DEF KeyHolds, Asked
  <2>3. Making(k)'
    BY <1>3 DEF Making
  <2>4. Told(k)'
    <3>1. book.holder[k] \in Hashes \union {None}
      BY <1>1 DEF TypeOK, Book
    <3> QED
      BY <1>1, <1>3, <1>4, <3>1 DEF KeyHolds, Told
  <2> QED
    BY <2>1, <2>2, <2>3, <2>4
<1>6. Alone(k)' /\ Untorn(k)' /\ Replaced(k)'
  <2>1. Alone(k)'
    BY <1>1 DEF KeyHolds, Alone
  <2>2. Untorn(k)'
    BY <1>1, <1>3 DEF Untorn, UntornBoot
  <2>3. book.replaced \subseteq Hashes
    BY DEF TypeOK, Book
  <2>4. Replaced(k)'
    BY <1>1, <2>3 DEF KeyHolds, Replaced
  <2> QED
    BY <2>1, <2>2, <2>4
<1>7. Held(k)'
  <2>1. k \notin book'.lapsed => BootHeld(k)'
    BY <1>1, <1>4 DEF BootHeld, TypeOK
  <2> QED
    BY <1>1, <2>1 DEF Held
<1>8. LookupInv'
  <2>1. \A j \in TenantKeys : rows'[j] = rows[j]
    BY <1>1, Constants DEF OtherRows
  <2> QED
    BY <1>1, <2>1, LookupKept DEF KeyInv
<1>9. PhaseInv'
  <2>1. boot # None => boot \in Hashes \ {h}
    BY <1>1, Constants DEF KeyInv, PhaseInv, TypeOK
  <2>2. has_active_platform_key' <=> has_active_platform_key
    BY DEF has_active_platform_key
  <2> QED
    BY <2>1, <2>2 DEF KeyInv, PhaseInv
<1> QED
  BY <1>2, <1>5, <1>6, <1>7, <1>8, <1>9 DEF KeyHolds

(* CliCreate: it inserts a first key.                                      *)
LEMMA CliCreateKeeps ==
  ASSUME TypeOK, KeyInv, NEW p \in Clis, NEW k \in BootKeys, NEW h \in Hashes, CliCreate(p, k, h)
  PROVE  KeyInv'
<1>1. /\ TypeOK'
      /\ cli[p].op = "open" /\ OtherClis(p)
      /\ cli'[p].op = "written" /\ cli'[p].id = k /\ cli'[p].new = h
      /\ rows[k] = NoRow /\ rows'[k] = NewRow(h) /\ rows'[k].hash = h /\ ~rows'[k].revoked
      /\ OtherRows(k)
      /\ book.of[h] = None
      /\ book'.of[h] = k
      /\ \A g \in Hashes \ {h} : book'.of[g] = book.of[g]
      /\ book'.issued = book.issued /\ book'.holder = book.holder
      /\ book'.retired = book.retired /\ book'.replaced = book.replaced
      /\ book'.torn = book.torn /\ book'.lapsed = book.lapsed
      /\ UNCHANGED <<cache, phase, boot, poisoned, call>>
  BY CliCreateDoes
<1>2. /\ k \in Ids /\ None \notin Ids /\ None \notin Hashes /\ KeyHolds(k) /\ rows[k].hash = None
      /\ rows'[k].revoked = rows[k].revoked
  BY <1>1, Constants DEF KeyInv, NoRow, NewRow
<1>3. \A g \in Hashes : book.of[g] # k
  BY <1>2 DEF KeyHolds, Named
<1>4. /\ \A q \in Clis : ~Prints(q, k)
      /\ boot # None => book.of[boot] # k
  BY <1>2, <1>3, CliShape DEF KeyHolds, Told, Prints, TypeOK
<1>5. \A c \in Calls : ~Reads(c, k)
  BY <1>2, <1>3, CallShape DEF KeyHolds, Asked, Reads
<1>6. (\A j \in Ids : KeyHolds(j)') /\ LookupInv' /\ PhaseInv'
  BY <1>1, <1>2, <1>4, <1>5, CliWriteKeeps
<1>7. ResetInv'
  <2>1. \A q \in Clis : cli[q].op = "open" => \A j \in cli[q].seen : j \in Ids /\ rows[j].hash # None
    BY CliShape, Constants DEF KeyInv, ResetInv
  <2> QED
    BY <1>1, <1>2, <2>1 DEF ResetInv, OtherRows, OtherClis
<1> QED
  BY <1>6, <1>7 DEF KeyInv

(* CliRotate: it replaces the value of the one it saw.                     *)
LEMMA CliRotateKeeps ==
  ASSUME TypeOK, KeyInv, NEW p \in Clis, NEW k \in BootKeys, NEW h \in Hashes, CliRotate(p, k, h)
  PROVE  KeyInv'
<1>1. /\ TypeOK'
      /\ cli[p].op = "open" /\ cli[p].seen = {k} /\ OtherClis(p)
      /\ cli'[p].op = "written" /\ cli'[p].id = k /\ cli'[p].new = h
      /\ rows'[k].hash = h /\ rows'[k].revoked = rows[k].revoked /\ OtherRows(k)
      /\ book.of[h] = None
      /\ book'.of[h] = k
      /\ \A g \in Hashes \ {h} : book'.of[g] = book.of[g]
      /\ book'.issued = book.issued /\ book'.holder = book.holder
      /\ book'.retired = book.retired /\ book'.replaced = book.replaced
      /\ book.torn \subseteq book'.torn /\ book.lapsed \subseteq book'.lapsed
      /\ k \notin book'.torn => \A c \in Calls : ~Reads(c, k)
      /\ k \notin book'.lapsed => /\ \A q \in Clis \ {p} : ~Prints(q, k)
                                  /\ boot # None => book.of[boot] # k
      /\ UNCHANGED <<cache, phase, boot, poisoned, call>>
  BY CliRotateDoes
<1>2. rows[k].hash # None /\ k \in Ids /\ None \notin Hashes
  BY <1>1, Constants DEF KeyInv, ResetInv
<1>3. (\A j \in Ids : KeyHolds(j)') /\ LookupInv' /\ PhaseInv'
  BY <1>1, CliWriteKeeps
<1>4. ResetInv'
  <2>1. \A j \in Ids : rows'[j].hash # None <=> rows[j].hash # None
    BY <1>1, <1>2 DEF OtherRows
  <2>2. \A q \in Clis : cli[q].op = "open" => \A j \in cli[q].seen : j \in Ids /\ rows[j].hash # None
    BY CliShape, Constants DEF KeyInv, ResetInv
  <2>3. \A q \in Clis : cli'[q].op = "open" => \A j \in cli'[q].seen : rows'[j].hash # None
    BY <1>1, <2>1, <2>2 DEF OtherClis
  <2> QED
    BY <2>3 DEF ResetInv
<1> QED
  BY <1>3, <1>4 DEF KeyInv

(* CliPrint: it prints the value.                                          *)
LEMMA CliPrintKeeps == ASSUME TypeOK, KeyInv, NEW p \in Clis, CliPrint(p) PROVE KeyInv'
<1>0. PICK k, h : k = cli[p].id /\ h = cli[p].new
  OBVIOUS
<1>1. /\ TypeOK'
      /\ cli[p].op = "written" /\ cli'[p].op = "idle" /\ OtherClis(p)
      /\ k \in BootKeys /\ h \in Hashes
      /\ book' = Issue(book, h, k)
      /\ UNCHANGED <<rows, cache, phase, boot, poisoned, call>>
  BY <1>0, CliPrintDoes
<1>2. k \in Ids /\ k \notin TenantKeys /\ None \notin Ids /\ None \notin Hashes /\ KeyHolds(k) /\ Prints(p, k)
  BY <1>0, <1>1, Constants DEF KeyInv, Prints
<1>3. /\ book'.of = book.of /\ book'.issued = book.issued \union {h}
      /\ book'.holder[k] = h
      /\ \A j \in Ids \ {k} : book'.holder[j] = book.holder[j]
      /\ book'.retired = book.retired /\ book'.replaced = book.replaced
      /\ book'.torn = book.torn /\ book'.lapsed = book.lapsed
  <2>1. book \in Book
    BY DEF TypeOK
  <2> QED
    BY <1>1, <1>2, <2>1, IssueFields
<1>4. book.of[h] = k
  BY <1>0, <1>2 DEF KeyHolds, Told
<1>5. ASSUME NEW j \in Ids \ {k} PROVE KeyHolds(j)'
  <2>1. SameStore(j) /\ SameRequests(j)
    BY <1>1 DEF SameStore, SameRequests
  <2>2. SameReset(j)
    BY <1>0, <1>1 DEF SameReset, OtherClis, Prints
  <2>3. SameBook(j)
    BY <1>3, <1>4 DEF SameBook
  <2> QED
    BY <1>1, <2>1, <2>2, <2>3, Undisturbed DEF KeyInv
<1>6. /\ \A q \in Clis : Prints(q, k)' <=> q # p /\ Prints(q, k)
      /\ \A q \in Clis \ {p} : cli'[q] = cli[q]
  BY <1>1 DEF Prints, OtherClis
<1>7. \A c \in Calls : /\ ~Makes(c, k) /\ ~Changes(c, k) /\ ~Makes(c, k)' /\ ~Changes(c, k)'
                       /\ Reads(c, k)' <=> Reads(c, k)
  BY <1>1, <1>2, CallShape DEF Makes, Changes, Reads
<1>8. Named(k)' /\ Asked(k)' /\ Told(k)' /\ Making(k)'
  <2>1. Named(k)'
    BY <1>1, <1>2, <1>3 DEF KeyHolds, Named
  <2>2. Asked(k)' /\ Making(k)'
    BY <1>1, <1>2, <1>3, <1>7 DEF KeyHolds, Asked, Making
  <2>3. Told(k)'
    BY <1>2, <1>3, <1>4, <1>6 DEF KeyHolds, Told
  <2> QED
    BY <2>1, <2>2, <2>3
<1>9. Alone(k)' /\ Untorn(k)' /\ Replaced(k)'
  <2>1. Alone(k)'
    BY <1>1, <1>2 DEF KeyHolds, Alone
  <2>2. UntornBoot(k) => UntornBoot(k)'
    BY <1>1, <1>7 DEF UntornBoot
  <2>3. Untorn(k)'
    BY <1>2, <1>3, <2>2 DEF KeyHolds, Untorn
  <2>4. Replaced(k)'
    BY <1>1, <1>2, <1>3 DEF KeyHolds, Replaced
  <2> QED
    BY <2>1, <2>3, <2>4
<1>10. Held(k)'
  <2>1. BootHeld(k) => BootHeld(k)' /\ h = rows[k].hash
    BY <1>0, <1>1, <1>2, <1>3, <1>6 DEF BootHeld
  <2> QED
    BY <1>1, <1>2, <1>3, <2>1 DEF KeyHolds, Held
<1>11. LookupInv'
  BY <1>1, <1>2, <1>3, <1>4, LookupKept DEF KeyInv
<1>12. PhaseInv'
  BY <1>1, <1>3 DEF KeyInv, PhaseInv, has_active_platform_key
<1>13. ResetInv'
  BY <1>1, <1>3 DEF KeyInv, ResetInv, OtherClis, has_active_platform_key
<1> QED
  BY <1>5, <1>8, <1>9, <1>10, <1>11, <1>12, <1>13 DEF KeyInv, KeyHolds

(* CliDies: it ends before it prints.                                      *)
LEMMA CliDiesKeeps == ASSUME TypeOK, KeyInv, NEW p \in Clis, CliDies(p) PROVE KeyInv'
<1>1. /\ TypeOK'
      /\ cli'[p].op = "idle" /\ OtherClis(p)
      /\ book'.of = book.of /\ book'.issued = book.issued /\ book'.holder = book.holder
      /\ book'.retired = book.retired /\ book'.replaced = book.replaced
      /\ book'.torn = book.torn /\ book.lapsed \subseteq book'.lapsed
      /\ \A k \in BootKeys \ book'.lapsed : ~Prints(p, k)
      /\ UNCHANGED <<rows, cache, phase, boot, poisoned, call>>
  BY CliDiesDoes
<1>2. ASSUME NEW k \in Ids PROVE KeyHolds(k)'
  <2>1. KeyHolds(k)
    BY DEF KeyInv
  <2>2. SameStore(k) /\ SameRequests(k) /\ SameBook(k)
    BY <1>1 DEF SameStore, SameRequests, SameBook
  <2>3. CASE ~Prints(p, k)
    <3>1. SameReset(k)
      BY <1>1, <2>3 DEF SameReset, OtherClis, Prints
    <3> QED
      BY <1>1, <2>1, <2>2, <3>1, Undisturbed
  <2>4. CASE Prints(p, k)
    <3>1. k \in BootKeys /\ k \notin TenantKeys /\ k \in book'.lapsed
      BY <1>1, <2>4, CliShape, Constants DEF Prints
    <3>2. \A q \in Clis : Prints(q, k)' => Prints(q, k) /\ cli'[q] = cli[q]
      BY <1>1 DEF Prints, OtherClis
    <3>3. Named(k)' /\ Told(k)' /\ Alone(k)'
      <4>1. Named(k)' /\ Alone(k)'
        BY <1>1, <2>1 DEF KeyHolds, Named, Alone
      <4>2. Told(k)'
        BY <1>1, <2>1, <3>2 DEF KeyHolds, Told
      <4> QED
        BY <4>1, <4>2
    <3>4. \A c \in Calls : /\ ~Makes(c, k) /\ ~Changes(c, k) /\ ~Makes(c, k)' /\ ~Changes(c, k)'
                           /\ Reads(c, k)' <=> Reads(c, k)
      BY <1>1, <3>1, CallShape DEF Makes, Changes, Reads
    <3>5. Asked(k)' /\ Making(k)'
      BY <1>1, <2>1, <3>4 DEF KeyHolds, Asked, Making
    <3>6. Untorn(k)'
      <4>1. UntornBoot(k) => UntornBoot(k)'
        BY <1>1, <3>4 DEF UntornBoot
      <4> QED
        BY <1>1, <2>1, <3>1, <4>1 DEF KeyHolds, Untorn
    <3>7. Replaced(k)' /\ Held(k)'
      BY <1>1, <2>1, <3>1 DEF KeyHolds, Replaced, Held
    <3> QED
      BY <3>3, <3>5, <3>6, <3>7 DEF KeyHolds
  <2> QED
    BY <2>3, <2>4
<1>3. LookupInv'
  BY <1>1, LookupKept DEF KeyInv
<1>4. PhaseInv'
  BY <1>1 DEF KeyInv, PhaseInv, has_active_platform_key
<1>5. ResetInv'
  BY <1>1 DEF KeyInv, ResetInv, OtherClis, has_active_platform_key
<1> QED
  BY <1>2, <1>3, <1>4, <1>5 DEF KeyInv
-----------------------------------------------------------------------------
(* The invariant holds at the start and is kept by every step.             *)
LEMMA KeyInit == Init => TypeOK /\ KeyInv
<1> SUFFICES ASSUME Init PROVE TypeOK /\ KeyInv
  OBVIOUS
<1>1. TypeOK
  BY KeyStoreAssumption DEF Init, TypeOK, Row, NoRow, KeyRecord, NoEntry, CallState, CliState, Book, Ids
<1>2. /\ \A c \in Calls : call[c].op = "idle"
      /\ \A p \in Clis : cli[p].op = "idle"
      /\ \A h \in Hashes : cache[h] = NoEntry /\ cache[h].id = None /\ book.of[h] = None
      /\ \A k \in Ids : rows[k].hash = None /\ ~rows[k].revoked /\ book.holder[k] = None
      /\ book.issued = {} /\ book.replaced = {} /\ book.retired = {}
  BY DEF Init, Idle, NoEntry, NoRow
<1>3. ASSUME NEW k \in Ids PROVE KeyHolds(k)
  <2>1. \A c \in Calls : ~Makes(c, k) /\ ~Changes(c, k) /\ ~Reads(c, k)
    BY <1>2 DEF Makes, Changes, Reads, ChangeOps
  <2>2. \A p \in Clis : ~Prints(p, k)
    BY <1>2 DEF Prints
  <2>3. k # None
    BY Constants
  <2>4. Named(k) /\ Asked(k) /\ Told(k) /\ Making(k)
    BY <1>2, <2>1, <2>2, <2>3 DEF Named, Asked, Told, Making
  <2>5. Alone(k) /\ Replaced(k)
    BY <1>2, <2>3 DEF Alone, Replaced
  <2>6. Untorn(k)
    BY <1>2, <2>1, <2>3 DEF Untorn, UntornTenant, UntornBoot
  <2>7. Held(k)
    BY <1>2, <2>2 DEF Held, TenantHeld, BootHeld, Init
  <2> QED
    BY <2>4, <2>5, <2>6, <2>7 DEF KeyHolds
<1>4. PhaseInv /\ LookupInv
  BY <1>2, Constants DEF Init, PhaseInv, LookupInv
<1>5. ResetInv
  BY <1>2, Constants DEF Init, ResetInv
<1> QED
  BY <1>1, <1>3, <1>4, <1>5 DEF KeyInv

(* Every step keeps the types and the invariant, action by action.         *)
LEMMA KeyStep ==
  ASSUME TypeOK, KeyInv, [Next]_vars
  PROVE  TypeOK' /\ KeyInv'
<1>1. CASE \E c \in Calls, k \in TenantKeys, h \in Hashes : CreateInsert(c, k, h)
  BY <1>1, CreateInsertDoes, CreateInsertKeeps
<1>2. CASE \E c \in Calls, h \in Hashes : RevokeBegin(c, h) \/ RotateBegin(c, h)
  <2>1. overlapped' \in SUBSET Calls
    BY <1>2 DEF RevokeBegin, RotateBegin, Rotators, Changers, TypeOK
  <2> QED
    BY <1>2, <2>1, BeginDoes, BeginKeeps DEF RevokeBegin, RotateBegin
<1>3. CASE \E c \in Calls, h \in Hashes : RotateWrite(c, h)
  BY <1>3, RotateWriteDoes, RotateWriteKeeps
<1>4. CASE \E c \in Calls, h \in Hashes : AuthMiss(c, h)
  BY <1>4, AuthMissDoes, AuthMissKeeps
<1>5. CASE \E c \in Calls : CreateCache(c)
  BY <1>5, CreateCacheDoes, CreateCacheKeeps
<1>6. CASE \E c \in Calls : RevokeWrite(c)
  BY <1>6, RevokeWriteDoes, RevokeWriteKeeps
<1>7. CASE \E c \in Calls : RevokeCache(c)
  BY <1>7, RevokeCacheDoes, RevokeCacheKeeps
<1>8. CASE \E c \in Calls : RotateCache(c)
  BY <1>8, RotateCacheDoes, RotateCacheKeeps
<1>9. CASE \E c \in Calls : RotatePanics(c)
  BY <1>9, RotatePanicsDoes, RotatePanicsKeeps
<1>10. CASE \E c \in Calls : AuthLoad(c)
  BY <1>10, AuthLoadDoes, AuthLoadKeeps
<1>11. CASE \E c \in Calls : AuthInsert(c)
  BY <1>11, AuthInsertDoes, AuthInsertKeeps
<1>12. CASE \E c \in Calls : CallFails(c)
  BY <1>12, CallFailsDoes, CallFailsKeeps
<1>13. CASE \E c \in Calls : CallCut(c)
  BY <1>13, CallCutDoes, CallCutKeeps
<1>14. CASE \E h \in Hashes : AuthHit(h)
  BY <1>14, AuthHitDoes, AuthHitKeeps
<1>15. CASE ServerLoad
  BY <1>15, ServerLoadDoes, ServerLoadKeeps
<1>16. CASE Serve
  BY <1>16, ServeDoes, ServeKeeps DEF KeyInv
<1>17. CASE Crash
  BY <1>17, CrashDoes, CrashKeeps
<1>18. CASE \E k \in BootKeys, h \in Hashes : BootCreate(k, h)
  BY <1>18, BootCreateDoes, BootCreateKeeps
<1>19. CASE \E p \in Clis : CliOpen(p)
  BY <1>19, CliOpenDoes, CliOpenKeeps
<1>20. CASE \E p \in Clis : CliBail(p)
  BY <1>20, CliBailDoes, CliBailKeeps
<1>21. CASE \E p \in Clis : CliPrint(p)
  BY <1>21, CliPrintDoes, CliPrintKeeps
<1>22. CASE \E p \in Clis : CliDies(p)
  BY <1>22, CliDiesDoes, CliDiesKeeps
<1>23. CASE \E p \in Clis, k \in BootKeys, h \in Hashes : CliCreate(p, k, h)
  BY <1>23, CliCreateDoes, CliCreateKeeps
<1>24. CASE \E p \in Clis, k \in BootKeys, h \in Hashes : CliRotate(p, k, h)
  BY <1>24, CliRotateDoes, CliRotateKeeps
<1>25. CASE UNCHANGED vars
  <2>1. TypeOK'
    BY <1>25 DEF vars, TypeOK
  <2>2. PhaseInv' /\ LookupInv' /\ ResetInv'
    BY <1>25 DEF vars, KeyInv, PhaseInv, LookupInv, ResetInv,
                 has_active_platform_key
  <2>3. ASSUME NEW k \in Ids PROVE KeyHolds(k)'
    BY <1>25, <2>1, Undisturbed
       DEF vars, KeyInv, SameStore, SameRequests, SameBook, SameReset
  <2> QED
    BY <2>1, <2>2, <2>3 DEF KeyInv
<1> QED
  BY <1>1, <1>2, <1>3, <1>4, <1>5, <1>6, <1>7, <1>8, <1>9, <1>10, <1>11, <1>12,
     <1>13, <1>14, <1>15, <1>16, <1>17, <1>18, <1>19, <1>20, <1>21, <1>22, <1>23, <1>24, <1>25 DEF Next

(* KeyInv holds in every reachable state.                                  *)
LEMMA KeyInvariant == Spec => [](TypeOK /\ KeyInv)
<1>1. Init => TypeOK /\ KeyInv
  BY KeyInit
<1>2. (TypeOK /\ KeyInv) /\ [Next]_vars => (TypeOK /\ KeyInv)'
  BY KeyStep
<1> QED
  BY <1>1, <1>2, PTL DEF Spec

-----------------------------------------------------------------------------
(***************************************************************************)
(* Who raced whom.  RaceInv stands on KeyInv: OverlapInv says that the     *)
(* entry a rotation remembers stays in the cache unless another rotation   *)
(* of its key is, or was, in flight with it; RivalInv says that a server   *)
(* that starts and sees no bootstrap key has overlooked none but those     *)
(* made since it read the table, and that two of them are rivals.          *)
(***************************************************************************)
Rotates(c, k) == call[c].op \in {"rotate", "rotated"} /\ call[c].id = k

Remembered(c, k) == cache[call[c].old].id = k

OverlapInv == \A c \in Calls, k \in TenantKeys : Rotates(c, k) =>
  /\ Remembered(c, k) \/ c \in overlapped
  /\ \A d \in Calls \ {c} : Rotates(d, k) => c \in overlapped

Made(k) == rows[k].hash # None

RivalInv ==
  /\ phase = "boot" /\ ~has_active_platform_key =>
       \A j \in BootKeys : Made(j) => j \in book.unseen
  /\ \A j, k \in BootKeys : Made(j) /\ Made(k) =>
       j = k \/ <<j, k>> \in book.rivals \/ <<k, j>> \in book.rivals

RaceInv == OverlapInv /\ RivalInv

(* A hash that is cached or stored is no key's but the one it was made     *)
(* for.                                                                    *)
LEMMA OwnHash ==
  ASSUME TypeOK, KeyInv, NEW h \in Hashes
  PROVE  /\ \A k \in Ids : rows[k].hash = h => book.of[h] = k
         /\ Cached(h) => /\ cache[h].id \in Ids /\ book.of[h] = cache[h].id
                         /\ cache[h].revoked => rows[cache[h].id].revoked
<1>1. h # None
  BY Constants
<1>2. Cached(h) => cache[h].id \in Ids
  BY DEF Cached, TypeOK, KeyRecord
<1> QED
  BY <1>1, <1>2 DEF KeyInv, KeyHolds, Named

(* A rotation in flight remembers a value of its own key.                  *)
LEMMA RotationsKnow ==
  ASSUME TypeOK, KeyInv, NEW c \in Calls, NEW k \in TenantKeys, Rotates(c, k)
  PROVE  call[c].old \in Hashes /\ book.of[call[c].old] = k
<1>1. Changes(c, k) /\ k \in Ids
  BY Constants DEF Rotates, Changes, ChangeOps
<1>2. call[c].old \in Hashes
  BY <1>1, CallShape DEF Changes
<1> QED
  BY <1>1, <1>2 DEF KeyInv, KeyHolds, Asked

(* A call answers, and leaves the entries the rotations still in flight    *)
(* remember where they are, or was overlapped by them.                     *)
LEMMA OverlapAnswered ==
  ASSUME TypeOK, OverlapInv, NEW c \in Calls, Answer(c),
         \A d \in Calls \ {c}, k \in TenantKeys :
           Rotates(d, k) /\ Remembered(d, k) => cache'[call[d].old].id = k \/ d \in overlapped
  PROVE  OverlapInv'
<1>1. call'[c].op = "idle" /\ Others(c) /\ overlapped' = overlapped \ {c}
  BY Answered DEF Answer
<1>2. \A d \in Calls, k \in TenantKeys : Rotates(d, k)' =>
        /\ d # c /\ Rotates(d, k) /\ call'[d] = call[d]
        /\ d \in overlapped => d \in overlapped'
  BY <1>1 DEF Rotates, Others
<1> QED
  BY <1>2 DEF OverlapInv, Remembered

(* A call goes on, not as a rotation or as the rotation it was.            *)
LEMMA OverlapMoved ==
  ASSUME OverlapInv, NEW c \in Calls, Others(c), UNCHANGED <<cache, overlapped>>,
         \/ call'[c].op \notin {"rotate", "rotated"}
         \/ /\ call[c].op = "rotate"
            /\ call'[c].id = call[c].id /\ call'[c].old = call[c].old
  PROVE  OverlapInv'
<1>1. \A d \in Calls, k \in TenantKeys : Rotates(d, k)' => Rotates(d, k) /\ call'[d].old = call[d].old
  BY DEF Rotates, Others
<1> QED
  BY <1>1 DEF OverlapInv, Remembered

(* A rotation begins: the entry is there, and each rotation of the key in  *)
(* flight is overlapped.                                                   *)
LEMMA OverlapBegun ==
  ASSUME TypeOK, OverlapInv, NEW c \in Calls, NEW h \in Hashes, RotateBegin(c, h)
  PROVE  OverlapInv'
<1>0. PICK k : k = cache[h].id
  OBVIOUS
<1>1. overlapped' \in SUBSET Calls
  BY DEF RotateBegin, Rotators, Changers, TypeOK
<1>2. /\ call[c].op = "idle" /\ Others(c) /\ cache' = cache
      /\ call'[c].op = "rotate" /\ call'[c].id = k /\ call'[c].old = h
  BY <1>0, <1>1, BeginDoes DEF RotateBegin
<1>3. /\ overlapped \subseteq overlapped'
      /\ \A d \in Calls : Rotates(d, k) => d \in overlapped' /\ c \in overlapped'
  <2>1. \A d \in Calls : Rotates(d, k) => d \in Rotators(k)
    BY DEF Rotates, Rotators, Changers
  <2> QED
    BY <1>0, <2>1 DEF RotateBegin
<1>4. \A d \in Calls \ {c}, j \in TenantKeys :
        /\ Rotates(d, j)' <=> Rotates(d, j)
        /\ Remembered(d, j)' <=> Remembered(d, j)
  BY <1>2 DEF Rotates, Remembered, Others
<1>5. \A j \in TenantKeys : Rotates(c, j)' => j = k /\ Remembered(c, j)'
  BY <1>0, <1>2 DEF Rotates, Remembered
<1>6. ASSUME NEW d \in Calls \ {c}, NEW j \in TenantKeys, Rotates(d, j)'
      PROVE  /\ Remembered(d, j)' \/ d \in overlapped'
             /\ \A e \in Calls \ {d} : Rotates(e, j)' => d \in overlapped'
  BY <1>3, <1>4, <1>5, <1>6 DEF OverlapInv
<1>7. ASSUME NEW j \in TenantKeys, Rotates(c, j)'
      PROVE  \A e \in Calls \ {c} : Rotates(e, j)' => c \in overlapped'
  BY <1>3, <1>4, <1>5, <1>7
<1> QED
  BY <1>5, <1>6, <1>7 DEF OverlapInv

(* A rotation moves its entry: only a rotation of the same key can have    *)
(* remembered it too.                                                      *)
LEMMA RotateCacheOverlaps ==
  ASSUME TypeOK, KeyInv, OverlapInv, NEW c \in Calls, RotateCache(c)
  PROVE  OverlapInv'
<1>0. PICK k, g, h : k = call[c].id /\ g = call[c].old /\ h = call[c].new
  OBVIOUS
<1>1. /\ k \in TenantKeys /\ g \in Hashes /\ h \in Hashes /\ Rotates(c, k)
      /\ Cached(g) /\ cache'[h] = cache[g]
      /\ \A f \in Hashes \ {g, h} : cache'[f] = cache[f]
  BY <1>0, RotateCacheDoes DEF Rotates
<1>2. book.of[g] = k /\ cache[g].id = k
  BY <1>0, <1>1, RotationsKnow, OwnHash
<1>3. book.of[h] = k
  <2>1. Changes(c, k) /\ call[c].op = "rotated" /\ k \in Ids
    BY <1>0, <1>1, Constants DEF RotateCache, Changes, ChangeOps
  <2> QED
    BY <1>0, <2>1 DEF KeyInv, KeyHolds, Asked
<1>4. ASSUME NEW d \in Calls \ {c}, NEW j \in TenantKeys, Rotates(d, j), Remembered(d, j)
      PROVE  cache'[call[d].old].id = j \/ d \in overlapped
  <2>1. PICK f \in Hashes : f = call[d].old /\ book.of[f] = j /\ cache[f].id = j
    BY <1>4, RotationsKnow DEF Remembered
  <2>2. CASE f = g
    BY <1>1, <1>2, <1>4, <2>1, <2>2 DEF OverlapInv
  <2>3. CASE f = h
    BY <1>1, <1>2, <1>3, <2>1, <2>3
  <2> QED
    BY <1>1, <2>1, <2>2, <2>3
<1> QED
  BY <1>4, OverlapAnswered DEF RotateCache

(* A lookup evicts the entries of a bootstrap key only, a creation caches  *)
(* a value nobody rotates away from.                                       *)
LEMMA InsertsOverlap ==
  ASSUME TypeOK, KeyInv, OverlapInv, NEW c \in Calls, AuthInsert(c) \/ CreateCache(c)
  PROVE  OverlapInv'
<1>1. CASE AuthInsert(c)
  <2>0. PICK k, h : k = call[c].id /\ h = call[c].hash
    OBVIOUS
  <2>1. /\ k \in Ids /\ h \in Hashes /\ Reads(c, k)
        /\ \A g \in Hashes \ {h} : cache[g].id # k => cache'[g] = cache[g]
    BY <1>1, <2>0, AuthInsertDoes DEF Reads
  <2>2. k \in BootKeys /\ book.of[h] = k
    BY <2>0, <2>1 DEF KeyInv, KeyHolds, Asked
  <2>3. ASSUME NEW d \in Calls \ {c}, NEW j \in TenantKeys, Rotates(d, j), Remembered(d, j)
        PROVE  cache'[call[d].old].id = j
    <3>1. call[d].old \in Hashes /\ book.of[call[d].old] = j /\ cache[call[d].old].id = j /\ j # k
      BY <2>2, <2>3, RotationsKnow, Constants DEF Remembered
    <3> QED
      BY <2>1, <2>2, <3>1
  <2> QED
    BY <1>1, <2>3, OverlapAnswered DEF AuthInsert
<1>2. CASE CreateCache(c)
  <2>0. PICK k, h : k = call[c].id /\ h = call[c].new
    OBVIOUS
  <2>1. /\ k \in TenantKeys /\ h \in Hashes /\ Makes(c, k) /\ cache'[h].id = k
        /\ \A g \in Hashes \ {h} : cache'[g] = cache[g]
    BY <1>2, <2>0, CreateCacheDoes DEF Makes
  <2>2. book.of[h] = k
    BY <2>0, <2>1, Constants DEF KeyInv, KeyHolds, Asked
  <2>3. ASSUME NEW d \in Calls \ {c}, NEW j \in TenantKeys, Rotates(d, j), Remembered(d, j)
        PROVE  cache'[call[d].old].id = j
    BY <2>1, <2>2, <2>3, RotationsKnow DEF Remembered
  <2> QED
    BY <1>2, <2>3, OverlapAnswered DEF CreateCache
<1> QED
  BY <1>1, <1>2

(* A step of a request keeps OverlapInv.                                   *)
LEMMA RequestOverlaps ==
  ASSUME TypeOK, KeyInv, OverlapInv, NEW c \in Calls, NEW h \in Hashes,
         \/ \E k \in TenantKeys : CreateInsert(c, k, h)
         \/ RevokeBegin(c, h) \/ RotateBegin(c, h) \/ RotateWrite(c, h) \/ AuthMiss(c, h)
         \/ CreateCache(c) \/ RevokeWrite(c) \/ RevokeCache(c) \/ RotateCache(c) \/ RotatePanics(c)
         \/ AuthLoad(c) \/ AuthInsert(c) \/ CallFails(c) \/ CallCut(c)
  PROVE  OverlapInv'
<1>1. CASE \E k \in TenantKeys : CreateInsert(c, k, h)
  <2>1. Others(c) /\ call'[c].op = "created" /\ UNCHANGED <<cache, overlapped>>
    BY <1>1, CreateInsertDoes DEF CreateInsert
  <2> QED
    BY <2>1, OverlapMoved
<1>2. CASE RevokeBegin(c, h)
  <2>1. UNCHANGED overlapped /\ overlapped' \in SUBSET Calls
    BY <1>2 DEF RevokeBegin, TypeOK
  <2>2. Others(c) /\ call'[c].op = "revoke" /\ UNCHANGED cache
    BY <1>2, <2>1, BeginDoes DEF RevokeBegin
  <2> QED
    BY <2>1, <2>2, OverlapMoved
<1>3. CASE RotateBegin(c, h)
  BY <1>3, OverlapBegun
<1>4. CASE RotateWrite(c, h)
  <2>1. PICK k : k = call[c].id
    OBVIOUS
  <2>2. /\ Others(c) /\ cache' = cache /\ call[c].op = "rotate"
        /\ call'[c].id = k /\ call'[c].old = call[c].old
    BY <1>4, <2>1, RotateWriteDoes
  <2>3. overlapped' = overlapped
    BY <1>4 DEF RotateWrite
  <2> QED
    BY <2>1, <2>2, <2>3, OverlapMoved
<1>5. CASE AuthMiss(c, h)
  <2>1. Others(c) /\ call'[c].op = "lookup" /\ UNCHANGED <<cache, overlapped>>
    BY <1>5, AuthMissDoes DEF AuthMiss
  <2> QED
    BY <2>1, OverlapMoved
<1>6. CASE CreateCache(c) \/ AuthInsert(c)
  BY <1>6, InsertsOverlap
<1>7. CASE RevokeWrite(c)
  <2>1. Others(c) /\ call'[c].op = "revoked" /\ UNCHANGED <<cache, overlapped>>
    BY <1>7, RevokeWriteDoes DEF RevokeWrite
  <2> QED
    BY <2>1, OverlapMoved
<1>8. CASE RevokeCache(c)
  <2>1. \A g \in Hashes : cache'[g].id = cache[g].id
    BY <1>8, RevokeCacheDoes
  <2>2. \A d \in Calls, k \in TenantKeys :
          Rotates(d, k) /\ Remembered(d, k) => cache'[call[d].old].id = k
    BY <2>1, RotationsKnow DEF Remembered
  <2> QED
    BY <1>8, <2>2, OverlapAnswered DEF RevokeCache
<1>9. CASE RotateCache(c)
  BY <1>9, RotateCacheOverlaps
<1>10. CASE RotatePanics(c) \/ CallFails(c) \/ CallCut(c)
  <2>1. Answer(c) /\ cache' = cache
    BY <1>10 DEF RotatePanics, CallFails, CallCut
  <2> QED
    BY <2>1, OverlapAnswered DEF Remembered
<1>11. CASE AuthLoad(c)
  <2>1. CASE Answer(c)
    BY <1>11, <2>1, OverlapAnswered DEF AuthLoad, Remembered
  <2>2. CASE ~Answer(c)
    <3>1. UNCHANGED <<cache, overlapped>>
      BY <1>11, <2>2 DEF AuthLoad
    <3>2. Others(c) /\ call'[c].op \in {"idle", "loaded"}
      BY <1>11, AuthLoadDoes
    <3> QED
      BY <3>1, <3>2, OverlapMoved
  <2> QED
    BY <2>1, <2>2
<1> QED
  BY <1>1, <1>2, <1>3, <1>4, <1>5, <1>6, <1>7, <1>8, <1>9, <1>10, <1>11

SameRivals == book'.unseen = book.unseen /\ book'.rivals = book.rivals

(* A step makes no bootstrap key and leaves a starting server no blinder.  *)
LEMMA RivalsKept ==
  ASSUME RivalInv, SameRivals, \A j \in BootKeys : Made(j)' => Made(j),
         phase' = "boot" /\ ~has_active_platform_key' => phase = "boot" /\ ~has_active_platform_key
  PROVE  RivalInv'
  BY DEF RivalInv, SameRivals

(* The steps of the history but Rival leave alone who raced whom.          *)
LEMMA HistoryRivals ==
  ASSUME TypeOK, NEW h \in Hashes, NEW k \in Ids,
         \/ book' = book
         \/ book' \in {Mint(book, h, k), Issue(book, h, k), Used(book, h)}
         \/ \E s \in SUBSET Ids : book' \in {Tear(book, s), Lapse(book, s), Lapse(Tear(book, s), s),
                                             Tear(Mint(book, h, k), s)}
         \/ \E r, s \in SUBSET Ids : book' = Lapse(Tear(Mint(book, h, k), r), s)
         \/ book' = [book EXCEPT !.retired = @ \union {k}]
         \/ \E g \in Hashes : book' = [Issue(book, h, k) EXCEPT !.replaced = @ \union {g}]
  PROVE  SameRivals
<1>1. book \in Book
  BY DEF TypeOK
<1>2. PICK m : m = Mint(book, h, k)
  OBVIOUS
<1>3. m \in Book /\ m.unseen = book.unseen /\ m.rivals = book.rivals
  BY <1>1, <1>2, MintFields
<1>4. ASSUME NEW b \in {book, m}, NEW s \in SUBSET Ids
      PROVE  /\ Tear(b, s) \in Book
             /\ Tear(b, s).unseen = book.unseen /\ Tear(b, s).rivals = book.rivals
  BY <1>1, <1>3, TearFields
<1>5. ASSUME NEW b \in {book, m}, NEW r \in SUBSET Ids, NEW s \in SUBSET Ids
      PROVE  /\ Lapse(Tear(b, r), s).unseen = book.unseen
             /\ Lapse(Tear(b, r), s).rivals = book.rivals
  <2>1. PICK d : d = Tear(b, r)
    OBVIOUS
  <2>2. d \in Book /\ d.unseen = book.unseen /\ d.rivals = book.rivals
    BY <1>4, <2>1
  <2> QED
    BY <2>1, <2>2, LapseFields
<1>6. CASE book' = book \/ book' \in {m, Issue(book, h, k), Used(book, h)}
  BY <1>1, <1>3, <1>6, IssueFields, UsedFields DEF SameRivals
<1>7. CASE \E s \in SUBSET Ids : book' \in {Tear(book, s), Lapse(book, s), Lapse(Tear(book, s), s),
                                            Tear(m, s)}
  BY <1>1, <1>4, <1>5, <1>7, LapseFields DEF SameRivals
<1>8. CASE \E r, s \in SUBSET Ids : book' = Lapse(Tear(m, r), s)
  BY <1>5, <1>8 DEF SameRivals
<1>9. CASE book' = [book EXCEPT !.retired = @ \union {k}]
  BY <1>1, <1>9 DEF SameRivals, Book
<1>10. CASE \E g \in Hashes : book' = [Issue(book, h, k) EXCEPT !.replaced = @ \union {g}]
  <2>1. PICK i : i = Issue(book, h, k)
    OBVIOUS
  <2>2. i \in Book /\ i.unseen = book.unseen /\ i.rivals = book.rivals
    BY <1>1, <2>1, IssueFields
  <2>3. PICK g \in Hashes : book' = [i EXCEPT !.replaced = @ \union {g}]
    BY <1>10, <2>1
  <2> QED
    BY <2>2, <2>3 DEF SameRivals, Book
<1> QED
  BY <1>2, <1>6, <1>7, <1>8, <1>9, <1>10

(* A step of a request makes no bootstrap key.                             *)
LEMMA RequestRivals ==
  ASSUME TypeOK, KeyInv, RivalInv, NEW c \in Calls, NEW h \in Hashes,
         \/ \E k \in TenantKeys : CreateInsert(c, k, h)
         \/ RevokeBegin(c, h) \/ RotateBegin(c, h) \/ RotateWrite(c, h) \/ AuthMiss(c, h)
         \/ CreateCache(c) \/ RevokeWrite(c) \/ RevokeCache(c) \/ RotateCache(c) \/ RotatePanics(c)
         \/ AuthLoad(c) \/ AuthInsert(c) \/ CallFails(c) \/ CallCut(c)
  PROVE  RivalInv'
<1>0. PICK k : k = call[c].id
  OBVIOUS
<1>1. CASE \E j \in TenantKeys : CreateInsert(c, j, h)
  <2>1. PICK j \in TenantKeys : CreateInsert(c, j, h)
    BY <1>1
  <2>2. j \in Ids /\ OtherRows(j) /\ book' = Mint(book, h, j) /\ phase = "up" /\ phase' = phase
    BY <2>1, CreateInsertDoes, Constants DEF CreateInsert, Serving
  <2>3. SameRivals
    BY <2>2, HistoryRivals
  <2> QED
    BY <2>2, <2>3, RivalsKept, Constants DEF OtherRows, Made
<1>2. CASE RevokeBegin(c, h) \/ RotateBegin(c, h)
  <2>1. PICK j, s : j = cache[h].id /\ s = {i \in {j} : Changers(i) # {}}
    OBVIOUS
  <2>2. j \in Ids /\ s \in SUBSET Ids /\ book' = Tear(book, s) /\ rows' = rows /\ phase = "up" /\ phase' = phase
    BY <1>2, <2>1, Constants DEF RevokeBegin, RotateBegin, Begin, Serving
  <2>3. SameRivals
    BY <2>2, HistoryRivals
  <2> QED
    BY <2>2, <2>3, RivalsKept DEF Made
<1>3. CASE RotateWrite(c, h)
  <2>1. k \in TenantKeys /\ k \in Ids /\ OtherRows(k)
    BY <1>0, <1>3, RotateWriteDoes, Constants
  <2>2. phase = "up" /\ phase' = phase
    BY <1>3, InFlight DEF RotateWrite, KeyInv
  <2>3. PICK s : s = {i \in {k} : Readers(i) # {}}
    OBVIOUS
  <2>4. s \in SUBSET Ids /\ book' = Tear(Mint(book, h, k), s)
    BY <1>0, <1>3, <2>1, <2>3 DEF RotateWrite
  <2>5. SameRivals
    BY <2>1, <2>4, HistoryRivals
  <2> QED
    BY <2>1, <2>2, <2>5, RivalsKept, Constants DEF OtherRows, Made
<1>4. CASE AuthMiss(c, h) \/ AuthLoad(c) \/ CallFails(c) \/ RevokeWrite(c)
  <2>1. phase = "up" /\ phase' = phase /\ book' = book
    BY <1>4, InFlight DEF AuthMiss, AuthLoad, CallFails, RevokeWrite, Serving, KeyInv
  <2>2. \A j \in BootKeys : rows'[j] = rows[j]
    <3>1. CASE RevokeWrite(c)
      <4>1. k \in TenantKeys /\ OtherRows(k)
        BY <1>0, <3>1, RevokeWriteDoes
      <4> QED
        BY <4>1, Constants DEF OtherRows
    <3>2. CASE AuthMiss(c, h) \/ AuthLoad(c) \/ CallFails(c)
      BY <3>2 DEF AuthMiss, AuthLoad, CallFails
    <3> QED
      BY <1>4, <3>1, <3>2
  <2> QED
    BY <2>1, <2>2, RivalsKept DEF SameRivals, Made
<1>5. CASE CreateCache(c) \/ RevokeCache(c) \/ RotateCache(c) \/ RotatePanics(c) \/ AuthInsert(c) \/ CallCut(c)
  <2>1. rows' = rows /\ phase = "up" /\ phase' = phase
    BY <1>5, InFlight DEF CreateCache, RevokeCache, RotateCache, RotatePanics, EntryGone, AuthInsert,
                          CallCut, KeyInv
  <2>2. PICK f, g : f = call[c].new /\ g = call[c].old
    OBVIOUS
  <2>3. CASE CreateCache(c)
    <3>1. k \in Ids /\ f \in Hashes /\ book' = Issue(book, f, k)
      BY <1>0, <2>2, <2>3, CreateCacheDoes, Constants
    <3> QED
      BY <2>1, <3>1, HistoryRivals, RivalsKept DEF Made
  <2>4. CASE RevokeCache(c)
    <3>1. k \in Ids /\ book' = [book EXCEPT !.retired = @ \union {k}]
      BY <1>0, <2>4, RevokeCacheDoes, Constants DEF RevokeCache
    <3> QED
      BY <2>1, <3>1, HistoryRivals, RivalsKept DEF Made
  <2>5. CASE RotateCache(c)
    <3>1. k \in Ids /\ f \in Hashes /\ g \in Hashes
      BY <1>0, <2>2, <2>5, RotateCacheDoes, Constants
    <3>2. book' = [Issue(book, f, k) EXCEPT !.replaced = @ \union {g}]
      BY <1>0, <2>2, <2>5 DEF RotateCache
    <3> QED
      BY <2>1, <3>1, <3>2, HistoryRivals, RivalsKept DEF Made
  <2>6. CASE RotatePanics(c)
    <3>1. k \in Ids /\ book' = Lapse(book, {k})
      BY <1>0, <2>6, RotatePanicsDoes, Constants
    <3> QED
      BY <2>1, <3>1, HistoryRivals, RivalsKept DEF Made
  <2>7. CASE AuthInsert(c)
    <3>1. PICK e : e = call[c].hash
      OBVIOUS
    <3>2. k \in Ids /\ e \in Hashes /\ book' = Used(book, e)
      BY <1>0, <2>7, <3>1, AuthInsertDoes
    <3> QED
      BY <2>1, <3>2, HistoryRivals, RivalsKept DEF Made
  <2>8. CASE CallCut(c)
    <3>1. k \in Ids /\ book' \in {book, Lapse(Tear(book, {k}), {k})}
      BY <1>0, <2>8, CallCutDoes DEF CallCut
    <3> QED
      BY <2>1, <3>1, HistoryRivals, RivalsKept DEF Made
  <2> QED
    BY <1>5, <2>3, <2>4, <2>5, <2>6, <2>7, <2>8
<1> QED
  BY <1>1, <1>2, <1>3, <1>4, <1>5

(* The start overlooks no bootstrap key, and makes one only beside those a *)
(* command made since.                                                     *)
LEMMA StartRivals ==
  ASSUME TypeOK, KeyInv, RivalInv,
         ServerLoad \/ Serve \/ Crash \/ \E k \in BootKeys, h \in Hashes : BootCreate(k, h)
  PROVE  RivalInv'
<1>0. book \in Book
  BY DEF TypeOK
<1>1. CASE ServerLoad
  <2>1. book'.rivals = book.rivals /\ rows' = rows
    BY <1>0, <1>1 DEF ServerLoad, Book
  <2>2. ASSUME NEW j \in BootKeys, Made(j) PROVE has_active_platform_key'
    <3>1. PICK h \in Hashes : h = rows[j].hash /\ book.of[h] = j /\ ~rows[j].revoked
      BY <2>2, Constants DEF Made, KeyInv, KeyHolds, Named, TypeOK, Row
    <3>2. cache'[h].id = j /\ ~cache'[h].revoked
      BY <1>1, <3>1, ServerLoadDoes, OwnHash, Constants
    <3> QED
      BY <2>2, <3>2 DEF has_active_platform_key
  <2> QED
    BY <2>1, <2>2 DEF RivalInv, Made
<1>2. CASE Serve
  <2>1. rows' = rows /\ phase' = "up"
    BY <1>2 DEF Serve
  <2>2. SameRivals
    <3>1. PICK k : k = book.of[boot]
      OBVIOUS
    <3>2. book' = book \/ (boot \in Hashes /\ k \in Ids /\ book' = Issue(book, boot, k))
      BY <1>2, <3>1, ServeDoes, Constants DEF KeyInv
    <3> QED
      BY <1>0, <3>2, IssueFields DEF SameRivals
  <2> QED
    BY <2>1, <2>2, RivalsKept DEF Made
<1>3. CASE Crash
  <2>1. rows' = rows /\ phase' = "down"
    BY <1>3 DEF Crash
  <2>2. PICK s \in SUBSET Ids : book' = Lapse(book, s)
    BY <1>3 DEF Crash
  <2>3. SameRivals
    BY <1>0, <2>2, LapseFields DEF SameRivals
  <2> QED
    BY <2>1, <2>3, RivalsKept DEF Made
<1>4. CASE \E k \in BootKeys, h \in Hashes : BootCreate(k, h)
  <2>1. PICK k \in BootKeys, h \in Hashes : BootCreate(k, h)
    BY <1>4
  <2>2. /\ phase = "boot" /\ ~has_active_platform_key /\ OtherRows(k)
        /\ cache'[h].id = k /\ ~cache'[h].revoked
    BY <2>1, BootCreateDoes
  <2>3. has_active_platform_key'
    BY <2>2 DEF has_active_platform_key
  <2>4. book.rivals \subseteq book'.rivals /\ \A j \in book.unseen : <<j, k>> \in book'.rivals
    <3>1. PICK b : b = Mint(book, h, k)
      OBVIOUS
    <3>2. b \in Book /\ b.rivals = book.rivals
      BY <1>0, <3>1, MintFields, Constants
    <3>3. book.unseen \in SUBSET BootKeys /\ book' = Rival(b, book.unseen, k)
      BY <1>0, <2>1, <3>1 DEF BootCreate, Book
    <3> QED
      BY <3>2, <3>3, RivalFields
  <2>5. \A j \in BootKeys : Made(j)' => j = k \/ (Made(j) /\ j \in book.unseen)
    BY <2>2, Constants DEF RivalInv, Made, OtherRows
  <2> QED
    BY <2>3, <2>4, <2>5 DEF RivalInv
<1> QED
  BY <1>1, <1>2, <1>3, <1>4

(* The command makes a key only when it has seen none, so that those there *)
(* now were made since it looked.                                          *)
LEMMA CliRivals ==
  ASSUME TypeOK, KeyInv, RivalInv, NEW p \in Clis,
         \/ CliOpen(p) \/ CliBail(p) \/ CliPrint(p) \/ CliDies(p)
         \/ \E k \in BootKeys, h \in Hashes : CliCreate(p, k, h) \/ CliRotate(p, k, h)
  PROVE  RivalInv'
<1>0. book \in Book
  BY DEF TypeOK
<1>1. has_active_platform_key' <=> has_active_platform_key
  BY DEF CliOpen, CliBail, CliPrint, CliDies, CliCreate, CliRotate, has_active_platform_key
<1>2. CASE CliOpen(p) \/ CliBail(p)
  BY <1>1, <1>2, RivalsKept DEF CliOpen, CliBail, SameRivals, Made
<1>3. CASE CliPrint(p)
  <2>1. PICK k, h : k = cli[p].id /\ h = cli[p].new
    OBVIOUS
  <2>2. k \in Ids /\ h \in Hashes /\ book' = Issue(book, h, k)
    BY <1>3, <2>1, CliPrintDoes, Constants
  <2>3. SameRivals
    BY <1>0, <2>2, IssueFields DEF SameRivals
  <2> QED
    BY <1>1, <1>3, <2>3, RivalsKept DEF CliPrint, Made
<1>4. CASE CliDies(p)
  <2>1. PICK s \in SUBSET Ids : book' = Lapse(book, s)
    BY <1>4, Constants DEF CliDies
  <2>2. SameRivals
    BY <1>0, <2>1, LapseFields DEF SameRivals
  <2> QED
    BY <1>1, <1>4, <2>2, RivalsKept DEF CliDies, Made
<1>5. CASE \E k \in BootKeys, h \in Hashes : CliCreate(p, k, h)
  <2>1. PICK k \in BootKeys, h \in Hashes : CliCreate(p, k, h)
    BY <1>5
  <2>2. OtherRows(k) /\ phase' = phase /\ cli[p].seen = {}
    BY <2>1, CliCreateDoes DEF CliCreate
  <2>3. \A j \in BootKeys : Made(j) => j \in ActiveBootKeys
    BY Constants DEF Made, KeyInv, KeyHolds, Named, ActiveBootKeys, is_active
  <2>4. /\ book.unseen \union {k} \subseteq book'.unseen /\ book.rivals \subseteq book'.rivals
        /\ \A j \in ActiveBootKeys : <<j, k>> \in book'.rivals
    <3>1. PICK b : b = Mint(book, h, k)
      OBVIOUS
    <3>2. b \in Book /\ b.rivals = book.rivals /\ b.unseen = book.unseen
      BY <1>0, <3>1, MintFields, Constants
    <3>3. PICK d : d = Rival(b, ActiveBootKeys, k)
      OBVIOUS
    <3>4. /\ d \in Book /\ d.unseen = b.unseen /\ b.rivals \subseteq d.rivals
          /\ \A j \in ActiveBootKeys : <<j, k>> \in d.rivals
      BY <3>2, <3>3, RivalFields DEF ActiveBootKeys
    <3>5. book' = [d EXCEPT !.unseen = @ \union {k}]
      <4>1. ActiveBootKeys \ cli[p].seen = ActiveBootKeys
        BY <2>2
      <4> QED
        BY <2>1, <3>1, <3>3, <4>1 DEF CliCreate
    <3> QED
      BY <3>2, <3>4, <3>5 DEF Book
  <2>5. \A j \in BootKeys : Made(j)' => j = k \/ (Made(j) /\ j \in ActiveBootKeys)
    BY <2>2, <2>3, Constants DEF Made, OtherRows
  <2> QED
    BY <1>1, <2>2, <2>4, <2>5 DEF RivalInv
<1>6. CASE \E k \in BootKeys, h \in Hashes : CliRotate(p, k, h)
  <2>1. PICK k \in BootKeys, h \in Hashes : CliRotate(p, k, h)
    BY <1>6
  <2>2. OtherRows(k) /\ phase' = phase /\ Made(k)
    BY <2>1, CliRotateDoes DEF KeyInv, ResetInv, Made
  <2>3. SameRivals
    <3>1. PICK r, s : /\ r = {j \in {k} : Readers(k) # {}}
                      /\ s = {j \in {k} : Resetters(k) # {p} \/ (boot # None /\ book.of[boot] = k)}
      OBVIOUS
    <3>2. k \in Ids /\ r \in SUBSET Ids /\ s \in SUBSET Ids
      BY <3>1, Constants
    <3>3. book' = Lapse(Tear(Mint(book, h, k), r), s)
      BY <2>1, <3>1 DEF CliRotate
    <3> QED
      BY <3>2, <3>3, HistoryRivals
  <2> QED
    BY <1>1, <2>2, <2>3, RivalsKept, Constants DEF Made, OtherRows
<1> QED
  BY <1>2, <1>3, <1>4, <1>5, <1>6

(* Every step keeps RaceInv.                                               *)
LEMMA RaceStep ==
  ASSUME TypeOK, KeyInv, RaceInv, [Next]_vars
  PROVE  RaceInv'
<1>1. CASE \E c \in Calls, h \in Hashes :
             \/ \E k \in TenantKeys : CreateInsert(c, k, h)
             \/ RevokeBegin(c, h) \/ RotateBegin(c, h) \/ RotateWrite(c, h) \/ AuthMiss(c, h)
  BY <1>1, RequestOverlaps, RequestRivals DEF RaceInv
<1>2. CASE \E c \in Calls :
             \/ CreateCache(c) \/ RevokeWrite(c) \/ RevokeCache(c) \/ RotateCache(c)
             \/ RotatePanics(c) \/ AuthLoad(c) \/ AuthInsert(c) \/ CallFails(c) \/ CallCut(c)
  <2>1. PICK c \in Calls :
             \/ CreateCache(c) \/ RevokeWrite(c) \/ RevokeCache(c) \/ RotateCache(c)
             \/ RotatePanics(c) \/ AuthLoad(c) \/ AuthInsert(c) \/ CallFails(c) \/ CallCut(c)
    BY <1>2
  <2>2. \E h \in Hashes : TRUE
    BY <2>1, CallShape DEF CreateCache, RevokeWrite, RevokeCache, RotateCache, RotatePanics, EntryGone,
                           AuthLoad, AuthInsert, CallFails, CallCut, ChangeOps
  <2> QED
    BY <2>1, <2>2, RequestOverlaps, RequestRivals DEF RaceInv
<1>3. CASE \E h \in Hashes : AuthHit(h)
  <2>1. OverlapInv'
    BY <1>3 DEF AuthHit, RaceInv, OverlapInv, Rotates, Remembered
  <2>2. PICK h \in Hashes : AuthHit(h)
    BY <1>3
  <2>3. rows' = rows /\ phase' = phase /\ phase = "up" /\ book' = Used(book, h)
    BY <2>2 DEF AuthHit, Serving
  <2>4. SameRivals
    BY <2>3, UsedFields DEF SameRivals, TypeOK
  <2>5. RivalInv'
    BY <2>3, <2>4, RivalsKept DEF RaceInv, Made
  <2> QED
    BY <2>1, <2>5 DEF RaceInv
<1>4. CASE ServerLoad \/ Serve \/ Crash \/ \E k \in BootKeys, h \in Hashes : BootCreate(k, h)
  <2>1. \A c \in Calls : call'[c].op = "idle"
    BY <1>4, CrashDoes, IdleShape
       DEF KeyInv, PhaseInv, ServerLoad, Serve, BootCreate
  <2>2. OverlapInv'
    BY <2>1 DEF OverlapInv, Rotates
  <2> QED
    BY <1>4, <2>2, StartRivals DEF RaceInv
<1>5. CASE \E p \in Clis :
             \/ CliOpen(p) \/ CliBail(p) \/ CliPrint(p) \/ CliDies(p)
             \/ \E k \in BootKeys, h \in Hashes : CliCreate(p, k, h) \/ CliRotate(p, k, h)
  <2>1. UNCHANGED <<call, cache, overlapped>>
    BY <1>5 DEF CliOpen, CliBail, CliPrint, CliDies, CliCreate, CliRotate
  <2>2. OverlapInv'
    BY <2>1 DEF RaceInv, OverlapInv, Rotates, Remembered
  <2> QED
    BY <1>5, <2>2, CliRivals DEF RaceInv
<1>6. CASE UNCHANGED vars
  BY <1>6 DEF vars, RaceInv, OverlapInv, RivalInv, Rotates, Remembered, Made, has_active_platform_key
<1> QED
  BY <1>1, <1>2, <1>3, <1>4, <1>5, <1>6 DEF Next

(* RaceInv holds in every reachable state.                                 *)
LEMMA RaceInvariant == Spec => []RaceInv
<1>1. Init => RaceInv
  <2>1. Init => OverlapInv
    BY IdleShape DEF Init, OverlapInv, Rotates
  <2>2. Init => RivalInv
    BY Constants DEF Init, RivalInv, Made, NoRow
  <2> QED
    BY <2>1, <2>2 DEF RaceInv
<1>2. (TypeOK /\ KeyInv) /\ RaceInv /\ [Next]_vars => RaceInv'
  BY RaceStep
<1> QED
  BY <1>1, <1>2, KeyInvariant, PTL DEF Spec

-----------------------------------------------------------------------------
(***************************************************************************)
(* Every variable keeps its type: a request waiting for its statement or   *)
(* for the cache knows the fields its second half reads, and the history   *)
(* names keys and values only.                                             *)
(***************************************************************************)
THEOREM KeyTypeCorrect == Spec => []TypeOK
  BY KeyInvariant, PTL

(***************************************************************************)
(* OneHashPerKey: whatever hits, misses and rotations overlap, the cache   *)
(* shows a key under one hash, so that the first entry list_keys,          *)
(* revoke_key and rotate_key find by id is the only one.                   *)
(***************************************************************************)
THEOREM KeysCachedOnce == Spec => []OneHashPerKey
<1>1. TypeOK /\ KeyInv => OneHashPerKey
  BY OwnHash DEF OneHashPerKey, KeyInv, KeyHolds, Alone
<1> QED
  BY <1>1, KeyInvariant, PTL

(***************************************************************************)
(* PanicNeedsOverlap: rotate_key finds the entry it "checked above", and   *)
(* does not poison the lock of the cache, unless another rotation of the   *)
(* same key was in flight together with this very one.                     *)
(***************************************************************************)
THEOREM PanicsNeedOverlap == Spec => []PanicNeedsOverlap
<1>1. ASSUME TypeOK, RaceInv, NEW c \in Calls, EntryGone(c) PROVE c \in overlapped
  <2>1. PICK k \in TenantKeys : Rotates(c, k)
    BY <1>1, CallShape DEF EntryGone, ChangeOps, Rotates
  <2>2. ~Remembered(c, k)
    BY <1>1, Constants DEF EntryGone, Cached, Remembered
  <2> QED
    BY <1>1, <2>1, <2>2 DEF RaceInv, OverlapInv
<1>2. TypeOK /\ RaceInv => PanicNeedsOverlap
  BY <1>1 DEF PanicNeedsOverlap
<1> QED
  BY <1>2, KeyInvariant, RaceInvariant, PTL

(***************************************************************************)
(* OneBootstrapKey: the server's start and reset-platform-key leave one    *)
(* active bootstrap key, across crashes, deaths and restarts; of two, one  *)
(* was made after the maker of the other had looked for one, and before it *)
(* made its own.                                                           *)
(***************************************************************************)
THEOREM ResetFindsOneKey == Spec => []OneBootstrapKey
<1>1. RaceInv => OneBootstrapKey
  BY DEF RaceInv, RivalInv, OneBootstrapKey, ActiveBootKeys, is_active, Made
<1> QED
  BY <1>1, RaceInvariant, PTL

(***************************************************************************)
(* DeadKeysFail: once a revocation or a rotation was acknowledged, neither *)
(* the cache nor the table lets the old value in again, in this run of the *)
(* server or a later one, unless two calls on the key overlapped or one    *)
(* was cut between its statement and its cache step.                       *)
(***************************************************************************)
THEOREM DeadKeysStayDead == Spec => []DeadKeysFail
<1>1. ASSUME TypeOK, KeyInv, NEW h \in Hashes, Dead(h), Accepts(h)
      PROVE  book.of[h] \in book.torn
  <2>1. h # None
    BY Constants
  <2>2. PICK k \in Ids : book.of[h] = k /\ (\/ cache[h].id = k /\ ~cache[h].revoked
                                            \/ rows[k].hash = h /\ ~rows[k].revoked)
    BY <1>1, OwnHash DEF Accepts, is_active
  <2>3. KeyHolds(k)
    BY <1>1 DEF KeyInv
  <2>4. CASE k \in book.retired
    <3>1. rows[k].revoked /\ k \in TenantKeys
      BY <2>3, <2>4 DEF KeyHolds, Named
    <3>2. k \in book.torn \/ UntornTenant(k)
      BY <2>3, <3>1 DEF KeyHolds, Untorn
    <3> QED
      BY <2>2, <2>4, <3>1, <3>2 DEF UntornTenant
  <2>5. CASE h \in book.replaced
    BY <2>2, <2>3, <2>5 DEF KeyHolds, Replaced
  <2> QED
    BY <1>1, <2>2, <2>4, <2>5 DEF Dead
<1>2. TypeOK /\ KeyInv => DeadKeysFail
  BY <1>1 DEF DeadKeysFail
<1> QED
  BY <1>2, KeyInvariant, PTL

(***************************************************************************)
(* IssuedKeysWork: the value handed out last for a key passes              *)
(* authentication while nobody changes the key, across requests, restarts  *)
(* and resets.                                                             *)
(***************************************************************************)
THEOREM HandedOutKeysWork == Spec => []IssuedKeysWork
<1>1. ASSUME TypeOK, KeyInv, Serving, NEW k \in Ids, book.holder[k] # None, Quiet(k)
      PROVE  Accepts(book.holder[k])
  <2>1. KeyHolds(k) /\ boot = None /\ k \notin book.lapsed /\ k \notin book.retired
    BY <1>1 DEF KeyInv, PhaseInv, Serving, Quiet
  <2>2. /\ \A c \in Calls : ~Changes(c, k)
        /\ \A p \in Clis : ~Prints(p, k)
    BY <1>1 DEF Quiet, Changers, Changes, ChangeOps, Resetters, Prints
  <2>3. PICK h : h = book.holder[k]
    OBVIOUS
  <2>4. h \in Hashes /\ h \in book.issued /\ book.of[h] = k
    BY <1>1, <2>1, <2>3 DEF KeyHolds, Told, TypeOK, Book
  <2>5. rows[k].hash # None /\ rows[k].hash \in Hashes
    <3>1. rows[k].hash # None
      BY <2>1, <2>4 DEF KeyHolds, Named
    <3>2. rows[k].hash \in Hashes \union {None}
      BY <1>1 DEF TypeOK, Row
    <3> QED
      BY <3>1, <3>2
  <2>6. ~rows[k].revoked
    <3>1. CASE k \in TenantKeys
      BY <2>1, <2>2, <3>1 DEF KeyHolds, Held, TenantHeld
    <3>2. CASE k \notin TenantKeys
      BY <2>1, <3>2 DEF KeyHolds, Named
    <3> QED
      BY <3>1, <3>2
  <2>7. h = rows[k].hash
    <3>1. CASE rows[k].hash \in book.issued
      BY <1>1, <2>1, <2>3, <3>1 DEF KeyHolds, Held
    <3>2. CASE rows[k].hash \notin book.issued /\ k \in TenantKeys
      BY <2>1, <2>2, <2>4, <2>5, <3>2 DEF KeyHolds, Held, TenantHeld, Sole
    <3>3. CASE rows[k].hash \notin book.issued /\ k \in BootKeys
      BY <2>1, <2>2, <2>5, <3>3 DEF KeyHolds, Held, BootHeld
    <3> QED
      BY <3>1, <3>2, <3>3, Constants
  <2> QED
    BY <2>3, <2>5, <2>6, <2>7 DEF Accepts, is_active
<1>2. TypeOK /\ KeyInv => IssuedKeysWork
  BY <1>1 DEF IssuedKeysWork
<1> QED
  BY <1>2, KeyInvariant, PTL

-----------------------------------------------------------------------------
(***************************************************************************)
(* The refinement.  A value in force is accepted through the table, and a  *)
(* step that changes one row, or only the cache, is a step of the          *)
(* directory once what it makes acceptable is known.                       *)
(***************************************************************************)
Comes(g) == Accepts(g)' => Accepts(g) \/ book.of[g] \in book'.torn

(* A value in force is accepted, through the cache or through the table.   *)
LEMMA InForceWorks ==
  ASSUME TypeOK'
  PROVE  (Directory!InForce \subseteq {h \in Hashes : Accepts(h)})'
<1> SUFFICES ASSUME NEW h, (h \in Directory!InForce)'
             PROVE  h \in Hashes /\ Accepts(h)'
  OBVIOUS
<1>1. PICK k \in Ids : rows'[k].hash = h /\ ~rows'[k].revoked /\ h # None
  BY DEF Directory!InForce
<1>2. rows'[k].hash \in Hashes \union {None}
  BY DEF TypeOK, Row
<1> QED
  BY <1>1, <1>2 DEF Accepts, is_active

(* When nothing but one value becomes acceptable, the directory ages but   *)
(* for that value.                                                         *)
LEMMA AgesBut ==
  ASSUME TypeOK', NEW h \in Hashes, \A g \in Hashes \ {h} : Comes(g),
         \A g \in Hashes \ {h} : book'.of[g] = book.of[g]
  PROVE  Directory!Ages({h})
  BY InForceWorks DEF Directory!Ages, Comes

(* When no value becomes acceptable, the directory ages.                   *)
LEMMA AgesAll ==
  ASSUME TypeOK', \A g \in Hashes : Comes(g), book'.of = book.of
  PROVE  Directory!Ages({})
  BY InForceWorks DEF Directory!Ages, Comes

(* A row that takes a fresh value is an issue of the directory.            *)
LEMMA IssueStep ==
  ASSUME TypeOK, TypeOK', NEW k \in Ids, NEW h \in Hashes,
         book.of[h] = None, book'.of[h] = k,
         \A g \in Hashes \ {h} : book'.of[g] = book.of[g],
         rows'[k].hash = h, rows'[k].revoked <=> rows[k].revoked, OtherRows(k),
         \A g \in Hashes \ {h} : cache'[g] = cache[g]
  PROVE  Directory!Next
<1>1. book'.of = [book.of EXCEPT ![h] = k]
  BY DEF TypeOK, Book
<1>2. [j \in Ids |-> rows'[j].hash] = [[j \in Ids |-> rows[j].hash] EXCEPT ![k] = h]
  BY DEF OtherRows
<1>3. {j \in Ids : rows'[j].revoked} = {j \in Ids : rows[j].revoked}
  BY DEF OtherRows
<1>4. \A g \in Hashes \ {h} : Comes(g)
  BY DEF Comes, Accepts, Cached, is_active, OtherRows
<1>5. Directory!Ages({h})
  BY <1>4, AgesBut
<1>6. h \in Directory!Fresh
  BY DEF Directory!Fresh
<1>7. Directory!Issue(k, h)
  BY <1>1, <1>2, <1>3, <1>5, <1>6 DEF Directory!Issue
<1> QED
  BY <1>7 DEF Directory!Next

(* A step that changes no row and makes no value acceptable fades.         *)
LEMMA FadeStep ==
  ASSUME TypeOK, TypeOK', rows' = rows, book'.of = book.of, \A g \in Hashes : Comes(g)
  PROVE  Directory!Next
<1>1. Directory!Ages({})
  BY AgesAll
<1>2. Directory!Fade
  BY <1>1 DEF Directory!Fade
<1> QED
  BY <1>2 DEF Directory!Next

(* A step that changes neither table nor cache fades.                      *)
LEMMA QuietStep ==
  ASSUME TypeOK, TypeOK', rows' = rows, cache' = cache, book'.of = book.of
  PROVE  Directory!Next
<1>1. \A g \in Hashes : Comes(g)
  BY DEF Comes, Accepts, Cached
<1> QED
  BY <1>1, FadeStep

(* A created key enters the cache under the value its row has.             *)
LEMMA CreateCacheFades ==
  ASSUME TypeOK, KeyInv, TypeOK', NEW c \in Calls, CreateCache(c)
  PROVE  Directory!Next
<1>1. PICK k, h : k = call[c].id /\ h = call[c].new
  OBVIOUS
<1>2. /\ call[c].op = "created" /\ k \in Ids /\ h \in Hashes
      /\ \A g \in Hashes \ {h} : cache'[g] = cache[g]
      /\ book' = Issue(book, h, k) /\ rows' = rows
  BY <1>1, CreateCacheDoes, Constants
<1>3. book'.of = book.of
  <2>1. book \in Book
    BY DEF TypeOK
  <2> QED
    BY <1>2, <2>1, IssueFields
<1>4. rows[k] = NewRow(h)
  BY <1>1, <1>2 DEF KeyInv, KeyHolds, Making, Makes
<1>5. Accepts(h)
  BY <1>2, <1>4, Constants DEF Accepts, is_active, NewRow
<1>6. \A g \in Hashes : Comes(g)
  BY <1>2, <1>5 DEF Comes, Accepts, Cached
<1> QED
  BY <1>2, <1>3, <1>6, FadeStep

(* The UPDATE of a revocation revokes in the directory; the cache still    *)
(* accepts.                                                                *)
LEMMA RevokeWriteRevokes ==
  ASSUME TypeOK, KeyInv, TypeOK', NEW c \in Calls, RevokeWrite(c)
  PROVE  Directory!Next
<1>1. PICK k : k = call[c].id
  OBVIOUS
<1>2. /\ call[c].op = "revoke" /\ k \in Ids /\ call[c].old \in Hashes
      /\ rows'[k].hash = rows[k].hash /\ rows'[k].revoked /\ OtherRows(k)
      /\ cache' = cache /\ book' = book
  BY <1>1, RevokeWriteDoes, Constants
<1>3. rows[k].hash # None
  BY <1>1, <1>2 DEF KeyInv, KeyHolds, Asked, Named, Changes, ChangeOps
<1>4. \A g \in Hashes : Comes(g)
  BY <1>2 DEF Comes, Accepts, Cached, is_active, OtherRows
<1>5. Directory!Ages({})
  BY <1>2, <1>4, AgesAll
<1>6. [j \in Ids |-> rows'[j].hash] = [j \in Ids |-> rows[j].hash]
  BY <1>2 DEF OtherRows
<1>7. {j \in Ids : rows'[j].revoked} = {j \in Ids : rows[j].revoked} \union {k}
  BY <1>2 DEF OtherRows
<1>8. Directory!Revoke(k)
  BY <1>2, <1>3, <1>5, <1>6, <1>7 DEF Directory!Revoke
<1> QED
  BY <1>2, <1>8 DEF Directory!Next

(* The cache entry moves to the value the row already has.                 *)
LEMMA RotateCacheFades ==
  ASSUME TypeOK, KeyInv, TypeOK', NEW c \in Calls, RotateCache(c)
  PROVE  Directory!Next
<1>1. PICK k, f, h : k = call[c].id /\ f = call[c].old /\ h = call[c].new
  OBVIOUS
<1>2. /\ call[c].op = "rotated" /\ k \in TenantKeys /\ k \in Ids /\ f \in Hashes /\ h \in Hashes
      /\ cache'[h] = cache[f] /\ (f # h => cache'[f] = NoEntry)
      /\ \A g \in Hashes \ {f, h} : cache'[g] = cache[g]
      /\ book'.of = book.of /\ book'.torn = book.torn /\ rows' = rows
  BY <1>1, RotateCacheDoes, Constants
<1>3. KeyHolds(k) /\ Changes(c, k)
  BY <1>1, <1>2 DEF KeyInv, Changes, ChangeOps
<1>4. book.of[h] = k
  BY <1>1, <1>2, <1>3 DEF KeyHolds, Asked
<1>5. CASE k \in book.torn
  <2>1. \A g \in Hashes : Comes(g)
    BY <1>2, <1>4, <1>5 DEF Comes, Accepts, Cached, NoEntry
  <2> QED
    BY <1>2, <2>1, FadeStep
<1>6. CASE k \notin book.torn
  <2>1. UntornTenant(k)
    BY <1>2, <1>3, <1>6 DEF KeyHolds, Untorn
  <2>2. rows[k].hash = h /\ cache[f].id = k
    BY <1>1, <1>2, <1>3, <2>1 DEF UntornTenant
  <2>3. rows[k].revoked => cache[f].revoked
    BY <1>2, <1>3, <2>1, <2>2 DEF UntornTenant
  <2>4. ~cache'[h].revoked => Accepts(h)
    BY <1>2, <2>2, <2>3, Constants DEF Accepts, is_active
  <2>5. \A g \in Hashes : Comes(g)
    BY <1>2, <2>2, <2>4 DEF Comes, Accepts, Cached, NoEntry
  <2> QED
    BY <1>2, <2>5, FadeStep
<1> QED
  BY <1>5, <1>6

(* A row read back from the table enters the cache; if it was torn the     *)
(* directory allows it.                                                    *)
LEMMA AuthInsertFades ==
  ASSUME TypeOK, KeyInv, TypeOK', NEW c \in Calls, AuthInsert(c)
  PROVE  Directory!Next
<1>1. PICK k, h : k = call[c].id /\ h = call[c].hash
  OBVIOUS
<1>2. /\ call[c].op = "loaded" /\ k \in Ids /\ h \in Hashes
      /\ cache'[h].id = k /\ ~cache'[h].revoked
      /\ \A g \in Hashes \ {h} : cache'[g] = cache[g] \/ cache'[g] = NoEntry
      /\ book' = Used(book, h) /\ rows' = rows
  BY <1>1, AuthInsertDoes
<1>3. book'.of = book.of /\ book'.torn = book.torn
  <2>1. book \in Book
    BY DEF TypeOK
  <2> QED
    BY <1>2, <2>1, UsedFields
<1>4. KeyHolds(k) /\ Reads(c, k)
  BY <1>1, <1>2 DEF KeyInv, Reads
<1>5. book.of[h] = k /\ k \in BootKeys
  BY <1>1, <1>4 DEF KeyHolds, Asked
<1>6. k \notin book.torn => Accepts(h)
  <2>1. k \notin book.torn => rows[k].hash = h
    BY <1>1, <1>4, <1>5 DEF KeyHolds, Untorn, UntornBoot
  <2>2. ~rows[k].revoked
    BY <1>2, <1>4, <1>5, Constants DEF KeyHolds, Named
  <2> QED
    BY <1>2, <2>1, <2>2, Constants DEF Accepts, is_active
<1>7. \A g \in Hashes : Comes(g)
  BY <1>2, <1>3, <1>5, <1>6 DEF Comes, Accepts, Cached, NoEntry
<1> QED
  BY <1>2, <1>3, <1>7, FadeStep

(* A start caches what the table has, a stop forgets the cache.            *)
LEMMA StartAndStopFade ==
  ASSUME TypeOK, TypeOK', ServerLoad \/ Crash
  PROVE  Directory!Next
<1>1. CASE ServerLoad
  <2>1. \A g \in Hashes : Cached(g)' /\ ~cache'[g].revoked =>
           \E k \in Ids : rows[k].hash = g /\ ~rows[k].revoked
    BY <1>1, ServerLoadDoes DEF Cached, NoEntry
  <2>2. rows' = rows /\ book'.of = book.of
    BY <1>1, ServerLoadDoes
  <2>3. \A g \in Hashes : Comes(g)
    BY <2>1, <2>2, Constants DEF Comes, Accepts, is_active
  <2> QED
    BY <2>2, <2>3, FadeStep
<1>2. CASE Crash
  <2>1. rows' = rows /\ book'.of = book.of /\ \A g \in Hashes : cache'[g] = NoEntry
    BY <1>2, CrashDoes
  <2>2. \A g \in Hashes : Comes(g)
    BY <2>1 DEF Comes, Accepts, Cached, NoEntry
  <2> QED
    BY <2>1, <2>2, FadeStep
<1> QED
  BY <1>1, <1>2

(* The steps that give a key a new value.                                  *)
LEMMA WritesIssue ==
  ASSUME TypeOK, TypeOK',
         \/ \E c \in Calls, k \in TenantKeys, h \in Hashes : CreateInsert(c, k, h)
         \/ \E c \in Calls, h \in Hashes : RotateWrite(c, h)
         \/ \E k \in BootKeys, h \in Hashes : BootCreate(k, h)
         \/ \E p \in Clis, k \in BootKeys, h \in Hashes : CliCreate(p, k, h) \/ CliRotate(p, k, h)
  PROVE  Directory!Next
<1>1. ASSUME NEW c \in Calls, NEW k \in TenantKeys, NEW h \in Hashes, CreateInsert(c, k, h)
      PROVE  Directory!Next
  <2>1. /\ book.of[h] = None /\ book' = Mint(book, h, k) /\ OtherRows(k) /\ cache' = cache
        /\ rows[k] = NoRow /\ rows'[k].hash = h /\ ~rows'[k].revoked /\ k \in Ids
    BY <1>1, CreateInsertDoes, Constants
  <2>2. book'.of[h] = k /\ \A g \in Hashes \ {h} : book'.of[g] = book.of[g]
    <3>1. book \in Book
      BY DEF TypeOK
    <3> QED
      BY <2>1, <3>1, MintFields
  <2>3. rows'[k].revoked <=> rows[k].revoked
    BY <2>1 DEF NoRow
  <2> QED
    BY <2>1, <2>2, <2>3, IssueStep
<1>2. ASSUME NEW c \in Calls, NEW h \in Hashes, RotateWrite(c, h)
      PROVE  Directory!Next
  <2>1. PICK k : k = call[c].id
    OBVIOUS
  <2>2. /\ book.of[h] = None /\ book'.of[h] = k
        /\ \A g \in Hashes \ {h} : book'.of[g] = book.of[g]
        /\ rows'[k].hash = h /\ rows'[k].revoked = rows[k].revoked /\ OtherRows(k)
        /\ cache' = cache /\ k \in Ids
    BY <1>2, <2>1, RotateWriteDoes, Constants
  <2> QED
    BY <2>2, IssueStep
<1>3. ASSUME NEW k \in BootKeys, NEW h \in Hashes, BootCreate(k, h)
      PROVE  Directory!Next
  <2>1. /\ book.of[h] = None /\ book'.of[h] = k
        /\ \A g \in Hashes \ {h} : book'.of[g] = book.of[g] /\ cache'[g] = cache[g]
        /\ rows[k] = NoRow /\ rows'[k].hash = h /\ ~rows'[k].revoked /\ OtherRows(k) /\ k \in Ids
    BY <1>3, BootCreateDoes, Constants
  <2>2. rows'[k].revoked <=> rows[k].revoked
    BY <2>1 DEF NoRow
  <2> QED
    BY <2>1, <2>2, IssueStep
<1>4. ASSUME NEW p \in Clis, NEW k \in BootKeys, NEW h \in Hashes, CliCreate(p, k, h)
      PROVE  Directory!Next
  <2>1. /\ book.of[h] = None /\ book'.of[h] = k
        /\ \A g \in Hashes \ {h} : book'.of[g] = book.of[g]
        /\ rows[k] = NoRow /\ rows'[k].hash = h /\ ~rows'[k].revoked /\ OtherRows(k)
        /\ cache' = cache /\ k \in Ids
    BY <1>4, CliCreateDoes, Constants
  <2>2. rows'[k].revoked <=> rows[k].revoked
    BY <2>1 DEF NoRow
  <2> QED
    BY <2>1, <2>2, IssueStep
<1>5. ASSUME NEW p \in Clis, NEW k \in BootKeys, NEW h \in Hashes, CliRotate(p, k, h)
      PROVE  Directory!Next
  <2>1. /\ book.of[h] = None /\ book'.of[h] = k
        /\ \A g \in Hashes \ {h} : book'.of[g] = book.of[g]
        /\ rows'[k].hash = h /\ rows'[k].revoked = rows[k].revoked /\ OtherRows(k)
        /\ cache' = cache /\ k \in Ids
    BY <1>5, CliRotateDoes, Constants
  <2> QED
    BY <2>1, IssueStep
<1> QED
  BY <1>1, <1>2, <1>3, <1>4, <1>5

(* The steps that move a request, a command or the server along and leave  *)
(* table and cache as they are.                                            *)
Passes ==
  \/ \E c \in Calls, h \in Hashes : RevokeBegin(c, h) \/ RotateBegin(c, h)
  \/ \E c \in Calls, h \in Hashes : AuthMiss(c, h)
  \/ \E c \in Calls : RotatePanics(c) \/ AuthLoad(c) \/ CallFails(c) \/ CallCut(c)
  \/ \E h \in Hashes : AuthHit(h)
  \/ Serve
  \/ \E p \in Clis : CliOpen(p) \/ CliBail(p) \/ CliPrint(p) \/ CliDies(p)

(* The remaining steps change neither a row nor what is accepted.          *)
LEMMA PassesFade ==
  ASSUME TypeOK, PhaseInv, TypeOK', Passes
  PROVE  Directory!Next
<1>0. book \in Book
  BY DEF TypeOK
<1>1. CASE \E c \in Calls, h \in Hashes : RevokeBegin(c, h) \/ RotateBegin(c, h)
  <2>1. overlapped' \in SUBSET Calls
    BY DEF TypeOK
  <2> QED
    BY <1>1, <2>1, BeginDoes, QuietStep DEF RevokeBegin, RotateBegin
<1>2. CASE \E c \in Calls, h \in Hashes : AuthMiss(c, h)
  BY <1>2, AuthMissDoes, QuietStep
<1>3. ASSUME NEW c \in Calls, RotatePanics(c) PROVE Directory!Next
  <2>1. PICK k : k = call[c].id
    OBVIOUS
  <2>2. book' = Lapse(book, {k}) /\ k \in Ids /\ rows' = rows /\ cache' = cache
    BY <1>3, <2>1, RotatePanicsDoes, Constants
  <2> QED
    BY <1>0, <2>2, LapseFields, QuietStep
<1>4. ASSUME NEW c \in Calls, AuthLoad(c) \/ CallFails(c) PROVE Directory!Next
  BY <1>4, AuthLoadDoes, CallFailsDoes, QuietStep
<1>5. ASSUME NEW c \in Calls, CallCut(c) PROVE Directory!Next
  BY <1>5, CallCutDoes, QuietStep
<1>6. ASSUME NEW h \in Hashes, AuthHit(h) PROVE Directory!Next
  BY <1>0, <1>6, AuthHitDoes, UsedFields, QuietStep
<1>7. CASE Serve
  <2>1. rows' = rows /\ cache' = cache
    BY <1>7, ServeDoes
  <2>2. book'.of = book.of
    BY <1>0, <1>7, ServeDoes, IssueFields, Constants
  <2> QED
    BY <2>1, <2>2, QuietStep
<1>8. ASSUME NEW p \in Clis, CliOpen(p) \/ CliBail(p) PROVE Directory!Next
  BY <1>8, CliOpenDoes, CliBailDoes, QuietStep
<1>9. ASSUME NEW p \in Clis, CliPrint(p) PROVE Directory!Next
  <2>1. PICK k, h : k = cli[p].id /\ h = cli[p].new
    OBVIOUS
  <2>2. book' = Issue(book, h, k) /\ k \in Ids /\ h \in Hashes /\ rows' = rows /\ cache' = cache
    BY <1>9, <2>1, CliPrintDoes, Constants
  <2> QED
    BY <1>0, <2>2, IssueFields, QuietStep
<1>10. ASSUME NEW p \in Clis, CliDies(p) PROVE Directory!Next
  BY <1>10, CliDiesDoes, QuietStep
<1> QED
  BY <1>1, <1>2, <1>3, <1>4, <1>5, <1>6, <1>7, <1>8, <1>9, <1>10 DEF Passes

(* Every step of KeyStore is a step of KeyDirectory or a stutter.          *)
LEMMA DirectoryStep ==
  ASSUME TypeOK, KeyInv, TypeOK', [Next]_vars
  PROVE  Directory!Next \/ UNCHANGED Directory!vars
<1>1. CASE \/ \E c \in Calls, k \in TenantKeys, h \in Hashes : CreateInsert(c, k, h)
           \/ \E c \in Calls, h \in Hashes : RotateWrite(c, h)
           \/ \E k \in BootKeys, h \in Hashes : BootCreate(k, h)
           \/ \E p \in Clis, k \in BootKeys, h \in Hashes : CliCreate(p, k, h) \/ CliRotate(p, k, h)
  BY <1>1, WritesIssue
<1>2. CASE Passes
  BY <1>2, PassesFade DEF KeyInv
<1>3. CASE \E c \in Calls : CreateCache(c)
  BY <1>3, CreateCacheFades
<1>4. CASE \E c \in Calls : RevokeWrite(c)
  BY <1>4, RevokeWriteRevokes
<1>5. ASSUME NEW c \in Calls, RevokeCache(c) PROVE Directory!Next
  <2>1. /\ rows' = rows /\ book'.of = book.of
        /\ \A h \in Hashes : \/ cache'[h] = cache[h]
                             \/ ~Cached(h) /\ cache'[h].id = cache[h].id
                             \/ cache'[h].revoked
    BY <1>5, RevokeCacheDoes
  <2>2. \A g \in Hashes : Comes(g)
    BY <2>1 DEF Comes, Accepts, Cached
  <2> QED
    BY <2>1, <2>2, FadeStep
<1>6. CASE \E c \in Calls : RotateCache(c)
  BY <1>6, RotateCacheFades
<1>7. CASE \E c \in Calls : AuthInsert(c)
  BY <1>7, AuthInsertFades
<1>8. CASE ServerLoad \/ Crash
  BY <1>8, StartAndStopFade
<1>9. CASE UNCHANGED vars
  BY <1>9 DEF vars, Directory!vars, Accepts, Cached
<1> QED
  BY <1>1, <1>2, <1>3, <1>4, <1>5, <1>6, <1>7, <1>8, <1>9 DEF Next, Passes

(***************************************************************************)
(* The store implements the key directory: whatever requests, resets,      *)
(* starts and stops overlap, cache and table together accept the value in  *)
(* force of every key that is not revoked, and take back no value they     *)
(* once refused, unless two calls on its key overlapped or one was cut     *)
(* between its statement and its cache step.                               *)
(***************************************************************************)
THEOREM StoreImplementsDirectory == Spec => DirectorySpec
<1>1. Init => Directory!Init
  <2> SUFFICES ASSUME Init PROVE Directory!Init
    OBVIOUS
  <2>1. [k \in Ids |-> rows[k].hash] = [k \in Ids |-> None]
    BY DEF Init, NoRow
  <2>2. {k \in Ids : rows[k].revoked} = {}
    BY DEF Init, NoRow
  <2>3. {h \in Hashes : Accepts(h)} = {}
    BY DEF Init, NoRow, NoEntry, Accepts, Cached, is_active
  <2>4. book.of = [h \in Hashes |-> None] /\ book.torn = {}
    BY DEF Init
  <2> QED
    BY <2>1, <2>2, <2>3, <2>4 DEF Directory!Init
<1>2. (TypeOK /\ KeyInv) /\ (TypeOK /\ KeyInv)' /\ [Next]_vars => [Directory!Next]_(Directory!vars)
  BY DirectoryStep
<1> QED
  BY <1>1, <1>2, KeyInvariant, PTL DEF Spec, DirectorySpec, Directory!Spec
==============================================================================
