--------------------------- MODULE EscrowCreation ---------------------------
(***************************************************************************)
(* POST /escrow: createIdempotent around createEscrow, with the response   *)
(* cached under the Idempotency-Key (CacheService: Redis, the bounded      *)
(* in-memory fallback it shares with the reads of escrows, or no cache),   *)
(* next to the requests of VendorProfile.                                  *)
(***************************************************************************)
EXTENDS VendorProfile

CONSTANTS
    Keys,       \* idempotency keys that are UUIDs
    EscrowDtos, \* request bodies: [item, amount, buyer]
    Vendor,     \* the vendor's address
    Capacity,   \* MAX_MEMORY_ENTRIES
    KeyTTL,     \* SECONDS_PER_DAY
    ReadTTL,    \* ESCROW_CACHE_TTL_SECONDS
    MaxTime,    \* bound on the clock
    MaxFaults   \* bound on errors and crashes

ASSUME CacheAssumption ==
    /\ KeyTTL \in Nat /\ ReadTTL \in 0..KeyTTL
    /\ Capacity \in Nat \ {0}
    /\ MaxTime \in Nat /\ MaxFaults \in Nat

VARIABLES
    rows,       \* the vendor's escrows: [id, dto], the id naming the request
    store,      \* where the cache is: "redis", "memory" or "none"
    cache,      \* key -> [dto, id, expiresAt]
    now,
    faults

creationVars == <<rows, store, cache, now, faults>>
deskVars == <<profileVars, creationVars, call>>

IdempotencyKey(k) == <<"idempotency", k>>
EscrowKey(id) == <<"escrow", id>>

\* Redis drops an entry at its expiry, the fallback after it.
Fresh(entry) ==
    IF store = "redis" THEN now < entry.expiresAt ELSE now <= entry.expiresAt

Hit(key) == key \in DOMAIN cache /\ Fresh(cache[key])

Without(c, keys) == [k \in DOMAIN c \ keys |-> c[k]]

\* Mutant: the last to expire goes first.
EvictLatest(c) ==
    IF Cardinality(DOMAIN c) <= Capacity THEN {c}
    ELSE {Without(c, {k}) : k \in {k \in DOMAIN c :
            \A l \in DOMAIN c : c[k].expiresAt >= c[l].expiresAt}}

\* A write adds one entry, so at most one has to go: the soonest to expire.
EvictToCapacity(c) ==
    IF Cardinality(DOMAIN c) <= Capacity THEN {c}
    ELSE {Without(c, {k}) : k \in {k \in DOMAIN c :
            \A l \in DOMAIN c : c[k].expiresAt <= c[l].expiresAt}}

Put(key, dto, id, ttl) ==
    LET entry   == [dto |-> dto, id |-> id, expiresAt |-> now + ttl]
        after   == [k \in DOMAIN cache \cup {key} |->
                      IF k = key THEN entry ELSE cache[k]]
    IN cache' \in IF store = "redis" THEN {after} ELSE EvictToCapacity(after)

Fault == faults < MaxFaults /\ faults' = faults + 1

-----------------------------------------------------------------------------
(* The controller asks for a UUID as the key.                              *)
CreateEscrow(c) ==
    /\ At(c, "idle")
    /\ \E k \in Keys \cup {Absent} : \E dto \in EscrowDtos :
         call' = [call EXCEPT ![c].op = "createEscrow", ![c].key = k, ![c].body = dto,
                    ![c].pc = CASE k = Absent -> "done"
                                [] k # Absent /\ store = "none" -> "check"
                                [] OTHER -> "get",
                    ![c].answer = IF k = Absent THEN "400" ELSE "none"]
    /\ UNCHANGED <<profileVars, creationVars>>

Respond(c, id) ==
    call' = [call EXCEPT ![c].pc = "done", ![c].answer = "ok",
                         ![c].id = id, ![c].at = now]

\* Hashes of the bodies agree when all fields do, in whatever order they came.
SameHash(a, b) == \A f \in DOMAIN a \cup DOMAIN b : f \in DOMAIN a \cap DOMAIN b /\ a[f] = b[f]

\* Mutant: the hash of the body is not compared.
AnyBodyMatches(c) ==
    LET key == IdempotencyKey(call[c].key)
    IN  /\ At(c, "get")
        /\ IF Hit(key) THEN Respond(c, cache[key].id) ELSE Goto(c, "check")
        /\ UNCHANGED <<profileVars, creationVars>>

CacheLookup(c) ==
    LET key == IdempotencyKey(call[c].key)
    IN  /\ At(c, "get")
        /\ \/ /\ Hit(key)
              /\ IF SameHash(cache[key].dto, call[c].body)
                 THEN Respond(c, cache[key].id)
                 ELSE Throw(c, "422")
              /\ UNCHANGED <<cache, faults>>
           \/ /\ ~Hit(key)
              /\ Goto(c, "check")
              /\ cache' = Without(cache, {key})
              /\ UNCHANGED faults
           \/ /\ store = "redis" /\ Fault      \* a failing get is a miss
              /\ Goto(c, "check")
              /\ UNCHANGED cache
        /\ UNCHANGED <<profileVars, rows, store, now>>

Valid(dto) == dto.amount > 0 /\ dto.buyer # Vendor

Taken(dto) == \E r \in rows : r.dto.item = dto.item

CheckDuplicate(c) ==
    /\ At(c, "check")
    /\ CASE ~Valid(call[c].body) -> Throw(c, "400")
         [] Valid(call[c].body) /\ Taken(call[c].body) -> Throw(c, "409")
         [] OTHER -> Goto(c, "ensure")
    /\ UNCHANGED <<profileVars, creationVars>>

\* Mutant: the upsert also resets an existing row.
EnsureOverwrites(c) ==
    /\ At(c, "ensure")
    /\ profile' = Placeholder
    /\ Goto(c, "insert")
    /\ UNCHANGED <<settings, account, creationVars>>

EnsureVendorProfile(c) ==
    /\ At(c, "ensure")
    /\ profile' = IF profile = Absent THEN Placeholder ELSE profile
    /\ Goto(c, "insert")
    /\ UNCHANGED <<settings, account, creationVars>>

\* (vendorAddress, itemRef) is unique and the vendor a foreign key.
InsertEscrow(c) ==
    /\ At(c, "insert")
    /\ CASE profile = Absent -> Throw(c, "P2003") /\ UNCHANGED rows
         [] profile # Absent /\ Taken(call[c].body) -> Throw(c, "P2002") /\ UNCHANGED rows
         [] OTHER -> /\ rows' = rows \cup {[id |-> c, dto |-> call[c].body]}
                     /\ IF store = "none" THEN Respond(c, c) ELSE Goto(c, "set")
    /\ UNCHANGED <<profileVars, store, cache, now, faults>>

CacheResponse(c) ==
    /\ At(c, "set")
    /\ Respond(c, c)
    /\ \/ /\ Put(IdempotencyKey(call[c].key), call[c].body, c, KeyTTL)
          /\ UNCHANGED faults
       \/ store = "redis" /\ Fault /\ UNCHANGED cache
    /\ UNCHANGED <<profileVars, rows, store, now>>

DatabaseError(c) ==
    /\ call[c].pc \in {"check", "ensure", "insert"}
    /\ Fault
    /\ Throw(c, "P1001")
    /\ UNCHANGED <<profileVars, rows, store, cache, now>>

\* Someone reads an escrow, which caches it; what it holds is EscrowHandlers'.
FindById(r) ==
    /\ store # "none"
    /\ ~Hit(EscrowKey(r.id))
    /\ Put(EscrowKey(r.id), r.dto, r.id, ReadTTL)
    /\ UNCHANGED <<profileVars, call, rows, store, now, faults>>

Sweep ==
    /\ store = "memory"
    /\ \E k \in DOMAIN cache : ~Fresh(cache[k])
    /\ cache' = Without(cache, {k \in DOMAIN cache : ~Fresh(cache[k])})
    /\ UNCHANGED <<profileVars, call, rows, store, now, faults>>

Tick ==
    /\ store # "none" /\ now < MaxTime
    /\ now' = now + 1
    /\ UNCHANGED <<profileVars, call, rows, store, cache, faults>>

\* The process dies: its requests get no answer, the fallback cache is gone.
Crash ==
    /\ Fault
    /\ call' = [c \in Calls |->
                  IF call[c].pc \in {"idle", "done"} THEN call[c]
                  ELSE [call[c] EXCEPT !.pc = "done", !.answer = "lost"]]
    /\ cache' = IF store = "memory" THEN <<>> ELSE cache
    /\ UNCHANGED <<profileVars, rows, store, now>>

-----------------------------------------------------------------------------
DeskInit ==
    /\ ProfileInit
    /\ rows = {} /\ cache = <<>> /\ now = 0 /\ faults = 0
    /\ store \in {"none", "memory", "redis"}
    /\ call = [c \in Calls |->
                 [op |-> "none", pc |-> "idle", dto |-> {}, body |-> Absent, key |-> Absent,
                  id |-> Absent, answer |-> "none", at |-> 0]]

CreationStep(c) ==
    \/ CacheLookup(c) \/ CheckDuplicate(c) \/ EnsureVendorProfile(c)
    \/ InsertEscrow(c) \/ CacheResponse(c) \/ DatabaseError(c)

(* The requests of VendorProfile do not touch the cache: they run where    *)
(* there is none.                                                          *)
DeskNext ==
    \/ \E c \in Calls :
         \/ CreateEscrow(c) \/ CreationStep(c)
         \/ /\ store = "none"
            /\ StartProfileCall(c) \/ ProfileStep(c)
            /\ UNCHANGED creationVars
    \/ \E r \in rows : FindById(r)
    \/ Sweep \/ Tick \/ Crash

DeskSpec == DeskInit /\ [][DeskNext]_deskVars

-----------------------------------------------------------------------------
Created(c) == call[c].op = "createEscrow" /\ call[c].answer = "ok"

(* A successful POST /escrow, first answer or cached one, returns an       *)
(* escrow that exists and has exactly the fields the request asked for,    *)
(* also when keys are reused, requests race and answers get lost.          *)
AnswersMatch ==
    \A c \in Calls : Created(c) => [id |-> call[c].id, dto |-> call[c].body] \in rows

(* As long as nothing fails and the keys in use fit into the cache, a      *)
(* repeated request gets the original escrow for a day (less the lifetime  *)
(* of a cached read): reads of escrows, which share the bounded fallback   *)
(* map, never push the response out.  It is so while the key made one      *)
(* escrow only: of two requests that overlap, with one key and different   *)
(* items, both create, and the second overwrites the response to the       *)
(* first.                                                                  *)
KeyRemembered ==
    \A c \in Calls :
      LET key == IdempotencyKey(call[c].key) IN
      (/\ Created(c) /\ call[c].id = c
       /\ store # "none" /\ faults = 0
       /\ Cardinality(Keys) <= Capacity
       /\ now + ReadTTL < call[c].at + KeyTTL
       /\ \A r \in rows : call[r.id].key = call[c].key => r.id = c)
      => Hit(key) /\ cache[key].id = c
=============================================================================
