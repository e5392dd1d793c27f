------------------------------ MODULE AuditTrail ------------------------------
(***************************************************************************)
(* The administrators' audit log, and the rotation of the logistics key    *)
(* that it records.  LogisticsService keeps the key in the memory of each  *)
(* replica and in ProviderCredential; ApiKeysController rotates it and     *)
(* then appends to the log; AuditLogService reads the log page by page.    *)
(* The keys matter to the log only through the requests that get as far    *)
(* as the entry.                                                           *)
(***************************************************************************)
EXTENDS Integers, Sequences, FiniteSets, SequencesExt

CONSTANTS Replicas,
          Rotations,      \* requests that rotate the key, each to its own key
          OldEntries,     \* entries already in the log, newest first
          Limits,         \* page sizes that a reader may ask for
          MaxLimit        \* the cap on the page size

NoKey == "no key"
Env   == "LOGISTICS_API_KEY"

VARIABLES stored,         \* the encryptedKey row
          memory,         \* apiKey of each replica
          rotation,       \* per request: where it is, and on which replica
          log,            \* audit entries, newest first
          reader          \* a client that walks the pages

keys      == <<stored, memory, rotation>>
auditVars == <<keys, log, reader>>

Idle == [at |-> "asked", on |-> "nowhere"]

AuditInit ==
    /\ stored = NoKey /\ memory = [r \in Replicas |-> Env]
    /\ rotation = [a \in Rotations |-> Idle]
    /\ log = OldEntries
    /\ reader = [at |-> "idle", limit |-> 1, page |-> 1, seen |-> {}, start |-> {}]

InFlight == {a \in Rotations : rotation[a].at \in {"store", "audit"}}
-----------------------------------------------------------------------------
(* rotateApiKey sets the key in memory before it stores it.                *)
RotateApiKey(a, r) ==
    /\ rotation[a].at = "asked"
    /\ memory' = [memory EXCEPT ![r] = a]
    /\ rotation' = [rotation EXCEPT ![a] = [at |-> "store", on |-> r]]
    /\ UNCHANGED <<stored, log, reader>>

Move(a, at) == rotation' = [rotation EXCEPT ![a].at = at]

(* ProviderCredentialRepository.upsert; an error fails the request, which  *)
(* has already changed the memory.                                         *)
Upsert(a) ==
    /\ rotation[a].at = "store"
    /\ \/ stored' = a /\ Move(a, "audit")
       \/ Move(a, "failed") /\ UNCHANGED stored
    /\ UNCHANGED <<memory, log, reader>>

InsertEntry(entry) == \E i \in 1..2 : i <= Len(log) + 1 /\ log' = InsertAt(log, i, entry)

(* The entry is appended and the request answered, or the insert fails.    *)
(* occurredAt is the start of the insert, so one entry may become visible  *)
(* after another that is newer.                                            *)
AppendEntry(a) ==
    /\ rotation[a].at = "audit"
    /\ \/ InsertEntry(a) /\ Move(a, "answered")
       \/ Move(a, "failed") /\ UNCHANGED log
    /\ UNCHANGED <<stored, memory, reader>>

(* A replica restarts: requests on it are lost.  loadPersistedApiKey takes *)
(* the stored key and falls back on the environment when there is none or  *)
(* it cannot be read.                                                      *)
LoadPersistedApiKey(r) ==
    /\ \E key \in {Env, IF stored # NoKey THEN stored ELSE Env} : memory' = [memory EXCEPT ![r] = key]
    /\ rotation' = [a \in Rotations |-> IF a \in InFlight /\ rotation[a].on = r
                                        THEN [rotation[a] EXCEPT !.at = "failed"] ELSE rotation[a]]
    /\ UNCHANGED <<stored, log, reader>>
-----------------------------------------------------------------------------
(* limit is clamped to 1..100, and the page number is at least 1.          *)
Limit == IF reader.limit < 1 THEN 1 ELSE IF reader.limit > MaxLimit THEN MaxLimit ELSE reader.limit

\* Mutant: the offset uses the limit as it was asked for.
SkipUnclamped(page) == (page - 1) * reader.limit

Skip(page) == (page - 1) * Limit

FindPage(page) ==
    LET first == Skip(page) + 1
        end   == Skip(page) + Limit
    IN  IF first < 1 THEN << >> ELSE SubSeq(log, first, IF end < Len(log) THEN end ELSE Len(log))

(* The client asks for one page after the other until one is not full.     *)
StartReading ==
    /\ reader.at = "idle"
    /\ \E limit \in Limits :
        reader' = [reader EXCEPT !.at = "reading", !.limit = limit, !.start = Range(log)]
    /\ UNCHANGED <<keys, log>>

FindAll ==
    /\ reader.at = "reading"
    /\ LET page == FindPage(reader.page) IN
       reader' = [reader EXCEPT !.seen = @ \cup Range(page), !.page = @ + 1,
                                !.at = IF Len(page) < Limit THEN "done" ELSE "reading"]
    /\ UNCHANGED <<keys, log>>

AuditNext ==
    \/ \E a \in Rotations : Upsert(a) \/ AppendEntry(a) \/ \E r \in Replicas : RotateApiKey(a, r)
    \/ \E r \in Replicas : LoadPersistedApiKey(r)
    \/ StartReading \/ FindAll
-----------------------------------------------------------------------------
(* The log is "an append-only audit trail", read newest first by offset:   *)
(* a client that reads until a page is not full has seen every entry that  *)
(* existed when it began, whatever is appended meanwhile, entries that     *)
(* become visible late included.  (Two entries with the same occurredAt    *)
(* have no order of their own; the model gives them one.)                  *)
PagesComplete == reader.at = "done" => reader.start \subseteq reader.seen

=============================================================================
