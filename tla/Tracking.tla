------------------------------ MODULE Tracking ------------------------------
(***************************************************************************)
(* GET /escrow/:id/tracking: EscrowService.getTracking answers from the    *)
(* cache or asks the carrier through GiglLogisticsService and GiglClient.  *)
(* The carrier is external; so is the parcel.                              *)
(***************************************************************************)
EXTENDS Naturals

CONSTANTS Viewers,
          TTL,            \* lifetime of a cached answer (60 seconds)
          CarrierTimeout, \* of a request to the carrier (10 seconds)
          MaxClock        \* bound on the clock

ASSUME TrackingAssumption == TTL \in Nat /\ CarrierTimeout \in Nat /\ MaxClock \in Nat

\* What the carrier says of a parcel, in the order in which it happens.
Journey == <<"CREATED", "IN_TRANSIT", "OUT_FOR_DELIVERY", "DELIVERED">>

VARIABLES clock,
          parcel,         \* position in Journey
          past,           \* positions the parcel had at each moment
          tracked,        \* the escrow has a trackingId
          entry,          \* the cache entry tracking:<trackingId>
          view            \* the requests

trackingVars == <<clock, parcel, past, tracked, entry, view>>

NoEntry == [status |-> "none", expiresAt |-> 0]
NewView == [pc |-> "idle", since |-> 0, raw |-> "none", shown |-> "none", at |-> 0]

TrackingInit ==
    /\ clock = 0 /\ parcel = 1 /\ past = [t \in 0..MaxClock |-> IF t = 0 THEN {1} ELSE {}]
    /\ tracked \in BOOLEAN
    /\ entry = NoEntry
    /\ view = [v \in Viewers |-> NewView]

Viewing(v, pc) == view[v].pc = pc
ViewGoto(v, pc) == view' = [view EXCEPT ![v].pc = pc]

\* The request ends with a status, or as not found.
Show(v, status) ==
    view' = [view EXCEPT ![v] = [NewView EXCEPT !.pc = "done", !.shown = status, !.at = clock]]

NotFound(v) == Show(v, "none")
-----------------------------------------------------------------------------
GetTracking(v) ==
    /\ view[v].pc \in {"idle", "done"}
    /\ IF tracked THEN view' = [view EXCEPT ![v] = [NewView EXCEPT !.pc = "get"]] ELSE NotFound(v)
    /\ UNCHANGED <<clock, parcel, past, tracked, entry>>

(* A hit is the answer; a miss, or a failing cache, asks the carrier.      *)
CacheGet(v) ==
    /\ Viewing(v, "get")
    /\ \/ /\ entry # NoEntry /\ clock <= entry.expiresAt
          /\ Show(v, entry.status)
       \/ view' = [view EXCEPT ![v].pc = "fetch", ![v].since = clock]
    /\ UNCHANGED <<clock, parcel, past, tracked, entry>>

(* The carrier looks at the parcel; its answer may take time.              *)
CarrierReads(v) ==
    /\ Viewing(v, "fetch")
    /\ view' = [view EXCEPT ![v].pc = "reply", ![v].raw = Journey[parcel]]
    /\ UNCHANGED <<clock, parcel, past, tracked, entry>>

MapStatus(raw) ==
    CASE raw = "DELIVERED" -> "DELIVERED"
      [] raw \in {"IN_TRANSIT", "OUT_FOR_DELIVERY"} -> "IN_TRANSIT"
      [] OTHER -> "PENDING"

(* fetchTracking returns a well-formed answer and rejects on everything    *)
(* else: no key, 401, another status, a malformed body, no answer in time. *)
(* getTracking makes all of that a 404.                                    *)
FetchTracking(v) ==
    /\ \/ Viewing(v, "reply") /\ ViewGoto(v, "set")
       \/ view[v].pc \in {"fetch", "reply"} /\ NotFound(v)
    /\ UNCHANGED <<clock, parcel, past, tracked, entry>>

\* Mutant: an entry that is still there keeps its place.
KeepOlderEntry(v) ==
    LET status == MapStatus(view[v].raw)
    IN  /\ Viewing(v, "set")
        /\ Show(v, status)
        /\ entry' = [status |-> IF entry = NoEntry THEN status ELSE entry.status,
                     expiresAt |-> clock + TTL]
        /\ UNCHANGED <<clock, parcel, past, tracked>>

(* The mapped answer is cached, or the cache fails, and returned.          *)
CacheSet(v) ==
    LET status == MapStatus(view[v].raw)
    IN  /\ Viewing(v, "set")
        /\ Show(v, status)
        /\ entry' \in {entry, [status |-> status, expiresAt |-> clock + TTL]}
        /\ UNCHANGED <<clock, parcel, past, tracked>>
-----------------------------------------------------------------------------
MoveParcel ==
    /\ parcel < 4
    /\ parcel' = parcel + 1
    /\ past' = [past EXCEPT ![clock] = @ \cup {parcel + 1}]
    /\ UNCHANGED <<clock, tracked, entry, view>>

(* Time passes, but not while a request to the carrier is due.             *)
Pass ==
    /\ clock < MaxClock
    /\ \A v \in Viewers : view[v].pc \in {"fetch", "reply", "set"} => clock < view[v].since + CarrierTimeout
    /\ clock' = clock + 1
    /\ past' = [past EXCEPT ![clock + 1] = {parcel}]
    /\ UNCHANGED <<parcel, tracked, entry, view>>

TrackingNext ==
    \/ \E v \in Viewers : GetTracking(v) \/ CacheGet(v) \/ CarrierReads(v) \/ FetchTracking(v) \/ CacheSet(v)
    \/ MoveParcel \/ Pass
-----------------------------------------------------------------------------
(* What a viewer is shown is what the carrier said of the parcel at most   *)
(* the lifetime of an entry and one carrier timeout ago, whoever asked and *)
(* in whatever order the answers came.                                     *)
TrackingFresh ==
    \A v \in Viewers : view[v].shown # "none" =>
        \E t \in 0..view[v].at : /\ t + TTL + CarrierTimeout >= view[v].at
                                 /\ \E i \in past[t] : MapStatus(Journey[i]) = view[v].shown
=============================================================================
