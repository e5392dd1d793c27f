---------------------------- MODULE VendorReports ----------------------------
(***************************************************************************)
(* What a vendor is shown about their escrows while these come and change: *)
(* the daily volume chart and the statistics (AnalyticsService), computed  *)
(* here as the service computes them and compared with the rows, and the   *)
(* pages of GET /vendor/escrows, which a client reads one by one.          *)
(* Time is counted in parts of a day; the server runs in UTC.              *)
(***************************************************************************)
EXTENDS Integers, Sequences, SequencesExt, FiniteSetsExt

CONSTANTS
    Hours,      \* parts of a day
    MaxHour,    \* bound on the clock
    MaxRows,    \* bound on the vendor's escrows
    Windows,    \* days asked for (ChartQueryDto: 1..365)
    Offsets,    \* time zones, as offsets from UTC in parts of a day
    PageLimit,  \* the limit of the listing
    RowStates,  \* the states an escrow is followed through
    ListStates, \* those it changes between while it is listed
    MaxLeft     \* bound on the escrows that leave a filtered listing

ASSUME ReportAssumption ==
    /\ Hours \in Nat \ {0} /\ MaxHour \in Nat /\ MaxRows \in Nat
    /\ Windows \subseteq Nat \ {0} /\ PageLimit \in Nat \ {0} /\ MaxLeft \in Nat

VARIABLES
    hour,       \* the time
    escrow,     \* the vendor's escrows in the order of their creation
    listing     \* the client of the listing

reportVars == <<hour, escrow, listing>>

SumOver(S, f(_)) == FoldSet(LAMBDA x, sum : sum + f(x), 0, S)

-----------------------------------------------------------------------------
(* The chart.                                                              *)
Date(t, offset) == (t + offset) \div Hours

StartDate(days) == (Date(hour, 0) - days + 1) * Hours

\* The rows aggregateDailyVolume groups under a date.
Aggregated(days, offset, date) ==
    {i \in DOMAIN escrow : /\ escrow[i].createdAt \in StartDate(days)..hour
                           /\ Date(escrow[i].createdAt, offset) = date}

Day(date, ids) ==
    [date             |-> date,
     totalVolume      |-> SumOver(ids, LAMBDA i : escrow[i].amount),
     transactionCount |-> Cardinality(ids),
     completedCount   |-> Cardinality({i \in ids : escrow[i].state \in {"COMPLETED", "RELEASED"}}),
     disputedCount    |-> Cardinality({i \in ids : escrow[i].state = "DISPUTED"})]

\* Mutant: the day that begins at this very moment is left out.
StepsBefore(days) == {n \in 0..days : StartDate(days) + n * Hours < hour}

\* The days fillDateGaps steps through: currentDate <= endDate.
Steps(days) == {n \in 0..days : StartDate(days) + n * Hours <= hour}

FillDateGaps(days, offset) ==
    LET DayAt(n) == LET date == Date(StartDate(days) + n * Hours, offset)
                    IN  Day(date, Aggregated(days, offset, date))
    IN  [n \in 1..Cardinality(Steps(days)) |-> DayAt(n - 1)]

GetDailyVolumeChart(days, offset) ==
    LET data == FillDateGaps(days, offset)
    IN  [data              |-> data,
         totalVolume       |-> SumOver(DOMAIN data, LAMBDA n : data[n].totalVolume),
         totalTransactions |-> SumOver(DOMAIN data, LAMBDA n : data[n].transactionCount)]

-----------------------------------------------------------------------------
(* The statistics: one group per state, added up.                          *)
GetEscrowStateGroups ==
    [s \in {escrow[i].state : i \in DOMAIN escrow} |->
       LET ids == {i \in DOMAIN escrow : escrow[i].state = s}
       IN  [count |-> Cardinality(ids), sum |-> SumOver(ids, LAMBDA i : escrow[i].amount)]]

ActiveStates == {"CREATED", "FUNDED", "SHIPPED", "DELIVERED"}

GetTransactionStats ==
    LET groups   == GetEscrowStateGroups
        Count(S) == SumOver(S \cap DOMAIN groups, LAMBDA s : groups[s].count)
        Total(S) == SumOver(S \cap DOMAIN groups, LAMBDA s : groups[s].sum)
    IN  [totalTransactions     |-> Count(DOMAIN groups),
         totalVolume           |-> Total(DOMAIN groups),
         activeTransactions    |-> Count(ActiveStates),
         activeVolume          |-> Total(ActiveStates),
         completedTransactions |-> Count({"COMPLETED", "RELEASED"}),
         disputedTransactions  |-> Count({"DISPUTED"}),
         cancelledTransactions |-> Count({"CANCELLED"})]

-----------------------------------------------------------------------------
(* The listing: the escrows in one state, or all, by date or amount.       *)
Where == {i \in DOMAIN escrow : listing.state \in {"any", escrow[i].state}}

Before(i, j) ==
    LET a == IF listing.order = "asc" THEN i ELSE j
        b == IF listing.order = "asc" THEN j ELSE i
    IN  IF listing.sort = "amount" THEN escrow[a].amount < escrow[b].amount ELSE a < b

OrderBy == SetToSortSeq(Where, Before)

\* Mutant: pages are counted from zero.
SkipFromZero(page) == page * PageLimit

SkipRows(page) == (page - 1) * PageLimit

Page(page) == SubSeq(OrderBy, SkipRows(page) + 1, Min({SkipRows(page) + PageLimit, Len(OrderBy)}))

StartListing ==
    /\ listing.page = 0
    /\ \E state \in {"any"} \cup ListStates, sort \in {"date", "amount"}, order \in {"asc", "desc"} :
         listing' = [page |-> 1, state |-> state, sort |-> sort, order |-> order, seen |-> {}, left |-> 0,
                     had |-> {i \in DOMAIN escrow : state \in {"any", escrow[i].state}}]
    /\ UNCHANGED <<hour, escrow>>

\* A client stops at a page that is not full.
FindVendorEscrows ==
    /\ listing.page > 0
    /\ listing' = [listing EXCEPT
         !.seen = @ \cup ToSet(Page(listing.page)),
         !.page = IF Len(Page(listing.page)) = PageLimit THEN @ + 1 ELSE -1]
    /\ UNCHANGED <<hour, escrow>>

-----------------------------------------------------------------------------
\* Amounts are powers of two, so that no two sets of escrows add up alike.
Amounts == {2 ^ n : n \in 0..MaxRows - 1} \ {escrow[i].amount : i \in DOMAIN escrow}

AddEscrow(amount) ==
    /\ Len(escrow) < MaxRows
    /\ escrow' = Append(escrow, [createdAt |-> hour, amount |-> amount, state |-> "CREATED"])
    /\ UNCHANGED <<hour, listing>>

\* An escrow in the state that is listed leaves the listing (history).
ChangeState(i, s) ==
    LET leaves == listing.page > 0 /\ listing.state = escrow[i].state
    IN  /\ s # escrow[i].state
        /\ leaves => listing.left < MaxLeft
        /\ escrow' = [escrow EXCEPT ![i].state = s]
        /\ listing' = IF leaves THEN [listing EXCEPT !.left = @ + 1] ELSE listing
        /\ UNCHANGED hour

PassTime ==
    /\ hour < MaxHour
    /\ hour' = hour + 1
    /\ UNCHANGED <<escrow, listing>>

ReportInit ==
    /\ hour = 1 /\ escrow = <<>>
    /\ listing = [page |-> 0, state |-> "any", sort |-> "date", order |-> "desc",
                  seen |-> {}, left |-> 0, had |-> {}]

\* The listing does not depend on the time, nor the reports on its client or on
\* which amount is whose.
ListingNext ==
    \/ StartListing \/ FindVendorEscrows
    \/ \E amount \in Amounts : AddEscrow(amount)
    \/ \E i \in DOMAIN escrow, s \in ListStates : ChangeState(i, s)

ReportNext ==
    \/ AddEscrow(2 ^ Len(escrow)) \/ PassTime
    \/ \E i \in DOMAIN escrow, s \in RowStates : ChangeState(i, s)

-----------------------------------------------------------------------------
(* The chart shows as many days as were asked for, in order, at whatever   *)
(* time of the day, and its totals are those of the escrows created since  *)
(* the window began: none is counted twice between the query, the gap      *)
(* filling and the sums, and none is lost in UTC.  In other zones the gap  *)
(* filling ends with the local date of today's midnight in UTC, and the    *)
(* escrows of a later local date, which the query returned, are lost.      *)
ChartComplete ==
    \A days \in Windows : \A offset \in Offsets :
      LET chart  == GetDailyVolumeChart(days, offset)
          last   == Date(Date(hour, 0) * Hours, offset)
          inside == {i \in DOMAIN escrow : /\ escrow[i].createdAt >= StartDate(days)
                                          /\ Date(escrow[i].createdAt, offset) <= last}
      IN  /\ [n \in DOMAIN chart.data |-> chart.data[n].date] = [n \in 1..days |-> last - days + n]
          /\ chart.totalTransactions = Cardinality(inside)
          /\ chart.totalVolume = SumOver(inside, LAMBDA i : escrow[i].amount)
          /\ offset = 0 => \A i \in DOMAIN escrow : last - Date(escrow[i].createdAt, 0) < days => i \in inside

(* In every time zone a day that is shown has all its escrows, but for the *)
(* first one, which the window begins in the middle of: the dates of the   *)
(* SQL grouping and those of the gap filling agree.                        *)
DaysComplete ==
    \A days \in Windows : \A offset \in Offsets :
      LET data == GetDailyVolumeChart(days, offset).data
      IN  \A n \in 2..Len(data) :
            data[n].totalVolume
              = SumOver({i \in DOMAIN escrow : Date(escrow[i].createdAt, offset) = data[n].date},
                        LAMBDA i : escrow[i].amount)

(* In the statistics every escrow is active, completed, disputed,          *)
(* cancelled or refunded, exactly one of them, so that the rates derived   *)
(* from the counts refer to the whole; and active volume is the volume     *)
(* that can still move.                                                    *)
StatsPartition ==
    LET stats == GetTransactionStats
        Ids(S) == {i \in DOMAIN escrow : escrow[i].state \in S}
        final == {"COMPLETED", "RELEASED", "REFUNDED", "CANCELLED"}
    IN  /\ stats.totalTransactions = Len(escrow)
        /\ stats.activeTransactions + stats.completedTransactions
             + stats.disputedTransactions + stats.cancelledTransactions
             + Cardinality(Ids({"REFUNDED"})) = Len(escrow)
        /\ stats.activeVolume
             = stats.totalVolume - SumOver(Ids(final \cup {"DISPUTED"}), LAMBDA i : escrow[i].amount)

(* The two reports of a vendor who has escrows count each at most once,    *)
(* the chart day by day and the statistics state by state, and leave none  *)
(* out but those the chart loses outside UTC.                              *)
EscrowsCounted == escrow # <<>> => ChartComplete /\ DaysComplete /\ StatsPartition

(* A client that reads the listing page by page, in whatever order, has in *)
(* the end seen every escrow that was listed when it began, although new   *)
(* ones push others down between its requests; filtered by a state, it     *)
(* misses at most one for each escrow that left the state meanwhile.       *)
ListingComplete == listing.page = -1 => Cardinality(listing.had \ listing.seen) <= listing.left
=============================================================================
