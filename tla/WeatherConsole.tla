---------------------------- MODULE WeatherConsole -----------------------------
(***************************************************************************)
(* The observations table of the browser (weather-console.tsx): it loads a  *)
(* list when it is mounted and whenever the quarantine switch moves, and   *)
(* shows the head of whichever list arrived last.                          *)
(***************************************************************************)
EXTENDS ObservationQueries

CONSTANTS RemoteLimit,   \* the limit of a list for which none is asked
          TableSize      \* rows of the table

ASSUME TableAssumption == RemoteLimit \in Nat \ {0} /\ TableSize \in Nat \ {0}

VARIABLES showQuarantine,
          loads,     \* loads so far
          load,      \* the number of the load that a query serves, 0 for none
          shown      \* the list on display: of which load, its request, how many rows
                     \*   there were when it began, the rows it shows

browser == <<showQuarantine, loads, load, shown>>

ConsoleInit ==
  /\ showQuarantine = FALSE
  /\ loads = 0
  /\ load = [q \in Query |-> 0]
  /\ shown = [load |-> 0, request |-> NoRequest, start |-> 0, list |-> <<>>]

\* The list is asked for without a phenomenon and without a limit.
MutListRequestStale(quarantine) ==
  [kind |-> "list", phenomena |-> Phenomenon, quarantine |-> FALSE,
   from |-> 0, to |-> MaxTime, limit |-> RemoteLimit]
ListRequest(quarantine) ==
  [kind |-> "list", phenomena |-> Phenomenon, quarantine |-> quarantine,
   from |-> 0, to |-> MaxTime, limit |-> RemoteLimit]

ASSUME ListAssumption == \A quarantine \in BOOLEAN : ListRequest(quarantine) \in Request

\* loadData: on mount with the switch off, then for each position of the switch.
LoadData(q) ==
  /\ showQuarantine' = (loads > 0 /\ ~showQuarantine)
  /\ Begin(q, ListRequest(showQuarantine'))
  /\ loads' = loads + 1
  /\ load' = [load EXCEPT ![q] = loads + 1]
  /\ UNCHANGED shown

\* setObservations, or a toast; a later load does not cancel an earlier one.
Arrive(q) ==
  /\ load[q] # 0
  /\ query[q].at \in {"done", "failed"}
  /\ shown' = IF At(q, "failed") THEN shown
              ELSE [load |-> load[q], request |-> query[q].request, start |-> query[q].start,
                    list |-> FirstOf(query[q].answer, TableSize)]
  /\ load' = [load EXCEPT ![q] = 0]
  /\ query' = [query EXCEPT ![q] = Idle]
  /\ UNCHANGED <<mode, showQuarantine, loads>>

-----------------------------------------------------------------------------
ConsoleTypeOK ==
  /\ showQuarantine \in BOOLEAN
  /\ loads \in Nat
  /\ load \in [Query -> 0..loads]
  /\ shown \in [load: 0..loads, request: Request \union {NoRequest}, start: 0..Len(rows),
                list: Seq(DOMAIN rows)]

\* The rows that the list on display had to choose from and left out.
LeftOut ==
  {i \in 1..shown.start : Matches(i, shown.request) /\ i \notin Range(shown.list)}

\* "Quarantine excluded by default": whichever load arrived last, the table is the store
\* seen through the switch as that load was made with: no quarantined row if it was off,
\* and a row is missing only from a full table, as one that came later upstream or that
\* is older locally.  The table of the last load agrees with the switch as it stands; a
\* load that was overtaken may arrive after it and put the other position on display.
TableFollowsSwitch ==
  shown.load > 0 =>
    /\ shown.load = loads => shown.request.quarantine = showQuarantine
    /\ \A i \in Range(shown.list) : shown.request.quarantine \/ ~rows[i].quarantined
    /\ \A i \in LeftOut :
         /\ Len(shown.list) = Min({TableSize, Limit(shown.request)})
         /\ \A j \in Range(shown.list) : IF Local THEN Newer(j, i) ELSE j < i

\* "Recent observations": nothing that the table leaves out is newer than what it shows.
RecentObservationsAreShown ==
  \A i \in LeftOut : \A j \in Range(shown.list) : rows[j].observed >= rows[i].observed
=============================================================================
