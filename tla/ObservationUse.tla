---------------------------- MODULE ObservationUse ----------------------------
(***************************************************************************)
(* The readers of the canonical observations together: position queries,    *)
(* the table of the browser and the verification of baselines, while rows  *)
(* enter the store and time passes.                                        *)
(***************************************************************************)
EXTENDS WeatherConsole, Verification

CONSTANT MaxUses   \* bound on the queries, loads and cases

ASSUME UsesAssumption == MaxUses \in Nat

VARIABLE uses

vars == <<store, mode, query, browser, evaluation, uses>>

Init ==
  /\ RowsInit
  /\ QueriesInit
  /\ ConsoleInit
  /\ VerificationInit
  /\ uses = 0

-----------------------------------------------------------------------------
Use == uses < MaxUses /\ uses' = uses + 1

StoreGrows ==
  /\ Insert \/ Tick
  /\ UNCHANGED <<mode, query, browser, evaluation, uses>>

AskForPosition ==
  /\ Use
  /\ \E q \in Query, request \in Request : request.kind = "position" /\ Begin(q, request)
  /\ UNCHANGED <<store, browser, evaluation>>

QueryProceeds ==
  /\ \E q \in Query : QueryStep(q) \/ (load[q] = 0 /\ Return(q))
  /\ UNCHANGED <<store, browser, evaluation, uses>>

BrowserLoads ==
  /\ Use
  /\ \E q \in Query : LoadData(q)
  /\ UNCHANGED <<store, evaluation>>

BrowserShows ==
  /\ \E q \in Query : Arrive(q)
  /\ UNCHANGED <<store, evaluation, uses>>

\* The baselines run beside the control plane, over its store.
EvaluationProceeds ==
  /\ ~Local
  /\ Evaluate
  /\ IF case = NoCase THEN Use ELSE UNCHANGED uses
  /\ UNCHANGED <<store, mode, query, browser>>

Next ==
  \/ StoreGrows
  \/ AskForPosition
  \/ QueryProceeds
  \/ BrowserLoads
  \/ BrowserShows
  \/ EvaluationProceeds

Spec == Init /\ [][Next]_vars

-----------------------------------------------------------------------------
\* Every part keeps its type; a query that serves a load is a list, and the others ask
\* for a position.
TypeOK ==
  /\ RowsTypeOK
  /\ QueriesTypeOK
  /\ ConsoleTypeOK
  /\ VerificationTypeOK
  /\ uses \in 0..MaxUses
  /\ \A q \in Query : ~At(q, "idle") => (load[q] # 0 <=> query[q].request.kind = "list")
=============================================================================
