----------------------------- MODULE Verification -----------------------------
(***************************************************************************)
(* scientific/verification.py and storage/verification_ledger.py: a case    *)
(* pairs the forecast of a baseline, made from the rows that were available *)
(* at a simulated issue time, with the row that verifies it, and is then   *)
(* appended to the ledger.  Rows enter in between and afterwards.          *)
(***************************************************************************)
EXTENDS CanonicalRows

CONSTANT NoCase

Baselines == {"persistence", "climatology"}

VARIABLES case,    \* the case that has been built and not yet recorded
          ledger   \* the recorded cases

evaluation == <<case, ledger>>

VerificationInit ==
  /\ case = NoCase
  /\ ledger = <<>>

-----------------------------------------------------------------------------
\* partition_by_availability: the rows stamped no later than the issue time.
MutAvailableByObservationTime(issued) == {i \in DOMAIN rows : rows[i].observed <= issued}
Available(issued) == {i \in DOMAIN rows : rows[i].stamp <= issued}

Candidates(available, phenomenon) ==
  {i \in available : rows[i].phenomenon = phenomenon /\ rows[i].value # Missing}

\* max by (observation time, ingestion time); of equal rows it keeps the first.
Latest(candidates) ==
  CHOOSE i \in candidates : \A j \in candidates \ {i} :
    \/ rows[i].observed > rows[j].observed
    \/ rows[i].observed = rows[j].observed /\ rows[i].stamp > rows[j].stamp
    \/ rows[i].observed = rows[j].observed /\ rows[i].stamp = rows[j].stamp /\ i < j

\* A forecast is a sum and the number of values it is the mean of, <<0, 0>> for None.
Forecast(baseline, available, phenomenon) ==
  LET candidates == Candidates(available, phenomenon)
      used == IF baseline = "persistence" /\ candidates # {} THEN {Latest(candidates)}
                                                             ELSE candidates IN
  <<SumFunction([i \in used |-> rows[i].value]), Cardinality(used)>>

\* A case is for a time after its issue.
MutForecastsOrAtOnce(issued, valid) == valid >= issued
Forecasts(issued, valid) == valid > issued

\* build_verification_case; the verifying row is copied into the case and nothing is
\* asked of it.  That the case holds used and seen, the rows it is from, is history:
\* the code keeps how many were used and how many were not.
BuildCase(baseline, phenomenon, issued, valid) ==
  /\ case = NoCase
  /\ rows # <<>>   \* one of them verifies
  /\ Forecasts(issued, valid)
  /\ LET available == Available(issued) IN
     case' = [baseline |-> baseline, phenomenon |-> phenomenon, issued |-> issued,
              valid |-> valid, forecast |-> Forecast(baseline, available, phenomenon),
              used |-> available, seen |-> Len(rows)]
  /\ UNCHANGED ledger

\* VerificationLedger.record: appended and flushed.
Record ==
  /\ case # NoCase
  /\ ledger' = Append(ledger, case)
  /\ case' = NoCase

\* The evaluation ends before its case is in the ledger.
Drop ==
  /\ case # NoCase
  /\ case' = NoCase
  /\ UNCHANGED ledger

\* One step of an evaluation over the whole store.
Evaluate ==
  \/ \E baseline \in Baselines, phenomenon \in Phenomenon, issued, valid \in Time :
       BuildCase(baseline, phenomenon, issued, valid)
  \/ Record
  \/ Drop

-----------------------------------------------------------------------------
Case ==
  [baseline: Baselines, phenomenon: Phenomenon, issued: Time, valid: Time,
   forecast: Int \X Nat, used: SUBSET DOMAIN rows, seen: 0..Len(rows)]

VerificationTypeOK ==
  /\ case \in Case \union {NoCase}
  /\ ledger \in Seq(Case)
  /\ \A c \in Range(ledger) : c.issued < c.valid

\* The rows that entered between the building of two cases.
EnteredBetween(c, d) == c.seen + 1 .. d.seen

\* What the ledger says of an issue time can be reproduced from the store as it is today:
\* two cases of one baseline, phenomenon and issue time, built at different times, give
\* the same forecast from the same rows, and the second counts what has entered since
\* as excluded.  Only a row that claims to have been there may set them apart: one
\* that entered in between with an ingestion time no later than the issue time.
CasesAreReproducible ==
  \A c, d \in Range(ledger) :
    c.seen <= d.seen /\ c.baseline = d.baseline /\ c.phenomenon = d.phenomenon
      /\ c.issued = d.issued =>
        \/ c.forecast = d.forecast /\ c.used = d.used
        \/ \E i \in EnteredBetween(c, d) : rows[i].stamp <= c.issued

\* "Records that entered after the simulated issue time are corrections or backfill and
\* must never inform a forecast evaluated at that issue time": what a case has used had
\* entered the store by its issue time.
UsedWasInStore ==
  \A c \in Range(ledger) : \A i \in c.used : entered[i] <= c.issued
=============================================================================
