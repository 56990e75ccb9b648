-------------------------------- MODULE Reports --------------------------------
(* Model monitoring (batch_inference/monitoring_worker.py and publish_report): the   *)
(* worker reads the registered datasets in frames, twice the reference, and reports   *)
(* whether the observed data drifted and how predictions met the delayed labels; the  *)
(* control plane recomputes what it can before it stores the report.                  *)
(* Values of a feature are naturals, for a category too. Rates and scores are whole   *)
(* percentages, and the population stability index is the distance between the shares *)
(* of two histograms: like the index, a function of the histograms alone.             *)
EXTENDS Integers, Sequences, FiniteSetsExt, Functions

CONSTANTS
  Specs,          \* [dtype, minimum, limit, nullable, declared, feedback]: see Valid
  References,     \* sequences of values of the feature
  Observations,   \* sequences of [x, key, prediction]
  Truths,         \* sequences of [key, label]
  ScoreLimit, MissingLimit,      \* psi_threshold and missing_rate_threshold
  BatchSize,
  Execution, OtherExecution      \* identities of two executions of the job

Null    == -1
Missing == 90
Other   == 91
Bins    == 0 .. 9 \cup {Missing, Other}

VARIABLES
  spec, reference, observed, truth,     \* the job and its datasets
  pc, rows,                             \* the pass, and the rows it has read
  domain,                               \* what the first pass learns of the reference
  counts,                               \* the two histograms
  labels, keys, matched, errors,        \* the table of labels, prediction keys met, the join
  result, report                        \* the worker's answer; what was stored

data == <<spec, reference, observed, truth>>
vars == <<data, pc, rows, domain, counts, labels, keys, matched, errors, result, report>>

Nothing == [is |-> "nothing"]
Empty   == [b \in Bins |-> 0]

(* The limits the service puts on a job.                                              *)
Valid(s) == s.minimum \in 1 .. s.limit

Init ==
  /\ spec \in {s \in Specs : Valid(s)}
  /\ reference \in References /\ observed \in Observations
  /\ truth \in IF spec.feedback THEN Truths ELSE {<<>>}
  /\ pc = "domain" /\ rows = 0
  /\ domain = {} /\ counts = [role \in {"reference", "observed"} |-> Empty]
  /\ labels = {} /\ keys = {} /\ matched = 0 /\ errors = 0
  /\ result = Nothing /\ report = Nothing

Dataset ==
  CASE pc \in {"domain", "reference"} -> reference
    [] pc \in {"observed", "match"}   -> observed
    [] pc = "truth"                   -> truth

(* The value of the feature in a row.                                                 *)
Feature(row) == IF pc \in {"domain", "reference"} THEN row ELSE row.x

(* The next frame: rows of no fixed number, up to the batch size.                     *)
Frame(k) == SubSeq(Dataset, rows + 1, rows + k)

(* The types and nulls of the registered columns, and the limit on rows.              *)
Fits(k) ==
  /\ rows + k <= spec.limit
  /\ pc # "truth" /\ ~spec.nullable => \A i \in 1 .. k : Feature(Frame(k)[i]) # Null

(* The number of rows the dataset was registered with, if it was.                     *)
Registered(d) == IF spec.declared = "wrong" THEN Len(d) + 1 ELSE Len(d)
Counted(n, d) == spec.declared = "none" \/ n = Registered(d)

Failed == pc' = "failed" /\ UNCHANGED <<data, rows, domain, counts, labels, keys, matched, errors, result, report>>

(* First pass over the reference: the smallest and the largest value of a number, the *)
(* values of a category.                                                              *)
Learnt_LastFrame(values) == values
Learnt(values) ==
  IF spec.dtype # "number" \/ domain \cup values = {} THEN domain \cup values
  ELSE {Min(domain \cup values), Max(domain \cup values)}

Learn(k) ==
  /\ domain' = Learnt({Frame(k)[i] : i \in 1 .. k} \ {Null})
  /\ rows' = rows + k
  /\ UNCHANGED <<data, pc, counts, labels, keys, matched, errors, result, report>>

(* The bin of a value: nine equidistant bounds for a number, one more bin for what    *)
(* the reference does not have, and one for no value at all.                          *)
Bin(v) ==
  IF v = Null THEN Missing
  ELSE IF domain = {} THEN IF spec.dtype = "number" THEN 0 ELSE Other
  ELSE IF spec.dtype # "number" THEN IF v \in domain THEN v ELSE Other
  ELSE LET lo == Min(domain)
           hi == Max(domain)
       IN IF lo = hi THEN IF v < lo THEN 0 ELSE IF v = lo THEN 1 ELSE 2
          ELSE Cardinality({i \in 1 .. 9 : lo * (10 - i) + hi * i <= 10 * v})

(* Second pass over the reference, then the observed data.                            *)
Count(k) ==
  /\ counts' = [counts EXCEPT ![pc] = [b \in Bins |->
       @[b] + Cardinality({i \in 1 .. k : Bin(Feature(Frame(k)[i])) = b})]]
  /\ rows' = rows + k
  /\ UNCHANGED <<data, pc, domain, labels, keys, matched, errors, result, report>>

(* Labels go into a table whose key is that of the entity.                            *)
Recorded(k) == {Frame(k)[i] : i \in 1 .. k}
Duplicated_InFrame(k) == Cardinality({r.key : r \in Recorded(k)}) < k
Duplicated(k) == Cardinality({r.key : r \in labels \cup Recorded(k)}) < rows + k

Record(k) ==
  IF Duplicated(k) \/ \E r \in Recorded(k) : r.key = Null \/ r.label = Null THEN Failed
  ELSE /\ labels' = labels \cup Recorded(k)
       /\ rows' = rows + k
       /\ UNCHANGED <<data, pc, domain, counts, keys, matched, errors, result, report>>

(* Predictions meet the labels of their entities. The error stands for the metrics.   *)
LabelOf(r)  == {l.label : l \in {l \in labels : l.key = r.key}}
Distance(a, b) == IF a < b THEN b - a ELSE a - b

Match(k) ==
  LET Met   == {i \in 1 .. k : LabelOf(Frame(k)[i]) # {}}
      Seen  == {Frame(k)[i].key : i \in 1 .. k}
      Error(i) == Distance(Frame(k)[i].prediction, Min(LabelOf(Frame(k)[i])))
  IN IF \/ Null \in Seen \/ Seen \cap keys # {} \/ Cardinality(Seen) < k
        \/ \E i \in Met : Frame(k)[i].prediction = Null
     THEN Failed
     ELSE /\ keys' = keys \cup Seen
          /\ matched' = matched + Cardinality(Met)
          /\ errors' = errors + FoldSet(LAMBDA i, n : n + Error(i), 0, Met)
          /\ rows' = rows + k
          /\ UNCHANGED <<data, pc, domain, counts, labels, result, report>>

Read(k) ==
  /\ rows + k <= Len(Dataset)
  /\ IF ~Fits(k) THEN Failed
     ELSE CASE pc = "domain" -> Learn(k)
            [] pc \in {"reference", "observed"} -> Count(k)
            [] pc = "truth" -> Record(k)
            [] pc = "match" -> Match(k)

After ==
  CASE pc = "domain"    -> "reference"
    [] pc = "reference" -> "observed"
    [] pc = "observed"  -> IF spec.feedback THEN "truth" ELSE "report"
    [] pc = "truth"     -> "match"
    [] pc = "match"     -> "report"

(* The end of a dataset.                                                              *)
EndOfData ==
  /\ rows = Len(Dataset)
  /\ IF ~Counted(rows, Dataset) THEN Failed
     ELSE /\ pc' = After /\ rows' = 0
          /\ UNCHANGED <<data, domain, counts, labels, keys, matched, errors, result, report>>

Total(h) == SumFunction(h)
Rate(h)  == IF Total(h) = 0 THEN Null ELSE (100 * h[Missing]) \div Total(h)
Change(a, b) == IF a = Null \/ b = Null THEN Null ELSE Distance(a, b)
Score(a, b) ==
  (100 * SumFunction([i \in Bins |-> Distance(a[i] * Total(b), b[i] * Total(a))])) \div (2 * Total(a) * Total(b))

Enough(n, m)  == Min({n, m}) >= spec.minimum
Drifted_AnySize(enough, score, change) == score >= ScoreLimit \/ change >= MissingLimit
Drifted(enough, score, change) == enough /\ (score >= ScoreLimit \/ change >= MissingLimit)
Status(enough, score, change) ==
  IF Drifted(enough, score, change) THEN "DRIFTED"
  ELSE IF enough /\ score # Null THEN "STABLE" ELSE "INSUFFICIENT_DATA"

(* The feature, from the histograms: no score for too few rows, nor for numbers of    *)
(* which the reference has none.                                                      *)
Measured(a, b, known) ==
  LET enough == Enough(Total(a), Total(b))
      score  == IF enough /\ known THEN Score(a, b) ELSE Null
      change == Change(Rate(a), Rate(b))
  IN [score |-> score, rates |-> <<Rate(a), Rate(b)>>, change |-> change,
      drifted |-> Drifted(enough, score, change), status |-> Status(enough, score, change)]

Known(d) == spec.dtype # "number" \/ d # {}

Coverage(m, n) == IF n = 0 THEN Null ELSE (100 * m) \div n
Performance(m, n, t, e) ==
  [matched |-> m, predictions |-> n - m, truths |-> t - m, coverage |-> Coverage(m, n),
   status |-> IF m >= spec.minimum THEN "MEASURED" ELSE "INSUFFICIENT_DATA",
   error  |-> IF m >= spec.minimum THEN e ELSE Null]

Report ==
  /\ pc = "report" /\ pc' = "done"
  /\ LET ref == counts["reference"]
         obs == counts["observed"]
     IN result' = [is |-> Execution, rows |-> <<Total(ref), Total(obs)>>, feature |-> Measured(ref, obs, Known(domain)),
                   performance |-> IF spec.feedback THEN Performance(matched, Total(obs), Len(truth), errors) ELSE Nothing]
  /\ UNCHANGED <<data, rows, domain, counts, labels, keys, matched, errors, report>>

(* What the control plane recomputes of the feature ...                               *)
FeatureHolds(r) ==
  LET f      == r.feature
      enough == Enough(r.rows[1], r.rows[2])
  IN /\ \A i \in 1 .. 2 : (f.rates[i] = Null) = (r.rows[i] = 0)
     /\ f.change = Change(f.rates[1], f.rates[2])
     /\ ~enough => f.score = Null
     /\ f.drifted = Drifted(enough, f.score, f.change)
     /\ f.status = Status(enough, f.score, f.change)

(* ... and of the join.                                                               *)
PerformanceHolds(r) ==
  LET p == r.performance
  IN /\ p.matched + p.predictions = r.rows[2]
     /\ p.matched + p.truths <= spec.limit
     /\ Counted(p.matched + p.truths, truth)
     /\ p.coverage = Coverage(p.matched, r.rows[2])
     /\ p.status = IF p.matched >= spec.minimum THEN "MEASURED" ELSE "INSUFFICIENT_DATA"
     /\ (p.error = Null) = (p.status # "MEASURED")

Accepts_AnyExecution(r, execution) ==
  /\ Counted(r.rows[1], reference) /\ Counted(r.rows[2], observed)
  /\ FeatureHolds(r)
Accepts(r, execution) ==
  /\ r.is = execution
  /\ \A i \in 1 .. 2 : r.rows[i] <= spec.limit
  /\ Counted(r.rows[1], reference) /\ Counted(r.rows[2], observed)
  /\ FeatureHolds(r)
  /\ (r.performance # Nothing) = spec.feedback
  /\ spec.feedback => PerformanceHolds(r)

(* The reconciler stores the result of a run that succeeded, or fails the run.        *)
Publish ==
  /\ pc = "done" /\ pc' = "published"
  /\ report' = IF Accepts(result, Execution) THEN result ELSE Nothing
  /\ UNCHANGED <<data, rows, domain, counts, labels, keys, matched, errors, result>>

Next ==
  \/ pc \in {"domain", "reference", "observed", "truth", "match"} /\ (EndOfData \/ \E k \in 1 .. BatchSize : Read(k))
  \/ Report
  \/ Publish

Spec == Init /\ [][Next]_vars

-----------------------------------------------------------------------------
(* What the datasets say, whatever frames they are read in. *)

Xs      == {reference[i] : i \in DOMAIN reference} \ {Null}
Seen    == [i \in DOMAIN observed |-> observed[i].x]
Decile(v) ==
  LET lo == Min(Xs)
      hi == Max(Xs)
  IN IF lo = hi THEN IF v < lo THEN 0 ELSE IF v = lo THEN 1 ELSE 2
     ELSE Max({0, Min({9, (10 * (v - lo)) \div (hi - lo)})})
Class(v) ==
  CASE v = Null -> Missing
    [] v # Null /\ spec.dtype # "number" -> IF v \in Xs THEN v ELSE Other
    [] v # Null /\ spec.dtype = "number" -> IF Xs = {} THEN 0 ELSE Decile(v)
Histogram(values) == [b \in Bins |-> Cardinality({i \in DOMAIN values : Class(values[i]) = b})]

Labelled == {i \in DOMAIN observed : \E j \in DOMAIN truth : truth[j].key = observed[i].key}
ErrorOf(i) == LET j == CHOOSE j \in DOMAIN truth : truth[j].key = observed[i].key
              IN Distance(observed[i].prediction, truth[j].label)

Distinct(d) == \A i, j \in DOMAIN d : i # j => d[i].key # d[j].key
Complete(d) == \A i \in DOMAIN d : d[i].key # Null
Oversized(d) == Len(d) > spec.limit \/ ~Counted(Len(d), d)
Unusable ==
  \/ Oversized(reference) \/ Oversized(observed)
  \/ ~spec.nullable /\ (Null \in Range(reference) \/ Null \in Range(Seen))
  \/ /\ spec.feedback
     /\ \/ Oversized(truth)
        \/ ~Distinct(observed) \/ ~Distinct(truth) \/ ~Complete(observed) \/ ~Complete(truth)
        \/ \E i \in DOMAIN truth : truth[i].label = Null
        \/ \E i \in Labelled : observed[i].prediction = Null

(* SAFETY. A check fails exactly if its datasets cannot be used, and otherwise says   *)
(* what they say as a whole, however they were cut into frames, and never of a drift  *)
(* in too few rows; the control plane stores every such report, and would take it for *)
(* no other execution.                                                                *)
ReportsAreRight ==
  /\ pc = "failed" => Unusable
  /\ pc \in {"done", "published"} =>
       /\ ~Unusable
       /\ result.feature = Measured(Histogram(reference), Histogram(Seen), spec.dtype # "number" \/ Xs # {})
       /\ result.performance = IF ~spec.feedback THEN Nothing
            ELSE Performance(Cardinality(Labelled), Len(observed), Len(truth), MapThenSumSet(ErrorOf, Labelled))
       /\ result.feature.drifted => Len(reference) >= spec.minimum /\ Len(observed) >= spec.minimum
       /\ ~Accepts(result, OtherExecution)
  /\ pc = "published" => report = result

=============================================================================
