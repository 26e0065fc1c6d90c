------------------------------ MODULE Metrics ------------------------------
(***************************************************************************)
(* The in-process metrics of packages/observability/src/metrics.ts: a      *)
(* counter and a histogram with one label are functions from the label's   *)
(* values.  A series that the code creates on first use is a series of     *)
(* zeros here.  Names, help texts and the registry are left out.           *)
(***************************************************************************)
EXTENDS Integers

NewCounter(labels) == [label \in labels |-> 0]

(* counter.inc({label}).                                                    *)
Inc(counter, label) == [counter EXCEPT ![label] = @ + 1]

NewSeries(bounds) == [buckets |-> [bound \in bounds |-> 0], sum |-> 0, total |-> 0]

NewHistogram(labels, bounds) == [label \in labels |-> NewSeries(bounds)]

(* A slip, see Processes: the first bucket that fits only, for a render     *)
(* that would add the buckets up.                                           *)
SlipObserved(series, value) ==
    [buckets |-> [bound \in DOMAIN series.buckets |->
                    IF /\ value <= bound
                       /\ \A less \in DOMAIN series.buckets :
                            less < bound => less < value
                    THEN series.buckets[bound] + 1 ELSE series.buckets[bound]],
     sum |-> series.sum + value,
     total |-> series.total + 1]

(* The buckets are cumulative: a value counts in every bucket that it does  *)
(* not exceed.                                                              *)
Observed(series, value) ==
    [buckets |-> [bound \in DOMAIN series.buckets |->
                    IF value <= bound
                    THEN series.buckets[bound] + 1 ELSE series.buckets[bound]],
     sum |-> series.sum + value,
     total |-> series.total + 1]

(* histogram.observe(value, {label}).                                       *)
Observe(histogram, label, value) ==
    [histogram EXCEPT ![label] = Observed(@, value)]
=============================================================================
