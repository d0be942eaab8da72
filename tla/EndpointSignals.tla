-------------------------- MODULE EndpointSignals --------------------------
(***************************************************************************)
(* What an endpoint remembers of its requests: three rolling windows, ring *)
(* buffers that forget the oldest value, and the percentile, the mean and  *)
(* the score computed from them.  Scores are counted in hundredths.        *)
(***************************************************************************)
EXTENDS Integers, Sequences, FiniteSets, SequencesExt, FiniteSetsExt

CONSTANTS Values,      \* times to the first token and rates
          WindowSize,
          MaxRecords   \* bound: results recorded

SignalsAssumption ==
  /\ Values \subseteq Nat /\ WindowSize \in Nat \ {0} /\ MaxRecords \in Nat

VARIABLES
  ttfts, tpss, errors,   \* the windows
  history                \* history: everything recorded in ttfts

vars == <<ttfts, tpss, errors, history>>

Window == [values : [0..(WindowSize - 1) -> Nat], pos : 0..MaxRecords, count : 0..WindowSize]

TypeOK ==
  /\ ttfts \in Window /\ tpss \in Window /\ errors \in Window
  /\ history \in Seq(Values)

Fresh == [values |-> [k \in 0..(WindowSize - 1) |-> 0], pos |-> 0, count |-> 0]

WrapsOneEarly(w, v) ==                    \* mutant: the last place is never used
  [values |-> [w.values EXCEPT ![w.pos % (WindowSize - 1)] = v],
   pos |-> w.pos + 1, count |-> IF w.count < WindowSize THEN w.count + 1 ELSE w.count]

Recorded(w, v) ==
  [values |-> [w.values EXCEPT ![w.pos % WindowSize] = v],
   pos |-> w.pos + 1,
   count |-> IF w.count < WindowSize THEN w.count + 1 ELSE w.count]

Held(w)  == [k \in 1..w.count |-> w.values[k - 1]]
Total(w) == FoldFunction(+, 0, Held(w))

\* The values in ascending order, by the places they are taken from.
Places(s) == CHOOSE p \in Injection(DOMAIN s, DOMAIN s) :
               \A i, j \in DOMAIN s : i < j => s[p[i]] <= s[p[j]]
Sorted(s) == [i \in DOMAIN s |-> s[Places(s)[i]]]

\* The index of the percentile in the sorted values: ceil(0.99 * count) - 1.
Index(n) == (99 * n + 99) \div 100 - 1
P99(w) == IF w.count = 0 THEN 0 ELSE Sorted(Held(w))[Index(w.count) + 1]

\* 1/TTFT is rounded down to hundredths; a window without values averages 0.
Score ==
  LET avg(w, scale) == IF w.count = 0 THEN 0 ELSE (scale * Total(w)) \div w.count
      fast == IF P99(ttfts) > 0 THEN 100 \div P99(ttfts) ELSE 50
  IN  (5 * fast) \div 10 + (3 * avg(tpss, 100)) \div 10 + (2 * (100 - avg(errors, 100))) \div 10

----------------------------------------------------------------------------
RecordSuccess(ttft, tps) ==
  /\ errors.pos < MaxRecords
  /\ ttfts' = Recorded(ttfts, ttft)
  /\ tpss' = Recorded(tpss, tps)
  /\ errors' = Recorded(errors, 0)
  /\ history' = Append(history, ttft)

RecordError ==
  /\ errors.pos < MaxRecords
  /\ errors' = Recorded(errors, 1)
  /\ UNCHANGED <<ttfts, tpss, history>>

Init == ttfts = Fresh /\ tpss = Fresh /\ errors = Fresh /\ history = <<>>

Next == RecordError \/ \E ttft, tps \in Values : RecordSuccess(ttft, tps)

Spec == Init /\ [][Next]_vars

----------------------------------------------------------------------------
Latest == LET n == Len(history)
          IN  SubSeq(history, IF n > WindowSize THEN n - WindowSize + 1 ELSE 1, n)
Occurrences(s, v) == Cardinality({k \in DOMAIN s : s[k] = v})

\* Across the wrap-around the window holds the latest WindowSize values and
\* nothing else (endpoint.go:102-110).
WindowHoldsLatest ==
  /\ ttfts.count = Len(Latest)
  /\ \A v \in Values \cup {0} : Occurrences(Held(ttfts), v) = Occurrences(Latest, v)

\* The percentile is a value of the window, at least 99 in 100 values are not
\* above it, and no smaller value of the window has that property, for every
\* filling of the window (endpoint.go:112-126).
PercentileOfLatest ==
  ttfts.count > 0 =>
    LET notAbove(v) == Cardinality({k \in DOMAIN Latest : Latest[k] <= v})
        enough(v)   == 100 * notAbove(v) >= 99 * Len(Latest)
    IN  /\ Occurrences(Latest, P99(ttfts)) > 0 /\ enough(P99(ttfts))
        /\ \A k \in DOMAIN Latest : enough(Latest[k]) => P99(ttfts) <= Latest[k]

\* "New endpoints with no data score at a neutral 0.5" (endpoint.go:195).
NeutralScore == (ttfts.count = 0 /\ errors.count = 0) => Score = 50

\* "TTFT P50/P99" (docs/router.md:11): half of the values lie on either side
\* of what the endpoint reports as P50, which is its mean.
P50IsMedian ==
  LET n == ttfts.count
      below == Cardinality({k \in DOMAIN Held(ttfts) : Held(ttfts)[k] * n <= Total(ttfts)})
      above == Cardinality({k \in DOMAIN Held(ttfts) : Held(ttfts)[k] * n >= Total(ttfts)})
  IN  2 * below >= n /\ 2 * above >= n
=============================================================================
