----------------------------- MODULE CurveTrace -----------------------------
(***************************************************************************)
(* The score of a curve trace (challenge/curve_trace.rs): how near the     *)
(* issued curve it is, and how well it follows it.  The kinematic scores,  *)
(* sums of the trace alone, are left out.                                  *)
(*                                                                         *)
(* Points lie on a line and have whole coordinates, so that distances are  *)
(* whole and medians, kept doubled, are too; a curve on a line comes back  *)
(* over itself, as the issued one does.  A Junk coordinate stands for all  *)
(* that are not finite or out of the envelope.                             *)
(***************************************************************************)
EXTENDS Integers, Sequences, FiniteSets

CONSTANTS
  Curve,        \* reference_points: the curve at the origin
  Anchors,      \* ANCHORS
  Band,         \* PROXIMITY_BAND
  Windows,      \* ALIGNMENT_WINDOW_SWEEP
  Stride,       \* ALIGNMENT_START_STRIDE
  MaxPoints,    \* MAX_CURVE_TRACE_POINTS
  MaxAligned,   \* ALIGNMENT_MAX_POINTS
  Junk,
  Outlines,     \* the outlines that are sent
  Issued        \* the anchors that are issued

VARIABLES
  outline,      \* the points of the request
  anchor,       \* of the issued curve
  report        \* CurveTraceReport

traceVars == <<outline, anchor, report>>

Infinity == 1000000
Points == Len(Curve)

Abs(x) == IF x < 0 THEN -x ELSE x

\* Nothing in the envelope is as far as Infinity.
CurveAssumption ==
  /\ Curve \in Seq(Int) /\ Curve # <<>> /\ Anchors \in Seq(Int) /\ Anchors # <<>>
  /\ Windows \in Seq(Nat) /\ Stride \in Nat \ {0}
  /\ MaxPoints \in Nat /\ MaxAligned \in Nat /\ MaxAligned > 1
  /\ Issued \subseteq Int
  /\ \A points \in Outlines :
       /\ points \in Seq(Int \cup {Junk})
       /\ \A i \in DOMAIN points, j \in DOMAIN Curve, a \in Issued :
            points[i] # Junk => 2 * Abs(points[i] - a - Curve[j]) < Infinity

------------------------------------------------------------------------------
(***************************************************************************)
(* The median.                                                             *)
(***************************************************************************)
Below(s, v) == Cardinality({i \in DOMAIN s : s[i] < v})
Above(s, v) == Cardinality({i \in DOMAIN s : s[i] > v})

\* select_nth_unstable_by, k from one.
Nth(s, k) ==
  CHOOSE v \in {s[i] : i \in DOMAIN s} : Below(s, v) < k /\ Above(s, v) <= Len(s) - k

\* median, doubled.
TwiceMedian(s) ==
  LET mid == Len(s) \div 2
  IN  IF s = <<>> THEN Infinity
      ELSE IF Len(s) % 2 = 1 THEN 2 * Nth(s, mid + 1)
      ELSE Nth(s, mid) + Nth(s, mid + 1)

------------------------------------------------------------------------------
(***************************************************************************)
(* The trace, and how near it is.                                          *)
(***************************************************************************)
\* sanitize_trace: the cap before the filter.
Sanitized(points) ==
  LET count == IF Len(points) < MaxPoints THEN Len(points) ELSE MaxPoints
      kept[i \in 0 .. count] ==
        IF i = 0 THEN <<>>
        ELSE IF points[i] = Junk THEN kept[i - 1]
        ELSE Append(kept[i - 1], points[i])
  IN  kept[count]

Moved(trace, by) == [i \in DOMAIN trace |-> trace[i] - by]

\* nearest_distance.
Nearest(p) ==
  CHOOSE d \in {Abs(p - Curve[j]) : j \in 1 .. Points} :
    \A j \in 1 .. Points : d <= Abs(p - Curve[j])

\* fraction_at, as the number of points in the band.
ScoresAt(trace, at) ==
  LET dists == [i \in DOMAIN trace |-> Nearest(trace[i] - at)]
  IN  [inBand |-> Len(trace) - Above(dists, Band), median |-> TwiceMedian(dists)]

Better(s, t) ==
  s.inBand > t.inBand \/ (s.inBand = t.inBand /\ s.median < t.median)

\* score_region: the best of the anchors in their order, and the issued one,
\* which need not be one of them.
Region(trace, issued) ==
  LET score(k) == ScoresAt(trace, Anchors[k])
      best[k \in 1 .. Len(Anchors)] ==
        IF k = 1 THEN score(1)
        ELSE IF Better(score(k), best[k - 1]) THEN score(k)
        ELSE best[k - 1]
  IN  [best |-> best[Len(Anchors)], issued |-> ScoresAt(trace, issued)]

------------------------------------------------------------------------------
(***************************************************************************)
(* The alignment.                                                          *)
(***************************************************************************)
\* subsample_for_alignment.
Subsampled(trace) ==
  IF Len(trace) <= MaxAligned THEN trace
  ELSE [i \in 1 .. MaxAligned |->
          trace[(((i - 1) * (Len(trace) - 1)) \div (MaxAligned - 1)) + 1]]

\* The reference at a cursor, which wraps.
At(cursor) == Curve[(cursor % Points) + 1]

\* The first of the nearest references within the window.
Reach(p, cursor, dir, window) ==
  LET d(step) == Abs(p - At(cursor + dir * step))
  IN  CHOOSE step \in 0 .. window :
        \A other \in 0 .. window :
          d(step) < d(other) \/ (d(step) = d(other) /\ step <= other)

\* The cursor as it walks from `start`, and what each point is charged.
Cursors(trace, start, dir, window) ==
  LET cursor[i \in 0 .. Len(trace)] ==
        IF i = 0 THEN start
        ELSE (cursor[i - 1] + dir * Reach(trace[i], cursor[i - 1], dir, window)) % Points
  IN  cursor

Residuals(trace, start, dir, window) ==
  [i \in DOMAIN trace |-> Abs(trace[i] - At(Cursors(trace, start, dir, window)[i]))]

\* The starts, each in both directions.
Candidates ==
  [k \in 1 .. 2 * (((Points - 1) \div Stride) + 1) |->
     [start |-> Stride * ((k - 1) \div 2), dir |-> IF k % 2 = 1 THEN 1 ELSE -1]]

\* Mutant of Abandons: half the points are enough.
AbandonsAtHalf(residuals, best) ==
  Cardinality({i \in DOMAIN residuals : 2 * residuals[i] > best}) >= Len(residuals) \div 2

\* More than half the points are over the best median: the rest of the pass is
\* left out.
Abandons(residuals, best) ==
  Cardinality({i \in DOMAIN residuals : 2 * residuals[i] > best}) > Len(residuals) \div 2

\* alignment_residual.
Alignment(trace, window) ==
  LET try(best, c) ==
        LET residuals == Residuals(trace, c.start, c.dir, window)
            median == TwiceMedian(residuals)
        IN  IF Abandons(residuals, best) \/ median >= best THEN best ELSE median
      best[k \in 0 .. Len(Candidates)] ==
        IF k = 0 THEN Infinity ELSE try(best[k - 1], Candidates[k])
  IN  IF trace = <<>> THEN Infinity ELSE best[Len(Candidates)]

NoReport == [best |-> [inBand |-> 0, median |-> Infinity],
             issued |-> [inBand |-> 0, median |-> Infinity],
             alignment |-> [k \in DOMAIN Windows |-> Infinity], count |-> 0]

\* score_curve_trace.
Scored(trace, issued) ==
  IF Len(trace) < 2 THEN [NoReport EXCEPT !.count = Len(trace)]
  ELSE LET region == Region(trace, issued)
           aligned == Moved(Subsampled(trace), issued)
       IN  [best |-> region.best, issued |-> region.issued,
            alignment |-> [k \in DOMAIN Windows |-> Alignment(aligned, Windows[k])],
            count |-> Len(trace)]

------------------------------------------------------------------------------
Init == outline = <<>> /\ anchor = 0 /\ report = NoReport

\* validate_features_handler, for a request with a trace whose challenge is
\* known.
Score ==
  /\ outline = <<>>
  /\ outline' \in Outlines /\ anchor' \in Issued
  /\ report' = Scored(Sanitized(outline'), anchor')

\* The report is logged, and that is all.
Forget == outline # <<>> /\ outline' = <<>> /\ anchor' = 0 /\ report' = NoReport

Next == Score \/ Forget

Spec == Init /\ [][Next]_traceVars

------------------------------------------------------------------------------
\* The least median of all passes, none of them left unfinished.
LeastMedian(trace, window) ==
  LET medians == {TwiceMedian(Residuals(trace, Candidates[k].start, Candidates[k].dir, window)) :
                    k \in DOMAIN Candidates}
  IN  CHOOSE m \in medians : \A n \in medians : m <= n

\* A pass left unfinished would not have lowered the residual: "exact for both
\* parities, not a heuristic" (curve_trace.rs).  And the scores agree with each
\* other: to follow the curve from the issued anchor costs no less than to be
\* near it, and no anchor beats the best one.
AbandonIsExact ==
  report.count >= 2 =>
    LET trace == Sanitized(outline)
        aligned == Moved(Subsampled(trace), anchor)
    IN  /\ \A k \in DOMAIN Windows :
             /\ report.alignment[k] = LeastMedian(aligned, Windows[k])
             /\ Len(trace) <= MaxAligned => report.alignment[k] >= report.issued.median
        /\ \A k \in DOMAIN Anchors : ~Better(ScoresAt(trace, Anchors[k]), report.best)
=============================================================================
