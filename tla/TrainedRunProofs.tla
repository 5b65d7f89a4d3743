--------------------------- MODULE TrainedRunProofs --------------------------
(***************************************************************************)
(* Proofs about a trained run: the plateau rule for any returns, interval,   *)
(* warm-up, patience and threshold and any crashes, and the formal           *)
(* evaluation for any number of runs, sources and service versions.          *)
(***************************************************************************)
EXTENDS EarlyStop, FormalEvaluation, FiniteSetTheorems, TLAPS

\* The evaluation epoch the plateau saw last.
LastEvaluated(r) == r.rows[Len(r.rows)].epoch

\* The number of misses bounds the epoch of the last evaluation from below.
MissesInv(r) ==
    /\ Len(r.rows) > 0 => LastEvaluated(r) <= r.epoch /\ Due(LastEvaluated(r))
    /\ r.plateau.misses > 0 =>
          /\ Len(r.rows) > 0
          /\ LastEvaluated(r) >=
                MinEpoch + 1 + (r.plateau.misses - 1) * EvalInterval
    /\ r.plateau.stopped =>
          r.plateau.stopEpoch >= MinEpoch + 1 + (Patience - 1) * EvalInterval

AnchorInv(p) ==
    /\ p.evaluations = 0 => ~p.anchored
    /\ ~p.anchored => p.evaluations = 0
    /\ p.anchored => p.anchor <= p.best /\ ~Improves(p.best, p.anchor)

\* What the plateau counts, beside what it explains.
HistoryInv(r) ==
    /\ r.plateau.evaluations = Len(r.rows)
    /\ \A j \in 1..Len(r.rows) : r.rows[j].epoch <= r.epoch
    /\ Explained(r)

RunInv(r) ==
    /\ r \in Run
    /\ AnchorInv(r.plateau)
    /\ MissesInv(r)
    /\ HistoryInv(r)

IInv ==
    /\ RunInv(run)
    /\ RunInv(saved)
    /\ pending \in BOOLEAN

LEMMA ThresholdFacts ==
    ASSUME NEW a \in Int
    PROVE  Threshold(a) \in Int /\ Threshold(a) >= 0
<1>1. (IF Magnitude(a) > Unit THEN Magnitude(a) ELSE Unit) \in Nat
  BY PlateauAssumption DEF Magnitude
<1>2. \A x, y \in Nat : x * y \in Nat
  OBVIOUS
<1> QED
  BY <1>1, <1>2, PlateauAssumption DEF Threshold

LEMMA Monotone ==
    ASSUME NEW a \in Nat, NEW b \in Nat, NEW c \in Nat, a >= b
    PROVE  a * c >= b * c
BY Z3

LEMMA NotAbove ==
    ASSUME NEW a \in Nat, NEW b \in Nat, NEW c \in Nat, a <= b, b <= c
    PROVE  ~(a > c)
OBVIOUS

LEMMA BelowIsAtMost ==
    ASSUME NEW a \in Int, NEW b \in Int, a < b
    PROVE  a <= b
OBVIOUS

LEMMA LastEvaluatedType ==
    ASSUME NEW r \in Run, Len(r.rows) > 0
    PROVE  LastEvaluated(r) \in Nat
<1>1. r.rows \in Seq(Evaluation)
  BY DEF Run
<1>2. r.rows[Len(r.rows)] \in Evaluation
  BY <1>1
<1> QED
  BY <1>2 DEF LastEvaluated, Evaluation

\* Two distinct evaluation epochs are at least an interval apart.
LEMMA DueApart ==
    ASSUME NEW a \in Nat, NEW b \in Nat, Due(a), Due(b), a < b
    PROVE  b >= a + EvalInterval
<1> DEFINE I == EvalInterval
           qa == a \div I
           qb == b \div I
<1>1. I \in Nat /\ I > 0
  BY EarlyStopAssumption
<1>2. qa \in Int /\ a = I * qa
  BY <1>1, Z3 DEF Due
<1>3. qb \in Int /\ b = I * qb
  BY <1>1, Z3 DEF Due
<1> HIDE DEF I, qa, qb
<1>4. qa < qb
  BY <1>1, <1>2, <1>3, Z3
<1>5. I * qb >= I * (qa + 1)
  BY <1>1, <1>2, <1>3, <1>4, Z3
<1>6. I * (qa + 1) = I * qa + I
  BY <1>1, <1>2, Z3
<1> QED
  BY <1>1, <1>2, <1>3, <1>5, <1>6 DEF I

\* One evaluation preserves the relation of anchor and best.
LEMMA UpdateAnchor ==
    ASSUME NEW p \in Plateau, NEW epoch \in Nat, NEW score \in Int, AnchorInv(p)
    PROVE  /\ Update(p, epoch, score) \in Plateau
           /\ AnchorInv(Update(p, epoch, score))
<1> DEFINE q == Update(p, epoch, score)
<1>1. q \in Plateau
  BY DEF Update, Plateau, Misses
<1>2. CASE Meaningful(p, score)
  <2>1. q.anchor = score /\ q.anchored /\ q.evaluations # 0
    BY <1>2 DEF Update, Plateau
  <2>2. q.best = score
    <3>1. CASE p.anchored
      <4>1. Improves(score, p.anchor) /\ ~Improves(p.best, p.anchor)
        BY <1>2, <3>1 DEF Meaningful, AnchorInv
      <4>2. score > p.best
        BY <4>1, ThresholdFacts DEF Improves, Plateau
      <4> QED
        BY <4>2 DEF Update, ActualBest
    <3>2. CASE ~p.anchored
      BY <3>2 DEF AnchorInv, Update, ActualBest
    <3> QED
      BY <3>1, <3>2
  <2>3. ~Improves(score, score)
    <3>1. Threshold(score) \in Int /\ Threshold(score) >= 0
      BY ThresholdFacts
    <3>2. 100 * (score - score) = 0
      BY Z3
    <3> QED
      BY <3>1, <3>2 DEF Improves
  <2>4. AnchorInv(q)
    <3> HIDE DEF q
    <3>1. score <= score
      OBVIOUS
    <3> QED
      BY <2>1, <2>2, <2>3, <3>1 DEF AnchorInv
  <2> QED
    BY <1>1, <2>4
<1>3. CASE ~Meaningful(p, score)
  <2>1. p.anchored /\ p.anchor <= p.best /\ ~Improves(p.best, p.anchor)
        /\ ~Improves(score, p.anchor)
    BY <1>3 DEF Meaningful, AnchorInv
  <2>2. q.anchor = p.anchor /\ q.anchored /\ q.evaluations # 0
    BY <1>3 DEF Update, Plateau
  <2>3. q.best = IF ActualBest(p, score) THEN score ELSE p.best
    BY DEF Update
  <2>4. ActualBest(p, score) => score > p.best
    <3>1. p.evaluations # 0
      BY <2>1, Zenon DEF AnchorInv
    <3> QED
      BY <3>1 DEF ActualBest
  <2>5. q.anchor <= q.best /\ ~Improves(q.best, q.anchor)
    <3> HIDE DEF q
    <3>1. p.anchor \in Int /\ p.best \in Int
      BY DEF Plateau
    <3>2. CASE ActualBest(p, score)
      BY <2>1, <2>2, <2>3, <2>4, <3>1, <3>2
    <3>3. CASE ~ActualBest(p, score)
      BY <2>1, <2>2, <2>3, <3>3
    <3> QED
      BY <3>2, <3>3
  <2>6. AnchorInv(q)
    <3> HIDE DEF q
    <3> QED
      BY <2>2, <2>5 DEF AnchorInv
  <2> QED
    BY <1>1, <2>6
<1> QED
  BY <1>1, <1>2, <1>3

\* The rows after an evaluation.
LEMMA RowsAfter ==
    ASSUME NEW r \in Run, NEW row \in Evaluation,
           NEW rows, rows = Append(r.rows, row)
    PROVE  /\ Len(r.rows) \in Nat
           /\ Len(rows) = Len(r.rows) + 1
           /\ rows \in Seq(Evaluation)
           /\ rows[Len(r.rows) + 1] = row
           /\ \A j \in 1..Len(r.rows) :
                 rows[j] = r.rows[j] /\ rows[j] \in Evaluation
<1>1. r.rows \in Seq(Evaluation)
  BY DEF Run
<1> QED
  BY <1>1

\* A meaningful return becomes the anchor, with no miss after it.
LEMMA NewAnchor ==
    ASSUME NEW r \in Run, RunInv(r), NEW score \in Int, ~r.plateau.stopped,
           Meaningful(r.plateau, score),
           NEW s, s = [epoch   |-> r.epoch + 1,
                       plateau |-> Update(r.plateau, r.epoch + 1, score),
                       rows    |-> Append(r.rows, [epoch |-> r.epoch + 1,
                                                   score |-> score])]
    PROVE  AnchorIs(s, Len(r.rows) + 1)
<1> DEFINE p == r.plateau
           q == s.plateau
           n == Len(r.rows)
<1>1. /\ r.epoch \in Nat
      /\ p \in Plateau
      /\ AnchorInv(p)
      /\ HistoryInv(r)
  BY DEF Run, RunInv
<1>2. [epoch |-> r.epoch + 1, score |-> score] \in Evaluation
  BY <1>1 DEF Evaluation
<1>3. /\ n \in Nat
      /\ Len(s.rows) = n + 1
      /\ s.rows[n + 1] = [epoch |-> r.epoch + 1, score |-> score]
      /\ \A j \in 1..n : s.rows[j] = r.rows[j] /\ s.rows[j] \in Evaluation
  <2>1. s.rows = Append(r.rows, [epoch |-> r.epoch + 1, score |-> score])
    OBVIOUS
  <2> QED
    BY <1>2, <2>1, RowsAfter
<1>4. q.anchor = score /\ q.misses = 0 /\ ~q.stopped
  BY <1>1, PlateauAssumption DEF Update, Misses, Plateau
<1>5. ASSUME NEW j \in 1..n
      PROVE  r.rows[j].score < score
  <2>0. n > 0 /\ p.evaluations # 0
    BY <1>1, <1>3 DEF HistoryInv
  <2>1. PICK b \in 1..n : BestIs(r, b)
    BY <1>1, <2>0 DEF HistoryInv, Explained
  <2>2. r.rows[j].score <= p.best
    BY <2>1 DEF BestIs
  <2>3. p.anchored
    BY <1>1, <2>0, Zenon DEF AnchorInv
  <2>4. Improves(score, p.anchor) /\ ~Improves(p.best, p.anchor)
    BY <1>1, <2>3 DEF Meaningful, AnchorInv
  <2>5. p.best < score
    <3>1. p.anchor \in Int /\ p.best \in Int
      BY <1>1 DEF Plateau
    <3>2. Threshold(p.anchor) \in Int
      BY <3>1, ThresholdFacts
    <3> HIDE DEF p
    <3> QED
      BY <2>4, <3>1, <3>2 DEF Improves
  <2>6. r.rows[j].score \in Int
    BY <1>3 DEF Evaluation
  <2> QED
    BY SMTT(30), <1>1, <2>2, <2>5, <2>6 DEF Plateau
<1>6. Since(s, n + 1) = {}
  BY <1>3 DEF Since
<1>7. Cardinality(Since(s, n + 1)) = 0
  BY <1>6, FS_EmptySet
<1>8. \A j \in 1..n : s.rows[j].score < q.anchor
  BY <1>3, <1>4, <1>5
<1>9. (n + 1) - 1 = n /\ (n + 1) + 1 .. n + 1 = {}
  BY <1>3
<1>10. s.rows[n + 1].score = q.anchor
  BY <1>3, <1>4
<1>11. ~(0 >= Patience)
  BY PlateauAssumption
<1> HIDE DEF n
<1> QED
  BY <1>3, <1>4, <1>7, <1>8, <1>9, <1>10, <1>11 DEF AnchorIs

\* Any other return leaves the anchor where it was, and is a miss after the warm-up.
LEMMA SameAnchor ==
    ASSUME NEW r \in Run, RunInv(r), NEW score \in Int, ~r.plateau.stopped,
           ~Meaningful(r.plateau, score),
           NEW s, s = [epoch   |-> r.epoch + 1,
                       plateau |-> Update(r.plateau, r.epoch + 1, score),
                       rows    |-> Append(r.rows, [epoch |-> r.epoch + 1,
                                                   score |-> score])],
           NEW k \in 1..Len(r.rows), AnchorIs(r, k)
    PROVE  AnchorIs(s, k)
<1> DEFINE p == r.plateau
           q == s.plateau
           n == Len(r.rows)
           e == r.epoch + 1
<1>1. /\ r.epoch \in Nat /\ e \in Nat
      /\ p \in Plateau
      /\ HistoryInv(r)
  BY DEF Run, RunInv
<1>2. [epoch |-> e, score |-> score] \in Evaluation
  BY <1>1 DEF Evaluation
<1>3. /\ n \in Nat
      /\ Len(s.rows) = n + 1
      /\ s.rows[n + 1] = [epoch |-> e, score |-> score]
      /\ \A j \in 1..n : s.rows[j] = r.rows[j] /\ s.rows[j] \in Evaluation
  <2>1. s.rows = Append(r.rows, [epoch |-> e, score |-> score])
    OBVIOUS
  <2> QED
    BY <1>2, <2>1, RowsAfter
<1>4. q.anchor = p.anchor /\ ~Improves(score, q.anchor)
  BY DEF Update, Meaningful
<1>5. q.misses = IF e > MinEpoch THEN p.misses + 1 ELSE 0
  BY DEF Update, Misses, PatienceActive
<1>6. q.stopped <=> e > MinEpoch /\ q.misses >= Patience
  BY <1>1 DEF Update, PatienceActive, Plateau
<1>7. \A j \in 1..n : s.rows[j].epoch \in Nat /\ s.rows[j].epoch <= r.epoch
  BY <1>3 , <1>1 DEF HistoryInv, Evaluation
<1>8. /\ r.rows[k].score = p.anchor
      /\ \A j \in 1..k-1 : r.rows[j].score < p.anchor
      /\ \A j \in k+1..n : ~Improves(r.rows[j].score, p.anchor)
      /\ p.misses = Cardinality(Since(r, k))
  BY DEF AnchorIs
<1>9. k \in Nat /\ k >= 1 /\ k <= n /\ n \in Nat
  BY <1>3
<1> HIDE DEF n, q, p, e
<1>10. s.rows[k].score = q.anchor
  BY <1>3, <1>4, <1>8 DEF n
<1>11. \A j \in 1..k-1 : s.rows[j].score < q.anchor
  <2>1. \A j \in 1..k-1 : j \in 1..n
    BY <1>3, <1>9
  <2> QED
    BY <1>3, <1>4, <1>8, <2>1
<1>12. \A j \in k+1..n+1 : ~Improves(s.rows[j].score, q.anchor)
  <2>1. \A j \in k+1..n+1 : j = n + 1 \/ (j \in k+1..n /\ j \in 1..n)
    BY <1>9
  <2> QED
    BY <1>3, <1>4, <1>8, <2>1
<1>13. Cardinality(Since(s, k)) = q.misses
  <2>1. IsFiniteSet(Since(r, k))
    <3>1. IsFiniteSet(k+1..n)
      BY <1>3, <1>9, FS_Interval
    <3>2. Since(r, k) \subseteq k+1..n
      BY DEF Since, n
    <3> QED
      BY <3>1, <3>2, FS_Subset
  <2>2. CASE e > MinEpoch
    <3>1. Since(s, k) = Since(r, k) \cup {n + 1}
      <4>1. ASSUME NEW j
            PROVE  j \in Since(s, k) <=> j \in Since(r, k) \cup {n + 1}
        <5>1. Since(s, k) = {i \in k+1..n+1 : s.rows[i].epoch > MinEpoch}
          BY <1>3 DEF Since
        <5>2. Since(r, k) = {i \in k+1..n : r.rows[i].epoch > MinEpoch}
          BY DEF Since, n
        <5>3. j \in k+1..n+1 <=> j \in k+1..n \/ j = n + 1
          BY <1>3, <1>9
        <5>4. j \in k+1..n => s.rows[j] = r.rows[j]
          BY <1>3, <1>9
        <5>5. s.rows[n + 1].epoch > MinEpoch
          BY <1>3, <2>2
        <5>6. n + 1 \notin k+1..n
          BY <1>3
        <5> QED
          BY <5>1, <5>2, <5>3, <5>4, <5>5, <5>6
      <4> QED
        BY <4>1
    <3>2. n + 1 \notin Since(r, k)
      <4>1. n + 1 \notin k+1..n
        BY <1>3
      <4> QED
        BY <4>1 DEF Since, n
    <3>3. Cardinality(Since(s, k)) = Cardinality(Since(r, k)) + 1
      BY <2>1, <3>1, <3>2, FS_AddElement
    <3> QED
      BY <1>5, <1>8, <2>2, <3>3
  <2>3. CASE ~(e > MinEpoch)
    <3>1. \A j \in k+1..n+1 : ~(s.rows[j].epoch > MinEpoch)
      <4>1. \A j \in k+1..n+1 : j = n + 1 \/ j \in 1..n
        BY <1>3, <1>9
      <4>2. s.rows[n + 1].epoch = e
        BY <1>3
      <4>3. ASSUME NEW j \in 1..n PROVE ~(s.rows[j].epoch > MinEpoch)
        <5>1. s.rows[j].epoch \in Nat /\ s.rows[j].epoch <= r.epoch
          BY <1>7, <4>3
        <5>2. r.epoch <= MinEpoch /\ MinEpoch \in Nat
          BY <1>1, <2>3, PlateauAssumption DEF e
        <5> HIDE DEF e
        <5> QED
          BY <1>1, <5>1, <5>2, NotAbove
      <4> QED
        BY <2>3, <4>1, <4>2, <4>3
    <3>2. Since(s, k) = {}
      BY <1>3, <3>1 DEF Since
    <3> QED
      BY <1>5, <2>3, <3>2, FS_EmptySet
  <2> QED
    BY <2>2, <2>3
<1>14. q.stopped <=> Cardinality(Since(s, k)) >= Patience
  <2>1. ~(e > MinEpoch) => ~(q.misses >= Patience)
    BY <1>5, PlateauAssumption
  <2> QED
    BY <1>6, <1>13, <2>1
<1> QED
  BY <1>3, <1>10, <1>11, <1>12, <1>13, <1>14 DEF AnchorIs, q

\* The best return is the highest of the rows after an evaluation, too.
LEMMA StillBest ==
    ASSUME NEW r \in Run, RunInv(r), NEW score \in Int,
           NEW s, s = [epoch   |-> r.epoch + 1,
                       plateau |-> Update(r.plateau, r.epoch + 1, score),
                       rows    |-> Append(r.rows, [epoch |-> r.epoch + 1,
                                                   score |-> score])]
    PROVE  \E b \in 1..Len(s.rows) : BestIs(s, b)
<1> DEFINE p == r.plateau
           q == s.plateau
           n == Len(r.rows)
           e == r.epoch + 1
<1>1. /\ e \in Nat
      /\ p \in Plateau
      /\ HistoryInv(r)
  BY DEF Run, RunInv
<1>2. [epoch |-> e, score |-> score] \in Evaluation
  BY <1>1 DEF Evaluation
<1>3. /\ n \in Nat
      /\ Len(s.rows) = n + 1
      /\ s.rows[n + 1] = [epoch |-> e, score |-> score]
      /\ \A j \in 1..n : s.rows[j] = r.rows[j] /\ s.rows[j] \in Evaluation
  <2>1. s.rows = Append(r.rows, [epoch |-> e, score |-> score])
    OBVIOUS
  <2> QED
    BY SMTT(30), <1>2, <2>1, RowsAfter
<1>4. \A j \in 1..n+1 : j = n + 1 \/ j \in 1..n
  BY <1>3
<1>5. \A j \in 1..n : s.rows[j].score \in Int
  BY <1>3 DEF Evaluation
<1>6. CASE ActualBest(p, score)
  <2>1. q.best = score /\ q.bestEpoch = e
    BY <1>6 DEF Update
  <2>2. ASSUME NEW j \in 1..n
        PROVE  s.rows[j].score < score
    <3>1. PICK b \in 1..n : BestIs(r, b)
      BY <1>1, <1>3, <2>2 DEF HistoryInv, Explained
    <3>2. r.rows[j].score <= p.best
      BY <3>1 DEF BestIs
    <3>3. p.evaluations # 0
      BY <1>1, <1>3 DEF HistoryInv
    <3>4. score > p.best /\ p.best \in Int
      BY <1>1, <1>6, <3>3 DEF ActualBest, Plateau
    <3> QED
      BY <1>3, <1>5, <3>2, <3>4
  <2> HIDE DEF n, q, e
  <2>3. BestIs(s, n + 1)
    <3>1. s.rows[n + 1] = [epoch |-> q.bestEpoch, score |-> q.best]
      BY <1>3, <2>1
    <3>2. ASSUME NEW j \in 1..n+1
          PROVE  s.rows[j].score <= q.best
                 /\ (j < n + 1 => s.rows[j].score < q.best)
      <4>1. CASE j = n + 1
        BY <1>3, <2>1, <4>1
      <4>2. CASE j \in 1..n
        <5>1. s.rows[j].score < score /\ s.rows[j].score \in Int
          BY <1>5, <2>2, <4>2
        <5>2. score <= score /\ j \in 1..n
          BY <4>2
        <5>3. s.rows[j].score <= score
          BY <5>1, BelowIsAtMost
        <5> QED
          BY <2>1, <5>1, <5>3
      <4> QED
        BY <1>4, <4>1, <4>2
    <3> QED
      BY <1>3, <3>1, <3>2 DEF BestIs, q
  <2> QED
    BY <1>3, <2>3
<1>7. CASE ~ActualBest(p, score)
  <2>1. q.best = p.best /\ q.bestEpoch = p.bestEpoch
    BY <1>7 DEF Update
  <2>2. score <= p.best /\ p.evaluations # 0 /\ p.best \in Int
    BY <1>1, <1>7 DEF ActualBest, Plateau
  <2>3. PICK b \in 1..n : BestIs(r, b)
    BY <1>1, <1>3, <2>2 DEF HistoryInv, Explained
  <2>4. b \in 1..n+1 /\ b < n + 1 /\ b \in Nat
    BY <1>3
  <2> HIDE DEF n, q, e
  <2>5. s.rows[b] = [epoch |-> q.bestEpoch, score |-> q.best]
    BY <1>3, <2>1, <2>3 DEF BestIs
  <2>6. ASSUME NEW j \in 1..n+1
        PROVE  s.rows[j].score <= q.best
               /\ (j < b => s.rows[j].score < q.best)
    <3>1. CASE j = n + 1
      BY <1>3, <2>1, <2>2, <2>4, <3>1
    <3>2. CASE j \in 1..n
      <4>1. r.rows[j].score <= p.best /\ (j < b => r.rows[j].score < p.best)
        BY <2>3, <3>2 DEF BestIs, n
      <4> QED
        BY <1>3, <2>1, <3>2, <4>1
    <3> QED
      BY <1>4, <3>1, <3>2
  <2>7. BestIs(s, b)
    BY <1>3, <2>5, <2>6 DEF BestIs, q
  <2> QED
    BY <1>3, <2>4, <2>7
<1> QED
  BY <1>6, <1>7

\* One evaluation of a run that has not stopped leaves the plateau explained.
LEMMA EvaluateHistory ==
    ASSUME NEW r \in Run, RunInv(r), NEW score \in Int, ~r.plateau.stopped,
           NEW s, s = [epoch   |-> r.epoch + 1,
                       plateau |-> Update(r.plateau, r.epoch + 1, score),
                       rows    |-> Append(r.rows, [epoch |-> r.epoch + 1,
                                                   score |-> score])]
    PROVE  HistoryInv(s)
<1> DEFINE p == r.plateau
           n == Len(r.rows)
<1>1. /\ r.epoch \in Nat
      /\ p \in Plateau
      /\ AnchorInv(p)
      /\ HistoryInv(r)
  BY DEF Run, RunInv
<1>2. [epoch |-> r.epoch + 1, score |-> score] \in Evaluation
  BY <1>1 DEF Evaluation
<1>3. /\ n \in Nat
      /\ Len(s.rows) = n + 1
      /\ s.rows[n + 1] = [epoch |-> r.epoch + 1, score |-> score]
      /\ \A j \in 1..n : s.rows[j] = r.rows[j] /\ s.rows[j] \in Evaluation
      /\ s.epoch = r.epoch + 1
  <2>1. s.rows = Append(r.rows, [epoch |-> r.epoch + 1, score |-> score])
    OBVIOUS
  <2> QED
    BY <1>2, <2>1, RowsAfter
<1>4. s.plateau.evaluations = Len(s.rows)
  BY <1>1, <1>3 DEF HistoryInv, Update
<1>5. ASSUME NEW j \in 1..Len(s.rows)
      PROVE  s.rows[j].epoch <= s.epoch
  <2>1. CASE j = n + 1
    BY <1>1, <1>3, <2>1
  <2>2. CASE j \in 1..n
    <3>1. r.rows[j].epoch <= r.epoch /\ r.rows[j].epoch \in Nat
      BY <1>1, <1>3, <2>2 DEF HistoryInv, Evaluation
    <3> QED
      BY <1>1, <1>3, <2>2, <3>1
  <2> QED
    BY <1>3, <2>1, <2>2
<1>6. \E k \in 1..Len(s.rows) : AnchorIs(s, k)
  <2>1. CASE Meaningful(p, score)
    BY <1>3, <2>1, NewAnchor
  <2>2. CASE ~Meaningful(p, score)
    <3>0. p.evaluations # 0
      BY <1>1, <2>2, Zenon DEF AnchorInv, Meaningful
    <3>1. n > 0
      BY <1>1, <1>3, <3>0 DEF HistoryInv
    <3>2. PICK k \in 1..n : AnchorIs(r, k)
      BY <1>1, <3>1 DEF HistoryInv, Explained
    <3>3. AnchorIs(s, k)
      BY <2>2, <3>2, SameAnchor
    <3> QED
      BY <1>3, <3>3
  <2> QED
    BY <2>1, <2>2
<1>7. \E b \in 1..Len(s.rows) : BestIs(s, b)
  BY StillBest
<1>8. Explained(s)
  BY <1>6, <1>7 DEF Explained
<1> QED
  BY <1>4, <1>5, <1>8 DEF HistoryInv

\* One evaluation of a run that has not stopped preserves the bound on misses.
LEMMA EvaluateRun ==
    ASSUME NEW r \in Run, RunInv(r), NEW score \in Int, Due(r.epoch + 1),
           ~r.plateau.stopped,
           NEW s, s = [epoch   |-> r.epoch + 1,
                       plateau |-> Update(r.plateau, r.epoch + 1, score),
                       rows    |-> Append(r.rows, [epoch |-> r.epoch + 1,
                                                   score |-> score])]
    PROVE  RunInv(s)
<1> DEFINE p == r.plateau
           q == s.plateau
           e == r.epoch + 1
<1>1. /\ r.epoch \in Nat /\ e \in Nat /\ e > 0
      /\ p \in Plateau
      /\ r.rows \in Seq(Evaluation)
      /\ AnchorInv(p)
  BY DEF Run, RunInv
<1>2. q = Update(p, e, score) /\ s.epoch = e
  OBVIOUS
<1>3. q \in Plateau /\ AnchorInv(q)
  BY <1>1, <1>2, UpdateAnchor
<1>4. [epoch |-> e, score |-> score] \in Evaluation
  BY <1>1 DEF Evaluation
<1>5. s.rows \in Seq(Evaluation) /\ Len(s.rows) = Len(r.rows) + 1 /\ Len(r.rows) \in Nat
  BY <1>1, <1>4
<1>6. s \in Run
  BY <1>1, <1>2, <1>3, <1>5 DEF Run
<1>7. LastEvaluated(s) = e
  BY <1>1, <1>4, <1>5 DEF LastEvaluated
<1>8. q.misses > 0 => e >= MinEpoch + 1 + (q.misses - 1) * EvalInterval
  <2>1. ASSUME q.misses > 0
        PROVE  q.misses = p.misses + 1 /\ e > MinEpoch
    BY <1>2, <2>1 DEF Update, Misses, PatienceActive
  <2>2. CASE p.misses = 0
    BY <1>1, <2>1, <2>2, PlateauAssumption, EarlyStopAssumption DEF Plateau
  <2>3. CASE p.misses > 0
    <3>1. /\ Len(r.rows) > 0
          /\ LastEvaluated(r) >= MinEpoch + 1 + (p.misses - 1) * EvalInterval
          /\ LastEvaluated(r) <= r.epoch
          /\ Due(LastEvaluated(r))
      BY <2>3 DEF RunInv, MissesInv
    <3>2. LastEvaluated(r) \in Nat
      BY <3>1, LastEvaluatedType
    <3>3. e >= LastEvaluated(r) + EvalInterval
      BY <1>1, <3>1, <3>2, DueApart
    <3>4. p.misses * EvalInterval = (p.misses - 1) * EvalInterval + EvalInterval
      BY <1>1, EarlyStopAssumption, Z3 DEF Plateau
    <3>5. (p.misses - 1) * EvalInterval \in Int
      BY <1>1, EarlyStopAssumption DEF Plateau
    <3> DEFINE base == (p.misses - 1) * EvalInterval
    <3>6. e >= MinEpoch + 1 + (base + EvalInterval)
      <4> HIDE DEF base
      <4> QED
        BY SMTT(30), <1>1, <3>1, <3>2, <3>3, <3>5, PlateauAssumption, EarlyStopAssumption
           DEF base
    <3> QED
      BY <1>1, <2>1, <3>4, <3>6 DEF Plateau
  <2> QED
    BY <1>1, <2>2, <2>3 DEF Plateau
<1>9. q.stopped => q.stopEpoch >= MinEpoch + 1 + (Patience - 1) * EvalInterval
  <2>1. SUFFICES ASSUME q.stopped
                 PROVE q.stopEpoch >= MinEpoch + 1 + (Patience - 1) * EvalInterval
    OBVIOUS
  <2>2. q.misses >= Patience /\ q.stopEpoch = e
    BY <1>2, <2>1 DEF Update
  <2>3. (q.misses - 1) * EvalInterval >= (Patience - 1) * EvalInterval
    <3>1. /\ q.misses - 1 \in Nat
          /\ Patience - 1 \in Nat
          /\ q.misses - 1 >= Patience - 1
      BY <1>3, <2>2, PlateauAssumption DEF Plateau
    <3> QED
      BY <3>1, EarlyStopAssumption, Monotone
  <2>4. (q.misses - 1) * EvalInterval \in Int /\ (Patience - 1) * EvalInterval \in Int
    BY <1>3, PlateauAssumption, EarlyStopAssumption DEF Plateau
  <2> QED
    BY <1>1, <1>3, <1>8, <2>2, <2>3, <2>4, PlateauAssumption DEF Plateau
<1>10. MissesInv(s)
  BY <1>1, <1>2, <1>5, <1>7, <1>8, <1>9 DEF MissesInv
<1>11. HistoryInv(s)
  BY EvaluateHistory
<1> QED
  BY <1>3, <1>6, <1>10, <1>11 DEF RunInv

LEMMA FreshRunInv == RunInv(FreshRun)
<1>1. FreshPlateau \in Plateau /\ AnchorInv(FreshPlateau)
  BY DEF FreshPlateau, Plateau, AnchorInv
<1>2. FreshRun \in Run
  BY <1>1 DEF FreshRun, Run
<1>3. MissesInv(FreshRun)
  BY DEF MissesInv, FreshRun, FreshPlateau
<1>4. HistoryInv(FreshRun)
  BY DEF HistoryInv, Explained, FreshRun, FreshPlateau
<1> QED
  BY <1>1, <1>2, <1>3, <1>4 DEF RunInv, FreshRun

LEMMA NextIInv ==
    ASSUME IInv, [PlateauNext]_plateauVars
    PROVE  IInv'
<1>1. CASE TrainEpoch
  <2>1. run.epoch \in Nat /\ run \in Run
    BY DEF IInv, RunInv, Run
  <2>2. /\ run'.epoch = run.epoch + 1
        /\ run'.plateau = run.plateau
        /\ run'.rows = run.rows
        /\ run' \in Run
    BY <1>1, <2>1 DEF TrainEpoch, Run
  <2>3. Len(run.rows) > 0 => LastEvaluated(run) \in Nat
    BY <2>1, LastEvaluatedType
  <2>4. MissesInv(run)'
    BY <2>1, <2>2, <2>3 DEF IInv, RunInv, MissesInv, LastEvaluated
  <2>5. HistoryInv(run)'
    <3>1. HistoryInv(run) /\ run.rows \in Seq(Evaluation)
      BY <2>1 DEF IInv, RunInv, Run
    <3>2. \A j \in 1..Len(run.rows) : run.rows[j] \in Evaluation
      BY <3>1
    <3>3. \A j \in 1..Len(run.rows) : run.rows[j].epoch \in Nat
      BY <3>2 DEF Evaluation
    <3>4. \A k \in 1..Len(run.rows) : AnchorIs(run, k) => AnchorIs(run', k)
      BY <2>2 DEF AnchorIs, Since
    <3>5. \A k \in 1..Len(run.rows) : BestIs(run, k) => BestIs(run', k)
      BY <2>2 DEF BestIs
    <3>6. Explained(run')
      BY <2>2, <3>1, <3>4, <3>5 DEF HistoryInv, Explained
    <3> QED
      BY <2>1, <2>2, <3>1, <3>3, <3>6 DEF HistoryInv
  <2>6. RunInv(run)'
    BY <2>2, <2>4, <2>5 DEF IInv, RunInv
  <2> QED
    BY <1>1, <2>6 DEF IInv, TrainEpoch
<1>2. CASE TrainAndEvaluate
  <2>1. PICK score \in Returns :
          run' = [epoch   |-> run.epoch + 1,
                  plateau |-> Update(run.plateau, run.epoch + 1, score),
                  rows    |-> Append(run.rows, [epoch |-> run.epoch + 1,
                                                score |-> score])]
    BY <1>2 DEF TrainAndEvaluate
  <2>2. score \in Int /\ run \in Run /\ RunInv(run)
    BY EarlyStopAssumption DEF IInv, RunInv
  <2>3. RunInv(run')
    BY <1>2, <2>1, <2>2, EvaluateRun DEF TrainAndEvaluate, MayTrain
  <2> QED
    BY <1>2, <2>3 DEF IInv, TrainAndEvaluate
<1>3. CASE Commit
  BY <1>3 DEF Commit, IInv
<1>4. CASE Resume
  BY <1>4 DEF Resume, FromDict, IInv
<1>5. CASE UNCHANGED plateauVars
  BY <1>5 DEF plateauVars, IInv
<1> QED
  BY <1>1, <1>2, <1>3, <1>4, <1>5 DEF PlateauNext

-----------------------------------------------------------------------------

THEOREM Invariance == PlateauSpec => []IInv
<1>1. PlateauInit => IInv
  BY FreshRunInv DEF PlateauInit, IInv
<1>2. IInv /\ [PlateauNext]_plateauVars => IInv'
  BY NextIInv
<1> QED
  BY <1>1, <1>2, PTL DEF PlateauSpec

\* The memory of the trainer and the checkpoint keep their types.
THEOREM TypeCorrect == PlateauSpec => []PlateauTypeOK
<1>1. IInv => PlateauTypeOK
  BY DEF IInv, RunInv, PlateauTypeOK
<1> QED
  BY <1>1, Invariance, PTL

\* However small improvements add up, the best return never exceeds the anchor by
\* more than the threshold.
THEOREM BestStaysNearAnchor == PlateauSpec => []BestNearAnchor
<1>1. IInv => BestNearAnchor
  BY DEF IInv, RunInv, AnchorInv, BestNearAnchor
<1> QED
  BY <1>1, Invariance, PTL

\* The plateau record kept from evaluation to evaluation says of all the rows what a
\* reading of them would: where the anchor is, what was missed since and whether
\* training has stopped, and which return was best, first reached when.
THEOREM PlateauIsExplained == PlateauSpec => []PlateauExplained
<1>1. IInv => PlateauExplained
  BY DEF IInv, RunInv, HistoryInv, PlateauExplained
<1> QED
  BY <1>1, Invariance, PTL

\* No run stops before Patience evaluations have followed the warm-up.
THEOREM NoEarlierStop == PlateauSpec => []EarliestStop
<1>1. IInv => EarliestStop
  BY DEF IInv, RunInv, MissesInv, EarliestStop
<1> QED
  BY <1>1, Invariance, PTL

-----------------------------------------------------------------------------
(* The formal evaluation. *)

Training == {"starting", "training", "marking"}

Evaluating ==
    {"copying", "exporting", "looking", "measured", "reporting", "returned"}

\* What the command of a run has done and what it knows.
StageInv(d, a, m) ==
    /\ a # "free" => d.identity # None /\ m.code \in Codes
    /\ a \in {"training", "marking"} => m.label \in Label
    /\ a = "marking" => d.stateBest # None
    /\ a \in Evaluating => m.label \in Label /\ d.manifest # None
    /\ a \in Evaluating \ {"copying"} => d.best # None /\ d.artifact = d.best
    /\ a \in Evaluating \ {"copying", "exporting"} => d.export = d.best
    /\ a = "measured" => m.served \in Versions
    /\ a = "reporting" => d.trajectory # None /\ d.trajectory.model = d.best
    /\ a = "returned" => d.metrics # None /\ d.metrics.model = d.best

\* What the files of a run say of each other between any two steps.
FilesInv(d) ==
    /\ d.epoch = 0 => ~d.stopped
    /\ d.epoch > 0 => d.stateBest # None
    /\ d.metrics # None =>
          /\ d.manifest # None
          /\ d.trajectory # None
          /\ d.metrics.rollout.number <= d.trajectory.number
          /\ d.metrics.rollout.model = d.metrics.model

RunOK(d, a, m) ==
    /\ d \in Files /\ a \in Stages /\ m \in Memory
    /\ StageInv(d, a, m)
    /\ FilesInv(d)

PoolInv ==
    /\ pool \in Aggregate
    /\ pool.at = "manifest" =>
          /\ pool.run \in Runs
          /\ pool.metrics \in Metrics
          /\ dir[pool.run].manifest # None
    /\ pool.at = "published" => Compatible(pool.rows)

EvaluationInv ==
    /\ source \in Codes
    /\ service \in Versions
    /\ dir \in [Runs -> Files]
    /\ at \in [Runs -> Stages]
    /\ mem \in [Runs -> Memory]
    /\ \A r \in Runs : RunOK(dir[r], at[r], mem[r])
    /\ PoolInv

\* A model that was trained by the code of the identity alone.
Owned(d, model) == model \in Model => d.epoch > 0 /\ model.codes = {d.identity.code}

\* Once a run has an epoch, its identity keeps its code, and everything on disk
\* was made by that code.
RunLabels(d, a, m) ==
    /\ d.epoch = 0 => d.codes = {}
    /\ d.epoch > 0 => d.identity # None /\ d.codes = {d.identity.code}
    /\ Owned(d, d.stateBest) /\ Owned(d, d.best)
    /\ Owned(d, d.artifact) /\ Owned(d, d.export)
    /\ d.manifest # None => d.epoch > 0
    /\ d.trajectory # None => d.epoch > 0 /\ d.trajectory.code = d.identity.code
    /\ d.metrics # None =>
          /\ d.epoch > 0
          /\ d.metrics.label.code = d.identity.code
          /\ d.metrics.model.codes = {d.identity.code}
          /\ d.metrics.rollout.code = d.identity.code
    /\ a # "free" => m.code = d.identity.code
    /\ a \in Evaluating => m.label = d.identity

LabelsInv == \A r \in Runs : RunLabels(dir[r], at[r], mem[r])

\* The missing value and the torn copy are not what a file may hold.
LEMMA Distinct ==
    /\ None \notin Model /\ Torn \notin Model
    /\ None \notin Label /\ None \notin Manifest
    /\ None \notin Trajectory /\ None \notin Metrics
<1>1. DOMAIN None = {"none"} /\ DOMAIN Torn = {"torn"}
  BY DEF None, Torn
<1>2. \A x \in Model : DOMAIN x = {"epoch", "codes"}
  BY DEF Model
<1>3. \A x \in Label : DOMAIN x = {"code", "version"}
  BY DEF Label
<1>4. \A x \in Manifest : DOMAIN x = {"best", "label"}
  BY DEF Manifest
<1>5. \A x \in Trajectory : DOMAIN x = {"model", "code", "served", "number"}
  BY DEF Trajectory
<1>6. \A x \in Metrics : DOMAIN x = {"model", "rollout", "label"}
  BY DEF Metrics
<1>7. "epoch" \in {"epoch", "codes"} /\ "epoch" \notin {"none"} /\ "epoch" \notin {"torn"}
  OBVIOUS
<1>8. "code" \in {"code", "version"} /\ "code" \notin {"none"}
  OBVIOUS
<1>9. "best" \in {"best", "label"} /\ "best" \notin {"none"}
  OBVIOUS
<1>10. "model" \in {"model", "code", "served", "number"} /\ "model" \notin {"none"}
  OBVIOUS
<1>11. "model" \in {"model", "rollout", "label"}
  OBVIOUS
<1> QED
  BY <1>1, <1>2, <1>3, <1>4, <1>5, <1>6, <1>7, <1>8, <1>9, <1>10, <1>11

\* A step of one run that leaves the others and the aggregate alone.
LEMMA StepRun ==
    ASSUME EvaluationInv, NEW r \in Runs, NEW d, NEW a, NEW m,
           dir' = [dir EXCEPT ![r] = d],
           at' = [at EXCEPT ![r] = a],
           mem' = [mem EXCEPT ![r] = m],
           RunOK(d, a, m),
           dir[r].manifest # None => d.manifest # None,
           UNCHANGED <<source, service, pool>>
    PROVE  /\ EvaluationInv'
           /\ LabelsInv /\ RunLabels(d, a, m) => LabelsInv'
<1>1. dir \in [Runs -> Files] /\ at \in [Runs -> Stages] /\ mem \in [Runs -> Memory]
  BY DEF EvaluationInv
<1>2. d \in Files /\ a \in Stages /\ m \in Memory
  BY DEF RunOK
<1>3. /\ dir' \in [Runs -> Files]
      /\ at' \in [Runs -> Stages]
      /\ mem' \in [Runs -> Memory]
  BY <1>1, <1>2
<1>4. \A q \in Runs :
        /\ dir'[q] = IF q = r THEN d ELSE dir[q]
        /\ at'[q] = IF q = r THEN a ELSE at[q]
        /\ mem'[q] = IF q = r THEN m ELSE mem[q]
  BY <1>1
<1>5. ASSUME NEW q \in Runs
      PROVE  RunOK(dir'[q], at'[q], mem'[q])
  <2>1. RunOK(dir[q], at[q], mem[q])
    BY DEF EvaluationInv
  <2> QED
    BY <1>4, <2>1
<1>6. PoolInv'
  <2>1. PoolInv
    BY DEF EvaluationInv
  <2>2. \A q \in Runs : dir[q].manifest # None => dir'[q].manifest # None
    BY <1>4
  <2> QED
    BY <2>1, <2>2 DEF PoolInv
<1>7. EvaluationInv'
  BY <1>3, <1>5, <1>6 DEF EvaluationInv
<1>8. ASSUME LabelsInv, RunLabels(d, a, m)
      PROVE  LabelsInv'
  BY <1>4, <1>8 DEF LabelsInv
<1> QED
  BY <1>7, <1>8

\* What is known of one run.
LEMMA OneRun ==
    ASSUME EvaluationInv, NEW r \in Runs
    PROVE  /\ RunOK(dir[r], at[r], mem[r])
           /\ dir \in [Runs -> Files] /\ at \in [Runs -> Stages]
           /\ mem \in [Runs -> Memory]
           /\ source \in Codes /\ service \in Versions
           /\ LabelsInv => RunLabels(dir[r], at[r], mem[r])
BY DEF EvaluationInv, LabelsInv

\* A command that leaves a run without memory.
LEMMA Freed ==
    ASSUME NEW d, NEW a, NEW m, RunOK(d, a, m)
    PROVE  /\ RunOK(d, "free", NoMemory)
           /\ RunLabels(d, a, m) => RunLabels(d, "free", NoMemory)
<1>1. NoMemory \in Memory
  BY DEF NoMemory, Memory
<1>2. "free" \in Stages
  BY DEF Stages
<1>3. StageInv(d, "free", NoMemory)
  BY DEF StageInv, Evaluating
<1>4. RunLabels(d, a, m) => RunLabels(d, "free", NoMemory)
  BY DEF RunLabels, Evaluating
<1> QED
  BY <1>1, <1>2, <1>3, <1>4 DEF RunOK

LEMMA MarkBestStep ==
    ASSUME EvaluationInv, NEW r \in Runs, MarkBest(r)
    PROVE  EvaluationInv' /\ (LabelsInv => LabelsInv')
<1> DEFINE d == [dir[r] EXCEPT !.best = dir[r].stateBest]
           m == mem[r]
<1>1. RunOK(dir[r], at[r], mem[r]) /\ at[r] = "marking"
  BY OneRun DEF MarkBest
<1>2. /\ dir' = [dir EXCEPT ![r] = d]
      /\ at' = [at EXCEPT ![r] = "training"]
      /\ mem' = [mem EXCEPT ![r] = m]
      /\ UNCHANGED <<source, service, pool>>
  BY OneRun DEF MarkBest
<1>3. d \in Files
  BY <1>1 DEF RunOK, Files
<1>4. StageInv(d, "training", m)
  BY <1>1, <1>3 DEF RunOK, StageInv, Evaluating, Files
<1>5. FilesInv(d)
  BY <1>1 DEF RunOK, FilesInv, Files
<1>6. RunOK(d, "training", m)
  BY <1>1, <1>3, <1>4, <1>5 DEF RunOK, Stages
<1>7. LabelsInv => RunLabels(d, "training", m)
  <2>1. SUFFICES ASSUME RunLabels(dir[r], at[r], mem[r])
                 PROVE  RunLabels(d, "training", m)
    BY OneRun
  <2> QED
    BY <1>1, <2>1 DEF RunLabels, Owned, RunOK, Files, Evaluating
<1>8. dir[r].manifest # None => d.manifest # None
  BY <1>1 DEF RunOK, Files
<1> HIDE DEF d, m
<1> QED
  BY <1>2, <1>6, <1>7, <1>8, StepRun

LEMMA BeginAttemptStep ==
    ASSUME EvaluationInv, NEW r \in Runs, BeginAttempt(r)
    PROVE  EvaluationInv' /\ (LabelsInv => LabelsInv')
<1> DEFINE d == dir[r]
           m == [mem[r] EXCEPT !.label = dir[r].identity]
<1>1. RunOK(d, at[r], mem[r]) /\ at[r] \in Training
  BY OneRun DEF BeginAttempt, Training
<1>2. /\ dir' = [dir EXCEPT ![r] = d]
      /\ at' = [at EXCEPT ![r] = "training"]
      /\ mem' = [mem EXCEPT ![r] = m]
      /\ UNCHANGED <<source, service, pool>>
  BY OneRun DEF BeginAttempt
<1>3. d.identity \in Label
  BY <1>1 DEF RunOK, StageInv, Training, Files
<1>4. m \in Memory
  BY <1>1, <1>3 DEF RunOK, Memory
<1>5. StageInv(d, "training", m)
  BY <1>1, <1>3 DEF RunOK, StageInv, Evaluating, Training, Memory
<1>6. RunOK(d, "training", m)
  BY <1>1, <1>4, <1>5 DEF RunOK, Stages
<1>7. RunLabels(d, at[r], mem[r]) => RunLabels(d, "training", m)
  BY <1>1 DEF RunLabels, RunOK, Memory, Training, Evaluating
<1> HIDE DEF d, m
<1> QED
  BY <1>2, <1>6, <1>7, OneRun, StepRun DEF d

LEMMA CommitEpochStep ==
    ASSUME EvaluationInv, NEW r \in Runs, CommitEpoch(r)
    PROVE  EvaluationInv' /\ (LabelsInv => LabelsInv')
<1> DEFINE f == dir[r]
           m == mem[r]
           model == [epoch |-> f.epoch + 1, codes |-> f.codes \cup {m.code}]
<1>1. RunOK(f, at[r], m) /\ at[r] = "training" /\ f.epoch < LastEpoch
  BY OneRun DEF CommitEpoch
<1>2. PICK improves \in BOOLEAN, stops \in BOOLEAN :
        /\ f.epoch = 0 => improves
        /\ dir' = [dir EXCEPT
                     ![r].epoch = model.epoch,
                     ![r].codes = model.codes,
                     ![r].stateBest = IF improves THEN model ELSE @,
                     ![r].stopped = stops]
        /\ at' = [at EXCEPT
                    ![r] = IF improves THEN "marking" ELSE "training"]
  BY DEF CommitEpoch
<1> DEFINE d == [f EXCEPT !.epoch = model.epoch,
                          !.codes = model.codes,
                          !.stateBest = IF improves THEN model ELSE @,
                          !.stopped = stops]
           a == IF improves THEN "marking" ELSE "training"
<1>3. /\ dir' = [dir EXCEPT ![r] = d]
      /\ at' = [at EXCEPT ![r] = a]
      /\ mem' = [mem EXCEPT ![r] = m]
      /\ UNCHANGED <<source, service, pool>>
  <2>1. dir' = [dir EXCEPT ![r] = d]
    BY <1>2, OneRun
  <2> QED
    BY <1>2, <2>1, OneRun DEF CommitEpoch
<1>4. f \in Files /\ f.epoch \in Nat /\ f.codes \in SUBSET Codes /\ m.code \in Codes
  BY <1>1, EvaluationAssumption DEF RunOK, StageInv, Files
<1>5. model.epoch \in 1..LastEpoch /\ model.codes \in SUBSET Codes
  BY <1>1, <1>4, EvaluationAssumption
<1>6. model \in Model /\ model # None
  BY <1>5, Distinct DEF Model
<1> HIDE DEF model
<1>7. d \in Files
  <2>1. (IF improves THEN model ELSE f.stateBest) \in Model \cup {None}
    BY <1>4, <1>6 DEF Files
  <2>2. model.epoch \in 0..LastEpoch
    BY <1>5, EvaluationAssumption
  <2> DEFINE newBest == IF improves THEN model ELSE f.stateBest
             d1 == [f EXCEPT !.epoch = model.epoch, !.codes = model.codes]
             d2 == [d1 EXCEPT !.stateBest = newBest, !.stopped = stops]
  <2>3. d1 \in Files
    BY <1>4, <1>5, <2>2 DEF Files
  <2>4. newBest \in Model \cup {None}
    BY <2>1
  <2> HIDE DEF newBest
  <2>5. d2 \in Files
    <3> HIDE DEF d1
    <3> QED
      BY <2>3, <2>4 DEF Files
  <2>6. d = d2
    BY <1>4 DEF Files, newBest
  <2> QED
    BY <2>5, <2>6
<1>8. /\ d.epoch = model.epoch /\ d.codes = model.codes
      /\ d.stateBest = IF improves THEN model ELSE f.stateBest
      /\ d.identity = f.identity /\ d.manifest = f.manifest
      /\ d.best = f.best /\ d.artifact = f.artifact /\ d.export = f.export
      /\ d.trajectory = f.trajectory /\ d.metrics = f.metrics
  BY <1>4 DEF Files
<1>9. d.stateBest # None
  <2>1. ~improves => f.epoch > 0
    BY <1>2, <1>4
  <2> QED
    BY <1>1, <1>6, <1>8, <2>1 DEF RunOK, FilesInv
<1>10. a \in {"marking", "training"}
  OBVIOUS
<1>11. model.epoch > 0 /\ model.epoch # 0
  BY <1>5
<1> HIDE DEF d, a
<1>12. StageInv(d, a, m)
  BY <1>1, <1>8, <1>9, <1>10 DEF RunOK, StageInv, Evaluating
<1>13. FilesInv(d)
  BY <1>1, <1>8, <1>9, <1>11 DEF RunOK, FilesInv
<1>14. RunOK(d, a, m)
  BY <1>1, <1>7, <1>10, <1>12, <1>13 DEF RunOK, Stages
<1>15. RunLabels(f, at[r], m) => RunLabels(d, a, m)
  <2>1. SUFFICES ASSUME RunLabels(f, at[r], m) PROVE RunLabels(d, a, m)
    OBVIOUS
  <2>2. m.code = f.identity.code
    BY <1>1, <2>1 DEF RunLabels
  <2>3. model.codes = {f.identity.code}
    <3>1. f.codes \cup {m.code} = {f.identity.code}
      <4>1. CASE f.epoch = 0
        BY <2>1, <2>2, <4>1 DEF RunLabels
      <4>2. CASE f.epoch > 0
        BY <2>1, <2>2, <4>2 DEF RunLabels
      <4> QED
        BY <1>4, <4>1, <4>2
    <3> QED
      BY <3>1 DEF model
  <2>4. /\ Owned(d, d.stateBest) /\ Owned(d, d.best)
        /\ Owned(d, d.artifact) /\ Owned(d, d.export)
    BY <1>8, <1>11, <2>1, <2>3 DEF RunLabels, Owned
  <2>5. f.identity # None
    BY <1>1 DEF RunOK, StageInv
  <2> QED
    BY <1>8, <1>10, <1>11, <2>1, <2>2, <2>3, <2>4, <2>5 DEF RunLabels, Evaluating
<1>16. f.manifest # None => d.manifest # None
  BY <1>8
<1> HIDE DEF m
<1> QED
  BY <1>3, <1>14, <1>15, <1>16, OneRun, StepRun DEF m

LEMMA EndTrainingStep ==
    ASSUME EvaluationInv, NEW r \in Runs, EndTraining(r)
    PROVE  EvaluationInv' /\ (LabelsInv => LabelsInv')
<1> DEFINE f == dir[r]
           manifest == [best |-> f.stateBest.epoch, label |-> mem[r].label]
           d == [f EXCEPT !.manifest = manifest]
<1>1. RunOK(f, at[r], mem[r]) /\ at[r] = "training" /\ ~MoreEpochs(r)
  BY OneRun DEF EndTraining
<1>2. /\ dir' = [dir EXCEPT ![r] = d]
      /\ at' = [at EXCEPT ![r] = "free"]
      /\ mem' = [mem EXCEPT ![r] = NoMemory]
      /\ UNCHANGED <<source, service, pool>>
  BY OneRun DEF EndTraining, Leave
<1>3. f \in Files /\ f.epoch \in Nat
  BY <1>1, EvaluationAssumption DEF RunOK, Files
<1>4. f.epoch > 0
  BY <1>1, <1>3, EvaluationAssumption DEF MoreEpochs, RunOK, FilesInv
<1>5. f.stateBest \in Model /\ mem[r].label \in Label
  BY <1>1, <1>4 DEF RunOK, FilesInv, StageInv, Files
<1>6. manifest \in Manifest /\ manifest # None
  BY <1>5, Distinct DEF Manifest, Model
<1> HIDE DEF manifest
<1>7. d \in Files
  BY <1>3, <1>6 DEF Files
<1>8. FilesInv(d)
  BY <1>1, <1>6 DEF RunOK, FilesInv, Files
<1>9. RunOK(d, "free", NoMemory)
  <2>1. NoMemory \in Memory
    BY DEF NoMemory, Memory
  <2>2. StageInv(d, "free", NoMemory)
    BY DEF StageInv, Evaluating
  <2> QED
    BY <1>7, <1>8, <2>1, <2>2 DEF RunOK, Stages
<1>10. RunLabels(f, at[r], mem[r]) => RunLabels(d, "free", NoMemory)
  BY <1>3, <1>4 DEF RunLabels, Owned, Files, Evaluating
<1>11. d.manifest # None
  BY <1>3, <1>6 DEF Files
<1> HIDE DEF d
<1> QED
  BY <1>2, <1>9, <1>10, <1>11, OneRun, StepRun

LEMMA DieStep ==
    ASSUME EvaluationInv, NEW r \in Runs, Die(r)
    PROVE  EvaluationInv' /\ (LabelsInv => LabelsInv')
<1>1. RunOK(dir[r], at[r], mem[r])
  BY OneRun
<1>2. /\ at' = [at EXCEPT ![r] = "free"]
      /\ mem' = [mem EXCEPT ![r] = NoMemory]
      /\ UNCHANGED <<source, service, pool>>
  BY DEF Die, Leave
<1>3. CASE UNCHANGED dir
  <2>1. dir' = [dir EXCEPT ![r] = dir[r]]
    BY <1>3, OneRun
  <2> QED
    BY <1>1, <1>2, <2>1, Freed, OneRun, StepRun
<1>4. CASE dir' = [dir EXCEPT ![r].artifact = Torn]
  <2> DEFINE d == [dir[r] EXCEPT !.artifact = Torn]
  <2>1. dir' = [dir EXCEPT ![r] = d]
    BY <1>4, OneRun
  <2>2. d \in Files
    BY <1>1 DEF RunOK, Files
  <2>3. FilesInv(d)
    BY <1>1 DEF RunOK, FilesInv, Files
  <2>4. RunOK(d, "free", NoMemory)
    <3>1. NoMemory \in Memory
      BY DEF NoMemory, Memory
    <3>2. StageInv(d, "free", NoMemory)
      BY DEF StageInv, Evaluating
    <3> QED
      BY <2>2, <2>3, <3>1, <3>2 DEF RunOK, Stages
  <2>5. RunLabels(dir[r], at[r], mem[r]) => RunLabels(d, "free", NoMemory)
    BY <1>1, Distinct DEF RunOK, RunLabels, Owned, Files, Evaluating
  <2>6. dir[r].manifest # None => d.manifest # None
    BY <1>1 DEF RunOK, Files
  <2> HIDE DEF d
  <2> QED
    BY <1>2, <2>1, <2>4, <2>5, <2>6, OneRun, StepRun
<1> QED
  BY <1>3, <1>4 DEF Die

\* Beside a command that holds the run lock only the identity is rewritten; that
\* spoils the labels, which are kept where commands on a run do not overlap.
LEMMA StartTrainingStep ==
    ASSUME EvaluationInv, NEW r \in Runs, StartTraining(r)
    PROVE  EvaluationInv' /\ (LabelsInv /\ ~Overlaps => LabelsInv')
<1> DEFINE f == dir[r]
           identity == IF Admitted(r) THEN [code |-> source, version |-> service]
                                      ELSE f.identity
           d == [f EXCEPT !.preflight = service, !.identity = identity]
           enters == at[r] = "free" /\ Admitted(r)
           a == IF enters THEN "starting" ELSE at[r]
<1>1. RunOK(f, at[r], mem[r]) /\ source \in Codes /\ service \in Versions
  BY OneRun
<1>2. /\ dir' = [dir EXCEPT ![r] = d]
      /\ UNCHANGED <<source, service, pool>>
  BY OneRun DEF StartTraining, Identify
<1>3. PICK m \in Memory :
        /\ at' = [at EXCEPT ![r] = a]
        /\ mem' = [mem EXCEPT ![r] = m]
        /\ IF enters THEN m.code = source ELSE m = mem[r]
  <2>1. CASE enters
    <3>1. PICK onward \in BOOLEAN :
            /\ at' = [at EXCEPT ![r] = "starting"]
            /\ mem' = [mem EXCEPT ![r].code = source, ![r].onward = onward]
      BY <2>1 DEF StartTraining
    <3> DEFINE m == [mem[r] EXCEPT !.code = source, !.onward = onward]
    <3>2. m \in Memory /\ m.code = source
      BY <1>1 DEF RunOK, Memory
    <3>3. mem' = [mem EXCEPT ![r] = m]
      BY <3>1, OneRun
    <3> QED
      BY <2>1, <3>1, <3>2, <3>3
  <2>2. CASE ~enters
    <3>1. UNCHANGED <<at, mem>>
      BY <2>2 DEF StartTraining
    <3>2. /\ at' = [at EXCEPT ![r] = at[r]]
          /\ mem' = [mem EXCEPT ![r] = mem[r]]
          /\ mem[r] \in Memory
      BY <3>1, OneRun
    <3> QED
      BY <2>2, <3>2
  <2> QED
    BY <2>1, <2>2
<1>4. identity \in Label \cup {None}
  BY <1>1 DEF RunOK, Files, Label
<1>5. Admitted(r) => identity \in Label
  BY <1>1 DEF Label
<1>6. f.identity # None => identity # None
  BY <1>5, Distinct
<1>7. enters => identity # None
  BY <1>5, Distinct
<1>8. Admitted(r) => identity.code = source
  OBVIOUS
<1>9. ~Admitted(r) => identity = f.identity
  OBVIOUS
<1> HIDE DEF identity
<1>10. d \in Files
  BY <1>1, <1>4 DEF RunOK, Files
<1>11. /\ d.identity = identity /\ d.epoch = f.epoch /\ d.codes = f.codes
       /\ d.stopped = f.stopped /\ d.manifest = f.manifest
       /\ d.stateBest = f.stateBest /\ d.best = f.best
       /\ d.artifact = f.artifact /\ d.export = f.export
       /\ d.trajectory = f.trajectory /\ d.metrics = f.metrics
  BY <1>1 DEF RunOK, Files
<1>12. f.identity # None => f.identity \in Label
  BY <1>1 DEF RunOK, Files
<1> HIDE DEF d
<1>13. FilesInv(d)
  BY <1>1, <1>11 DEF RunOK, FilesInv
<1>14. StageInv(d, a, m)
  <2>1. CASE enters
    BY <1>1, <1>3, <1>7, <1>11, <2>1 DEF StageInv, Evaluating
  <2>2. CASE ~enters
    BY <1>1, <1>3, <1>6, <1>11, <2>2 DEF RunOK, StageInv
  <2> QED
    BY <2>1, <2>2
<1>15. RunOK(d, a, m)
  BY <1>1, <1>10, <1>13, <1>14 DEF RunOK, Stages
<1>16. ASSUME RunLabels(f, at[r], mem[r]), ~Overlaps
       PROVE  RunLabels(d, a, m)
  <2>1. at[r] = "free"
    BY <1>16 DEF StartTraining
  <2>2. f.epoch > 0 => identity.code = f.identity.code /\ identity # None
    BY <1>6, <1>8, <1>9, <1>16 DEF RunLabels, Admitted, SameCode
  <2>3. Owned(d, d.stateBest) /\ Owned(d, d.best)
        /\ Owned(d, d.artifact) /\ Owned(d, d.export)
    BY <1>11, <1>16, <2>2 DEF RunLabels, Owned
  <2>4. a # "free" => m.code = identity.code
    BY <1>3, <1>8, <2>1
  <2>5. a \notin Evaluating
    BY <2>1 DEF Evaluating
  <2> QED
    BY <1>11, <1>16, <2>2, <2>3, <2>4, <2>5 DEF RunLabels
<1>17. f.manifest # None => d.manifest # None
  BY <1>11
<1> HIDE DEF a
<1> QED
  BY <1>2, <1>3, <1>15, <1>16, <1>17, OneRun, StepRun

LEMMA BeginEvaluationStep ==
    ASSUME EvaluationInv, NEW r \in Runs, BeginEvaluation(r)
    PROVE  EvaluationInv' /\ (LabelsInv => LabelsInv')
<1> DEFINE f == dir[r]
<1>1. RunOK(f, at[r], mem[r]) /\ source \in Codes
  BY OneRun
<1>2. PICK force \in Forces :
        mem' = [mem EXCEPT ![r].code = source, ![r].force = force,
                           ![r].label = f.identity]
  BY DEF BeginEvaluation
<1> DEFINE m == [mem[r] EXCEPT !.code = source, !.force = force,
                               !.label = f.identity]
<1>3. /\ dir' = [dir EXCEPT ![r] = f]
      /\ at' = [at EXCEPT ![r] = "copying"]
      /\ mem' = [mem EXCEPT ![r] = m]
      /\ UNCHANGED <<source, service, pool>>
  BY <1>2, OneRun DEF BeginEvaluation
<1>4. f.manifest \in Manifest /\ f.identity \in Label /\ f.identity # None
  BY <1>1, Distinct DEF BeginEvaluation, MetadataAgrees, RunOK, Files, Manifest
<1>5. m \in Memory /\ m.code = source /\ m.label = f.identity
  BY <1>1, <1>4, EvaluationAssumption DEF RunOK, Memory
<1>6. f.manifest # None /\ f.identity.code = source
  BY DEF BeginEvaluation, MetadataAgrees
<1> HIDE DEF m
<1>7. StageInv(f, "copying", m)
  BY <1>1, <1>4, <1>5, <1>6 DEF StageInv, Evaluating
<1>8. RunOK(f, "copying", m)
  BY <1>1, <1>5, <1>7 DEF RunOK, Stages
<1>9. RunLabels(f, at[r], mem[r]) => RunLabels(f, "copying", m)
  BY <1>5, <1>6 DEF RunLabels
<1> HIDE DEF f
<1> QED
  BY <1>3, <1>8, <1>9, OneRun, StepRun DEF f

LEMMA CopyModelStep ==
    ASSUME EvaluationInv, NEW r \in Runs, CopyModel(r)
    PROVE  EvaluationInv' /\ (LabelsInv => LabelsInv')
<1> DEFINE d == [dir[r] EXCEPT !.artifact = dir[r].best]
           m == mem[r]
<1>1. RunOK(dir[r], at[r], m) /\ at[r] = "copying" /\ dir[r].best # None
  BY OneRun DEF CopyModel
<1>2. /\ dir' = [dir EXCEPT ![r] = d]
      /\ at' = [at EXCEPT ![r] = "exporting"]
      /\ mem' = [mem EXCEPT ![r] = m]
      /\ UNCHANGED <<source, service, pool>>
  BY OneRun DEF CopyModel
<1>3. d \in Files
  BY <1>1 DEF RunOK, Files
<1>4. StageInv(d, "exporting", m)
  BY <1>1 DEF RunOK, StageInv, Evaluating, Files
<1>5. FilesInv(d)
  BY <1>1 DEF RunOK, FilesInv, Files
<1>6. RunOK(d, "exporting", m)
  BY <1>1, <1>3, <1>4, <1>5 DEF RunOK, Stages
<1>7. RunLabels(dir[r], at[r], m) => RunLabels(d, "exporting", m)
  BY <1>1 DEF RunLabels, Owned, RunOK, Files, Evaluating
<1>8. dir[r].manifest # None => d.manifest # None
  BY <1>1 DEF RunOK, Files
<1> HIDE DEF d, m
<1> QED
  BY <1>2, <1>6, <1>7, <1>8, OneRun, StepRun DEF m

LEMMA WriteExportStep ==
    ASSUME EvaluationInv, NEW r \in Runs, WriteExport(r)
    PROVE  EvaluationInv' /\ (LabelsInv => LabelsInv')
<1> DEFINE d == [dir[r] EXCEPT !.export = dir[r].artifact]
           m == mem[r]
<1>1. RunOK(dir[r], at[r], m) /\ at[r] = "exporting"
  BY OneRun DEF WriteExport
<1>2. /\ dir' = [dir EXCEPT ![r] = d]
      /\ at' = [at EXCEPT ![r] = "looking"]
      /\ mem' = [mem EXCEPT ![r] = m]
      /\ UNCHANGED <<source, service, pool>>
  BY OneRun DEF WriteExport
<1>3. dir[r].artifact = dir[r].best
  BY <1>1 DEF RunOK, StageInv, Evaluating
<1>4. d \in Files
  BY <1>1, <1>3 DEF RunOK, Files
<1>5. StageInv(d, "looking", m)
  BY <1>1, <1>3 DEF RunOK, StageInv, Evaluating, Files
<1>6. FilesInv(d)
  BY <1>1 DEF RunOK, FilesInv, Files
<1>7. RunOK(d, "looking", m)
  BY <1>1, <1>4, <1>5, <1>6 DEF RunOK, Stages
<1>8. RunLabels(dir[r], at[r], m) => RunLabels(d, "looking", m)
  BY <1>1 DEF RunLabels, Owned, RunOK, Files, Evaluating
<1>9. dir[r].manifest # None => d.manifest # None
  BY <1>1 DEF RunOK, Files
<1> HIDE DEF d, m
<1> QED
  BY <1>2, <1>7, <1>8, <1>9, OneRun, StepRun DEF m

LEMMA UseExistingStep ==
    ASSUME EvaluationInv, NEW r \in Runs, UseExisting(r)
    PROVE  EvaluationInv' /\ (LabelsInv => LabelsInv')
<1> DEFINE f == dir[r]
           m == mem[r]
<1>1. RunOK(f, at[r], m) /\ at[r] = "looking" /\ f.metrics # None
  BY OneRun DEF UseExisting, MustMeasure
<1>2. dir' = [dir EXCEPT ![r] = f] /\ UNCHANGED <<source, service, pool>>
  BY OneRun DEF UseExisting
<1>3. CASE Matches(r)
  <2>1. at' = [at EXCEPT ![r] = "returned"] /\ mem' = [mem EXCEPT ![r] = m]
    BY <1>3, OneRun DEF UseExisting
  <2>2. f.export = f.best /\ f.metrics.model = f.best
    BY <1>1, <1>3 DEF RunOK, StageInv, Evaluating, Matches
  <2>3. StageInv(f, "returned", m)
    BY <1>1, <2>2 DEF RunOK, StageInv, Evaluating
  <2>4. RunOK(f, "returned", m)
    BY <1>1, <2>3 DEF RunOK, Stages
  <2>5. RunLabels(f, at[r], m) => RunLabels(f, "returned", m)
    BY <1>1 DEF RunLabels, Evaluating
  <2> HIDE DEF f, m
  <2> QED
    BY <1>2, <2>1, <2>4, <2>5, OneRun, StepRun DEF f, m
<1>4. CASE ~Matches(r)
  <2>1. at' = [at EXCEPT ![r] = "free"] /\ mem' = [mem EXCEPT ![r] = NoMemory]
    BY <1>4, OneRun DEF UseExisting, Leave
  <2> HIDE DEF f, m
  <2> QED
    BY <1>1, <1>2, <2>1, Freed, OneRun, StepRun DEF f, m
<1> QED
  BY <1>3, <1>4

LEMMA MeasureStep ==
    ASSUME EvaluationInv, NEW r \in Runs, Measure(r)
    PROVE  EvaluationInv' /\ (LabelsInv => LabelsInv')
<1> DEFINE f == dir[r]
           m == [mem[r] EXCEPT !.served = service]
<1>1. RunOK(f, at[r], mem[r]) /\ at[r] = "looking" /\ service \in Versions
  BY OneRun DEF Measure
<1>2. /\ dir' = [dir EXCEPT ![r] = f]
      /\ at' = [at EXCEPT ![r] = "measured"]
      /\ mem' = [mem EXCEPT ![r] = m]
      /\ UNCHANGED <<source, service, pool>>
  BY OneRun DEF Measure
<1>3. /\ m \in Memory /\ m.served = service
      /\ m.code = mem[r].code /\ m.label = mem[r].label
  BY <1>1 DEF RunOK, Memory
<1> HIDE DEF m
<1>4. StageInv(f, "measured", m)
  BY <1>1, <1>3 DEF RunOK, StageInv, Evaluating
<1>5. RunOK(f, "measured", m)
  BY <1>1, <1>3, <1>4 DEF RunOK, Stages
<1>6. RunLabels(f, at[r], mem[r]) => RunLabels(f, "measured", m)
  BY <1>1, <1>3 DEF RunLabels, Evaluating
<1> HIDE DEF f
<1> QED
  BY <1>2, <1>5, <1>6, OneRun, StepRun DEF f

LEMMA WriteTrajectoryStep ==
    ASSUME EvaluationInv, NEW r \in Runs, WriteTrajectory(r)
    PROVE  EvaluationInv' /\ (LabelsInv => LabelsInv')
<1> DEFINE f == dir[r]
           m == mem[r]
           trajectory == [model |-> Policy(r), code |-> m.code,
                          served |-> m.served, number |-> NextNumber(r)]
           d == [f EXCEPT !.trajectory = trajectory]
<1>1. RunOK(f, at[r], m) /\ at[r] = "measured" /\ NextNumber(r) <= MaxRollouts
  BY OneRun DEF WriteTrajectory
<1>2. /\ dir' = [dir EXCEPT ![r] = d]
      /\ at' = [at EXCEPT ![r] = "reporting"]
      /\ mem' = [mem EXCEPT ![r] = m]
      /\ UNCHANGED <<source, service, pool>>
  BY OneRun DEF WriteTrajectory
<1>3. f.best \in Model /\ m.code \in Codes /\ m.served \in Versions
  BY <1>1 DEF RunOK, StageInv, Evaluating, Files
<1>4. /\ NextNumber(r) \in 1..MaxRollouts
      /\ f.trajectory # None => NextNumber(r) >= f.trajectory.number
  <2>1. f.trajectory \in Trajectory \cup {None}
    BY <1>1 DEF RunOK, Files
  <2> QED
    BY <1>1, <2>1, EvaluationAssumption DEF NextNumber, Trajectory
<1>5. trajectory \in Trajectory /\ trajectory # None
  BY <1>3, <1>4, Distinct DEF Policy, Trajectory
<1>6. /\ trajectory.model = f.best /\ trajectory.code = m.code
      /\ trajectory.number = NextNumber(r)
  BY DEF Policy
<1> HIDE DEF trajectory
<1>7. d \in Files
  BY <1>1, <1>5 DEF RunOK, Files
<1>8. /\ d.trajectory = trajectory /\ d.identity = f.identity
      /\ d.epoch = f.epoch /\ d.codes = f.codes
      /\ d.stopped = f.stopped /\ d.manifest = f.manifest
      /\ d.stateBest = f.stateBest /\ d.best = f.best
      /\ d.artifact = f.artifact /\ d.export = f.export
      /\ d.metrics = f.metrics
  BY <1>1 DEF RunOK, Files
<1> HIDE DEF d
<1>9. StageInv(d, "reporting", m)
  BY <1>1, <1>5, <1>6, <1>8 DEF RunOK, StageInv, Evaluating
<1>10. FilesInv(d)
  <2>1. ASSUME f.metrics # None
        PROVE  f.metrics.rollout.number <= trajectory.number
    <3>1. f.trajectory # None /\ f.metrics.rollout.number <= f.trajectory.number
      BY <1>1, <2>1 DEF RunOK, FilesInv
    <3>2. f.metrics.rollout.number \in Nat /\ f.trajectory.number \in Nat
      BY <1>1, <2>1, <3>1 DEF RunOK, Files, Metrics, Trajectory
    <3> QED
      BY <1>4, <1>6, <3>1, <3>2
  <2> QED
    BY <1>1, <1>5, <1>8, <2>1 DEF RunOK, FilesInv
<1>11. RunOK(d, "reporting", m)
  BY <1>1, <1>7, <1>9, <1>10 DEF RunOK, Stages
<1>12. RunLabels(f, at[r], m) => RunLabels(d, "reporting", m)
  <2>1. SUFFICES ASSUME RunLabels(f, at[r], m) PROVE RunLabels(d, "reporting", m)
    OBVIOUS
  <2>2. m.code = f.identity.code /\ m.label = f.identity
    BY <1>1, <2>1 DEF RunLabels, Evaluating
  <2>3. f.epoch > 0
    BY <1>1, <2>1 DEF RunOK, StageInv, RunLabels, Evaluating
  <2> QED
    BY <1>6, <1>8, <2>1, <2>2, <2>3 DEF RunLabels, Owned
<1>13. f.manifest # None => d.manifest # None
  BY <1>8
<1> HIDE DEF m
<1> QED
  BY <1>2, <1>11, <1>12, <1>13, OneRun, StepRun DEF m

LEMMA WriteMetricsStep ==
    ASSUME EvaluationInv, NEW r \in Runs, WriteMetrics(r)
    PROVE  EvaluationInv' /\ (LabelsInv => LabelsInv')
<1> DEFINE f == dir[r]
           m == mem[r]
           metrics == [model |-> f.export, rollout |-> f.trajectory,
                       label |-> m.label]
           d == [f EXCEPT !.metrics = metrics]
<1>1. RunOK(f, at[r], m) /\ at[r] = "reporting"
  BY OneRun DEF WriteMetrics
<1>2. /\ dir' = [dir EXCEPT ![r] = d]
      /\ at' = [at EXCEPT ![r] = "returned"]
      /\ mem' = [mem EXCEPT ![r] = m]
      /\ UNCHANGED <<source, service, pool>>
  BY OneRun DEF WriteMetrics
<1>3. /\ f.best \in Model /\ f.export = f.best /\ m.label \in Label
      /\ f.trajectory # None /\ f.trajectory \in Trajectory
      /\ f.trajectory.model = f.best /\ f.manifest # None
  BY <1>1 DEF RunOK, StageInv, Evaluating, Files
<1>4. metrics \in Metrics /\ metrics # None
  BY <1>3, Distinct DEF Metrics
<1>5. /\ metrics.model = f.best /\ metrics.rollout = f.trajectory
      /\ metrics.label = m.label
  BY <1>3
<1> HIDE DEF metrics
<1>6. d \in Files
  BY <1>1, <1>4 DEF RunOK, Files
<1>7. /\ d.metrics = metrics /\ d.identity = f.identity
      /\ d.epoch = f.epoch /\ d.codes = f.codes
      /\ d.stopped = f.stopped /\ d.manifest = f.manifest
      /\ d.stateBest = f.stateBest /\ d.best = f.best
      /\ d.artifact = f.artifact /\ d.export = f.export
      /\ d.trajectory = f.trajectory
  BY <1>1 DEF RunOK, Files
<1> HIDE DEF d
<1>8. StageInv(d, "returned", m)
  BY <1>1, <1>4, <1>5, <1>7 DEF RunOK, StageInv, Evaluating
<1>9. FilesInv(d)
  <2>1. f.trajectory.number \in Nat
    BY <1>3 DEF Trajectory
  <2>2. metrics.rollout.number <= f.trajectory.number
    BY <1>5, <2>1
  <2> QED
    BY <1>1, <1>3, <1>4, <1>5, <1>7, <2>2 DEF RunOK, FilesInv
<1>10. RunOK(d, "returned", m)
  BY <1>1, <1>6, <1>8, <1>9 DEF RunOK, Stages
<1>11. RunLabels(f, at[r], m) => RunLabels(d, "returned", m)
  <2>1. SUFFICES ASSUME RunLabels(f, at[r], m) PROVE RunLabels(d, "returned", m)
    OBVIOUS
  <2>2. m.code = f.identity.code /\ m.label = f.identity
    BY <1>1, <2>1 DEF RunLabels, Evaluating
  <2>3. /\ f.epoch > 0
        /\ metrics.model.codes = {f.identity.code}
        /\ metrics.rollout.code = f.identity.code
    BY <1>3, <1>5, <2>1 DEF RunLabels, Owned
  <2> QED
    BY <1>5, <1>7, <2>1, <2>2, <2>3 DEF RunLabels, Owned
<1>12. f.manifest # None => d.manifest # None
  BY <1>7
<1> HIDE DEF m
<1> QED
  BY <1>2, <1>10, <1>11, <1>12, OneRun, StepRun DEF m

LEMMA ReturnStep ==
    ASSUME EvaluationInv, NEW r \in Runs, Return(r)
    PROVE  EvaluationInv' /\ (LabelsInv => LabelsInv')
<1>1. /\ dir' = [dir EXCEPT ![r] = dir[r]]
      /\ at' = [at EXCEPT ![r] = "free"]
      /\ mem' = [mem EXCEPT ![r] = NoMemory]
      /\ UNCHANGED <<source, service, pool>>
  BY OneRun DEF Return, Leave
<1> QED
  BY <1>1, Freed, OneRun, StepRun

\* The aggregate reads the files of the runs and writes none of them.
LEMMA PoolStep ==
    ASSUME EvaluationInv,
           StartAggregate \/ ReadMetrics \/ JoinManifest \/ Publish \/ AggregateDies
    PROVE  EvaluationInv' /\ (LabelsInv => LabelsInv')
<1>1. UNCHANGED <<source, service, dir, at, mem>>
  BY DEF StartAggregate, ReadMetrics, JoinManifest, Publish, AggregateDies
<1>2. PoolInv /\ RunCount \in Nat /\ dir \in [Runs -> Files]
  BY EvaluationAssumption DEF EvaluationInv
<1>3. Idle \in Aggregate /\ Idle.at = "idle"
  BY <1>2 DEF Idle, Aggregate
<1>4. PoolInv'
  <2>1. CASE StartAggregate
    BY <1>1, <1>3, <2>1 DEF StartAggregate, PoolInv, Idle, Aggregate
  <2>2. CASE ReadMetrics
    <3>1. pool \in Aggregate /\ pool.run \in Runs
      BY <1>2, <2>2 DEF ReadMetrics, PoolInv
    <3>2. CASE dir[pool.run].metrics = None
      <4>1. pool' = [pool EXCEPT !.run = @ + 1]
        BY <2>2, <3>2 DEF ReadMetrics
      <4>2. pool.run + 1 \in 1..(RunCount + 1)
        BY <1>2, <3>1 DEF Runs
      <4>3. pool.at = "metrics"
        BY <2>2 DEF ReadMetrics
      <4> QED
        BY <3>1, <4>1, <4>2, <4>3 DEF PoolInv, Aggregate
    <3>3. CASE dir[pool.run].metrics # None
      <4>1. pool' = [pool EXCEPT !.at = "manifest",
                                 !.metrics = dir[pool.run].metrics]
        BY <2>2, <3>3 DEF ReadMetrics
      <4>2. /\ dir[pool.run].metrics \in Metrics
            /\ dir[pool.run].manifest # None
        BY <3>1, <3>3, OneRun DEF RunOK, FilesInv, Files
      <4> QED
        BY <1>1, <3>1, <4>1, <4>2 DEF PoolInv, Aggregate
    <3> QED
      BY <3>2, <3>3
  <2>3. CASE JoinManifest
    <3> DEFINE manifest == dir[pool.run].manifest
               row == [best |-> manifest.best, metrics |-> pool.metrics]
    <3>1. /\ pool \in Aggregate /\ pool.run \in Runs
          /\ pool.metrics \in Metrics /\ manifest # None
      BY <1>2, <2>3 DEF JoinManifest, PoolInv
    <3>2. manifest \in Manifest
      BY <1>2, <3>1 DEF Files
    <3>3. row \in Row
      BY <3>1, <3>2 DEF Row, Manifest
    <3>4. CASE manifest.label = pool.metrics.label
      <4>1. pool' = [at |-> "metrics", run |-> pool.run + 1,
                     metrics |-> None, rows |-> Append(pool.rows, row)]
        BY <2>3, <3>4 DEF JoinManifest
      <4>2. pool.run + 1 \in 1..(RunCount + 1)
        BY <1>2, <3>1 DEF Runs
      <4>3. Append(pool.rows, row) \in Seq(Row)
        BY <3>1, <3>3 DEF Aggregate
      <4> HIDE DEF row, manifest
      <4> QED
        BY <4>1, <4>2, <4>3 DEF PoolInv, Aggregate
    <3>5. CASE manifest.label # pool.metrics.label
      <4>1. pool' = Idle
        BY <2>3, <3>5 DEF JoinManifest
      <4> QED
        BY <1>3, <4>1 DEF PoolInv
    <3> QED
      BY <3>4, <3>5
  <2>4. CASE Publish
    <3>1. CASE Compatible(pool.rows)
      <4>1. pool' = [pool EXCEPT !.at = "published"]
        BY <2>4, <3>1 DEF Publish
      <4> QED
        BY <1>2, <3>1, <4>1 DEF PoolInv, Aggregate
    <3>2. CASE ~Compatible(pool.rows)
      BY <1>3, <2>4, <3>2 DEF Publish, PoolInv
    <3> QED
      BY <3>1, <3>2
  <2>5. CASE AggregateDies
    BY <1>3, <2>5 DEF AggregateDies, PoolInv
  <2> QED
    BY <2>1, <2>2, <2>3, <2>4, <2>5
<1> QED
  BY <1>1, <1>4 DEF EvaluationInv, LabelsInv

\* The environment touches neither the files nor the commands.
LEMMA EnvironmentStep ==
    ASSUME EvaluationInv, EditSource \/ UpgradeService
    PROVE  EvaluationInv' /\ (LabelsInv => LabelsInv')
<1>1. /\ source' \in Codes /\ service' \in Versions
      /\ UNCHANGED <<dir, at, mem, pool>>
  BY DEF EvaluationInv, EditSource, UpgradeService
<1> QED
  BY <1>1 DEF EvaluationInv, LabelsInv, PoolInv

LEMMA EvaluationNext ==
    ASSUME EvaluationInv, [Next]_vars
    PROVE  EvaluationInv' /\ (LabelsInv /\ ~Overlaps => LabelsInv')
<1>1. CASE EditSource \/ UpgradeService
  BY <1>1, EnvironmentStep
<1>2. ASSUME NEW r \in Runs,
             \/ StartTraining(r) \/ BeginAttempt(r)
             \/ CommitEpoch(r) \/ MarkBest(r) \/ EndTraining(r)
      PROVE  EvaluationInv' /\ (LabelsInv /\ ~Overlaps => LabelsInv')
  BY <1>2, StartTrainingStep, BeginAttemptStep, CommitEpochStep, MarkBestStep,
     EndTrainingStep
<1>3. ASSUME NEW r \in Runs,
             \/ BeginEvaluation(r) \/ CopyModel(r) \/ WriteExport(r) \/ UseExisting(r)
             \/ Measure(r) \/ WriteTrajectory(r) \/ WriteMetrics(r)
             \/ Return(r) \/ Die(r)
      PROVE  EvaluationInv' /\ (LabelsInv => LabelsInv')
  BY <1>3, BeginEvaluationStep, CopyModelStep, WriteExportStep, UseExistingStep,
     MeasureStep, WriteTrajectoryStep, WriteMetricsStep, ReturnStep, DieStep
<1>4. CASE StartAggregate \/ ReadMetrics \/ JoinManifest \/ Publish \/ AggregateDies
  BY <1>4, PoolStep
<1>5. CASE UNCHANGED vars
  BY <1>5 DEF vars, EvaluationInv, LabelsInv, PoolInv
<1> QED
  BY <1>1, <1>2, <1>3, <1>4, <1>5 DEF Next

LEMMA EvaluationInit == Init => EvaluationInv /\ LabelsInv
<1>1. SUFFICES ASSUME Init PROVE EvaluationInv /\ LabelsInv
  OBVIOUS
<1>2. PICK label \in Label :
        dir = [r \in Runs |-> IF r \in Finished THEN FinishedRun(label) ELSE NewRun]
  BY <1>1 DEF Init
<1>3. NoMemory \in Memory
  BY DEF NoMemory, Memory
<1>4. StageInv(NewRun, "free", NoMemory) /\ StageInv(FinishedRun(label), "free", NoMemory)
  BY DEF StageInv, Evaluating
<1>5. NewRun \in Files /\ FilesInv(NewRun) /\ RunLabels(NewRun, "free", NoMemory)
  <2>1. NewRun \in Files
    BY EvaluationAssumption DEF NewRun, Files
  <2>2. FilesInv(NewRun)
    BY DEF NewRun, FilesInv
  <2>3. RunLabels(NewRun, "free", NoMemory)
    BY Distinct DEF NewRun, RunLabels, Owned, Evaluating
  <2> QED
    BY <2>1, <2>2, <2>3
<1>6. /\ FinishedRun(label) \in Files /\ FilesInv(FinishedRun(label))
      /\ RunLabels(FinishedRun(label), "free", NoMemory)
  <2> DEFINE model == [epoch |-> 1, codes |-> {label.code}]
             rollout == [model |-> model, code |-> label.code,
                         served |-> label.version, number |-> 1]
             metrics == [model |-> model, rollout |-> rollout, label |-> label]
             manifest == [best |-> 1, label |-> label]
             f == FinishedRun(label)
  <2>1. label.code \in Codes /\ label.version \in Versions /\ label # None
    BY Distinct DEF Label
  <2>2. 1 \in 1..LastEpoch /\ 1 \in 1..MaxRollouts /\ Cap \in 0..LastEpoch /\ Cap > 0
    BY EvaluationAssumption
  <2>3. model \in Model /\ model # None /\ model.codes = {label.code}
    BY <2>1, <2>2, Distinct DEF Model
  <2>4. /\ rollout \in Trajectory /\ rollout # None
        /\ rollout.model = model /\ rollout.code = label.code /\ rollout.number = 1
    BY <2>1, <2>2, <2>3, Distinct DEF Trajectory
  <2>5. /\ metrics \in Metrics /\ metrics # None
        /\ metrics.model = model /\ metrics.rollout = rollout /\ metrics.label = label
    BY <2>3, <2>4, Distinct DEF Metrics
  <2>6. manifest \in Manifest /\ manifest # None
    BY <2>2, Distinct DEF Manifest
  <2>7. f = [identity |-> label, preflight |-> label.version, manifest |-> manifest,
             epoch |-> Cap, codes |-> {label.code}, stateBest |-> model,
             stopped |-> TRUE, best |-> model, artifact |-> model,
             export |-> model, trajectory |-> rollout, metrics |-> metrics]
    BY DEF FinishedRun
  <2> HIDE DEF model, rollout, metrics, manifest, f
  <2>8. f \in Files
    BY <2>1, <2>2, <2>3, <2>4, <2>5, <2>6, <2>7 DEF Files
  <2>9. FilesInv(f)
    BY <2>2, <2>3, <2>4, <2>5, <2>6, <2>7 DEF FilesInv
  <2>10. RunLabels(f, "free", NoMemory)
    BY <2>1, <2>2, <2>3, <2>4, <2>5, <2>7 DEF RunLabels, Owned, Evaluating
  <2> QED
    BY <2>8, <2>9, <2>10 DEF f
<1>7. /\ \A r \in Runs :
           /\ dir[r] \in {FinishedRun(label), NewRun}
           /\ at[r] = "free" /\ mem[r] = NoMemory
      /\ dir \in [Runs -> Files]
      /\ at \in [Runs -> Stages]
      /\ mem \in [Runs -> Memory]
  BY <1>1, <1>2, <1>3, <1>5, <1>6 DEF Init, Stages
<1>8. \A r \in Runs :
        RunOK(dir[r], at[r], mem[r]) /\ RunLabels(dir[r], at[r], mem[r])
  BY <1>3, <1>4, <1>5, <1>6, <1>7 DEF RunOK, Stages
<1>9. PoolInv
  BY <1>1, EvaluationAssumption DEF Init, PoolInv, Idle, Aggregate
<1> QED
  BY <1>1, <1>7, <1>8, <1>9 DEF EvaluationInv, LabelsInv, Init

-----------------------------------------------------------------------------

THEOREM EvaluationInvariance == Spec => []EvaluationInv
<1>1. Init => EvaluationInv
  BY EvaluationInit
<1>2. EvaluationInv /\ [Next]_vars => EvaluationInv'
  BY EvaluationNext
<1> QED
  BY <1>1, <1>2, PTL DEF Spec

\* The files of every run, the commands and the aggregate keep their types.
THEOREM EvaluationTypeCorrect == Spec => []TypeOK
<1>1. EvaluationInv => TypeOK
  BY DEF EvaluationInv, PoolInv, TypeOK
<1> QED
  BY <1>1, EvaluationInvariance, PTL

\* Whatever died before, and whoever starts a training beside it, an evaluation
\* returns a report about the best model, with its trajectory on disk.
THEOREM OneModelIsReported == Spec => []OneModelReported
<1>1. EvaluationInv => OneModelReported
  BY DEF EvaluationInv, RunOK, StageInv, FilesInv, Evaluating,
         OneModelReported, OneModelReturned, TrajectoryFirst
<1> QED
  BY <1>1, EvaluationInvariance, PTL

\* Where commands on one run do not overlap, no report carries the fingerprint of
\* a source that did not train and measure its model, and no tables are pooled
\* over different labels, however the source is edited between commands.
THEOREM LabelsAreKept ==
    ASSUME ~Overlaps
    PROVE  Spec => []LabelsKept
<1>1. Init => EvaluationInv /\ LabelsInv
  BY EvaluationInit
<1>2. (EvaluationInv /\ LabelsInv) /\ [Next]_vars => (EvaluationInv /\ LabelsInv)'
  BY EvaluationNext
<1>3. EvaluationInv /\ LabelsInv => LabelsKept
  <2>1. SUFFICES ASSUME EvaluationInv, LabelsInv PROVE LabelsKept
    OBVIOUS
  <2>2. LabelsTruthful
    BY <2>1 DEF LabelsInv, RunLabels, LabelsTruthful
  <2>3. NeverPooled
    BY <2>1 DEF EvaluationInv, PoolInv, Compatible, NeverPooled
  <2> QED
    BY <2>2, <2>3 DEF LabelsKept
<1> QED
  BY <1>1, <1>2, <1>3, PTL DEF Spec
=============================================================================
