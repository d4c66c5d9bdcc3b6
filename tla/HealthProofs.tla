---------------------------- MODULE HealthProofs ----------------------------
(***************************************************************************)
(* The two Hysteresis counters of a Family compute the verdict that the    *)
(* whole history of its Windows calls for, for every configuration that    *)
(* Validate accepts and every sequence of results and link events.         *)
(***************************************************************************)
EXTENDS HealthHistory, SequenceTheorems, TLAPS

Bands == {"good", "bad", "between"}

(***************************************************************************)
(* Calls for a verdict, as a history grows by one Window.                  *)
(***************************************************************************)
LEMMA AppendParts ==
    ASSUME NEW bands \in Seq(Bands), NEW b \in Bands
    PROVE  /\ Append(bands, b) \in Seq(Bands)
           /\ Len(Append(bands, b)) = Len(bands) + 1
           /\ Len(bands) \in Nat
           /\ \A i \in 1..Len(bands) : Append(bands, b)[i] = bands[i]
           /\ Append(bands, b)[Len(bands) + 1] = b
OBVIOUS

(* What earlier Windows called for stays called for.                       *)
LEMMA CallsStay ==
    ASSUME NEW w \in Wans, NEW bands \in Seq(Bands), NEW b \in Bands,
           NEW n \in 1..Len(bands)
    PROVE  /\ CallsUp(w, Append(bands, b), n) <=> CallsUp(w, bands, n)
           /\ CallsDown(w, Append(bands, b), n) <=> CallsDown(w, bands, n)
<1>1. ConsecutiveUp[w] \in Nat /\ ConsecutiveDown[w] \in Nat
  BY ConfigAssumption DEF ValidWan
<1>2. \A k \in Nat, c \in Bands :
          RunEnds(Append(bands, b), n, k, c) <=> RunEnds(bands, n, k, c)
  BY AppendParts DEF RunEnds
<1>3. Append(bands, b)[1] = bands[1]
  BY AppendParts
<1>4. "good" \in Bands /\ "bad" \in Bands
  BY DEF Bands
<1> QED BY <1>1, <1>2, <1>3, <1>4 DEF CallsUp, CallsDown

(* A first Window decides alone.                                           *)
LEMMA VerdictOfFirst ==
    ASSUME NEW w \in Wans, NEW b \in Bands
    PROVE  Verdict(w, Append(<<>>, b)) <=> b # "bad"
<1> DEFINE one == Append(<<>>, b)
<1>1. Len(one) = 1 /\ one[1] = b
  OBVIOUS
<1>2. ConsecutiveUp[w] \in Nat \ {0}
  BY ConfigAssumption DEF ValidWan
<1> HIDE DEF one
<1>3. CallsUp(w, one, 1) <=> b # "bad"
  BY <1>1, <1>2 DEF CallsUp, RunEnds
<1>4. Verdict(w, one) <=> CallsUp(w, one, 1)
  BY <1>1 DEF Verdict
<1> QED BY <1>3, <1>4 DEF one

(* A new Window keeps the verdict unless it completes a run.               *)
LEMMA VerdictOfNext ==
    ASSUME NEW w \in Wans, NEW bands \in Seq(Bands), bands # <<>>, NEW b \in Bands
    PROVE  LET longer == Append(bands, b)
               last == Len(bands) + 1
           IN  Verdict(w, longer) <=>
                   \/ CallsUp(w, longer, last)
                   \/ Verdict(w, bands) /\ ~CallsDown(w, longer, last)
<1> DEFINE longer == Append(bands, b)
           last == Len(bands) + 1
<1>1. Len(longer) = last /\ Len(bands) \in Nat
  BY AppendParts
<1>2. \A n \in 1..Len(bands) :
          /\ CallsUp(w, longer, n) <=> CallsUp(w, bands, n)
          /\ CallsDown(w, longer, n) <=> CallsDown(w, bands, n)
  BY CallsStay
<1> HIDE DEF longer
<1>3. ASSUME Verdict(w, longer)
      PROVE  \/ CallsUp(w, longer, last)
             \/ Verdict(w, bands) /\ ~CallsDown(w, longer, last)
  <2>1. PICK n \in 1..last : /\ CallsUp(w, longer, n)
                             /\ \A m \in n + 1 .. last : ~CallsDown(w, longer, m)
    BY <1>1, <1>3 DEF Verdict
  <2>2. CASE n = last
    BY <2>1, <2>2
  <2>3. CASE n # last
    <3>1. n \in 1..Len(bands) /\ last \in n + 1 .. last
      BY <1>1, <2>3
    <3>2. \A m \in n + 1 .. Len(bands) : ~CallsDown(w, bands, m)
      BY <1>1, <1>2, <2>1
    <3>3. Verdict(w, bands)
      BY <1>2, <2>1, <3>1, <3>2 DEF Verdict
    <3> QED BY <2>1, <3>1, <3>3
  <2> QED BY <2>2, <2>3
<1>4. ASSUME CallsUp(w, longer, last)
      PROVE  Verdict(w, longer)
  <2>1. last \in 1..Len(longer) /\ last + 1 .. Len(longer) = {}
    BY <1>1
  <2> HIDE DEF last
  <2> QED BY <1>4, <2>1 DEF Verdict
<1>5. ASSUME Verdict(w, bands), ~CallsDown(w, longer, last)
      PROVE  Verdict(w, longer)
  <2>1. PICK n \in 1..Len(bands) :
            /\ CallsUp(w, bands, n)
            /\ \A m \in n + 1 .. Len(bands) : ~CallsDown(w, bands, m)
    BY <1>5 DEF Verdict
  <2>2. n \in 1..Len(longer) /\ CallsUp(w, longer, n)
    BY <1>1, <1>2, <2>1
  <2>3. \A m \in n + 1 .. Len(longer) : ~CallsDown(w, longer, m)
    <3> TAKE m \in n + 1 .. Len(longer)
    <3>1. CASE m = last
      BY <1>5, <3>1
    <3>2. CASE m # last
      <4>1. m \in n + 1 .. Len(bands) /\ m \in 1..Len(bands)
        BY <1>1, <2>1, <3>2
      <4> QED BY <1>2, <2>1, <4>1
    <3> QED BY <3>1, <3>2
  <2> QED BY <2>2, <2>3 DEF Verdict
<1> QED BY <1>3, <1>4, <1>5 DEF longer

(***************************************************************************)
(* The counters.                                                           *)
(***************************************************************************)
(* Exactly c Windows in band b end the history, the seed not counted.      *)
RunIs(bands, c, b) ==
    /\ c \in Nat /\ c < Len(bands)
    /\ \A i \in Len(bands) - c + 1 .. Len(bands) : bands[i] = b
    /\ c + 1 = Len(bands) \/ bands[Len(bands) - c] # b

(* The counter that can turn the verdict counts the run that would, and    *)
(* has not reached its threshold.  The other counter means nothing.        *)
CounterOfRun(w, fs, bands) ==
    IF fs.healthy
      THEN RunIs(bands, fs.down, "bad") /\ fs.down < ConsecutiveDown[w]
      ELSE RunIs(bands, fs.up, "good") /\ fs.up < ConsecutiveUp[w]

(* What the state of a Family knows of its history.                        *)
FamilyFollows(w, fs, bands) ==
    IF bands = <<>> THEN ~fs.cooked
    ELSE /\ fs.cooked
         /\ fs.healthy = Verdict(w, bands)
         /\ CounterOfRun(w, fs, bands)

(* A run grows by a Window of its band, and any other Window ends it.      *)
LEMMA RunGrows ==
    ASSUME NEW bands \in Seq(Bands), NEW b \in Bands, NEW c, RunIs(bands, c, b)
    PROVE  RunIs(Append(bands, b), c + 1, b)
BY AppendParts DEF RunIs

LEMMA RunBroken ==
    ASSUME NEW bands \in Seq(Bands), NEW a \in Bands, NEW b \in Bands, a # b
    PROVE  RunIs(Append(bands, a), 0, b)
BY AppendParts DEF RunIs

LEMMA SeedRun ==
    ASSUME NEW a \in Bands, NEW b \in Bands
    PROVE  RunIs(Append(<<>>, a), 0, b)
<1>1. <<>> \in Seq(Bands) /\ Len(<<>>) = 0
  OBVIOUS
<1> QED BY <1>1, AppendParts DEF RunIs

(* A threshold at or beyond the counter is met exactly when they agree.    *)
LEMMA RunMeets ==
    ASSUME NEW bands \in Seq(Bands), NEW c, NEW b \in Bands, RunIs(bands, c, b),
           NEW k \in Nat, c <= k
    PROVE  RunEnds(bands, Len(bands), k, b) <=> c = k
<1>1. Len(bands) \in Nat
  OBVIOUS
<1>2. c \in Nat /\ c < Len(bands)
  BY DEF RunIs
<1>3. ASSUME c = k PROVE RunEnds(bands, Len(bands), k, b)
  BY <1>3 DEF RunIs, RunEnds
<1>4. ASSUME c < k, RunEnds(bands, Len(bands), k, b) PROVE FALSE
  <2>1. Len(bands) > k /\ \A i \in Len(bands) - k + 1 .. Len(bands) : bands[i] = b
    BY <1>4 DEF RunEnds
  <2>2. Len(bands) - c \in Len(bands) - k + 1 .. Len(bands)
    BY <1>1, <1>2, <1>4
  <2>3. c + 1 # Len(bands)
    BY <1>1, <1>2, <1>4, <2>1
  <2>4. bands[Len(bands) - c] # b
    BY <2>3 DEF RunIs
  <2> QED BY <2>1, <2>2, <2>4
<1> QED BY <1>2, <1>3, <1>4

LEMMA LastInRun ==
    ASSUME NEW bands \in Seq(Bands), NEW a \in Bands, NEW b \in Bands, a # b,
           NEW k \in Nat \ {0}
    PROVE  ~RunEnds(Append(bands, a), Len(bands) + 1, k, b)
<1>1. Len(bands) + 1 \in Len(bands) + 1 - k + 1 .. Len(bands) + 1
  BY AppendParts
<1> QED BY <1>1, AppendParts DEF RunEnds

(***************************************************************************)
(* One result.                                                             *)
(***************************************************************************)
LEMMA ThresholdsSeeBand ==
    ASSUME NEW w \in Wans, NEW stats \in Stats
    PROVE  /\ BandOf(w, stats) \in Bands
           /\ EvaluateThresholds(TRUE, stats, Thresholds[w]) <=> BandOf(w, stats) # "bad"
           /\ EvaluateThresholds(FALSE, stats, Thresholds[w]) <=> BandOf(w, stats) = "good"
<1> DEFINE loss == OrZero(stats.loss)
           rtt == OrZero(stats.rtt)
           t == Thresholds[w]
<1>1. loss \in Nat /\ rtt \in Nat
  BY HistoryAssumption DEF OrZero
<1>2. /\ t.lossPctUp \in Nat /\ t.lossPctDown \in Nat /\ t.lossPctUp < t.lossPctDown
      /\ t.rttMsUp \in Nat /\ t.rttMsDown \in Nat /\ t.rttMsUp < t.rttMsDown
  BY ConfigAssumption DEF ValidWan, ValidThresholds
<1>3. BandOf(w, stats) =
          IF loss <= t.lossPctUp /\ rtt <= t.rttMsUp THEN "good"
          ELSE IF loss >= t.lossPctDown \/ rtt >= t.rttMsDown THEN "bad"
          ELSE "between"
  BY DEF BandOf
<1>4. /\ EvaluateThresholds(TRUE, stats, t) <=> loss < t.lossPctDown /\ rtt < t.rttMsDown
      /\ EvaluateThresholds(FALSE, stats, t) <=> loss <= t.lossPctUp /\ rtt <= t.rttMsUp
  BY DEF EvaluateThresholds
<1> HIDE DEF loss, rtt, t
<1> DEFINE seen == /\ BandOf(w, stats) \in Bands
                   /\ EvaluateThresholds(TRUE, stats, t) <=> BandOf(w, stats) # "bad"
                   /\ EvaluateThresholds(FALSE, stats, t) <=> BandOf(w, stats) = "good"
<1>5. ASSUME loss <= t.lossPctUp /\ rtt <= t.rttMsUp PROVE seen
  <2>1. ~(loss >= t.lossPctDown \/ rtt >= t.rttMsDown)
    BY <1>1, <1>2, <1>5
  <2>2. BandOf(w, stats) = "good"
    BY <1>3, <1>5, <2>1
  <2>3. /\ EvaluateThresholds(TRUE, stats, t)
        /\ EvaluateThresholds(FALSE, stats, t)
    <3>1. loss < t.lossPctDown /\ rtt < t.rttMsDown
      BY <1>1, <1>2, <1>5
    <3> QED BY <1>4, <1>5, <3>1, Zenon
  <2> QED BY <2>2, <2>3, Zenon DEF Bands
<1>6. ASSUME loss >= t.lossPctDown \/ rtt >= t.rttMsDown PROVE seen
  <2>1. ~(loss <= t.lossPctUp /\ rtt <= t.rttMsUp)
    BY <1>1, <1>2, <1>6
  <2>2. BandOf(w, stats) = "bad"
    BY <1>3, <1>6, <2>1
  <2>3. /\ ~EvaluateThresholds(TRUE, stats, t)
        /\ ~EvaluateThresholds(FALSE, stats, t)
    <3>1. ~(loss < t.lossPctDown /\ rtt < t.rttMsDown)
      BY <1>1, <1>2, <1>6
    <3> QED BY <1>4, <2>1, <3>1, Zenon
  <2> QED BY <2>2, <2>3, Zenon DEF Bands
<1>7. ASSUME ~(loss <= t.lossPctUp /\ rtt <= t.rttMsUp),
             ~(loss >= t.lossPctDown \/ rtt >= t.rttMsDown)
      PROVE  seen
  <2>1. BandOf(w, stats) = "between"
    BY <1>3, <1>7
  <2>2. /\ EvaluateThresholds(TRUE, stats, t)
        /\ ~EvaluateThresholds(FALSE, stats, t)
    <3>1. loss < t.lossPctDown /\ rtt < t.rttMsDown
      BY <1>1, <1>2, <1>7
    <3> QED BY <1>4, <1>7, <3>1, Zenon
  <2> QED BY <2>1, <2>2, Zenon DEF Bands
<1>8. seen
  <2> HIDE DEF seen
  <2> QED BY <1>5, <1>6, <1>7
<1> QED BY <1>8 DEF t

(* What one observation leaves in a Family's state.                        *)
LEMMA ObserveGood ==
    ASSUME NEW w \in Wans, NEW fs \in FamilyHealth
    PROVE  LET new == Observe(w, fs, TRUE)
               n == Lesser(fs.up + 1, ConsecutiveUp[w])
           IN  /\ new \in FamilyHealth /\ new.cooked = fs.cooked
               /\ new.down = 0 /\ new.up = n
               /\ new.healthy = (fs.healthy \/ n >= ConsecutiveUp[w])
<1> DEFINE n == Lesser(fs.up + 1, ConsecutiveUp[w])
           turned == (fs.healthy \/ n >= ConsecutiveUp[w])
<1>1. n \in Nat
  BY ConfigAssumption DEF ValidWan, FamilyHealth, Lesser
<1>2. turned \in BOOLEAN
  OBVIOUS
<1>3. Observe(w, fs, TRUE) = [fs EXCEPT !.down = 0, !.up = n, !.healthy = turned]
  BY DEF Observe, FamilyHealth
<1> HIDE DEF n, turned
<1>4. LET new == [fs EXCEPT !.down = 0, !.up = n, !.healthy = turned]
      IN  /\ new \in FamilyHealth /\ new.cooked = fs.cooked
          /\ new.down = 0 /\ new.up = n /\ new.healthy = turned
  BY <1>1, <1>2 DEF FamilyHealth
<1> QED BY <1>3, <1>4 DEF n, turned

LEMMA ObserveBad ==
    ASSUME NEW w \in Wans, NEW fs \in FamilyHealth
    PROVE  LET new == Observe(w, fs, FALSE)
               n == Lesser(fs.down + 1, ConsecutiveDown[w])
           IN  /\ new \in FamilyHealth /\ new.cooked = fs.cooked
               /\ new.up = 0 /\ new.down = n
               /\ new.healthy = (fs.healthy /\ ~(n >= ConsecutiveDown[w]))
<1> DEFINE n == Lesser(fs.down + 1, ConsecutiveDown[w])
           turned == (fs.healthy /\ ~(n >= ConsecutiveDown[w]))
<1>1. n \in Nat
  BY ConfigAssumption DEF ValidWan, FamilyHealth, Lesser
<1>2. turned \in BOOLEAN
  OBVIOUS
<1>3. Observe(w, fs, FALSE) = [fs EXCEPT !.up = 0, !.down = n, !.healthy = turned]
  BY DEF Observe, FamilyHealth
<1> HIDE DEF n, turned
<1>4. LET new == [fs EXCEPT !.up = 0, !.down = n, !.healthy = turned]
      IN  /\ new \in FamilyHealth /\ new.cooked = fs.cooked
          /\ new.up = 0 /\ new.down = n /\ new.healthy = turned
  BY <1>1, <1>2 DEF FamilyHealth
<1> QED BY <1>3, <1>4 DEF n, turned

(* A Family's state follows its history through one result that counts     *)
(* (evaluateThresholds, hysteresis.seed, hysteresis.observe).              *)
LEMMA FoldFollows ==
    ASSUME NEW w \in Wans, NEW fs \in FamilyHealth, NEW bands \in Seq(Bands),
           NEW stats \in Stats, FamilyFollows(w, fs, bands)
    PROVE  /\ Fold(w, fs, stats) \in FamilyHealth
           /\ FamilyFollows(w, Fold(w, fs, stats), Append(bands, BandOf(w, stats)))
<1> DEFINE b == BandOf(w, stats)
           longer == Append(bands, b)
           next == Fold(w, fs, stats)
<1>1. /\ b \in Bands
      /\ EvaluateThresholds(TRUE, stats, Thresholds[w]) <=> b # "bad"
      /\ EvaluateThresholds(FALSE, stats, Thresholds[w]) <=> b = "good"
  BY ThresholdsSeeBand
<1>2. ConsecutiveUp[w] \in Nat \ {0} /\ ConsecutiveDown[w] \in Nat \ {0}
  BY ConfigAssumption DEF ValidWan
<1>3. /\ longer \in Seq(Bands) /\ Len(longer) = Len(bands) + 1 /\ longer # <<>>
      /\ Len(bands) \in Nat
      /\ "good" \in Bands /\ "bad" \in Bands
  <2>1. longer \in Seq(Bands) /\ Len(longer) = Len(bands) + 1 /\ Len(bands) \in Nat
    BY <1>1, AppendParts
  <2> QED BY <2>1 DEF Bands
<1>4. /\ fs.cooked \in BOOLEAN /\ fs.healthy \in BOOLEAN /\ fs.up \in Nat /\ fs.down \in Nat
  BY DEF FamilyHealth
<1> HIDE DEF b, longer
<1>5. CASE bands = <<>>
  <2>1. ~fs.cooked
    BY <1>5 DEF FamilyFollows
  <2>2. next = [fs EXCEPT !.cooked = TRUE, !.healthy = EvaluateThresholds(TRUE, stats, Thresholds[w]),
                          !.up = 0, !.down = 0]
    BY <2>1, <1>4 DEF Fold, Seed
  <2>3. EvaluateThresholds(TRUE, stats, Thresholds[w]) \in BOOLEAN
    BY DEF EvaluateThresholds
  <2>4. /\ next \in FamilyHealth /\ next.cooked /\ next.up = 0 /\ next.down = 0
        /\ next.healthy = EvaluateThresholds(TRUE, stats, Thresholds[w])
    <3> DEFINE raw == EvaluateThresholds(TRUE, stats, Thresholds[w])
    <3> HIDE DEF raw
    <3>1. raw \in BOOLEAN
      BY <2>3 DEF raw
    <3>2. LET new == [fs EXCEPT !.cooked = TRUE, !.healthy = raw, !.up = 0, !.down = 0]
          IN  /\ new \in FamilyHealth /\ new.cooked /\ new.up = 0 /\ new.down = 0
              /\ new.healthy = raw
      BY <3>1 DEF FamilyHealth
    <3> QED BY <2>2, <3>2 DEF raw
  <2>5. Verdict(w, longer) <=> b # "bad"
    BY <1>1, <1>5, VerdictOfFirst DEF longer
  <2>6. RunIs(longer, 0, "bad") /\ RunIs(longer, 0, "good")
    BY <1>1, <1>3, <1>5, SeedRun DEF longer
  <2>7. next.healthy = Verdict(w, longer)
    BY <1>1, <2>3, <2>4, <2>5 DEF Verdict
  <2> HIDE DEF next
  <2>8. CounterOfRun(w, next, longer)
    <3>1. 0 < ConsecutiveUp[w] /\ 0 < ConsecutiveDown[w]
      BY <1>2
    <3> QED BY <2>4, <2>6, <3>1, Zenon DEF CounterOfRun
  <2> QED BY <1>3, <2>4, <2>7, <2>8 DEF FamilyFollows, next, b, longer
<1>6. CASE bands # <<>>
  <2>1. fs.cooked /\ fs.healthy = Verdict(w, bands) /\ CounterOfRun(w, fs, bands)
    BY <1>6 DEF FamilyFollows
  <2>2. Verdict(w, longer) <=>
            \/ CallsUp(w, longer, Len(longer))
            \/ Verdict(w, bands) /\ ~CallsDown(w, longer, Len(longer))
    BY <1>1, <1>3, <1>6, VerdictOfNext DEF longer
  <2>3. Len(longer) # 1
    BY <1>3, <1>6
  <2>4. /\ CallsUp(w, longer, Len(longer))
               <=> RunEnds(longer, Len(longer), ConsecutiveUp[w], "good")
        /\ CallsDown(w, longer, Len(longer))
               <=> RunEnds(longer, Len(longer), ConsecutiveDown[w], "bad")
    BY <2>3 DEF CallsUp, CallsDown
  <2>7. /\ EvaluateThresholds(TRUE, stats, Thresholds[w]) \in BOOLEAN
        /\ EvaluateThresholds(FALSE, stats, Thresholds[w]) \in BOOLEAN
    BY DEF EvaluateThresholds
  <2>5. CASE fs.healthy
    <3>1. RunIs(bands, fs.down, "bad") /\ fs.down < ConsecutiveDown[w]
      BY <2>1, <2>5 DEF CounterOfRun
    <3>2. CASE b = "bad"
      <4>1. next = Observe(w, fs, FALSE)
        BY <1>1, <2>1, <2>5, <3>2, <2>7 DEF Fold
      <4>2. /\ next \in FamilyHealth /\ next.cooked /\ next.up = 0
            /\ next.down = fs.down + 1
            /\ next.healthy = (fs.down + 1 # ConsecutiveDown[w])
        <5>1. Lesser(fs.down + 1, ConsecutiveDown[w]) = fs.down + 1
          BY <1>2, <1>4, <3>1 DEF Lesser
        <5>2. ~(fs.down + 1 >= ConsecutiveDown[w]) <=> fs.down + 1 # ConsecutiveDown[w]
          BY <1>2, <1>4, <3>1
        <5> HIDE DEF next
        <5> QED BY <2>1, <2>5, <4>1, <5>1, <5>2, ObserveBad
      <4>3. RunIs(longer, fs.down + 1, "bad") /\ RunIs(longer, 0, "good")
        BY <1>3, <3>1, <3>2, RunGrows, RunBroken DEF longer
      <4>4. RunEnds(longer, Len(longer), ConsecutiveDown[w], "bad")
                <=> fs.down + 1 = ConsecutiveDown[w]
        BY <1>2, <1>3, <1>4, <3>1, <4>3, RunMeets
      <4>5. ~RunEnds(longer, Len(longer), ConsecutiveUp[w], "good")
        BY <1>2, <1>3, <3>2, LastInRun DEF longer
      <4>6. next.healthy = Verdict(w, longer)
        BY <2>1, <2>2, <2>4, <2>5, <4>2, <4>4, <4>5 DEF Verdict
      <4> HIDE DEF next
      <4>7. CounterOfRun(w, next, longer)
        <5>1. 0 < ConsecutiveUp[w]
          BY <1>2
        <5>2. fs.down + 1 # ConsecutiveDown[w] => fs.down + 1 < ConsecutiveDown[w]
          BY <1>2, <1>4, <3>1
        <5> QED BY <4>2, <4>3, <5>1, <5>2, Zenon DEF CounterOfRun
      <4> QED BY <1>3, <4>2, <4>6, <4>7 DEF FamilyFollows, next, b, longer
    <3>3. CASE b # "bad"
      <4>1. next = Observe(w, fs, TRUE)
        BY <1>1, <2>1, <2>5, <3>3, <2>7 DEF Fold
      <4>2. /\ next \in FamilyHealth /\ next.cooked /\ next.down = 0
            /\ next.healthy = TRUE
        <5> HIDE DEF next
        <5> QED BY <2>1, <2>5, <4>1, ObserveGood
      <4>3. RunIs(longer, 0, "bad")
        BY <1>1, <1>3, <3>3, RunBroken DEF longer
      <4>4. ~RunEnds(longer, Len(longer), ConsecutiveDown[w], "bad")
        BY <1>1, <1>2, <1>3, <3>3, LastInRun DEF longer
      <4>5. next.healthy = Verdict(w, longer)
        BY <2>1, <2>2, <2>4, <2>5, <4>2, <4>4 DEF Verdict
      <4> HIDE DEF next
      <4>6. CounterOfRun(w, next, longer)
        BY <1>2, <4>2, <4>3 DEF CounterOfRun
      <4> QED BY <1>3, <4>2, <4>5, <4>6 DEF FamilyFollows, next, b, longer
    <3> QED BY <3>2, <3>3
  <2>6. CASE ~fs.healthy
    <3>1. RunIs(bands, fs.up, "good") /\ fs.up < ConsecutiveUp[w]
      BY <2>1, <2>6 DEF CounterOfRun
    <3>2. CASE b = "good"
      <4>1. next = Observe(w, fs, TRUE)
        BY <1>1, <2>1, <2>6, <3>2, <2>7 DEF Fold
      <4>2. /\ next \in FamilyHealth /\ next.cooked /\ next.down = 0
            /\ next.up = fs.up + 1
            /\ next.healthy = (fs.up + 1 = ConsecutiveUp[w])
        <5>1. Lesser(fs.up + 1, ConsecutiveUp[w]) = fs.up + 1
          BY <1>2, <1>4, <3>1 DEF Lesser
        <5>2. fs.up + 1 >= ConsecutiveUp[w] <=> fs.up + 1 = ConsecutiveUp[w]
          BY <1>2, <1>4, <3>1
        <5> HIDE DEF next
        <5>3. /\ next \in FamilyHealth /\ next.cooked = fs.cooked
              /\ next.down = 0 /\ next.up = fs.up + 1
              /\ next.healthy = (fs.healthy \/ fs.up + 1 >= ConsecutiveUp[w])
          BY <4>1, <5>1, ObserveGood
        <5> QED BY <2>1, <2>6, <5>2, <5>3
      <4>3. RunIs(longer, fs.up + 1, "good") /\ RunIs(longer, 0, "bad")
        BY <1>3, <3>1, <3>2, RunGrows, RunBroken DEF longer
      <4>4. RunEnds(longer, Len(longer), ConsecutiveUp[w], "good")
                <=> fs.up + 1 = ConsecutiveUp[w]
        BY <1>2, <1>3, <1>4, <3>1, <4>3, RunMeets
      <4>5. next.healthy = Verdict(w, longer)
        BY <2>1, <2>2, <2>4, <2>6, <4>2, <4>4 DEF Verdict
      <4> HIDE DEF next
      <4>6. CounterOfRun(w, next, longer)
        <5>1. 0 < ConsecutiveDown[w]
          BY <1>2
        <5>2. fs.up + 1 # ConsecutiveUp[w] => fs.up + 1 < ConsecutiveUp[w]
          BY <1>2, <1>4, <3>1
        <5> QED BY <4>2, <4>3, <5>1, <5>2, Zenon DEF CounterOfRun
      <4> QED BY <1>3, <4>2, <4>5, <4>6 DEF FamilyFollows, next, b, longer
    <3>3. CASE b # "good"
      <4>1. next = Observe(w, fs, FALSE)
        BY <1>1, <2>1, <2>6, <3>3, <2>7 DEF Fold
      <4>2. /\ next \in FamilyHealth /\ next.cooked /\ next.up = 0
            /\ next.healthy = FALSE
        <5> HIDE DEF next
        <5> QED BY <2>1, <2>6, <4>1, ObserveBad
      <4>3. RunIs(longer, 0, "good")
        BY <1>1, <1>3, <3>3, RunBroken DEF longer
      <4>4. ~RunEnds(longer, Len(longer), ConsecutiveUp[w], "good")
        BY <1>1, <1>2, <1>3, <3>3, LastInRun DEF longer
      <4>5. next.healthy = Verdict(w, longer)
        BY <2>1, <2>2, <2>4, <2>6, <4>2, <4>4 DEF Verdict
      <4> HIDE DEF next
      <4>6. CounterOfRun(w, next, longer)
        BY <1>2, <4>2, <4>3 DEF CounterOfRun
      <4> QED BY <1>3, <4>2, <4>5, <4>6 DEF FamilyFollows, next, b, longer
    <3> QED BY <3>2, <3>3
  <2> QED BY <1>4, <2>5, <2>6
<1> QED BY <1>5, <1>6

(***************************************************************************)
(* The inductive invariant: types, every Family follows its history, and   *)
(* every WAN sees its interface's last link event.                         *)
(***************************************************************************)
HistoryTypes ==
    /\ health \in [Wans -> WanHealth]
    /\ results \in [Wans -> [Families -> Seq(Bands)]]
    /\ links \in [Ifaces -> [carrier : Carriers, operstate : Operstates]]

FamiliesFollow ==
    \A w \in Wans : \A f \in Probed[w] :
        FamilyFollows(w, health[w].family[f], results[w][f])

HistoryInv == HistoryTypes /\ FamiliesFollow /\ LinkStateShared

LEMMA ProbedFamilies ==
    ASSUME NEW w \in Wans
    PROVE  Probed[w] \subseteq Families /\ Interface[w] \in Ifaces
BY ConfigAssumption DEF ValidWan

LEMMA InitHistoryInv == Init => HistoryInv
<1> SUFFICES ASSUME Init PROVE HistoryInv
  OBVIOUS
<1>1. ColdFamily \in FamilyHealth /\ ~ColdFamily.cooked
  BY DEF ColdFamily, FamilyHealth
<1>2. ColdWan \in WanHealth
  BY <1>1 DEF ColdWan, WanHealth, Carriers, Operstates
<1>3. HistoryTypes
  <2>1. health \in [Wans -> WanHealth]
    BY <1>2 DEF Init, ColdHealth
  <2>2. results \in [Wans -> [Families -> Seq(Bands)]]
    BY DEF Init
  <2>3. links \in [Ifaces -> [carrier : Carriers, operstate : Operstates]]
    BY DEF Init, Carriers, Operstates
  <2> QED BY <2>1, <2>2, <2>3 DEF HistoryTypes
<1>4. FamiliesFollow
  <2> SUFFICES ASSUME NEW w \in Wans, NEW f \in Probed[w]
               PROVE  FamilyFollows(w, health[w].family[f], results[w][f])
    BY DEF FamiliesFollow
  <2>1. f \in Families
    BY ProbedFamilies
  <2>2. health[w].family[f] = ColdFamily /\ results[w][f] = <<>>
    BY <2>1 DEF Init, ColdHealth, ColdWan
  <2> QED BY <1>1, <2>2, Zenon DEF FamilyFollows
<1>5. LinkStateShared
  BY ProbedFamilies DEF Init, ColdHealth, ColdWan, LinkStateShared
<1> QED BY <1>3, <1>4, <1>5 DEF HistoryInv

(* A result that counts folds into its own Family and into nothing else.   *)
LEMMA ProbeEffect ==
    ASSUME HistoryInv, NEW w \in Wans, NEW f \in Probed[w], NEW stats \in Stats,
           ProbeResult(w, f, stats)
    PROVE  \/ health' = health /\ results' = results
           \/ LET fs == health[w].family[f]
              IN  /\ health' = [health EXCEPT ![w].family[f] = Fold(w, fs, stats)]
                  /\ results' = [results EXCEPT ![w][f] = Append(@, BandOf(w, stats))]
<1>1. health[w].family[f].cooked <=> results[w][f] # <<>>
  BY Zenon DEF HistoryInv, FamiliesFollow, FamilyFollows
<1>2. CASE results[w][f] # <<>> \/ stats.filled
  BY <1>1, <1>2 DEF ProbeResult, ProbeHealth, Folds
<1>3. CASE ~(results[w][f] # <<>> \/ stats.filled)
  BY <1>1, <1>3 DEF ProbeResult, ProbeHealth, Folds
<1> QED BY <1>2, <1>3

LEMMA ProbeKeeps ==
    ASSUME HistoryInv, NEW w \in Wans, NEW f \in Probed[w], NEW stats \in Stats,
           ProbeResult(w, f, stats)
    PROVE  HistoryInv'
<1>0. HistoryTypes /\ FamiliesFollow /\ LinkStateShared /\ f \in Families
  BY ProbedFamilies DEF HistoryInv
<1>1. links' = links
  BY DEF ProbeResult
<1>2. CASE health' = health /\ results' = results
  BY <1>0, <1>1, <1>2 DEF HistoryInv, HistoryTypes, FamiliesFollow, LinkStateShared
<1>3. CASE ~(health' = health /\ results' = results)
  <2> DEFINE fs == health[w].family[f]
             new == Fold(w, fs, stats)
             bands == results[w][f]
             longer == Append(bands, BandOf(w, stats))
  <2>1. /\ health' = [health EXCEPT ![w].family[f] = new]
        /\ results' = [results EXCEPT ![w][f] = longer]
    BY <1>3, ProbeEffect DEF HistoryTypes
  <2>2. fs \in FamilyHealth /\ bands \in Seq(Bands) /\ FamilyFollows(w, fs, bands)
    BY <1>0 DEF HistoryTypes, FamiliesFollow, WanHealth
  <2>3. new \in FamilyHealth /\ FamilyFollows(w, new, longer)
    BY <2>2, FoldFollows
  <2>4. longer \in Seq(Bands)
    BY <2>2, ThresholdsSeeBand, AppendParts
  <2> HIDE DEF fs, new, bands, longer
  <2>5. health' \in [Wans -> WanHealth]
    BY <1>0, <2>1, <2>3 DEF HistoryTypes, WanHealth
  <2>6. results' \in [Wans -> [Families -> Seq(Bands)]]
    BY <1>0, <2>1, <2>4 DEF HistoryTypes
  <2>7. HistoryTypes'
    BY <1>0, <1>1, <2>5, <2>6 DEF HistoryTypes
  <2>8. ASSUME NEW v \in Wans, NEW g \in Families
        PROVE  /\ health'[v].family[g] = IF v = w /\ g = f THEN new ELSE health[v].family[g]
               /\ results'[v][g] = IF v = w /\ g = f THEN longer ELSE results[v][g]
               /\ health'[v].carrier = health[v].carrier
               /\ health'[v].operstate = health[v].operstate
    BY <1>0, <2>1 DEF HistoryTypes, WanHealth
  <2>9. FamiliesFollow'
    <3> SUFFICES ASSUME NEW v \in Wans, NEW g \in Probed[v]
                 PROVE  FamilyFollows(v, health'[v].family[g], results'[v][g])
      BY DEF FamiliesFollow
    <3>1. g \in Families
      BY ProbedFamilies
    <3>2. CASE v = w /\ g = f
      BY <2>3, <2>8, <3>1, <3>2, Zenon
    <3>3. CASE ~(v = w /\ g = f)
      <4>1. health'[v].family[g] = health[v].family[g] /\ results'[v][g] = results[v][g]
        BY <2>8, <3>1, <3>3
      <4>2. FamilyFollows(v, health[v].family[g], results[v][g])
        BY <1>0 DEF FamiliesFollow
      <4> QED BY <4>1, <4>2, Zenon
    <3> QED BY <3>2, <3>3
  <2>10. LinkStateShared'
    BY <1>0, <1>1, <2>8 DEF LinkStateShared
  <2> QED BY <2>7, <2>9, <2>10 DEF HistoryInv
<1> QED BY <1>2, <1>3

LEMMA LinkKeeps ==
    ASSUME HistoryInv, NEW i \in Ifaces, NEW link \in LinkStates, LinkEvent(i, link)
    PROVE  HistoryInv'
<1>0. HistoryTypes /\ FamiliesFollow /\ LinkStateShared
  BY DEF HistoryInv
<1>1. /\ health' = LinkHealth(health, i, link)
      /\ links' = [links EXCEPT ![i] = link]
      /\ results' = results
  BY DEF LinkEvent
<1>2. link \in [carrier : Carriers, operstate : Operstates]
  BY HistoryAssumption
<1>3. ASSUME NEW v \in Wans
      PROVE  /\ health'[v] \in WanHealth
             /\ health'[v].family = health[v].family
             /\ health'[v].carrier = IF Interface[v] = i THEN link.carrier ELSE health[v].carrier
             /\ health'[v].operstate = IF Interface[v] = i THEN link.operstate ELSE health[v].operstate
  <2>1. health[v] \in WanHealth
    BY <1>0 DEF HistoryTypes
  <2>2. CASE Interface[v] = i
    <3>1. health'[v] = [health[v] EXCEPT !.carrier = link.carrier, !.operstate = link.operstate]
      BY <1>1, <2>2 DEF LinkHealth
    <3> QED BY <1>2, <2>1, <2>2, <3>1 DEF WanHealth
  <2>3. CASE Interface[v] # i
    <3>1. health'[v] = health[v]
      BY <1>1, <2>3 DEF LinkHealth
    <3> QED BY <2>1, <2>3, <3>1
  <2> QED BY <2>2, <2>3
<1>4. HistoryTypes'
  <2>1. health' = [v \in Wans |-> health'[v]]
    BY <1>1 DEF LinkHealth
  <2>2. health' \in [Wans -> WanHealth]
    BY <1>3, <2>1
  <2>3. links' \in [Ifaces -> [carrier : Carriers, operstate : Operstates]]
    BY <1>0, <1>1, <1>2 DEF HistoryTypes
  <2> QED BY <1>0, <1>1, <2>2, <2>3 DEF HistoryTypes
<1>5. FamiliesFollow'
  BY <1>0, <1>1, <1>3 DEF FamiliesFollow
<1>6. LinkStateShared'
  BY <1>0, <1>1, <1>3, ProbedFamilies DEF LinkStateShared, HistoryTypes
<1> QED BY <1>4, <1>5, <1>6 DEF HistoryInv

LEMMA NextHistoryInv == HistoryInv /\ [Next]_vars => HistoryInv'
<1> SUFFICES ASSUME HistoryInv, [Next]_vars PROVE HistoryInv'
  OBVIOUS
<1>1. CASE \E w \in Wans : \E f \in Probed[w], stats \in Stats : ProbeResult(w, f, stats)
  BY <1>1, ProbeKeeps
<1>2. CASE \E i \in Ifaces, link \in LinkStates : LinkEvent(i, link)
  BY <1>2, LinkKeeps
<1>3. CASE UNCHANGED vars
  BY <1>3 DEF vars, HistoryInv, HistoryTypes, FamiliesFollow, LinkStateShared
<1> QED BY <1>1, <1>2, <1>3 DEF Next

LEMMA HistoryInvariance == Spec => []HistoryInv
BY InitHistoryInv, NextHistoryInv, PTL DEF Spec

(* The Health that Decisions are made on is what the whole history of      *)
(* results and link events calls for (Wans.Probe, Wans.Link).              *)
THEOREM HealthFollowsHistory == Spec => []HealthMatchesHistory
<1>1. HistoryInv => HealthMatchesHistory
  BY Zenon DEF HistoryInv, FamiliesFollow, FamilyFollows, HealthMatchesHistory,
               VerdictMatchesHistory
<1> QED BY <1>1, HistoryInvariance, PTL

(***************************************************************************)
(* What turns a WAN's Health.                                              *)
(***************************************************************************)
(* A Window between the bands agrees with whatever verdict stands.         *)
LEMMA BetweenKeepsVote ==
    ASSUME NEW w \in Wans, NEW fs \in FamilyHealth, NEW stats \in Stats,
           fs.cooked, BandOf(w, stats) = "between"
    PROVE  Vote(Fold(w, fs, stats)) = Vote(fs)
<1>1. /\ EvaluateThresholds(TRUE, stats, Thresholds[w]) <=> TRUE
      /\ EvaluateThresholds(FALSE, stats, Thresholds[w]) <=> FALSE
  BY ThresholdsSeeBand
<1>2. /\ EvaluateThresholds(TRUE, stats, Thresholds[w]) \in BOOLEAN
      /\ EvaluateThresholds(FALSE, stats, Thresholds[w]) \in BOOLEAN
  BY DEF EvaluateThresholds
<1>3. fs.healthy \in BOOLEAN /\ fs.cooked = TRUE
  BY DEF FamilyHealth
<1>4. CASE fs.healthy
  <2>1. Fold(w, fs, stats) = Observe(w, fs, TRUE)
    BY <1>1, <1>2, <1>3, <1>4 DEF Fold
  <2>2. Observe(w, fs, TRUE).healthy = TRUE
    BY <1>4, ObserveGood
  <2> QED BY <1>4, <2>1, <2>2, Zenon DEF Vote
<1>5. CASE ~fs.healthy
  <2>1. Fold(w, fs, stats) = Observe(w, fs, FALSE)
    BY <1>1, <1>2, <1>3, <1>5 DEF Fold
  <2>2. Observe(w, fs, FALSE).healthy = FALSE /\ Observe(w, fs, FALSE).cooked = TRUE
    BY <1>3, <1>5, ObserveBad
  <2> QED BY <1>5, <2>1, <2>2, Zenon DEF Vote
<1> QED BY <1>4, <1>5

(* Health is a function of the link and of the votes of probed Families.   *)
LEMMA HealthOfVotes ==
    ASSUME NEW h, NEW k, NEW w \in Wans,
           k[w].carrier = h[w].carrier, k[w].operstate = h[w].operstate,
           \A f \in Probed[w] : Vote(k[w].family[f]) = Vote(h[w].family[f])
    PROVE  Healthy(k, w) = Healthy(h, w)
<1>1. CarrierUp(k[w]) <=> CarrierUp(h[w])
  BY DEF CarrierUp
<1>2. CombineFamilies(w, k[w]) <=> CombineFamilies(w, h[w])
  BY Zenon DEF CombineFamilies
<1> QED BY <1>1, <1>2 DEF Healthy

(* A step may turn the Health of w: the condition of BetweenBandsHolds.    *)
MayTurn(w) ==
    \E f \in Probed[w] :
        /\ results'[w][f] # results[w][f]
        /\ \/ results[w][f] = <<>>
           \/ results'[w][f][Len(results'[w][f])] # "between"

LEMMA ProbeTurns ==
    ASSUME HistoryInv, NEW w \in Wans, NEW f \in Probed[w], NEW stats \in Stats,
           ProbeResult(w, f, stats), NEW v \in Wans, ~MayTurn(v)
    PROVE  Healthy(health, v) = Healthy(health', v)
<1> DEFINE fs == health[w].family[f]
           new == Fold(w, fs, stats)
           bands == results[w][f]
           longer == Append(bands, BandOf(w, stats))
<1>0. HistoryTypes /\ FamiliesFollow /\ f \in Families
  BY ProbedFamilies DEF HistoryInv
<1>1. CASE health' = health /\ results' = results
  BY <1>1
<1>2. CASE ~(health' = health /\ results' = results)
  <2>1. /\ health' = [health EXCEPT ![w].family[f] = new]
        /\ results' = [results EXCEPT ![w][f] = longer]
    BY <1>2, ProbeEffect DEF HistoryTypes
  <2>2. fs \in FamilyHealth /\ bands \in Seq(Bands) /\ FamilyFollows(w, fs, bands)
    BY <1>0 DEF HistoryTypes, FamiliesFollow, WanHealth
  <2>3. /\ Len(longer) = Len(bands) + 1 /\ Len(bands) \in Nat
        /\ longer[Len(longer)] = BandOf(w, stats)
    BY <2>2, ThresholdsSeeBand, AppendParts
  <2>4. longer # bands
    BY <2>3
  <2> HIDE DEF fs, new, bands, longer
  <2>5. results'[w][f] = longer /\ results[w][f] = bands
    BY <1>0, <2>1 DEF HistoryTypes, bands
  <2>6. ASSUME v = w PROVE Vote(new) = Vote(fs)
    <3>1. bands # <<>> /\ BandOf(w, stats) = "between"
      BY <2>3, <2>4, <2>5, <2>6 DEF MayTurn
    <3>2. fs.cooked
      BY <2>2, <3>1, Zenon DEF FamilyFollows
    <3> QED BY <2>2, <3>1, <3>2, BetweenKeepsVote DEF new
  <2>7. /\ health'[v].carrier = health[v].carrier
        /\ health'[v].operstate = health[v].operstate
    BY <1>0, <2>1 DEF HistoryTypes, WanHealth
  <2>8. ASSUME NEW g \in Probed[v]
        PROVE  Vote(health'[v].family[g]) = Vote(health[v].family[g])
    <3>1. g \in Families
      BY ProbedFamilies
    <3>2. CASE v = w /\ g = f
      <4>1. health'[v].family[g] = new /\ health[v].family[g] = fs
        BY <1>0, <2>1, <3>1, <3>2 DEF HistoryTypes, WanHealth, fs
      <4> QED BY <2>6, <3>2, <4>1
    <3>3. CASE ~(v = w /\ g = f)
      <4>1. health'[v].family[g] = health[v].family[g]
        BY <1>0, <2>1, <3>1, <3>3 DEF HistoryTypes, WanHealth
      <4> QED BY <4>1
    <3> QED BY <3>2, <3>3
  <2> QED BY <2>7, <2>8, HealthOfVotes
<1> QED BY <1>1, <1>2

(* A link event that repeats what was last reported changes nothing.       *)
LEMMA LinkTurns ==
    ASSUME HistoryInv, NEW i \in Ifaces, NEW link \in LinkStates, LinkEvent(i, link),
           links' = links, NEW v \in Wans
    PROVE  Healthy(health, v) = Healthy(health', v)
<1>0. HistoryTypes /\ LinkStateShared
  BY DEF HistoryInv
<1>1. health'[v].family = health[v].family
  BY <1>0 DEF LinkEvent, LinkHealth, HistoryTypes, WanHealth
<1>2. links[i] = link
  BY <1>0 DEF LinkEvent, HistoryTypes
<1>3. /\ health'[v].carrier = health[v].carrier
      /\ health'[v].operstate = health[v].operstate
  <2>1. CASE Interface[v] = i
    <3>1. health'[v] = [health[v] EXCEPT !.carrier = link.carrier, !.operstate = link.operstate]
      BY <2>1 DEF LinkEvent, LinkHealth
    <3>2. health[v].carrier = link.carrier /\ health[v].operstate = link.operstate
      BY <1>0, <1>2, <2>1 DEF LinkStateShared
    <3> QED BY <1>0, <3>1, <3>2 DEF HistoryTypes, WanHealth
  <2>2. CASE Interface[v] # i
    BY <2>2 DEF LinkEvent, LinkHealth
  <2> QED BY <2>1, <2>2
<1> QED BY <1>1, <1>3, HealthOfVotes

(* Only a link event, a first Window, or a good or bad one turns a WAN's   *)
(* Health, and a result only that of its own WAN (Wans.Probe, fold).       *)
THEOREM BetweenNeverTurns == Spec => BetweenBandsHolds
<1>1. HistoryInv /\ [Next]_vars =>
        [\A w \in Wans :
          /\ Healthy(health, w) # Healthy(health', w)
          /\ links' = links
          => \E f \in Probed[w] :
                /\ results'[w][f] # results[w][f]
                /\ \/ results[w][f] = <<>>
                   \/ results'[w][f][Len(results'[w][f])] # "between"]_vars
  <2> SUFFICES ASSUME HistoryInv, Next, NEW v \in Wans, links' = links, ~MayTurn(v)
               PROVE  Healthy(health, v) = Healthy(health', v)
    BY DEF MayTurn
  <2>1. CASE \E w \in Wans : \E f \in Probed[w], stats \in Stats : ProbeResult(w, f, stats)
    BY <2>1, ProbeTurns
  <2>2. CASE \E i \in Ifaces, link \in LinkStates : LinkEvent(i, link)
    BY <2>2, LinkTurns
  <2> QED BY <2>1, <2>2 DEF Next
<1> QED BY <1>1, HistoryInvariance, PTL DEF Spec, BetweenBandsHolds
=============================================================================
