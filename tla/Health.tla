------------------------------- MODULE Health -------------------------------
(***************************************************************************)
(* WAN Health: how probe results and link events become the verdict the    *)
(* Strategy reads.  Every operator is a function of the Health of all WANs *)
(* (h), as health.Wans is owned by one goroutine and performs no I/O.      *)
(*                                                                         *)
(* h[w] records the carrier and operstate of w's interface and, for each   *)
(* Family, whether its first full Window has been seen (cooked), the       *)
(* verdict after Hysteresis (healthy) and the Hysteresis run counters.     *)
(***************************************************************************)
EXTENDS Config

CONSTANT NoData  \* a statistic without data (nil in FamilyStats)

Carriers == {"unknown", "down", "up"}
Operstates == {"unknown", "notpresent", "down", "lowerlayerdown",
               "testing", "dormant", "up"}

FamilyHealth == [cooked : BOOLEAN, healthy : BOOLEAN, up : Nat, down : Nat]
WanHealth == [carrier : Carriers, operstate : Operstates,
              family : [Families -> FamilyHealth]]

Lesser(m, n) == IF m <= n THEN m ELSE n

ColdFamily == [cooked |-> FALSE, healthy |-> FALSE, up |-> 0, down |-> 0]
ColdWan == [carrier |-> "unknown", operstate |-> "unknown",
            family |-> [f \in Families |-> ColdFamily]]
ColdHealth == [w \in Wans |-> ColdWan]

(***************************************************************************)
(* Hysteresis.  The code's counters grow with every agreeing observation;  *)
(* it only ever compares them with >= to their threshold, so the model     *)
(* stops counting there.                                                   *)
(***************************************************************************)
(* Slip: a good result does not end a run of bad ones.                     *)
ObserveKeepsRun(w, fs, raw) ==
    IF raw
      THEN LET n == Lesser(fs.up + 1, ConsecutiveUp[w])
           IN  [fs EXCEPT !.up = n, !.healthy = @ \/ n >= ConsecutiveUp[w]]
      ELSE LET n == Lesser(fs.down + 1, ConsecutiveDown[w])
           IN  [fs EXCEPT !.up = 0, !.down = n,
                          !.healthy = @ /\ ~(n >= ConsecutiveDown[w])]

Observe(w, fs, raw) ==
    IF raw
      THEN LET n == Lesser(fs.up + 1, ConsecutiveUp[w])
           IN  [fs EXCEPT !.down = 0, !.up = n,
                          !.healthy = @ \/ n >= ConsecutiveUp[w]]
      ELSE LET n == Lesser(fs.down + 1, ConsecutiveDown[w])
           IN  [fs EXCEPT !.up = 0, !.down = n,
                          !.healthy = @ /\ ~(n >= ConsecutiveDown[w])]

Seed(fs, raw) ==
    [fs EXCEPT !.cooked = TRUE, !.healthy = raw, !.up = 0, !.down = 0]

(* The two-threshold band.  Statistics are the loss in percent and the RTT *)
(* in milliseconds; one without data passes its thresholds.                *)
OrZero(v) == IF v = NoData THEN 0 ELSE v

(* Slip: the failure thresholds serve for recovery too.                    *)
EvaluateOneBand(prev, stats, t) ==
    /\ OrZero(stats.loss) < t.lossPctDown
    /\ OrZero(stats.rtt) < t.rttMsDown

EvaluateThresholds(prev, stats, t) ==
    IF prev
      THEN /\ OrZero(stats.loss) < t.lossPctDown
           /\ OrZero(stats.rtt) < t.rttMsDown
      ELSE /\ OrZero(stats.loss) <= t.lossPctUp
           /\ OrZero(stats.rtt) <= t.rttMsUp

(* One full-Window verdict through the thresholds and Hysteresis.  An      *)
(* uncooked Family votes healthy, so its seed meets the failure band.      *)
Fold(w, fs, stats) ==
    LET raw == EvaluateThresholds(fs.healthy \/ ~fs.cooked, stats, Thresholds[w])
    IN  IF fs.cooked THEN Observe(w, fs, raw) ELSE Seed(fs, raw)

(* A result changes Health only for a probed Family that is cooked or      *)
(* whose Window is full with this result.                                  *)
Folds(h, w, f, stats) ==
    f \in Probed[w] /\ (h[w].family[f].cooked \/ stats.filled)

ProbeHealth(h, w, f, stats) ==
    IF Folds(h, w, f, stats)
      THEN [h EXCEPT ![w].family[f] = Fold(w, @, stats)]
      ELSE h

(* Slip: a link event reaches the first WAN on its interface only.         *)
LinkHealthFirst(h, i, link) ==
    [w \in Wans |-> IF /\ Interface[w] = i
                       /\ \A v \in Wans : Interface[v] = i => NameRank[w] <= NameRank[v]
                      THEN [h[w] EXCEPT !.carrier = link.carrier,
                                        !.operstate = link.operstate]
                      ELSE h[w]]

(* A link event reaches every WAN on its interface.                        *)
LinkHealth(h, i, link) ==
    [w \in Wans |-> IF Interface[w] = i
                      THEN [h[w] EXCEPT !.carrier = link.carrier,
                                        !.operstate = link.operstate]
                      ELSE h[w]]

(***************************************************************************)
(* The verdicts derived from h.                                            *)
(***************************************************************************)
CarrierUp(ws) ==
    /\ ws.carrier # "down"
    /\ ws.operstate \notin {"down", "lowerlayerdown", "notpresent"}
    /\ ws.carrier = "up" \/ ws.operstate = "up"

Vote(fs) == ~fs.cooked \/ fs.healthy

CombineFamilies(w, ws) ==
    /\ Probed[w] # {}
    /\ IF FamilyPolicyAny[w]
         THEN \E f \in Probed[w] : Vote(ws.family[f])
         ELSE \A f \in Probed[w] : Vote(ws.family[f])

Healthy(h, w) == CarrierUp(h[w]) /\ CombineFamilies(w, h[w])

HealthySet(h) == {w \in Wans : Healthy(h, w)}

(***************************************************************************)
(* The Change an event reports: the WANs whose Health flipped, and whether *)
(* a transition happened that state.json must show.                        *)
(***************************************************************************)
ProbeFlipped(h, w, f, stats) ==
    {w} \cap {v \in Wans : Healthy(ProbeHealth(h, w, f, stats), v) # Healthy(h, v)}

(* Slip: the first full Window is published only if it turns the verdict.  *)
ProbeRepublishLate(h, w, f, stats) ==
    LET fs == h[w].family[f]
    IN  Folds(h, w, f, stats) /\ Fold(w, fs, stats).healthy # fs.healthy

ProbeRepublish(h, w, f, stats) ==
    LET fs == h[w].family[f]
    IN  /\ Folds(h, w, f, stats)
        /\ ~fs.cooked \/ Fold(w, fs, stats).healthy # fs.healthy

(* Slip: of several WANs that flip with a link only the first is reported. *)
LinkFlippedFirst(h, i, link) ==
    LET flips == {w \in Wans : /\ Interface[w] = i
                               /\ Healthy(LinkHealth(h, i, link), w) # Healthy(h, w)}
    IN  {w \in flips : \A v \in flips : NameRank[w] <= NameRank[v]}

LinkFlipped(h, i, link) ==
    {w \in Wans : /\ Interface[w] = i
                  /\ Healthy(LinkHealth(h, i, link), w) # Healthy(h, w)}

(* Slip: a link event that flips a WAN is left for its Decision to publish.*)
LinkRepublishUnlessFlipped(h, i, link) ==
    /\ LinkFlipped(h, i, link) = {}
    /\ \E w \in Wans : /\ Interface[w] = i
                       /\ \/ link.carrier # h[w].carrier
                          \/ link.operstate # h[w].operstate

LinkRepublish(h, i, link) ==
    \E w \in Wans : /\ Interface[w] = i
                    /\ \/ link.carrier # h[w].carrier
                       \/ link.operstate # h[w].operstate

(* The part of State that Health owns.  The statistics are left out: they  *)
(* are published whenever something else is, not when they change.         *)
HealthView(h) ==
    [w \in Wans |-> [carrier |-> h[w].carrier,
                     operstate |-> h[w].operstate,
                     healthy |-> Healthy(h, w),
                     family |-> [f \in Probed[w] |-> h[w].family[f].healthy]]]
=============================================================================
