--------------------------- MODULE HealthHistory ---------------------------
(***************************************************************************)
(* WAN Health on its own, driven by any sequence of probe results and link *)
(* events, next to the history of what was reported.  The history lets a   *)
(* verdict, which the code keeps with two counters, be compared with a     *)
(* definition over the results themselves.                                 *)
(***************************************************************************)
EXTENDS Health, Sequences

CONSTANTS
    LinkStates,  \* what a link event can report: carrier and operstate
    Stats,       \* what a probe result can report: filled, loss, rtt
    MaxResults   \* MaxResults[w][f]: bound on the results that count

ASSUME HistoryAssumption ==
    /\ LinkStates \subseteq [carrier : Carriers, operstate : Operstates]
    /\ Stats \subseteq [filled : BOOLEAN, loss : Nat \cup {NoData}, rtt : Nat \cup {NoData}]
    /\ MaxResults \in [Wans -> [Families -> Nat]]

VARIABLES
    health,   \* Wans.byName
    results,  \* history: results[w][f], the bands of the full Windows so far
    links     \* history: links[i], the last link event of interface i

vars == <<health, results, links>>

(* Where a Window lies: at or below both recovery thresholds, at or above  *)
(* a failure threshold, or between the two.                                *)
BandOf(w, stats) ==
    LET t == Thresholds[w]
        loss == OrZero(stats.loss)
        rtt == OrZero(stats.rtt)
    IN  IF loss <= t.lossPctUp /\ rtt <= t.rttMsUp THEN "good"
        ELSE IF loss >= t.lossPctDown \/ rtt >= t.rttMsDown THEN "bad"
        ELSE "between"

ProbeResult(w, f, stats) ==
    /\ Len(results[w][f]) < MaxResults[w][f]
    /\ health' = ProbeHealth(health, w, f, stats)
    /\ results' = IF results[w][f] # <<>> \/ stats.filled
                    THEN [results EXCEPT ![w][f] = Append(@, BandOf(w, stats))]
                    ELSE results
    /\ UNCHANGED links

LinkEvent(i, link) ==
    /\ health' = LinkHealth(health, i, link)
    /\ links' = [links EXCEPT ![i] = link]
    /\ UNCHANGED results

Init ==
    /\ health = ColdHealth
    /\ results = [w \in Wans |-> [f \in Families |-> <<>>]]
    /\ links = [i \in Ifaces |-> [carrier |-> "unknown", operstate |-> "unknown"]]

Next ==
    \/ \E w \in Wans : \E f \in Probed[w], stats \in Stats : ProbeResult(w, f, stats)
    \/ \E i \in Ifaces, link \in LinkStates : LinkEvent(i, link)

Spec == Init /\ [][Next]_vars
-----------------------------------------------------------------------------
(* The k results up to the n-th all lie in band b, the first, which only   *)
(* seeds the verdict, not among them.                                      *)
RunEnds(bands, n, k, b) ==
    n > k /\ \A i \in n - k + 1 .. n : bands[i] = b

(* What calls for a verdict at the n-th full Window: the first is trusted  *)
(* unless it fails; after it, ConsecutiveUp good Windows in a row bring    *)
(* the Family up and ConsecutiveDown bad ones bring it down.               *)
CallsUp(w, bands, n) ==
    \/ n = 1 /\ bands[1] # "bad"
    \/ RunEnds(bands, n, ConsecutiveUp[w], "good")

CallsDown(w, bands, n) ==
    \/ n = 1 /\ bands[1] = "bad"
    \/ RunEnds(bands, n, ConsecutiveDown[w], "bad")

(* The verdict a history calls for: the last call was one for up.          *)
Verdict(w, bands) ==
    \E n \in 1..Len(bands) :
        /\ CallsUp(w, bands, n)
        /\ \A m \in n + 1 .. Len(bands) : ~CallsDown(w, bands, m)

(* The Hysteresis counters and the threshold band compute the verdict that *)
(* the whole history of results calls for, in particular no flip without a *)
(* full run of agreeing Windows since the seed, and a Window between the   *)
(* bands breaks a run (hysteresis.observe, seed, evaluateThresholds).      *)
VerdictMatchesHistory ==
    \A w \in Wans : \A f \in Probed[w] :
        LET fs == health[w].family[f]
            bands == results[w][f]
        IN  IF bands = <<>> THEN ~fs.cooked
            ELSE fs.cooked /\ fs.healthy = Verdict(w, bands)

(* All WANs on one interface see the link that was last reported for it,   *)
(* so a recompute never works with a WAN whose link state lags that of a   *)
(* peer (Wans.Link).                                                       *)
LinkStateShared ==
    \A w \in Wans :
        /\ health[w].carrier = links[Interface[w]].carrier
        /\ health[w].operstate = links[Interface[w]].operstate

(* The Health that Decisions are made on is what the whole history of      *)
(* results and link events calls for, in every Family and on every         *)
(* interface (Wans.Probe, Wans.Link).                                      *)
HealthMatchesHistory == VerdictMatchesHistory /\ LinkStateShared

(* A probe result never changes the Health of a WAN other than its own,    *)
(* and a full Window between the bands never takes a WAN down or up once   *)
(* its Family is cooked: only its first Window or a good or bad one does   *)
(* (Wans.Probe, fold).                                                     *)
BetweenBandsHolds ==
    [][\A w \in Wans :
          /\ Healthy(health, w) # Healthy(health', w)
          /\ links' = links
          => \E f \in Probed[w] :
                /\ results'[w][f] # results[w][f]
                /\ \/ results[w][f] = <<>>
                   \/ results'[w][f][Len(results'[w][f])] # "between"]_vars
=============================================================================
