--------------------------- MODULE LifecycleProofs ---------------------------
(***************************************************************************)
(* The exit code of the daemon tells systemd why it ended, for every set   *)
(* of probers and every start limit.                                       *)
(***************************************************************************)
EXTENDS Lifecycle, TLAPS

ProcType ==
    /\ unit \in {"up", "restart", "stopped", "failed"}
    /\ signalled \in BOOLEAN
    /\ code \in {0, 1, 2}
    /\ proc \in [pc : {"config", "bootstrap", "probers", "link", "route", "prime", "ready",
                       "select", "handle", "stuck", "close", "exit"},
                 cause : {NoCause, "shutdown", "failure"},
                 sub : [Subsystems -> {"off", "running", "returned"}],
                 metrics : {"off", "serving", "backoff", "done"} \cup Errors,
                 scrape : BOOLEAN,
                 watchdog : {"off", "idle", "challenge", "acknowledged"},
                 failed : BOOLEAN]

(* The context of a running daemon was cancelled by a signal systemd sent, *)
(* or by something that failed.                                            *)
CauseIsTrue ==
    Up => /\ proc.cause = "shutdown" => signalled
          /\ proc.cause = "failure" => proc.failed

(* main leaves the event loop, or its startup, only after a cancellation.  *)
LeavesWithCause ==
    Up /\ proc.pc \in {"close", "exit"} => proc.cause # NoCause

LifecycleInv == ProcType /\ CauseIsTrue /\ LeavesWithCause /\ ExitCodeTellsWhy

LEMMA LifecycleInvInit == Init => LifecycleInv
<1> SUFFICES ASSUME Init PROVE LifecycleInv
  OBVIOUS
<1>1. Up /\ signalled = FALSE /\ code = 0 /\ proc = Boot /\ unit = "up"
  BY DEF Init, Up
<1>2. proc.cause = NoCause /\ proc.pc = "config"
  BY <1>1 DEF Boot
<1>3. ProcType
  BY <1>1 DEF ProcType, Boot
<1> QED BY <1>1, <1>2, <1>3, LifecycleAssumption
        DEF LifecycleInv, CauseIsTrue, LeavesWithCause, ExitCodeTellsWhy

(* The process ends: with 0 if it was told to stop, with 1 if something    *)
(* failed.                                                                 *)
LEMMA EndsTellsWhy ==
    ASSUME LifecycleInv, NEW exit \in {0, 1, 2}, NEW failed \in BOOLEAN,
           exit = 0 => signalled, exit = 1 => failed,
           Ends(exit, failed)
    PROVE  LifecycleInv'
<1> USE LifecycleAssumption DEF LifecycleInv
<1>1. /\ proc' = [Boot EXCEPT !.failed = failed]
      /\ proc'.failed = failed
      /\ code' = exit /\ signalled' = signalled
      /\ unit' \in {"stopped", "restart"}
  BY DEF Ends, Boot
<1>2. ProcType'
  BY <1>1 DEF ProcType, Boot
<1>3. ~Up'
  BY <1>1 DEF Up
<1>4. ExitCodeTellsWhy'
  BY <1>1 DEF ExitCodeTellsWhy
<1> QED BY <1>2, <1>3, <1>4 DEF CauseIsTrue, LeavesWithCause, Up

(* Every step of main that goes on.                                        *)
LEMMA MainKeeps ==
    ASSUME LifecycleInv,
           \/ LoadConfig \/ Prime \/ Ready \/ LoopEnds \/ CloseHooks
           \/ Dispatch \/ HandlerReturns \/ GetStuck \/ Acknowledge
           \/ \E pc \in DOMAIN After : StartStep(pc) \/ StartStepFails(pc)
    PROVE  LifecycleInv'
<1> USE LifecycleAssumption
    DEF LifecycleInv, ProcType, CauseIsTrue, LeavesWithCause, ExitCodeTellsWhy, Up, systemd, At
<1>1. CASE LoadConfig
  BY <1>1 DEF LoadConfig
<1>2. CASE Prime
  BY <1>2 DEF Prime
<1>3. CASE Ready
  BY <1>3 DEF Ready
<1>4. CASE LoopEnds
  BY <1>4 DEF LoopEnds, Live
<1>5. CASE CloseHooks
  BY <1>5 DEF CloseHooks
<1>6. CASE Dispatch
  BY <1>6 DEF Dispatch, Live
<1>7. CASE HandlerReturns
  BY <1>7 DEF HandlerReturns
<1>8. CASE GetStuck
  BY <1>8 DEF GetStuck
<1>9. CASE Acknowledge
  BY <1>9 DEF Acknowledge
<1>10. ASSUME NEW pc \in DOMAIN After, StartStep(pc) PROVE LifecycleInv'
  <2>1. pc \in {"bootstrap", "probers", "link", "route"}
    BY <1>10 DEF After
  <2>2. After[pc] \in {"probers", "link", "route", "prime"}
    BY <2>1 DEF After
  <2>3. [s \in Subsystems |-> IF s \in Started(pc) THEN "running" ELSE proc.sub[s]]
            \in [Subsystems -> {"off", "running", "returned"}]
    OBVIOUS
  <2> QED BY <1>10, <2>2, <2>3 DEF StartStep
<1>11. ASSUME NEW pc \in DOMAIN After, StartStepFails(pc) PROVE LifecycleInv'
  BY <1>11 DEF StartStepFails, CancelCause
<1> QED BY <1>1, <1>2, <1>3, <1>4, <1>5, <1>6, <1>7, <1>8, <1>9, <1>10, <1>11

(* The supervisors, the metrics server and the watchdog.                   *)
LEMMA GoroutinesKeep ==
    ASSUME LifecycleInv,
           \/ Metrics \/ Watchdog \/ Scrape
           \/ \E s \in Subsystems, err \in Errors : SuperviseSubsystem(s, err)
           \/ \E err \in {"nil", "error"} : ServeReturns(err)
    PROVE  LifecycleInv'
<1> USE LifecycleAssumption
    DEF LifecycleInv, ProcType, CauseIsTrue, LeavesWithCause, ExitCodeTellsWhy, Up, systemd
<1>1. CASE ServeCancelled
  BY <1>1 DEF ServeCancelled, Errors
<1>2. CASE KeepServing
  BY <1>2 DEF KeepServing
<1>3. CASE BackoffEnds
  BY <1>3 DEF BackoffEnds
<1>4. CASE BackoffCancelled
  BY <1>4 DEF BackoffCancelled
<1>5. CASE WatchdogTick
  BY <1>5 DEF WatchdogTick
<1>6. CASE Ping
  BY <1>6 DEF Ping
<1>7. CASE WatchdogStops
  BY <1>7 DEF WatchdogStops
<1>8. CASE Scrape
  BY <1>8 DEF Scrape
<1>9. ASSUME NEW s \in Subsystems, NEW err \in Errors, SuperviseSubsystem(s, err)
      PROVE  LifecycleInv'
  BY <1>9 DEF SuperviseSubsystem, SubsystemCause, Live
<1>10. ASSUME NEW err \in {"nil", "error"}, ServeReturns(err) PROVE LifecycleInv'
  BY <1>10 DEF ServeReturns, Errors
<1> QED BY <1>1, <1>2, <1>3, <1>4, <1>5, <1>6, <1>7, <1>8, <1>9, <1>10 DEF Metrics, Watchdog

(* The ways a process ends.                                                *)
LEMMA EndingsKeep ==
    ASSUME LifecycleInv,
           \/ Exit \/ ConfigFails \/ KilledBySignal
           \/ WatchdogExpires \/ StartTimeout \/ StopTimeout
    PROVE  LifecycleInv'
<1> USE DEF LifecycleInv, ProcType
<1>1. CASE Exit
  <2>1. PICK exit \in {0, 1, 2} : exit = (IF IsCleanShutdown(proc.cause) THEN 0 ELSE 1)
    OBVIOUS
  <2>2. Ends(exit, proc.failed)
    BY <1>1, <2>1 DEF Exit
  <2>3. proc.cause \in {"shutdown", "failure"}
    BY <1>1, LifecycleAssumption DEF Exit, At, LeavesWithCause
  <2>4. (exit = 0 => signalled) /\ (exit = 1 => proc.failed)
    BY <1>1, <2>1, <2>3 DEF IsCleanShutdown, CauseIsTrue, Exit, At
  <2> QED BY <2>2, <2>4, EndsTellsWhy
<1>2. CASE ConfigFails
  <2>1. PICK failed \in BOOLEAN : failed = TRUE
    OBVIOUS
  <2>2. Ends(1, failed)
    BY <1>2, <2>1 DEF ConfigFails
  <2>3. (1 = 0 => signalled) /\ (1 = 1 => failed) /\ 1 \in {0, 1, 2}
    <3>1. failed
      BY <2>1
    <3> QED BY <3>1
  <2> QED BY <2>2, <2>3, EndsTellsWhy
<1>3. CASE KilledBySignal
  BY <1>3, EndsTellsWhy DEF KilledBySignal
<1>4. CASE Kill
  BY <1>4, EndsTellsWhy DEF Kill
<1> QED BY <1>1, <1>2, <1>3, <1>4 DEF WatchdogExpires, StartTimeout, StopTimeout

LEMMA SystemdKeeps ==
    ASSUME LifecycleInv,
           \/ SignalReceived \/ Restart \/ StartLimitHit \/ Stop \/ Clock
           \/ UNCHANGED vars
    PROVE  LifecycleInv'
<1> USE LifecycleAssumption
    DEF LifecycleInv, ProcType, CauseIsTrue, LeavesWithCause, ExitCodeTellsWhy, Up, systemd
<1>1. CASE SignalReceived
  BY <1>1 DEF SignalReceived
<1>2. CASE Restart
  BY <1>2 DEF Restart, Boot
<1>3. CASE StartLimitHit
  BY <1>3 DEF StartLimitHit
<1>4. CASE Stop
  BY <1>4 DEF Stop
<1>5. CASE Clock
  BY <1>5 DEF Clock
<1>6. CASE UNCHANGED vars
  BY <1>6 DEF vars
<1> QED BY <1>1, <1>2, <1>3, <1>4, <1>5, <1>6

LEMMA LifecycleInvNext == LifecycleInv /\ [Next]_vars => LifecycleInv'
BY MainKeeps, GoroutinesKeep, EndingsKeep, SystemdKeeps DEF Next, Main, Systemd

(* The process exits 0 only when systemd asked it to stop, so that         *)
(* Restart=on-failure never leaves a failed daemon down, and exits 1 only  *)
(* when startup or a subsystem failed, whatever the metrics server and the *)
(* watchdog do meanwhile (exitError, superviseSubsystem).                  *)
THEOREM ExitCodesAreTrue == Spec => []ExitCodeTellsWhy
<1>1. LifecycleInv => ExitCodeTellsWhy
  BY DEF LifecycleInv
<1> QED BY LifecycleInvInit, LifecycleInvNext, <1>1, PTL DEF Spec
=============================================================================
