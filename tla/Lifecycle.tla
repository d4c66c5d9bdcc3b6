----------------------------- MODULE Lifecycle -----------------------------
(***************************************************************************)
(* The process: startup, supervision of the subsystems, the metrics        *)
(* server's retries, the watchdog handshake, shutdown, and the systemd     *)
(* unit that starts the process again.                                     *)
(*                                                                         *)
(* proc is the state that dies with the process.  Its pc is where main     *)
(* is, the event loop included; "stuck" is a kernel call that never        *)
(* returns.  cause is the first cause the daemon context was cancelled     *)
(* with.                                                                   *)
(***************************************************************************)
EXTENDS Integers, FiniteSets

CONSTANTS
    Probers,    \* one per WAN and Family
    MaxStarts,  \* the unit's start limit
    NoCause     \* the daemon context is live

ASSUME LifecycleAssumption ==
    /\ Probers \cap {"link", "route"} = {}
    /\ MaxStarts \in Nat \ {0}
    /\ NoCause \notin {"shutdown", "canceled", "failure"}

Subsystems == Probers \cup {"link", "route"}
Errors == {"nil", "canceled", "error"}  \* how a subsystem's wait returns

VARIABLES
    unit,       \* systemd: up, restart, stopped, failed
    starts,     \* systemd: processes started
    signalled,  \* systemd sent SIGTERM
    notified,   \* systemd received READY=1 from this process
    silence,    \* half WatchdogSec periods since the last keepalive, up to 2
    code,       \* exit code of the process that ended, 2 for a kill
    proc        \* [pc, cause, sub, metrics, scrape, watchdog, failed]

systemd == <<unit, starts, signalled, notified, silence, code>>
vars == <<systemd, proc>>

Boot == [pc |-> "config", cause |-> NoCause, sub |-> [s \in Subsystems |-> "off"],
         metrics |-> "off", scrape |-> FALSE, watchdog |-> "off",
         failed |-> FALSE]     \* history: a step of startup or a subsystem failed

Init ==
    /\ unit = "up" /\ starts = 1 /\ signalled = FALSE
    /\ notified = FALSE /\ silence = 0 /\ code = 0
    /\ proc = Boot

Up == unit = "up"
Live == Up /\ proc.cause = NoCause
At(pc) == Up /\ proc.pc = pc

(* The process is gone, except for the history.  Restart=on-failure,       *)
(* unless the unit is being stopped.                                       *)
Ends(exit, failed) ==
    /\ proc' = [Boot EXCEPT !.failed = failed]
    /\ code' = exit
    /\ unit' = IF signalled \/ exit = 0 THEN "stopped" ELSE "restart"
    /\ notified' = FALSE /\ silence' = 0
    /\ UNCHANGED <<starts, signalled>>

(* The cause after one more cancel: the first one wins.                    *)
CancelCause(cause) == IF proc.cause = NoCause THEN cause ELSE proc.cause
IsCleanShutdown(cause) == cause \in {"shutdown", "canceled"}

(***************************************************************************)
(* Startup.                                                                *)
(***************************************************************************)
(* Flags, configuration or log level are rejected before anything runs.    *)
(* -help would exit 0 here; the unit's ExecStart does not pass it.         *)
ConfigFails ==
    /\ At("config")
    /\ Ends(1, TRUE)

LoadConfig ==
    /\ At("config")
    /\ proc' = [proc EXCEPT !.pc = "bootstrap", !.metrics = "serving"]
    /\ UNCHANGED systemd

Started(pc) == CASE pc = "probers" -> Probers [] pc \in {"link", "route"} -> {pc} [] OTHER -> {}
After == [bootstrap |-> "probers", probers |-> "link", link |-> "route", route |-> "prime"]

StartStep(pc) ==
    /\ At(pc)
    /\ proc' = [proc EXCEPT !.pc = After[pc],
                            !.sub = [s \in Subsystems |-> IF s \in Started(pc) THEN "running" ELSE @[s]]]
    /\ UNCHANGED systemd

StartStepFails(pc) ==
    /\ At(pc)
    /\ proc' = [proc EXCEPT !.cause = CancelCause("failure"), !.pc = "exit", !.failed = TRUE]
    /\ UNCHANGED systemd

Prime ==
    /\ At("prime")
    /\ proc' = [proc EXCEPT !.pc = "ready"]
    /\ UNCHANGED systemd

(* READY=1 is sent whatever happened meanwhile, and the send may fail.     *)
Ready ==
    /\ At("ready")
    /\ proc' = [proc EXCEPT !.pc = "select", !.watchdog = "idle"]
    /\ notified' \in BOOLEAN
    /\ silence' = 0
    /\ UNCHANGED <<unit, starts, signalled, code>>

(***************************************************************************)
(* The event loop.                                                         *)
(***************************************************************************)
(* An event received after the cancellation is dropped and ends the loop.  *)
Dispatch ==
    /\ At("select")
    /\ proc' = [proc EXCEPT !.pc = IF Live THEN "handle" ELSE "close"]
    /\ UNCHANGED systemd

HandlerReturns ==
    /\ At("handle")
    /\ proc' = [proc EXCEPT !.pc = "select"]
    /\ UNCHANGED systemd

(* bootstrap, the subscribers' dumps, prime and the handlers call the      *)
(* kernel.                                                                 *)
GetStuck ==
    /\ proc.pc \in {"bootstrap", "link", "route", "prime", "handle"} /\ Up
    /\ proc' = [proc EXCEPT !.pc = "stuck"]
    /\ UNCHANGED systemd

LoopEnds ==
    /\ At("select") /\ ~Live
    /\ proc' = [proc EXCEPT !.pc = "close"]
    /\ UNCHANGED systemd

(* Close waits for the Hook worker, whose running Hook was killed.         *)
CloseHooks ==
    /\ At("close")
    /\ proc' = [proc EXCEPT !.pc = "exit"]
    /\ UNCHANGED systemd

(* main waits for the metrics server and exits with the cause.             *)
Exit ==
    /\ At("exit") /\ proc.metrics = "done"
    /\ Ends(IF IsCleanShutdown(proc.cause) THEN 0 ELSE 1, proc.failed)

(***************************************************************************)
(* Subsystems: the probers, the link and the route subscriber.             *)
(***************************************************************************)
(* The cause of a subsystem's exit never wraps Canceled.                   *)
(* Slip: it wraps the error the subsystem returned, whatever it is.        *)
SubsystemCauseWrapped(err) == IF err = "canceled" THEN "canceled" ELSE "failure"
SubsystemCause(err) == "failure"

(* A subsystem's wait returns and its supervisor cancels the context.  The *)
(* supervisor of one that returns after a cancellation does nothing, and   *)
(* nobody waits for it.                                                    *)
(* Slip: only an error is worth stopping for.                              *)
SuperviseErrors(s, err) ==
    /\ Live /\ proc.sub[s] = "running"
    /\ proc' = [proc EXCEPT !.sub[s] = "returned", !.failed = TRUE,
                            !.cause = IF err # "nil" THEN "failure" ELSE @]
    /\ UNCHANGED systemd

SuperviseSubsystem(s, err) ==
    /\ Live /\ proc.sub[s] = "running"
    /\ proc' = [proc EXCEPT !.sub[s] = "returned", !.failed = TRUE, !.cause = SubsystemCause(err)]
    /\ UNCHANGED systemd

(***************************************************************************)
(* The metrics server: it is retried until the context ends, which gives   *)
(* the scrapes in flight shutdownTimeout.                                  *)
(***************************************************************************)
Scrape ==
    /\ Up /\ proc.metrics = "serving"
    /\ proc' = [proc EXCEPT !.scrape = ~@]
    /\ UNCHANGED systemd

ServeReturns(err) ==
    /\ Up /\ proc.metrics = "serving"
    /\ proc' = [proc EXCEPT !.metrics = err]
    /\ UNCHANGED systemd

(* Slip: Shutdown is given no timeout.                                     *)
ShutdownTimeoutNever == ~proc.scrape
ShutdownTimeout == TRUE

ServeCancelled ==
    /\ Up /\ ~Live /\ proc.metrics = "serving"
    /\ ShutdownTimeout
    /\ proc' = [proc EXCEPT !.metrics = "canceled", !.scrape = FALSE]
    /\ UNCHANGED systemd

(* Slip: a server that returned without an error is not started again.     *)
RetriesErrors(err) == err # "nil"
Retries(err) == TRUE

KeepServing ==
    /\ Up /\ proc.metrics \in Errors
    /\ proc' = [proc EXCEPT !.metrics = IF Live /\ Retries(@) THEN "backoff" ELSE "done"]
    /\ UNCHANGED systemd

BackoffEnds ==
    /\ Up /\ proc.metrics = "backoff"
    /\ proc' = [proc EXCEPT !.metrics = "serving"]
    /\ UNCHANGED systemd

BackoffCancelled ==
    /\ Up /\ ~Live /\ proc.metrics = "backoff"
    /\ proc' = [proc EXCEPT !.metrics = "done"]
    /\ UNCHANGED systemd

(***************************************************************************)
(* The watchdog: challenge the loop, wait for its acknowledgment, tell     *)
(* systemd.                                                                *)
(***************************************************************************)
WatchdogTick ==
    /\ Up /\ proc.watchdog = "idle" /\ silence > 0
    /\ proc' = [proc EXCEPT !.watchdog = "challenge"]
    /\ UNCHANGED systemd

Acknowledge ==
    /\ At("select") /\ proc.watchdog = "challenge"
    /\ proc' = [proc EXCEPT !.watchdog = "acknowledged"]
    /\ UNCHANGED systemd

(* Slip: the keepalive follows the tick and no acknowledgment.             *)
MayPingUnasked == proc.watchdog \in {"challenge", "acknowledged"}
MayPing == proc.watchdog = "acknowledged"

Ping ==
    /\ Up /\ MayPing
    /\ proc' = [proc EXCEPT !.watchdog = "idle"]
    /\ silence' \in {0, silence}  \* the send may fail
    /\ UNCHANGED <<unit, starts, signalled, notified, code>>

WatchdogStops ==
    /\ Up /\ ~Live /\ proc.watchdog \in {"idle", "challenge", "acknowledged"}
    /\ proc' = [proc EXCEPT !.watchdog = "off"]
    /\ UNCHANGED systemd

(***************************************************************************)
(* systemd.                                                                *)
(***************************************************************************)
(* The operator stops the unit while its process runs.                     *)
Stop ==
    /\ Up /\ ~signalled
    /\ signalled' = TRUE
    /\ UNCHANGED <<unit, starts, notified, silence, code, proc>>

SignalReceived ==
    /\ Up /\ signalled /\ Live /\ proc.pc # "config"
    /\ proc' = [proc EXCEPT !.cause = "shutdown"]
    /\ UNCHANGED systemd

(* SIGTERM ends a process that does not handle it yet.                     *)
KilledBySignal ==
    /\ At("config") /\ signalled
    /\ Ends(0, proc.failed)

Clock ==
    /\ Up /\ notified /\ silence < 2
    /\ silence' = silence + 1
    /\ UNCHANGED <<unit, starts, signalled, notified, code, proc>>

Kill == Ends(2, proc.failed)

WatchdogExpires == Up /\ notified /\ ~signalled /\ silence = 2 /\ Kill

(* The start timeout without READY, and the stop timeout, are far longer   *)
(* than what the daemon waits for unless a call never returns.             *)
StartTimeout == Up /\ ~notified /\ ~signalled /\ Kill
StopTimeout == Up /\ signalled /\ proc.pc = "stuck" /\ Kill

Restart ==
    /\ unit = "restart" /\ starts < MaxStarts
    /\ unit' = "up" /\ starts' = starts + 1
    /\ proc' = Boot /\ code' = 0
    /\ UNCHANGED <<signalled, notified, silence>>

StartLimitHit ==
    /\ unit = "restart" /\ starts = MaxStarts
    /\ unit' = "failed"
    /\ UNCHANGED <<starts, signalled, notified, silence, code, proc>>

(***************************************************************************)
(* Specification.                                                          *)
(***************************************************************************)
Main ==
    \/ LoadConfig \/ Prime \/ Ready \/ LoopEnds \/ CloseHooks \/ Exit
    \/ \E pc \in DOMAIN After : StartStep(pc)

Metrics == ServeCancelled \/ KeepServing \/ BackoffEnds \/ BackoffCancelled
Watchdog == WatchdogTick \/ Ping \/ WatchdogStops
Systemd == SignalReceived \/ KilledBySignal \/ WatchdogExpires \/ StopTimeout \/ Restart \/ StartLimitHit

Next ==
    \/ Main \/ Metrics \/ Watchdog \/ Systemd
    \/ ConfigFails \/ \E pc \in DOMAIN After : StartStepFails(pc)
    \/ Dispatch \/ HandlerReturns \/ GetStuck \/ Acknowledge
    \/ \E s \in Subsystems, err \in Errors : SuperviseSubsystem(s, err)
    \/ Scrape \/ \E err \in {"nil", "error"} : ServeReturns(err)
    \/ Stop \/ Clock \/ StartTimeout

(* Goroutines are scheduled and timers fire; a handler returns unless it   *)
(* is stuck.  Scrapes, errors and operators owe nothing.                   *)
Fairness ==
    /\ WF_vars(Main) /\ WF_vars(HandlerReturns)
    /\ WF_vars(ServeCancelled) /\ WF_vars(KeepServing)
    /\ WF_vars(BackoffEnds \/ BackoffCancelled)
    /\ WF_vars(Watchdog) /\ WF_vars(Clock) /\ WF_vars(StartTimeout) /\ WF_vars(Systemd)

Spec == Init /\ [][Next]_vars /\ Fairness

(***************************************************************************)
(* Properties.                                                             *)
(***************************************************************************)
(* exitError and superviseSubsystem: the process exits 0 only when it was  *)
(* asked to stop, and non-zero only when startup or a subsystem failed; a  *)
(* failing metrics server and a subsystem's own Canceled change neither.   *)
ExitCodeTellsWhy ==
    ~Up => /\ code = 0 => signalled
           /\ code = 1 => proc.failed

(* superviseSubsystem: failover never keeps running on frozen Health or    *)
(* Gateways.  When a subsystem returns, for whatever reason, a new process *)
(* takes over, unless the unit is being stopped or reached its start       *)
(* limit.                                                                  *)
BlindDaemonReplaced ==
    (\E s \in Subsystems : Up /\ proc.sub[s] = "returned")
        ~> (signalled \/ unit = "failed" \/ At("config"))

(* runWatchdog: an event loop that hangs in a handler, and a daemon that   *)
(* hangs before READY, do not keep the unit up.                            *)
StuckDaemonReplaced == At("stuck") ~> ~Up

(* run, serve, exitError and Server.Serve: a daemon asked to stop exits,   *)
(* whatever a scrape in flight, a retry's delay or a challenged event loop *)
(* waits for.                                                              *)
StopCompletes == signalled ~> unit = "stopped"

(* keepServing: a metrics server that returned serves again, unless the    *)
(* daemon stops.                                                           *)
MetricsServedAgain == (Up /\ proc.metrics \in Errors) ~> (~Live \/ proc.metrics = "serving")
=============================================================================
