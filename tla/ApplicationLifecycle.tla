-------------------------- MODULE ApplicationLifecycle --------------------------
(***************************************************************************)
(* The lifecycle the user sees (src/app/ApplicationLifecycleModel.cpp) on  *)
(* top of the runtime bridge: it makes attempts to start the runtime, and  *)
(* is told of their completion and of runtimes that stop.  An attempt      *)
(* token tells completions of earlier attempts from those of the current.  *)
(*                                                                         *)
(* The model is the only caller of startAsync and stop, as in main.cpp.    *)
(* Its steps and the bridge's posted calls all run on the GUI thread, so a *)
(* signal of the bridge and the model's handler are one step.              *)
(***************************************************************************)
EXTENDS RuntimeBridge

VARIABLES
  state,      \* m_state
  token,      \* m_attemptToken
  inFlight,   \* m_attemptInFlight
  stopping,   \* m_stopping
  scheduled,  \* m_initialStartScheduled
  timers,     \* tokens of the single-shot timers of beginAttempt
  completion  \* the token captured by the completion startAsync holds, or 0

lifecycleVars == <<state, token, inFlight, stopping, scheduled, timers, completion>>
allVars == <<bridgeVars, lifecycleVars>>

LifecycleTypeOK ==
  /\ TypeOK
  /\ state \in {"Starting", "Ready", "Failed"}
  /\ token \in Nat /\ completion \in Nat
  /\ timers \subseteq Nat
  /\ inFlight \in BOOLEAN /\ stopping \in BOOLEAN /\ scheduled \in BOOLEAN

LifecycleInit ==
  /\ Init
  /\ state = "Starting"
  /\ token = 0
  /\ inFlight = FALSE
  /\ stopping = FALSE
  /\ scheduled = FALSE
  /\ timers = {}
  /\ completion = 0

(***************************************************************************)
(* Attempts.  The bound StartLimit on runtimes bounds the attempts.        *)
(***************************************************************************)
BeginAttempt ==
  /\ started + Cardinality(timers) < StartLimit
  /\ token' = token + 1
  /\ inFlight' = TRUE
  /\ state' = "Starting"
  /\ timers' = timers \cup {token + 1}

ScheduleInitialStart ==
  /\ GuiFree
  /\ ~scheduled /\ ~stopping
  /\ scheduled' = TRUE
  /\ BeginAttempt
  /\ UNCHANGED <<bridgeVars, stopping, completion>>

Retry ==
  /\ GuiFree
  /\ state = "Failed" /\ ~inFlight /\ ~stopping
  /\ BeginAttempt
  /\ UNCHANGED <<bridgeVars, stopping, scheduled, completion>>

Awaited(t) == ~stopping /\ inFlight /\ t = token

\* completeAttempt.
Complete(t, ok) ==
  /\ IF Awaited(t)
     THEN /\ inFlight' = FALSE
          /\ state' = IF ok THEN "Ready" ELSE "Failed"
     ELSE UNCHANGED <<inFlight, state>>
  /\ UNCHANGED <<token, stopping, scheduled>>

\* The timer fires: executeAttempt, and startAsync, which completes at once when
\* the bridge is running or still starting.
Execute(t) ==
  /\ GuiFree
  /\ t \in timers
  /\ timers' = timers \ {t}
  /\ \/ /\ ~Awaited(t)
        /\ UNCHANGED <<bridgeVars, state, token, inFlight, stopping, scheduled, completion>>
     \/ /\ Awaited(t) /\ (handle # 0 \/ starting)
        /\ Complete(t, handle # 0)
        /\ UNCHANGED <<bridgeVars, completion>>
     \/ /\ Awaited(t) /\ handle = 0 /\ ~starting
        /\ StartAsync
        /\ completion' = t
        /\ UNCHANGED <<state, token, inFlight, stopping, scheduled>>

\* The application quits: stop, and the bridge goes after it.
QuitLifecycle ==
  /\ ~stopping
  /\ stopping' = TRUE
  /\ token' = token + 1
  /\ inFlight' = FALSE
  /\ Stop
  /\ UNCHANGED <<state, scheduled, timers, completion>>

QuitBridge ==
  /\ stopping
  /\ Destroy
  /\ UNCHANGED lifecycleVars

(***************************************************************************)
(* Signals of the bridge.                                                  *)
(***************************************************************************)
OnlySuccess(ok) ==  \* mutant: a failed start returns before its completion
  /\ IF ok THEN Complete(completion, ok) ELSE UNCHANGED <<state, token, inFlight, stopping, scheduled>>
  /\ completion' = 0
  /\ UNCHANGED timers

Completed(ok) ==
  /\ Complete(completion, ok)
  /\ completion' = 0
  /\ UNCHANGED timers

StartEnds ==
  \/ StartSucceeded /\ Completed(TRUE)
  \/ StartFailed /\ Completed(FALSE)
  \/ /\ StartCancelled
     /\ completion' = 0
     /\ UNCHANGED <<state, token, inFlight, stopping, scheduled, timers>>

Deaf == FALSE  \* mutant: runningChanged(false) is not heard
Concerned == ~stopping /\ state # "Failed"

\* handleRuntimeRunningChanged(false).
RuntimeStopped ==
  /\ Joined
  /\ IF Concerned
     THEN /\ token' = token + 1
          /\ inFlight' = FALSE
          /\ state' = "Failed"
     ELSE UNCHANGED <<token, inFlight, state>>
  /\ UNCHANGED <<stopping, scheduled, timers, completion>>

Quiet == (RunEvent \/ RunOverflow \/ RuntimeSide) /\ UNCHANGED lifecycleVars

LifecycleNext ==
  \/ ScheduleInitialStart \/ Retry
  \/ \E t \in timers : Execute(t)
  \/ QuitLifecycle \/ QuitBridge
  \/ StartEnds \/ RuntimeStopped \/ Quiet

LifecycleSpec == LifecycleInit /\ [][LifecycleNext]_allVars

\* Timers fire, the event loop runs, threads go on, and kodosi_start returns.
LifecycleFairSpec ==
  /\ LifecycleSpec
  /\ WF_allVars(\E t \in timers : Execute(t))
  /\ WF_allVars(StartEnds \/ RuntimeStopped
                \/ ((RunEvent \/ RunOverflow) /\ UNCHANGED lifecycleVars))
  /\ WF_allVars((\E r \in Runtime, ok \in BOOLEAN : KodosiStarts(r, ok)) /\ UNCHANGED lifecycleVars)
  /\ WF_allVars((Reserve \/ Post) /\ UNCHANGED lifecycleVars)
  /\ WF_allVars((\E r \in Runtime : StopAbandoned(r)) /\ UNCHANGED lifecycleVars)

(***************************************************************************)
(* Properties.                                                             *)
(***************************************************************************)
\* The state the user sees is so.  While it is Ready a runtime is installed, or
\* is being stopped with the news on its way: late completions of an attempt that
\* was overtaken by a stop never bring Ready back.  When it is Failed, and the user
\* may retry, the bridge is neither running nor still starting, so the retry makes
\* a new runtime.
StateIsTrue ==
  /\ state = "Ready" /\ ~stopping /\ gui = 0 => handle # 0
  /\ state = "Failed" => handle = 0 /\ ~starting

\* An attempt comes to an end the user sees, or the application quits.
StartingEnds == inFlight ~> ~inFlight

\* The attempt in flight has its timer, or a runtime it starts; an overflow of
\* the event queue calls the start off.
Underway  == inFlight /\ (timers # {} \/ generation # 0)
CalledOff == starting /\ generation = 0

\* An attempt whose start is not called off comes to an end, whether the start
\* succeeds or fails, and whatever stops and completions of earlier attempts
\* arrive in between.
AttemptEnds == Underway ~> ~inFlight \/ CalledOff

\* Over stops, overflows and retries, an event that is delivered in the name of another
\* runtime than its own is one that a failed start left behind: its own runtime never
\* came up.  No event of a runtime that was stopped or abandoned is.
OwnUnlessFailed == \A r \in last.foreign : runtime[r].phase = "failed"
================================================================================
