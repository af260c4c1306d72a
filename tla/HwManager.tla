------------------------------ MODULE HwManager ------------------------------
(***************************************************************************)
(* The hardware manager of components/hw_hal/src/hw_manager.c: the state   *)
(* machine that lets either the LoRa or the NRF24 radio use the shared SPI *)
(* bus, swaps them when the NRF24 comes and goes, and recovers LoRa.       *)
(*                                                                         *)
(* Two kinds of threads run its handlers: the poll task hw_manager_init    *)
(* starts, and the caller of the API (thread 0), which initialises,        *)
(* deinitialises and injects events.  s_ctx.mutex is held only while a     *)
(* state is looked at; the handlers run without it, and a radio's init or  *)
(* a retry delay takes seconds, so handlers of two threads can overlap.    *)
(* The radios are hal_lora.c and hal_nrf24.c as the handlers see them.     *)
(***************************************************************************)
EXTENDS Integers, FiniteSets

CONSTANTS
    RetryMax,     \* config.lora_retry_max
    MaxInits,     \* bound: calls of hw_manager_init
    MaxInjects,   \* bound: calls of hw_manager_inject_event
    MaxPlugs      \* bound: times the NRF24 is plugged in or out

ASSUME HwConstants ==
    /\ RetryMax \in Nat \ {0}
    /\ MaxInits \in Nat \ {0}
    /\ MaxInjects \in Nat
    /\ MaxPlugs \in Nat

VARIABLES
    state,        \* s_ctx.state
    loraStatus,   \* s_ctx.lora_status
    nrfStatus,    \* s_ctx.nrf24_status
    retry,        \* s_ctx.lora_retry_count
    initialized,  \* s_ctx.initialized
    running,      \* s_ctx.task_running
    mutex,        \* s_ctx.mutex exists
    th,           \* where each thread is, and on which job
    lora,         \* hal_lora.c: s_ctx.state.status
    nrf,          \* hal_nrf24.c: spi_handle # NULL, initialized
    connected,    \* the NRF24 answers on the bus
    inits,        \* history: calls of hw_manager_init
    probedOver,   \* history: one of them began with a radio up that a failed one left
    injects,      \* history: events injected
    plugs,        \* history: times the NRF24 came or went
    overlap,      \* history: two threads were in handlers at the same time
    forced,       \* history: an injected event overrode the state
    crashed       \* a deleted mutex was taken: the chip resets

ctx     == <<state, loraStatus, nrfStatus, retry>>
starts  == <<inits, probedOver>>
life    == <<initialized, running, mutex, starts>>
world   == <<connected, plugs>>
history == <<injects, forced>>
vars == <<ctx, life, th, lora, nrf, world, history, overlap, crashed>>

-----------------------------------------------------------------------------
State == {"initializing", "loraActive", "nrf24Active", "switchingToNrf",
          "switchingToLora", "loraRecovery", "error"}
Status == {"inactive", "initializing", "active", "error"}

Api    == 0
Poll   == 1..MaxInits
Thread == {Api} \cup Poll

\* "idle" is the head of the poll loop (or the API caller between calls), "late"
\* the same after a job that outlived the stop flag, "take" waits for the mutex
\* after the NRF24 answered in the error state.
Place == {"off", "idle", "late", "probed", "start", "nrf", "nrfInit", "lora",
          "loraInit", "retry", "take", "spawn", "cleanup"}
Job == {"none", "boot", "toNrf", "toLora", "recovery", "fromError", "rollback",
        "deinit"}

Rest == [at |-> "idle", job |-> "none", tries |-> 0, saw |-> FALSE]
Gone == [Rest EXCEPT !.at = "off"]

Busy(t) == th[t].job # "none"

\* hal_nrf24_is_present: false as long as no SPI handle was ever added.
Present == nrf.handle /\ connected

\* A radio is on the bus, or about to be.
LoraUses == lora \in {"initializing", "active"}
RadioUp  == LoraUses \/ nrf.init

At(t, place) == th[t].at = place
GoTo(t, place) == th' = [th EXCEPT ![t].at = place]

\* A thread begins a job; another one may be in the middle of its own.
Begin(t, job, place) ==
    /\ th' = [th EXCEPT ![t] = [Rest EXCEPT !.at = place, !.job = job]]
    /\ overlap' = (overlap \/ \E u \in Thread \ {t} : Busy(u))

\* Back to the poll loop or to the caller; the boot goes on to start the task.
Done(t) ==
    IF th[t].job = "boot" THEN [th EXCEPT ![t].at = "spawn"]
    ELSE IF t \in Poll /\ ~running THEN [th EXCEPT ![t] = [Rest EXCEPT !.at = "late"]]
    ELSE [th EXCEPT ![t] = Rest]

-----------------------------------------------------------------------------
Init ==
    /\ state = "initializing"
    /\ loraStatus = "inactive"
    /\ nrfStatus = "inactive"
    /\ retry = 0
    /\ initialized = FALSE
    /\ running = FALSE
    /\ mutex = FALSE
    /\ th = [t \in Thread |-> IF t = Api THEN Rest ELSE Gone]
    /\ lora = "inactive"
    /\ nrf = [handle |-> FALSE, init |-> FALSE]
    /\ connected \in BOOLEAN
    /\ inits = 0
    /\ probedOver = FALSE
    /\ injects = 0
    /\ plugs = 0
    /\ overlap = FALSE
    /\ forced = FALSE
    /\ crashed = FALSE

-----------------------------------------------------------------------------
(* hw_manager_init and hw_manager_deinit, on the API thread.               *)

HwInit ==
    /\ At(Api, "idle") /\ ~initialized /\ inits < MaxInits
    /\ inits' = inits + 1
    /\ probedOver' = (probedOver \/ RadioUp)
    /\ mutex' = TRUE
    /\ state' = "initializing"
    /\ loraStatus' = "inactive"
    /\ nrfStatus' = "inactive"
    /\ retry' = 0
    /\ Begin(Api, "boot", IF Present THEN "nrf" ELSE "lora")
    /\ UNCHANGED <<initialized, running, lora, nrf, world, history, crashed>>

\* The poll task starts.
SpawnPoll ==
    /\ At(Api, "spawn")
    /\ running' = TRUE
    /\ initialized' = TRUE
    /\ th' = [th EXCEPT ![Api] = Rest, ![inits] = Rest]
    /\ UNCHANGED <<ctx, mutex, starts, lora, nrf, world, history, overlap, crashed>>

\* xTaskCreate fails: the mutex goes, the radio stays as the probe left it.
SpawnFails ==
    /\ At(Api, "spawn")
    /\ running' = TRUE
    /\ mutex' = FALSE
    /\ th' = [th EXCEPT ![Api] = Rest]
    /\ UNCHANGED <<ctx, initialized, starts, lora, nrf, world, history, overlap,
                   crashed>>

DeinitStop ==
    /\ At(Api, "idle") /\ initialized
    /\ running' = FALSE
    /\ Begin(Api, "deinit", "cleanup")
    /\ UNCHANGED <<ctx, initialized, mutex, starts, lora, nrf, world, history, crashed>>

\* Seeded fault: hw_manager_deinit does not wait.
DelayElapsed_None == TRUE

\* After poll_interval_ms + 100 ms a poll task is gone unless a job kept it.
DelayElapsed == \A p \in Poll : ~At(p, "idle") /\ ~At(p, "probed")

DeinitCleanup ==
    /\ At(Api, "cleanup") /\ DelayElapsed
    /\ IF loraStatus = "active" /\ lora # "inactive"
       THEN lora' = "inactive" /\ loraStatus' = "inactive"
       ELSE UNCHANGED <<lora, loraStatus>>
    /\ IF nrfStatus = "active" /\ nrf.init
       THEN nrf' = [handle |-> FALSE, init |-> FALSE] /\ nrfStatus' = "inactive"
       ELSE UNCHANGED <<nrf, nrfStatus>>
    /\ state' = "initializing"
    /\ mutex' = FALSE
    /\ initialized' = FALSE
    /\ th' = [th EXCEPT ![Api] = Rest]
    /\ UNCHANGED <<retry, running, starts, world, history, overlap, crashed>>

-----------------------------------------------------------------------------
(* The handlers.                                                           *)

\* Seeded fault: the hot swap leaves LoRa on the bus.
SwitchToNrf_KeepsLora(t) ==
    /\ At(t, "start") /\ th[t].job = "toNrf"
    /\ state' = "switchingToNrf"
    /\ GoTo(t, "nrf")
    /\ UNCHANGED <<loraStatus, nrfStatus, retry, life, lora, nrf, world, history,
                   overlap, crashed>>

\* handle_switch_to_nrf24, step 1: LoRa leaves the bus.
SwitchToNrf(t) ==
    /\ At(t, "start") /\ th[t].job = "toNrf"
    /\ state' = "switchingToNrf"
    /\ IF lora # "inactive"
       THEN lora' = "inactive" /\ loraStatus' = "inactive"
       ELSE UNCHANGED <<lora, loraStatus>>
    /\ GoTo(t, "nrf")
    /\ UNCHANGED <<nrfStatus, retry, life, nrf, world, history, overlap, crashed>>

\* handle_switch_to_lora, step 1: the NRF24 leaves the bus.
SwitchToLora(t) ==
    /\ At(t, "start") /\ th[t].job = "toLora"
    /\ state' = "switchingToLora"
    /\ IF nrf.init
       THEN nrf' = [handle |-> FALSE, init |-> FALSE] /\ nrfStatus' = "inactive"
       ELSE UNCHANGED <<nrf, nrfStatus>>
    /\ GoTo(t, "lora")
    /\ UNCHANGED <<loraStatus, retry, life, lora, world, history, overlap, crashed>>

\* handle_lora_recovery begins.
RecoveryBegins(t) ==
    /\ At(t, "start") /\ th[t].job = "recovery"
    /\ state' = "loraRecovery"
    /\ retry' = 0
    /\ th' = [th EXCEPT ![t].at = "retry", ![t].tries = 0]
    /\ UNCHANGED <<loraStatus, nrfStatus, life, lora, nrf, world, history, overlap,
                   crashed>>

\* One attempt: LoRa is shut down, and after the delay initialised again.
RetryLora(t) ==
    /\ At(t, "retry") /\ th[t].tries < RetryMax
    /\ retry' = th[t].tries + 1
    /\ lora' = "inactive"
    /\ loraStatus' = "error"
    /\ th' = [th EXCEPT ![t].at = "lora", ![t].tries = @ + 1]
    /\ UNCHANGED <<state, nrfStatus, life, nrf, world, history, overlap, crashed>>

\* Seeded fault: the last attempt is not made.
RetriesExhausted_OneEarly(t) ==
    /\ At(t, "retry") /\ th[t].tries >= RetryMax - 1
    /\ state' = "error"
    /\ th' = Done(t)
    /\ UNCHANGED <<loraStatus, nrfStatus, retry, life, lora, nrf, world, history,
                   overlap, crashed>>

RetriesExhausted(t) ==
    /\ At(t, "retry") /\ th[t].tries = RetryMax
    /\ state' = "error"
    /\ th' = Done(t)
    /\ UNCHANGED <<loraStatus, nrfStatus, retry, life, lora, nrf, world, history,
                   overlap, crashed>>

\* try_init_nrf24 enters hal_nrf24_init, which refuses when initialised.
NrfBegins(t) ==
    /\ At(t, "nrf")
    /\ nrfStatus' = "initializing"
    /\ GoTo(t, "nrfInit")
    /\ UNCHANGED <<state, loraStatus, retry, life, lora, nrf, world, history, overlap,
                   crashed>>

\* hal_nrf24_init succeeds: the caller's transition follows, under the mutex
\* when it comes from the error state.
NrfUp(t) ==
    /\ At(t, "nrfInit") /\ ~nrf.init /\ connected
    /\ nrf' = [handle |-> TRUE, init |-> TRUE]
    /\ nrfStatus' = "active"
    /\ IF th[t].job = "fromError"
       THEN GoTo(t, "take") /\ UNCHANGED state
       ELSE th' = Done(t) /\ state' = "nrf24Active"
    /\ UNCHANGED <<loraStatus, retry, life, lora, world, history, overlap, crashed>>

\* What a failing hal_nrf24_init leaves: nothing changed (refused, or the bus
\* failed), the handle removed (no answer), or the handle kept (the module
\* answered and a register write failed).
FailedNrf ==
    {nrf} \cup (IF nrf.init THEN {} ELSE {[handle |-> connected, init |-> FALSE]})

\* Seeded fault: a failed swap is not rolled back.
NrfDown_NoRollback(t) ==
    /\ At(t, "nrfInit")
    /\ nrf' \in FailedNrf
    /\ nrfStatus' = "error"
    /\ th' = IF th[t].job = "boot" THEN [th EXCEPT ![t].at = "lora"] ELSE Done(t)
    /\ UNCHANGED <<state, loraStatus, retry, life, lora, nrf, world, history, overlap,
                   crashed>>

\* hal_nrf24_init fails: at boot LoRa is tried, a swap is rolled back through
\* LoRa recovery, the error state stays.
NrfDown(t) ==
    /\ At(t, "nrfInit")
    /\ nrf' \in FailedNrf
    /\ nrfStatus' = "error"
    /\ th' = CASE th[t].job = "boot"  -> [th EXCEPT ![t].at = "lora"]
               [] th[t].job = "toNrf" -> [th EXCEPT ![t].at = "start",
                                                    ![t].job = "recovery"]
               [] OTHER               -> Done(t)
    /\ UNCHANGED <<state, loraStatus, retry, life, lora, world, history, overlap,
                   crashed>>

\* The poll task that revived the NRF24 takes the mutex for the transition.
ReviveTransition(t) ==
    /\ At(t, "take") /\ mutex
    /\ state' = "nrf24Active"
    /\ th' = Done(t)
    /\ UNCHANGED <<loraStatus, nrfStatus, retry, life, lora, nrf, world, history,
                   overlap, crashed>>

\* Seeded fault: the way back to LoRa does not look at the result.
AfterLoraFailed_Ignored(t) ==
    IF th[t].job = "recovery"
    THEN GoTo(t, "retry") /\ UNCHANGED state
    ELSE th' = Done(t) /\ state' = IF th[t].job = "toLora" THEN "loraActive" ELSE "error"

\* After a failing hal_lora_init: the next retry, or the error state.
AfterLoraFailed(t) ==
    IF th[t].job = "recovery"
    THEN GoTo(t, "retry") /\ UNCHANGED state
    ELSE th' = Done(t) /\ state' = "error"

\* try_init_lora enters hal_lora_init, which takes seconds.
LoraBegins(t) ==
    /\ At(t, "lora") /\ lora # "active"
    /\ loraStatus' = "initializing"
    /\ lora' = "initializing"
    /\ GoTo(t, "loraInit")
    /\ UNCHANGED <<state, nrfStatus, retry, life, nrf, world, history, overlap, crashed>>

\* hal_lora_init refuses: LoRa is active already.
LoraRefused(t) ==
    /\ At(t, "lora") /\ lora = "active"
    /\ loraStatus' = "error"
    /\ AfterLoraFailed(t)
    /\ UNCHANGED <<nrfStatus, retry, life, lora, nrf, world, history, overlap, crashed>>

LoraUp(t) ==
    /\ At(t, "loraInit")
    /\ lora' = "active"
    /\ loraStatus' = "active"
    /\ retry' = IF th[t].job = "recovery" THEN 0 ELSE retry
    /\ state' = "loraActive"
    /\ th' = Done(t)
    /\ UNCHANGED <<nrfStatus, life, nrf, world, history, overlap, crashed>>

LoraDown(t) ==
    /\ At(t, "loraInit")
    /\ lora' = "error"
    /\ loraStatus' = "error"
    /\ AfterLoraFailed(t)
    /\ UNCHANGED <<nrfStatus, retry, life, nrf, world, history, overlap, crashed>>

-----------------------------------------------------------------------------
(* The poll task.                                                          *)

\* The head of the loop: the NRF24 is probed before the mutex is taken.
PollProbe(t) ==
    /\ th[t].at \in {"idle", "late"} /\ running
    /\ th' = [th EXCEPT ![t] = [Rest EXCEPT !.at = "probed", !.saw = Present]]
    /\ UNCHANGED <<ctx, life, lora, nrf, world, history, overlap, crashed>>

PollExit(t) ==
    /\ th[t].at \in {"idle", "late"} /\ ~running
    /\ th' = [th EXCEPT ![t] = Gone]
    /\ UNCHANGED <<ctx, life, lora, nrf, world, history, overlap, crashed>>

\* What the poll decides under the mutex, from the probe made before.
PollJob(saw) ==
    CASE state = "loraActive" /\ saw                     -> "toNrf"
      [] state = "loraActive" /\ ~saw /\ lora = "error"  -> "recovery"
      [] state = "nrf24Active" /\ ~saw                   -> "toLora"
      [] state = "error" /\ saw                          -> "fromError"
      [] OTHER                                           -> "none"

PollDecide(t) ==
    /\ At(t, "probed") /\ mutex
    /\ LET job == PollJob(th[t].saw)
       IN  CASE job = "none"      -> th' = [th EXCEPT ![t] = Rest] /\ UNCHANGED overlap
             [] job = "fromError" -> Begin(t, job, "nrf")
             [] OTHER             -> Begin(t, job, "start")
    /\ UNCHANGED <<ctx, life, lora, nrf, world, history, crashed>>

\* xSemaphoreTake on the deleted mutex asserts.
TakesDeletedMutex(t) ==
    /\ th[t].at \in {"probed", "take"} /\ ~mutex
    /\ crashed' = TRUE
    /\ UNCHANGED <<ctx, life, th, lora, nrf, world, history, overlap>>

-----------------------------------------------------------------------------
(* hw_manager_inject_event, on the API thread.                             *)

MayInject == At(Api, "idle") /\ initialized /\ injects < MaxInjects

\* The events that run a handler, in the one state that accepts each.
InjectHandler ==
    /\ MayInject
    /\ injects' = injects + 1
    /\ \/ state = "loraActive"  /\ Begin(Api, "toNrf", "start")
       \/ state = "loraActive"  /\ Begin(Api, "recovery", "start")
       \/ state = "nrf24Active" /\ Begin(Api, "toLora", "start")
    /\ UNCHANGED <<ctx, life, lora, nrf, world, forced, crashed>>

\* An event that overrides the state, while the handler that is in it goes on.
Override ==
    /\ MayInject
    /\ injects' = injects + 1
    /\ forced' = TRUE

InjectNrfInitOk ==
    /\ Override /\ state = "switchingToNrf"
    /\ nrfStatus' = "active"
    /\ state' = "nrf24Active"
    /\ UNCHANGED <<loraStatus, retry, life, th, lora, nrf, world, overlap, crashed>>

InjectNrfInitFail ==
    /\ Override /\ state = "switchingToNrf"
    /\ nrfStatus' = "error"
    /\ Begin(Api, "rollback", "lora")
    /\ UNCHANGED <<state, loraStatus, retry, life, lora, nrf, world, crashed>>

\* LORA_INIT_OK and LORA_RESET_OK.
InjectLoraOk ==
    /\ Override /\ state \in {"switchingToLora", "loraRecovery"}
    /\ loraStatus' = "active"
    /\ retry' = 0
    /\ state' = "loraActive"
    /\ UNCHANGED <<nrfStatus, life, th, lora, nrf, world, overlap, crashed>>

InjectLoraInitFail ==
    /\ Override /\ state = "switchingToLora"
    /\ loraStatus' = "error"
    /\ state' = "error"
    /\ UNCHANGED <<nrfStatus, retry, life, th, lora, nrf, world, overlap, crashed>>

InjectLoraResetFail ==
    /\ Override /\ state = "loraRecovery"
    /\ retry' = retry + 1
    /\ state' = IF retry' >= RetryMax THEN "error" ELSE state
    /\ UNCHANGED <<loraStatus, nrfStatus, life, th, lora, nrf, world, overlap, crashed>>

InjectAllFailed ==
    /\ Override
    /\ state' = "error"
    /\ UNCHANGED <<loraStatus, nrfStatus, retry, life, th, lora, nrf, world, overlap,
                   crashed>>

\* The NRF24 is plugged in or out.
Plug ==
    /\ plugs < MaxPlugs
    /\ plugs' = plugs + 1
    /\ connected' = ~connected
    /\ UNCHANGED <<ctx, life, th, lora, nrf, history, overlap, crashed>>

-----------------------------------------------------------------------------
HandlerStep(t) ==
    \/ SwitchToNrf(t) \/ SwitchToLora(t) \/ RecoveryBegins(t)
    \/ RetryLora(t) \/ RetriesExhausted(t)
    \/ NrfBegins(t) \/ NrfUp(t) \/ NrfDown(t) \/ ReviveTransition(t)
    \/ LoraBegins(t) \/ LoraRefused(t) \/ LoraUp(t) \/ LoraDown(t)

PollStep(t) ==
    PollProbe(t) \/ PollExit(t) \/ PollDecide(t) \/ TakesDeletedMutex(t)

Inject ==
    \/ InjectHandler
    \/ InjectNrfInitOk \/ InjectNrfInitFail
    \/ InjectLoraOk \/ InjectLoraInitFail \/ InjectLoraResetFail \/ InjectAllFailed

ApiStep == SpawnPoll \/ SpawnFails \/ DeinitCleanup

Next ==
    /\ ~crashed
    /\ \/ HwInit \/ DeinitStop
       \/ ApiStep
       \/ \E t \in Thread : HandlerStep(t)
       \/ \E t \in Poll : PollStep(t)
       \/ Inject
       \/ Plug

Spec == Init /\ [][Next]_vars

\* Every thread that is in a call goes on with it, and the poll task comes round.
\* No fairness for the API's callers, for plugging, or for an init to succeed.
FairSpec ==
    /\ Spec
    /\ \A t \in Thread : WF_vars(~crashed /\ HandlerStep(t))
    /\ \A t \in Poll : WF_vars(~crashed /\ PollStep(t))
    /\ WF_vars(~crashed /\ ApiStep)

-----------------------------------------------------------------------------
(* Properties.                                                             *)

\* One handler at a time and no overridden state: what the code relies on.
Orderly == ~overlap /\ ~forced

\* The two radios are never both up on the shared bus, through every swap, failed
\* swap, rollback, recovery and revival from the error state.  (hw_manager_init is
\* excluded when a call that failed left a radio up: the NRF24's driver refuses to
\* start again, and LoRa is tried beside it.)
ExclusiveRadios ==
    (Orderly /\ ~probedOver) => ~(LoraUses /\ nrf.init)

\* Between jobs the state names the radio that is really up.
StateMatchesRadio ==
    (Orderly /\ ~probedOver /\ initialized /\ \A t \in Thread : ~Busy(t)) =>
        /\ state = "loraActive"  => lora = "active" /\ ~nrf.init
        /\ state = "nrf24Active" => nrf.init /\ ~LoraUses
        /\ state = "error"       => ~LoraUses /\ ~nrf.init
        /\ state \in {"loraActive", "nrf24Active", "error"}

\* The mutex is deleted under a task that still needs it only when the fixed delay
\* of hw_manager_deinit was outrun by a job.
MutexOutlivesUsers ==
    crashed => overlap

\* LoRa is given up on during a recovery, the rollback of a failed swap included,
\* only when every attempt was made.
GivesUpAfterAllRetries ==
    [][ (Orderly' /\ state = "loraRecovery" /\ state' = "error") => retry = RetryMax ]_vars

\* A swap or a recovery ends: the machine does not stay in a transient state,
\* whatever fails and whatever is injected meanwhile.
TransitionsEnd ==
    (initialized /\ state \in {"switchingToNrf", "switchingToLora", "loraRecovery"})
      ~> (crashed \/ state \notin {"switchingToNrf", "switchingToLora", "loraRecovery"})

=============================================================================
