-------------------------- MODULE HwManagerProofs --------------------------
(***************************************************************************)
(* One radio on the bus, a state that names it, and a mutex that outlives  *)
(* its users: proved for any number of retries, of calls of                *)
(* hw_manager_init, of injected events and of plugs of the NRF24.          *)
(***************************************************************************)
EXTENDS HwManager, TLAPS

ThreadState == [at : Place, job : Job, tries : 0..RetryMax, saw : BOOLEAN]

(* Every variable keeps to its range.                                      *)
TypeOK ==
    /\ state \in State
    /\ loraStatus \in Status /\ nrfStatus \in Status
    /\ retry \in Nat
    /\ initialized \in BOOLEAN /\ running \in BOOLEAN /\ mutex \in BOOLEAN
    /\ th \in [Thread -> ThreadState]
    /\ lora \in Status
    /\ nrf \in [handle : BOOLEAN, init : BOOLEAN]
    /\ connected \in BOOLEAN
    /\ inits \in 0..MaxInits /\ injects \in 0..MaxInjects /\ plugs \in 0..MaxPlugs
    /\ probedOver \in BOOLEAN /\ overlap \in BOOLEAN /\ forced \in BOOLEAN /\ crashed \in BOOLEAN

-----------------------------------------------------------------------------
(* The places a job goes through. *)
PlacesOf(job) ==
    CASE job = "none"      -> {"off", "idle", "late", "probed"}
      [] job = "boot"      -> {"nrf", "nrfInit", "lora", "loraInit", "spawn"}
      [] job = "toNrf"     -> {"start", "nrf", "nrfInit"}
      [] job = "toLora"    -> {"start", "lora", "loraInit"}
      [] job = "recovery"  -> {"start", "retry", "lora", "loraInit"}
      [] job = "fromError" -> {"nrf", "nrfInit", "take"}
      [] job = "rollback"  -> {"lora", "loraInit"}
      [] job = "deinit"    -> {"cleanup"}

(* Which jobs a thread has: the API's callers start and stop the manager,  *)
(* and roll back only when an event was forced on it.                      *)
JobFits ==
    \A t \in Thread :
       /\ th[t].at \in PlacesOf(th[t].job)
       /\ th[t].job = "rollback" => forced
       /\ t # Api => th[t].job \notin {"boot", "rollback", "deinit"}

OneJob == \A t, u \in Thread : Busy(t) /\ Busy(u) => t = u

(* While one handler runs at a time: a poll task lives only in an          *)
(* initialised manager, which has a mutex, and whose flag is down only     *)
(* while hw_manager_deinit waits.                                          *)
Life ==
    /\ \A p \in Poll : ~At(p, "late") /\ (~At(p, "off") => initialized)
    /\ initialized => mutex
    /\ initialized /\ ~running => th[Api].job = "deinit"
    /\ th[Api].job = "boot" => ~initialized /\ mutex
    /\ th[Api].job = "deinit" => initialized

Threads == TypeOK /\ JobFits /\ (~overlap => OneJob /\ Life)

-----------------------------------------------------------------------------
(* A handler is in the state it set, and counts its attempts.              *)
Counted(t) ==
    /\ th[t].job = "recovery" /\ th[t].at # "start" => state = "loraRecovery" /\ retry = th[t].tries
    /\ th[t].job = "boot" /\ th[t].at # "spawn" => state = "initializing"
    /\ th[t].job = "toLora" /\ th[t].at # "start" => state = "switchingToLora"

(* No radio is on the bus.                                                 *)
Quiet == ~LoraUses /\ ~nrf.init

(* The state names the radio, and the status agrees with its driver.       *)
Settled ==
    /\ state \in {"loraActive", "nrf24Active", "error"}
    /\ state = "loraActive" => lora = "active" /\ loraStatus = "active" /\ ~nrf.init
    /\ state = "nrf24Active" => nrf.init /\ nrfStatus = "active" /\ ~LoraUses
    /\ state = "error" => Quiet

(* What a handler has done to the radios when it is at a place.            *)
RadiosAt(t) ==
    /\ th[t].job # "none" /\ th[t].at \in {"nrf", "nrfInit", "lora"} => Quiet
    /\ th[t].job # "none" /\ th[t].at = "loraInit" => lora = "initializing" /\ ~nrf.init
    /\ th[t].at \in {"spawn", "cleanup"} => Settled
    /\ th[t].at = "start" /\ th[t].job \in {"toNrf", "recovery"} => ~nrf.init
    /\ th[t].at = "start" /\ th[t].job = "toLora" => ~LoraUses
    /\ th[t].at = "retry" => ~nrf.init /\ (th[t].tries # 0 => ~LoraUses)
    /\ th[t].at = "take" => nrf.init /\ nrfStatus = "active" /\ ~LoraUses
    /\ th[t].at \in {"nrf", "nrfInit"} /\ th[t].job = "fromError" => state = "error"

(* ... and what all have left behind when none is at work.                 *)
RadiosAtRest ==
    (\A t \in Thread : ~Busy(t)) => IF initialized THEN Settled ELSE ~(LoraUses /\ nrf.init)

Handlers ==
    /\ Orderly => \A t \in Thread : Counted(t)
    /\ Orderly /\ ~probedOver => RadiosAtRest /\ \A t \in Thread : RadiosAt(t)

IInv == Threads /\ Handlers /\ MutexOutlivesUsers

-----------------------------------------------------------------------------
(* Moving threads. *)

(* A thread gets a job, a place and a number of tries; the others stay.    *)
Moved(t, job, place, tries) ==
    /\ th' \in [Thread -> ThreadState]
    /\ th'[t].job = job /\ th'[t].at = place /\ th'[t].tries = tries
    /\ \A u \in Thread \ {t} : th'[u] = th[u]

LEMMA Replaced ==
    ASSUME TypeOK, NEW t \in Thread, NEW r \in ThreadState, th' = [th EXCEPT ![t] = r]
    PROVE  Moved(t, r.job, r.at, r.tries)
BY DEF TypeOK, Moved

LEMMA RestFits == Rest \in ThreadState /\ Gone \in ThreadState
                  /\ Gone.at = "off" /\ Gone.job = "none" /\ Gone.tries = 0
<1>1. 0 \in 0..RetryMax
  BY HwConstants
<1>2. {"idle", "off"} \subseteq Place /\ "none" \in Job
  BY DEF Place, Job
<1>3. Rest \in ThreadState
  BY <1>1, <1>2 DEF Rest, ThreadState
<1>4. Gone.at = "off" /\ Gone.job = "none" /\ Gone.tries = 0
  BY DEF Gone, Rest
<1>5. Gone \in ThreadState
  BY <1>2, <1>3 DEF Gone, ThreadState
<1> QED
  BY <1>3, <1>4, <1>5

LEMMA Went ==
    ASSUME TypeOK, NEW t \in Thread, NEW place \in Place, GoTo(t, place)
    PROVE  Moved(t, th[t].job, place, th[t].tries)
<1> DEFINE r == [th[t] EXCEPT !.at = place]
<1>1. th[t] \in ThreadState
  BY DEF TypeOK
<1>2. r \in ThreadState /\ r.at = place /\ r.job = th[t].job /\ r.tries = th[t].tries
  BY <1>1 DEF ThreadState
<1>3. th' = [th EXCEPT ![t] = r]
  BY DEF GoTo
<1> QED
  BY <1>2, <1>3, Replaced

LEMMA Begun ==
    ASSUME TypeOK, NEW t \in Thread, NEW job \in Job, NEW place \in Place, Begin(t, job, place)
    PROVE  Moved(t, job, place, 0) /\ overlap' = (overlap \/ \E u \in Thread \ {t} : Busy(u))
<1> DEFINE r == [Rest EXCEPT !.at = place, !.job = job]
<1>1. r \in ThreadState /\ r.at = place /\ r.job = job /\ r.tries = 0
  BY RestFits DEF ThreadState, Rest
<1>2. th' = [th EXCEPT ![t] = r]
  BY DEF Begin
<1> QED
  BY <1>1, <1>2, Replaced DEF Begin

(* A job is over.                                                          *)
Ended(t) ==
    \/ th[t].job = "boot" /\ Moved(t, "boot", "spawn", th[t].tries)
    \/ th[t].job # "boot" /\ t \in Poll /\ ~running /\ Moved(t, "none", "late", 0)
    \/ th[t].job # "boot" /\ (t \in Poll => running) /\ Moved(t, "none", "idle", 0)

LEMMA IsEnded ==
    ASSUME TypeOK, NEW t \in Thread, th' = Done(t)
    PROVE  Ended(t)
<1>1. CASE th[t].job = "boot"
  <2>1. GoTo(t, "spawn") /\ "spawn" \in Place
    BY <1>1 DEF Done, GoTo, Place
  <2> QED
    BY <1>1, <2>1, Went DEF Ended
<1>2. CASE th[t].job # "boot" /\ t \in Poll /\ ~running
  <2> DEFINE r == [Rest EXCEPT !.at = "late"]
  <2>1. r \in ThreadState /\ r.at = "late" /\ r.job = "none" /\ r.tries = 0
    BY RestFits DEF ThreadState, Rest, Place
  <2>2. th' = [th EXCEPT ![t] = r]
    BY <1>2 DEF Done
  <2> QED
    BY <1>2, <2>1, <2>2, Replaced DEF Ended
<1>3. CASE th[t].job # "boot" /\ ~(t \in Poll /\ ~running)
  <2>1. th' = [th EXCEPT ![t] = Rest]
    BY <1>3 DEF Done
  <2>2. Rest \in ThreadState /\ Rest.at = "idle" /\ Rest.job = "none" /\ Rest.tries = 0
    BY RestFits DEF Rest
  <2> QED
    BY <1>3, <2>1, <2>2, Replaced DEF Ended
<1> QED
  BY <1>1, <1>2, <1>3

-----------------------------------------------------------------------------
(* What the threads are at, through a step of one of them. *)

LEMMA Places ==
    /\ PlacesOf("none") = {"off", "idle", "late", "probed"}
    /\ PlacesOf("boot") = {"nrf", "nrfInit", "lora", "loraInit", "spawn"}
    /\ PlacesOf("toNrf") = {"start", "nrf", "nrfInit"}
    /\ PlacesOf("toLora") = {"start", "lora", "loraInit"}
    /\ PlacesOf("recovery") = {"start", "retry", "lora", "loraInit"}
    /\ PlacesOf("fromError") = {"nrf", "nrfInit", "take"}
    /\ PlacesOf("rollback") = {"lora", "loraInit"}
    /\ PlacesOf("deinit") = {"cleanup"}
BY DEF PlacesOf

LEMMA AtWork ==
    ASSUME Threads, NEW t \in Thread
    PROVE  Busy(t) <=> th[t].at \notin {"off", "idle", "late", "probed"}
<1>1. th[t].job \in Job /\ th[t].at \in PlacesOf(th[t].job)
  BY DEF Threads, TypeOK, JobFits, ThreadState
<1> QED
  BY <1>1, Places DEF Job, Busy

(* A thread in a handler is the only one.                                  *)
LEMMA Alone ==
    ASSUME Threads, ~overlap, NEW t \in Thread, Busy(t), NEW job, NEW place, NEW tries,
           Moved(t, job, place, tries)
    PROVE  \A u \in Thread \ {t} : th'[u] = th[u] /\ th[u].job = "none" /\ th'[u].job = "none"
                                   /\ th[u].at \in {"off", "idle", "late", "probed"}
BY Places DEF Threads, OneJob, Busy, Moved, JobFits

(* A thread in a handler goes on in it, in the one it leads to, or ends.   *)
LEMMA HandlerFrame ==
    ASSUME Threads, NEW t \in Thread, Busy(t), NEW job, NEW place, NEW tries,
           Moved(t, job, place, tries), place \in PlacesOf(job), th[t].job # "deinit",
           job \in {th[t].job, "none", "recovery"},
           place = "late" => t \in Poll /\ ~running, place # "off",
           UNCHANGED <<initialized, running, mutex, forced, overlap>>
    PROVE  JobFits' /\ (~overlap' => OneJob' /\ Life')
<1>1. JobFits'
  BY DEF Threads, JobFits, Moved, Thread, Poll, Api
<1>2. ASSUME ~overlap' PROVE OneJob' /\ Life'
  <2>1. ~overlap /\ OneJob /\ Life
    BY <1>2 DEF Threads
  <2>2. \A u \in Thread \ {t} : th'[u] = th[u] /\ th'[u].job = "none" /\ th[u].job = "none"
    BY <2>1, Alone
  <2>3. OneJob'
    BY <2>2 DEF OneJob, Busy
  <2>4. t \in Poll => initialized /\ running
    <3> SUFFICES ASSUME t \in Poll PROVE initialized /\ running
      OBVIOUS
    <3>1. ~At(t, "off")
      BY AtWork DEF At
    <3>2. initialized
      BY <2>1, <3>1 DEF Life
    <3>3. t # Api /\ Api \in Thread
      BY HwConstants DEF Poll, Thread, Api
    <3>4. th[Api].job # "deinit"
      BY <2>2, <3>3
    <3> QED
      BY <2>1, <3>2, <3>4 DEF Life
  <2>5. Life'
    <3>1. \A p \in Poll : (~At(p, "late"))' /\ ((~At(p, "off"))' => initialized')
      BY <2>1, <2>2, <2>4 DEF Life, At, Moved, Thread
    <3>2. initialized' /\ ~running' => th'[Api].job = "deinit"
      BY <2>1, <2>2, <2>4 DEF Life, Moved, Thread, Poll, Api
    <3>3. th'[Api].job = "boot" => ~initialized' /\ mutex'
      BY <2>1, <2>2 DEF Life, Moved, Thread, Api
    <3>4. th'[Api].job = "deinit" => initialized'
      BY <2>1, <2>2 DEF Life, Moved, Thread, Api
    <3> QED
      BY <2>1, <3>1, <3>2, <3>3, <3>4 DEF Life
  <2> QED
    BY <2>3, <2>5
<1> QED
  BY <1>1, <1>2

-----------------------------------------------------------------------------
(* The steps of a handler. *)

(* Others have nothing to say about the radios while a handler is at work. *)
LEMMA HandlerRadios ==
    ASSUME Threads, ~overlap, NEW t \in Thread, Busy(t), NEW job, NEW place, NEW tries,
           Moved(t, job, place, tries),
           Orderly' => Counted(t)', (Orderly /\ ~probedOver)' => RadiosAt(t)' /\ (job = "none" => Settled')
    PROVE  Handlers'
<1>1. \A u \in Thread \ {t} : th'[u].job = "none" /\ th'[u].at \in {"off", "idle", "late", "probed"}
  BY Alone
<1>2. \A u \in Thread \ {t} : Counted(u)' /\ RadiosAt(u)'
  BY <1>1 DEF Counted, RadiosAt
<1>3. (Orderly /\ ~probedOver)' => RadiosAtRest'
  BY DEF RadiosAtRest, Moved, Busy, Settled, Quiet
<1> QED
  BY <1>2, <1>3 DEF Handlers

(* What a step of a handler has to show: where it goes, and what it did.   *)
LEMMA HandlerKeeps ==
    ASSUME IInv, NEW t \in Thread, Busy(t), NEW job, NEW place, NEW tries, TypeOK',
           Moved(t, job, place, tries), place \in PlacesOf(job), th[t].job # "deinit",
           job \in {th[t].job, "none", "recovery"},
           place = "late" => t \in Poll /\ ~running, place # "off",
           UNCHANGED <<initialized, running, mutex, probedOver, forced, overlap, crashed>>,
           Orderly /\ Counted(t) => Counted(t)',
           Orderly /\ ~probedOver /\ Counted(t) /\ RadiosAt(t)
              => RadiosAt(t)' /\ (job = "none" => Settled')
    PROVE  IInv'
<1>1. Threads /\ Handlers /\ MutexOutlivesUsers
  BY DEF IInv
<1>2. Threads'
  BY <1>1, HandlerFrame DEF Threads
<1>3. MutexOutlivesUsers'
  BY <1>1 DEF MutexOutlivesUsers
<1>4. CASE ~Orderly
  BY <1>2, <1>3, <1>4 DEF IInv, Handlers, Orderly
<1>5. CASE Orderly
  <2>1. Handlers'
    BY <1>1, <1>5, HandlerRadios DEF Handlers, Orderly
  <2> QED
    BY <1>2, <1>3, <2>1 DEF IInv
<1> QED
  BY <1>4, <1>5

LEMMA NrfDriver ==
    ASSUME NEW h \in BOOLEAN, NEW i \in BOOLEAN
    PROVE  /\ [handle |-> h, init |-> i] \in [handle : BOOLEAN, init : BOOLEAN]
           /\ [handle |-> h, init |-> i].init = i
OBVIOUS

LEMMA SwitchToNrfStep ==
    ASSUME IInv, NEW t \in Thread, SwitchToNrf(t)
    PROVE  IInv'
<1>1. /\ th[t].at = "start" /\ th[t].job = "toNrf" /\ GoTo(t, "nrf")
      /\ state' = "switchingToNrf" /\ lora' = "inactive" /\ loraStatus' \in {"inactive", loraStatus}
      /\ UNCHANGED <<nrfStatus, retry, initialized, running, mutex, inits, probedOver, nrf,
                     connected, plugs, injects, forced, overlap, crashed>>
  BY DEF SwitchToNrf, At, life, starts, world, history
<1>2. TypeOK /\ Threads /\ Busy(t) /\ "nrf" \in Place /\ "nrf" \in PlacesOf("toNrf")
  BY <1>1, Places DEF IInv, Threads, Place, Busy
<1>3. Moved(t, "toNrf", "nrf", th[t].tries)
  BY <1>1, <1>2, Went
<1>4. TypeOK'
  BY <1>1, <1>2, <1>3 DEF TypeOK, Moved, State, Status
<1>5. Counted(t)'
  BY <1>3 DEF Counted, Moved
<1>6. RadiosAt(t) => RadiosAt(t)'
  BY <1>1, <1>3 DEF RadiosAt, Moved, Quiet, LoraUses
<1> QED
  BY <1>1, <1>2, <1>3, <1>4, <1>5, <1>6, HandlerKeeps

LEMMA SwitchToLoraStep ==
    ASSUME IInv, NEW t \in Thread, SwitchToLora(t)
    PROVE  IInv'
<1>1. /\ th[t].at = "start" /\ th[t].job = "toLora" /\ GoTo(t, "lora")
      /\ state' = "switchingToLora"
      /\ \/ ~nrf.init /\ nrf' = nrf
         \/ nrf' = [handle |-> FALSE, init |-> FALSE]
      /\ nrfStatus' \in {"inactive", nrfStatus}
      /\ UNCHANGED <<loraStatus, retry, initialized, running, mutex, inits, probedOver, lora,
                     connected, plugs, injects, forced, overlap, crashed>>
  BY DEF SwitchToLora, At, life, starts, world, history
<1>2. TypeOK /\ Threads /\ Busy(t) /\ "lora" \in Place /\ "lora" \in PlacesOf("toLora")
  BY <1>1, Places DEF IInv, Threads, Place, Busy
<1>3. Moved(t, "toLora", "lora", th[t].tries)
  BY <1>1, <1>2, Went
<1>4. nrf' \in [handle : BOOLEAN, init : BOOLEAN] /\ ~nrf'.init
  <2>1. CASE ~nrf.init /\ nrf' = nrf
    BY <1>2, <2>1 DEF TypeOK
  <2>2. CASE nrf' = [handle |-> FALSE, init |-> FALSE]
    BY <2>2, NrfDriver
  <2> QED
    BY <1>1, <2>1, <2>2
<1>5. TypeOK'
  BY <1>1, <1>2, <1>3, <1>4 DEF TypeOK, Moved, State, Status
<1>6. Counted(t)'
  BY <1>1, <1>3 DEF Counted, Moved
<1>7. RadiosAt(t) => RadiosAt(t)'
  BY <1>1, <1>3, <1>4 DEF RadiosAt, Moved, Quiet, LoraUses
<1> QED
  BY <1>1, <1>2, <1>3, <1>5, <1>6, <1>7, HandlerKeeps

LEMMA RecoveryBeginsStep ==
    ASSUME IInv, NEW t \in Thread, RecoveryBegins(t)
    PROVE  IInv'
<1> DEFINE r == [th[t] EXCEPT !.at = "retry", !.tries = 0]
<1>1. /\ th[t].at = "start" /\ th[t].job = "recovery" /\ th' = [th EXCEPT ![t] = r]
      /\ state' = "loraRecovery" /\ retry' = 0
      /\ UNCHANGED <<loraStatus, nrfStatus, initialized, running, mutex, inits, probedOver, lora,
                     nrf, connected, plugs, injects, forced, overlap, crashed>>
  BY DEF RecoveryBegins, At, life, starts, world, history
<1>2. TypeOK /\ Threads /\ Busy(t) /\ "retry" \in Place /\ "retry" \in PlacesOf("recovery")
  BY <1>1, Places DEF IInv, Threads, Place, Busy
<1>3. th[t] \in ThreadState /\ 0 \in 0..RetryMax
  BY <1>2, HwConstants DEF TypeOK
<1>4. r \in ThreadState /\ r.job = "recovery" /\ r.at = "retry" /\ r.tries = 0
  BY <1>1, <1>2, <1>3 DEF ThreadState
<1>5. Moved(t, "recovery", "retry", 0)
  BY <1>1, <1>2, <1>4, Replaced
<1>6. TypeOK'
  BY <1>1, <1>2, <1>5 DEF TypeOK, Moved, State
<1>7. Counted(t)'
  BY <1>1, <1>5 DEF Counted, Moved
<1>8. RadiosAt(t) => RadiosAt(t)'
  BY <1>1, <1>5 DEF RadiosAt, Moved
<1> QED
  BY <1>1, <1>2, <1>5, <1>6, <1>7, <1>8, HandlerKeeps

LEMMA RetryLoraStep ==
    ASSUME IInv, NEW t \in Thread, RetryLora(t)
    PROVE  IInv'
<1> DEFINE r == [th[t] EXCEPT !.at = "lora", !.tries = @ + 1]
<1>1. /\ th[t].at = "retry" /\ th[t].tries < RetryMax /\ th' = [th EXCEPT ![t] = r]
      /\ retry' = th[t].tries + 1 /\ lora' = "inactive" /\ loraStatus' = "error"
      /\ UNCHANGED <<state, nrfStatus, initialized, running, mutex, inits, probedOver,
                     nrf, connected, plugs, injects, forced, overlap, crashed>>
  BY DEF RetryLora, At, life, starts, world, history
<1>2. TypeOK /\ Threads /\ th[t] \in ThreadState /\ th[t].at \in PlacesOf(th[t].job)
  BY DEF IInv, Threads, TypeOK, JobFits
<1>3. th[t].job = "recovery" /\ Busy(t) /\ "lora" \in Place /\ "lora" \in PlacesOf("recovery")
  BY <1>1, <1>2, Places DEF Place, Busy, ThreadState, Job
<1>4. th[t].tries + 1 \in 0..RetryMax /\ th[t].tries + 1 \in Nat
  BY <1>1, <1>2, HwConstants DEF ThreadState
<1>5. r \in ThreadState /\ r.job = "recovery" /\ r.at = "lora" /\ r.tries = th[t].tries + 1
  BY <1>2, <1>3, <1>4 DEF ThreadState
<1>6. Moved(t, "recovery", "lora", th[t].tries + 1)
  BY <1>1, <1>2, <1>5, Replaced
<1>7. TypeOK'
  BY <1>1, <1>2, <1>4, <1>6 DEF TypeOK, Moved, Status
<1>8. Counted(t) => Counted(t)'
  BY <1>1, <1>3, <1>6 DEF Counted, Moved
<1>9. RadiosAt(t) => RadiosAt(t)'
  BY <1>1, <1>6 DEF RadiosAt, Moved, Quiet, LoraUses
<1> QED
  BY <1>1, <1>2, <1>3, <1>6, <1>7, <1>8, <1>9, HandlerKeeps


LEMMA HandlerEnds ==
    ASSUME IInv, NEW t \in Thread, Busy(t), th[t].job # "deinit", th' = Done(t),
           th' \in [Thread -> ThreadState] => TypeOK',
           UNCHANGED <<initialized, running, mutex, probedOver, forced, overlap, crashed>>,
           Orderly /\ ~probedOver /\ Counted(t) /\ RadiosAt(t) => Settled'
    PROVE  IInv'
<1>1. Ended(t) /\ Threads
  BY IsEnded DEF IInv, Threads
<1>2. CASE th[t].job = "boot" /\ Moved(t, "boot", "spawn", th[t].tries)
  <2>1. TypeOK' /\ "spawn" \in PlacesOf("boot")
    BY <1>2, Places DEF Moved
  <2>2. Counted(t)' /\ (Settled' => RadiosAt(t)')
    BY <1>2 DEF Moved, Counted, RadiosAt
  <2> QED
    BY <1>2, <2>1, <2>2, HandlerKeeps
<1>3. ASSUME NEW place \in {"late", "idle"}, place = "late" => t \in Poll /\ ~running,
             Moved(t, "none", place, 0)
      PROVE  IInv'
  <2>1. TypeOK' /\ place \in PlacesOf("none")
    BY <1>3, Places DEF Moved
  <2>2. Counted(t)' /\ RadiosAt(t)'
    BY <1>3 DEF Moved, Counted, RadiosAt
  <2>3. place # "off"
    BY <1>3
  <2> QED
    BY <1>3, <2>1, <2>2, <2>3, HandlerKeeps
<1> QED
  BY <1>1, <1>2, <1>3 DEF Ended

LEMMA RetriesExhaustedStep ==
    ASSUME IInv, NEW t \in Thread, RetriesExhausted(t)
    PROVE  IInv'
<1>1. /\ th[t].at = "retry" /\ th[t].tries = RetryMax /\ th' = Done(t) /\ state' = "error"
      /\ UNCHANGED <<loraStatus, nrfStatus, retry, initialized, running, mutex, inits, probedOver,
                     lora, nrf, connected, plugs, injects, forced, overlap, crashed>>
  BY DEF RetriesExhausted, At, life, starts, world, history
<1>2. TypeOK /\ Threads /\ th[t] \in ThreadState /\ th[t].at \in PlacesOf(th[t].job)
  BY DEF IInv, Threads, TypeOK, JobFits
<1>3. th[t].job = "recovery" /\ Busy(t)
  BY <1>1, <1>2, Places DEF Busy, ThreadState, Job
<1>4. th' \in [Thread -> ThreadState] => TypeOK'
  BY <1>1, <1>2 DEF TypeOK, State
<1>5. RadiosAt(t) => Settled'
  BY <1>1, HwConstants DEF RadiosAt, Settled, Quiet, LoraUses
<1> QED
  BY <1>1, <1>3, <1>4, <1>5, HandlerEnds

LEMMA NrfBeginsStep ==
    ASSUME IInv, NEW t \in Thread, NrfBegins(t)
    PROVE  IInv'
<1>1. /\ th[t].at = "nrf" /\ GoTo(t, "nrfInit") /\ nrfStatus' = "initializing"
      /\ UNCHANGED <<state, loraStatus, retry, initialized, running, mutex, inits, probedOver,
                     lora, nrf, connected, plugs, injects, forced, overlap, crashed>>
  BY DEF NrfBegins, At, life, starts, world, history
<1>2. /\ TypeOK /\ Threads /\ th[t] \in ThreadState /\ th[t].at \in PlacesOf(th[t].job)
      /\ "nrfInit" \in Place
  BY DEF IInv, Threads, TypeOK, JobFits, Place
<1>3. th[t].job \in {"boot", "toNrf", "fromError"} /\ Busy(t) /\ "nrfInit" \in PlacesOf(th[t].job)
  BY <1>1, <1>2, Places DEF Busy, ThreadState, Job
<1>4. Moved(t, th[t].job, "nrfInit", th[t].tries)
  BY <1>1, <1>2, Went
<1>5. TypeOK'
  BY <1>1, <1>2, <1>4 DEF TypeOK, Moved, Status
<1>6. Counted(t) => Counted(t)'
  BY <1>1, <1>3, <1>4 DEF Counted, Moved
<1>7. RadiosAt(t) => RadiosAt(t)'
  BY <1>1, <1>3, <1>4 DEF RadiosAt, Moved, Quiet, LoraUses
<1> QED
  BY <1>1, <1>3, <1>4, <1>5, <1>6, <1>7, HandlerKeeps

LEMMA NrfUpStep ==
    ASSUME IInv, NEW t \in Thread, NrfUp(t)
    PROVE  IInv'
<1>1. /\ th[t].at = "nrfInit" /\ nrf' = [handle |-> TRUE, init |-> TRUE] /\ nrfStatus' = "active"
      /\ \/ th[t].job = "fromError" /\ GoTo(t, "take") /\ state' = state
         \/ th[t].job # "fromError" /\ th' = Done(t) /\ state' = "nrf24Active"
      /\ UNCHANGED <<loraStatus, retry, initialized, running, mutex, inits, probedOver,
                     lora, connected, plugs, injects, forced, overlap, crashed>>
  BY DEF NrfUp, At, life, starts, world, history
<1>2. /\ TypeOK /\ Threads /\ th[t] \in ThreadState /\ th[t].at \in PlacesOf(th[t].job)
      /\ "take" \in Place
  BY DEF IInv, Threads, TypeOK, JobFits, Place
<1>3. th[t].job \in {"boot", "toNrf", "fromError"} /\ Busy(t)
  BY <1>1, <1>2, Places DEF Busy, ThreadState, Job
<1>4. nrf' \in [handle : BOOLEAN, init : BOOLEAN] /\ nrf'.init
  BY <1>1, NrfDriver
<1>5. th' \in [Thread -> ThreadState] => TypeOK'
  BY <1>1, <1>2, <1>4 DEF TypeOK, State, Status
<1>6. RadiosAt(t) => ~LoraUses'
  BY <1>1, <1>3 DEF RadiosAt, Quiet, LoraUses
<1>7. CASE th[t].job = "fromError" /\ GoTo(t, "take") /\ state' = state
  <2>1. Moved(t, "fromError", "take", th[t].tries) /\ "take" \in PlacesOf("fromError")
    BY <1>2, <1>7, Went, Places
  <2>2. Counted(t)' /\ (RadiosAt(t) => RadiosAt(t)')
    BY <1>1, <1>4, <1>6, <2>1 DEF Counted, RadiosAt, Moved
  <2> QED
    BY <1>1, <1>3, <1>5, <1>7, <2>1, <2>2, HandlerKeeps DEF Moved
<1>8. CASE th' = Done(t) /\ state' = "nrf24Active"
  <2>1. RadiosAt(t) => Settled'
    BY <1>1, <1>4, <1>6, <1>8 DEF Settled
  <2> QED
    BY <1>1, <1>3, <1>5, <1>8, <2>1, HandlerEnds
<1> QED
  BY <1>1, <1>7, <1>8

LEMMA NrfDownStep ==
    ASSUME IInv, NEW t \in Thread, NrfDown(t)
    PROVE  IInv'
<1>1. /\ th[t].at = "nrfInit" /\ nrf' \in FailedNrf /\ nrfStatus' = "error"
      /\ th' = CASE th[t].job = "boot"  -> [th EXCEPT ![t].at = "lora"]
                 [] th[t].job = "toNrf" -> [th EXCEPT ![t].at = "start", ![t].job = "recovery"]
                 [] OTHER               -> Done(t)
      /\ UNCHANGED <<state, loraStatus, retry, initialized, running, mutex, inits, probedOver,
                     lora, connected, plugs, injects, forced, overlap, crashed>>
  BY DEF NrfDown, At, life, starts, world, history
<1>2. /\ TypeOK /\ Threads /\ th[t] \in ThreadState /\ th[t].at \in PlacesOf(th[t].job)
      /\ {"lora", "start"} \subseteq Place /\ "recovery" \in Job
  BY DEF IInv, Threads, TypeOK, JobFits, Place, Job
<1>3. th[t].job \in {"boot", "toNrf", "fromError"} /\ Busy(t)
  BY <1>1, <1>2, Places DEF Busy, ThreadState, Job
<1>4. nrf' \in [handle : BOOLEAN, init : BOOLEAN] /\ (~nrf.init => ~nrf'.init)
  <2>1. CASE nrf' = nrf
    BY <1>2, <2>1 DEF TypeOK
  <2>2. CASE nrf' = [handle |-> connected, init |-> FALSE]
    BY <1>2, <2>2, NrfDriver DEF TypeOK
  <2> QED
    BY <1>1, <2>1, <2>2 DEF FailedNrf
<1>5. th' \in [Thread -> ThreadState] => TypeOK'
  BY <1>1, <1>2, <1>4 DEF TypeOK, Status
<1>6. RadiosAt(t) => Quiet'
  BY <1>1, <1>3, <1>4 DEF RadiosAt, Quiet, LoraUses
<1>7. CASE th[t].job = "boot"
  <2>1. GoTo(t, "lora")
    BY <1>1, <1>7 DEF GoTo
  <2>2. Moved(t, "boot", "lora", th[t].tries) /\ "lora" \in PlacesOf("boot")
    BY <1>2, <1>7, <2>1, Went, Places
  <2>3. (Counted(t) => Counted(t)') /\ (RadiosAt(t) => RadiosAt(t)')
    BY <1>1, <1>6, <1>7, <2>2 DEF Counted, RadiosAt, Moved
  <2> QED
    BY <1>1, <1>3, <1>5, <1>7, <2>2, <2>3, HandlerKeeps DEF Moved
<1>8. CASE th[t].job = "toNrf"
  <2> DEFINE r == [th[t] EXCEPT !.at = "start", !.job = "recovery"]
  <2>1. th' = [th EXCEPT ![t] = r]
    BY <1>1, <1>8
  <2>2. r \in ThreadState /\ r.job = "recovery" /\ r.at = "start" /\ r.tries = th[t].tries
    BY <1>2 DEF ThreadState
  <2>3. Moved(t, r.job, r.at, r.tries)
    <3> HIDE DEF r
    <3> QED
      BY <1>2, <2>1, <2>2, Replaced
  <2>3a. Moved(t, "recovery", "start", th[t].tries) /\ "start" \in PlacesOf("recovery")
    BY <2>2, <2>3, Places
  <2>4. Counted(t)' /\ (RadiosAt(t) => RadiosAt(t)')
    BY <1>1, <1>6, <2>3a DEF Counted, RadiosAt, Moved, Quiet
  <2> QED
    BY <1>1, <1>3, <1>5, <1>8, <2>3a, <2>4, HandlerKeeps DEF Moved
<1>9. CASE th[t].job = "fromError"
  <2>1. th' = Done(t)
    BY <1>1, <1>9
  <2>2. RadiosAt(t) => Settled'
    BY <1>1, <1>6, <1>9 DEF RadiosAt, Settled
  <2> QED
    BY <1>1, <1>3, <1>5, <2>1, <2>2, HandlerEnds
<1> QED
  BY <1>3, <1>7, <1>8, <1>9


LEMMA ReviveTransitionStep ==
    ASSUME IInv, NEW t \in Thread, ReviveTransition(t)
    PROVE  IInv'
<1>1. /\ th[t].at = "take" /\ th' = Done(t) /\ state' = "nrf24Active"
      /\ UNCHANGED <<loraStatus, nrfStatus, retry, initialized, running, mutex, inits, probedOver,
                     lora, nrf, connected, plugs, injects, forced, overlap, crashed>>
  BY DEF ReviveTransition, At, life, starts, world, history
<1>2. TypeOK /\ Threads /\ th[t] \in ThreadState /\ th[t].at \in PlacesOf(th[t].job)
  BY DEF IInv, Threads, TypeOK, JobFits
<1>3. th[t].job = "fromError" /\ Busy(t)
  BY <1>1, <1>2, Places DEF Busy, ThreadState, Job
<1>4. th' \in [Thread -> ThreadState] => TypeOK'
  BY <1>1, <1>2 DEF TypeOK, State
<1>5. RadiosAt(t) => Settled'
  BY <1>1 DEF RadiosAt, Settled, LoraUses
<1> QED
  BY <1>1, <1>3, <1>4, <1>5, HandlerEnds

LEMMA LoraBeginsStep ==
    ASSUME IInv, NEW t \in Thread, LoraBegins(t)
    PROVE  IInv'
<1>1. /\ th[t].at = "lora" /\ GoTo(t, "loraInit")
      /\ lora' = "initializing" /\ loraStatus' = "initializing"
      /\ UNCHANGED <<state, nrfStatus, retry, initialized, running, mutex, inits, probedOver,
                     nrf, connected, plugs, injects, forced, overlap, crashed>>
  BY DEF LoraBegins, At, life, starts, world, history
<1>2. /\ TypeOK /\ Threads /\ th[t] \in ThreadState /\ th[t].at \in PlacesOf(th[t].job)
      /\ "loraInit" \in Place
  BY DEF IInv, Threads, TypeOK, JobFits, Place
<1>3. /\ th[t].job \in {"boot", "toLora", "recovery", "rollback"} /\ Busy(t)
      /\ "loraInit" \in PlacesOf(th[t].job)
  BY <1>1, <1>2, Places DEF Busy, ThreadState, Job
<1>4. Moved(t, th[t].job, "loraInit", th[t].tries)
  BY <1>1, <1>2, Went
<1>5. TypeOK'
  BY <1>1, <1>2, <1>4 DEF TypeOK, Moved, Status
<1>6. Counted(t) => Counted(t)'
  BY <1>1, <1>3, <1>4 DEF Counted, Moved
<1>7. RadiosAt(t) => RadiosAt(t)'
  BY <1>1, <1>3, <1>4 DEF RadiosAt, Moved, Quiet, LoraUses
<1> QED
  BY <1>1, <1>3, <1>4, <1>5, <1>6, <1>7, HandlerKeeps

(* A failed hal_lora_init: the next attempt of a recovery, or the end.     *)
LEMMA LoraFailedStep ==
    ASSUME IInv, NEW t \in Thread, th[t].at \in {"lora", "loraInit"}, AfterLoraFailed(t),
           loraStatus' = "error", lora' \in Status,
           UNCHANGED <<nrfStatus, retry, initialized, running, mutex, inits, probedOver,
                       nrf, connected, plugs, injects, forced, overlap, crashed>>,
           RadiosAt(t) => Quiet'
    PROVE  IInv'
<1>1. /\ TypeOK /\ Threads /\ th[t] \in ThreadState /\ th[t].at \in PlacesOf(th[t].job)
      /\ "retry" \in Place
  BY DEF IInv, Threads, TypeOK, JobFits, Place
<1>2. th[t].job \in {"boot", "toLora", "recovery", "rollback"} /\ Busy(t)
  BY <1>1, Places DEF Busy, ThreadState, Job
<1>3. th' \in [Thread -> ThreadState] => TypeOK'
  BY <1>1 DEF TypeOK, State, Status, AfterLoraFailed
<1>4. CASE th[t].job = "recovery"
  <2>1. GoTo(t, "retry") /\ state' = state
    BY <1>4 DEF AfterLoraFailed
  <2>2. Moved(t, "recovery", "retry", th[t].tries) /\ "retry" \in PlacesOf("recovery")
    BY <1>1, <1>4, <2>1, Went, Places
  <2>3. Counted(t) => Counted(t)'
    BY <1>4, <2>1, <2>2 DEF Counted, Moved
  <2>4. RadiosAt(t) => RadiosAt(t)'
    BY <2>2 DEF RadiosAt, Moved, Quiet
  <2> QED
    BY <1>2, <1>3, <1>4, <2>2, <2>3, <2>4, HandlerKeeps DEF Moved
<1>5. CASE th[t].job # "recovery"
  <2>1. th' = Done(t) /\ state' = "error"
    BY <1>5 DEF AfterLoraFailed
  <2>2. RadiosAt(t) => Settled'
    BY <2>1 DEF Settled
  <2> QED
    BY <1>2, <1>3, <2>1, <2>2, HandlerEnds
<1> QED
  BY <1>4, <1>5

LEMMA LoraRefusedStep ==
    ASSUME IInv, NEW t \in Thread, LoraRefused(t)
    PROVE  IInv'
<1>1. /\ th[t].at = "lora" /\ lora = "active" /\ AfterLoraFailed(t) /\ loraStatus' = "error"
      /\ UNCHANGED <<nrfStatus, retry, initialized, running, mutex, inits, probedOver, lora,
                     nrf, connected, plugs, injects, forced, overlap, crashed>>
  BY DEF LoraRefused, At, life, starts, world, history
<1>2. TypeOK /\ Threads /\ th[t] \in ThreadState /\ th[t].at \in PlacesOf(th[t].job)
  BY DEF IInv, Threads, TypeOK, JobFits
<1>3. lora' \in Status /\ th[t].job # "none"
  BY <1>1, <1>2, Places DEF TypeOK
<1>4. ~RadiosAt(t)
  BY <1>1, <1>3 DEF RadiosAt, Quiet, LoraUses
<1> QED
  BY <1>1, <1>3, <1>4, LoraFailedStep

LEMMA LoraDownStep ==
    ASSUME IInv, NEW t \in Thread, LoraDown(t)
    PROVE  IInv'
<1>1. /\ th[t].at = "loraInit" /\ lora' = "error" /\ AfterLoraFailed(t) /\ loraStatus' = "error"
      /\ UNCHANGED <<nrfStatus, retry, initialized, running, mutex, inits, probedOver,
                     nrf, connected, plugs, injects, forced, overlap, crashed>>
  BY DEF LoraDown, At, life, starts, world, history
<1>2. Threads /\ th[t].at \in PlacesOf(th[t].job)
  BY DEF IInv, Threads, JobFits
<1>3. lora' \in Status /\ th[t].job # "none"
  BY <1>1, <1>2, Places DEF Status
<1>4. RadiosAt(t) => Quiet'
  BY <1>1, <1>3 DEF RadiosAt, Quiet, LoraUses
<1> QED
  BY <1>1, <1>3, <1>4, LoraFailedStep

LEMMA LoraUpStep ==
    ASSUME IInv, NEW t \in Thread, LoraUp(t)
    PROVE  IInv'
<1>1. /\ th[t].at = "loraInit" /\ lora' = "active" /\ loraStatus' = "active"
      /\ retry' \in {0, retry} /\ state' = "loraActive" /\ th' = Done(t)
      /\ UNCHANGED <<nrfStatus, initialized, running, mutex, inits, probedOver,
                     nrf, connected, plugs, injects, forced, overlap, crashed>>
  BY DEF LoraUp, At, life, starts, world, history
<1>2. TypeOK /\ Threads /\ th[t] \in ThreadState /\ th[t].at \in PlacesOf(th[t].job)
  BY DEF IInv, Threads, TypeOK, JobFits
<1>3. th[t].job \in {"boot", "toLora", "recovery", "rollback"} /\ Busy(t)
  BY <1>1, <1>2, Places DEF Busy, ThreadState, Job
<1>4. th' \in [Thread -> ThreadState] => TypeOK'
  BY <1>1, <1>2 DEF TypeOK, State, Status
<1>5. RadiosAt(t) => Settled'
  BY <1>1, <1>3 DEF RadiosAt, Settled
<1> QED
  BY <1>1, <1>3, <1>4, <1>5, HandlerEnds


LEMMA HandlerStepKeeps ==
    ASSUME IInv, NEW t \in Thread, HandlerStep(t)
    PROVE  IInv'
BY SwitchToNrfStep, SwitchToLoraStep, RecoveryBeginsStep, RetryLoraStep, RetriesExhaustedStep,
   NrfBeginsStep, NrfUpStep, NrfDownStep, ReviveTransitionStep, LoraBeginsStep, LoraRefusedStep,
   LoraUpStep, LoraDownStep DEF HandlerStep

-----------------------------------------------------------------------------
(* Jobs begin. *)

(* What the step that gives an idle thread a job has to show.              *)
LEMMA BeginKeeps ==
    ASSUME IInv, NEW t \in Thread, ~Busy(t), NEW job \in Job \ {"none"}, NEW place \in Place,
           Begin(t, job, place), place \in PlacesOf(job), Moved(t, job, place, 0) => TypeOK',
           job = "rollback" => forced', t # Api => job \notin {"boot", "rollback", "deinit"},
           crashed' = crashed, forced => forced',
           Moved(t, job, place, 0) /\ Life /\ (\A u \in Thread : ~Busy(u)) => Life',
           Moved(t, job, place, 0) => Counted(t)',
           Moved(t, job, place, 0) /\ (Orderly /\ ~probedOver)' /\ (\A u \in Thread : ~Busy(u))
              => RadiosAt(t)'
    PROVE  IInv'
<1>1. Threads /\ Handlers /\ MutexOutlivesUsers /\ TypeOK
  BY DEF IInv, Threads
<1>2. Moved(t, job, place, 0) /\ overlap' = (overlap \/ \E u \in Thread \ {t} : Busy(u))
  BY <1>1, Begun
<1>3. JobFits'
  BY <1>1, <1>2 DEF Threads, JobFits, Moved
<1>4. MutexOutlivesUsers'
  BY <1>1, <1>2 DEF MutexOutlivesUsers
<1>5. CASE overlap'
  BY <1>2, <1>3, <1>4, <1>5 DEF IInv, Threads, Handlers, Orderly
<1>6. CASE ~overlap'
  <2>1. ~overlap /\ \A u \in Thread : ~Busy(u)
    BY <1>2, <1>6
  <2>2. OneJob'
    BY <1>2, <2>1 DEF OneJob, Busy, Moved
  <2>3. Life'
    BY <1>1, <1>2, <2>1 DEF Threads
  <2>4. \A u \in Thread \ {t} : th'[u] = th[u] /\ th[u].at \in {"off", "idle", "late", "probed"}
                                /\ th[u].job = "none"
    BY <1>1, <1>2, <2>1, AtWork DEF Moved, Busy
  <2>5. \A u \in Thread : Counted(u)'
    BY <1>2, <2>4 DEF Counted
  <2>6. (Orderly /\ ~probedOver)' => \A u \in Thread : RadiosAt(u)'
    BY <1>2, <2>1, <2>4 DEF RadiosAt
  <2>7. RadiosAtRest'
    BY <1>2 DEF RadiosAtRest, Moved, Busy
  <2> QED
    BY <1>2, <1>3, <1>4, <2>2, <2>3, <2>5, <2>6, <2>7 DEF IInv, Threads, Handlers
<1> QED
  BY <1>5, <1>6

LEMMA ApiIsThread == Api \in Thread /\ Poll = Thread \ {Api}
BY HwConstants DEF Api, Thread, Poll

LEMMA HwInitStep ==
    ASSUME IInv, HwInit
    PROVE  IInv'
<1> DEFINE place == IF Present THEN "nrf" ELSE "lora"
<1>1. /\ At(Api, "idle") /\ ~initialized /\ inits < MaxInits /\ inits' = inits + 1
      /\ probedOver' = (probedOver \/ RadioUp) /\ mutex' /\ mutex' \in BOOLEAN
      /\ state' = "initializing" /\ loraStatus' = "inactive" /\ nrfStatus' = "inactive"
      /\ retry' = 0 /\ Begin(Api, "boot", place)
      /\ UNCHANGED <<initialized, running, lora, nrf, connected, plugs, injects, forced, crashed>>
  BY DEF HwInit, world, history
<1>2. place \in {"nrf", "lora"}
  OBVIOUS
<1> HIDE DEF place
<1>3. TypeOK /\ Threads /\ Api \in Thread /\ ~Busy(Api)
  BY <1>1, ApiIsThread, AtWork DEF IInv, Threads, At
<1>4. "boot" \in Job \ {"none"} /\ place \in Place /\ place \in PlacesOf("boot")
  BY <1>2, Places DEF Job, Place
<1>5. overlap' \in BOOLEAN
  BY <1>1 DEF Begin
<1>6. inits' \in 0..MaxInits /\ probedOver' \in BOOLEAN /\ retry' \in Nat
  <2>1. inits' \in 0..MaxInits /\ retry' \in Nat
    BY <1>1, <1>3, HwConstants DEF TypeOK
  <2>2. probedOver' \in BOOLEAN
    BY <1>1
  <2> QED
    BY <2>1, <2>2
<1>7. Moved(Api, "boot", place, 0) => TypeOK'
  BY <1>1, <1>3, <1>5, <1>6 DEF TypeOK, Moved, State, Status
<1>8. Moved(Api, "boot", place, 0) /\ Life => Life'
  BY <1>1, ApiIsThread DEF Moved, Life, At
<1>9. Moved(Api, "boot", place, 0) => Counted(Api)'
  BY <1>1, <1>2 DEF Moved, Counted
<1>10. Moved(Api, "boot", place, 0) /\ ~probedOver' => RadiosAt(Api)'
  BY <1>1, <1>2 DEF Moved, RadiosAt, Quiet, RadioUp, LoraUses
<1> QED
  BY <1>1, <1>3, <1>4, <1>7, <1>8, <1>9, <1>10, BeginKeeps

LEMMA DeinitStopStep ==
    ASSUME IInv, DeinitStop
    PROVE  IInv'
<1>1. /\ At(Api, "idle") /\ initialized /\ ~running' /\ running' \in BOOLEAN
      /\ Begin(Api, "deinit", "cleanup")
      /\ UNCHANGED <<state, loraStatus, nrfStatus, retry, initialized, mutex, inits, probedOver,
                     lora, nrf, connected, plugs, injects, forced, crashed>>
  BY DEF DeinitStop, ctx, starts, world, history
<1>2. TypeOK /\ Threads /\ Api \in Thread /\ ~Busy(Api)
  BY <1>1, ApiIsThread, AtWork DEF IInv, Threads, At
<1>3. "deinit" \in Job \ {"none"} /\ "cleanup" \in Place /\ "cleanup" \in PlacesOf("deinit")
  BY Places DEF Job, Place
<1>4. overlap' \in BOOLEAN
  BY <1>1 DEF Begin
<1>5. Moved(Api, "deinit", "cleanup", 0) => TypeOK'
  BY <1>1, <1>2, <1>4 DEF TypeOK, Moved
<1>6. Moved(Api, "deinit", "cleanup", 0) /\ Life => Life'
  BY <1>1, ApiIsThread DEF Moved, Life, At
<1>7. Moved(Api, "deinit", "cleanup", 0) => Counted(Api)'
  BY DEF Moved, Counted
<1>8. (Orderly /\ ~probedOver)' => Orderly /\ ~probedOver
  BY <1>1 DEF Orderly, Begin
<1>9. ASSUME Moved(Api, "deinit", "cleanup", 0), (Orderly /\ ~probedOver)',
             \A u \in Thread : ~Busy(u)
      PROVE  RadiosAt(Api)'
  <2>1. Settled
    BY <1>1, <1>8, <1>9 DEF IInv, Handlers, RadiosAtRest
  <2> QED
    BY <1>1, <1>9, <2>1 DEF Moved, RadiosAt, Settled, Quiet, LoraUses
<1> QED
  BY <1>1, <1>2, <1>3, <1>5, <1>6, <1>7, <1>9, BeginKeeps


-----------------------------------------------------------------------------
(* The steps between jobs. *)

(* When the API's thread is at work alone, the poll tasks are not.         *)
LEMMA ApiAlone ==
    ASSUME Threads, ~overlap, Busy(Api)
    PROVE  \A p \in Poll : th[p].job = "none" /\ th[p].at \in {"off", "idle", "probed"}
<1> SUFFICES ASSUME NEW p \in Poll
             PROVE  th[p].job = "none" /\ th[p].at \in {"off", "idle", "probed"}
  OBVIOUS
<1>1. p \in Thread /\ p # Api /\ Api \in Thread
  BY ApiIsThread
<1>2. ~Busy(p)
  BY <1>1 DEF Threads, OneJob
<1>3. ~At(p, "late")
  BY DEF Threads, Life
<1> QED
  BY <1>1, <1>2, <1>3, AtWork DEF Busy, At

LEMMA SpawnPollStep ==
    ASSUME IInv, SpawnPoll
    PROVE  IInv'
<1>1. /\ th[Api].at = "spawn" /\ running' /\ running' \in BOOLEAN
      /\ initialized' /\ initialized' \in BOOLEAN
      /\ th' = [th EXCEPT ![Api] = Rest, ![inits] = Rest]
      /\ UNCHANGED <<state, loraStatus, nrfStatus, retry, mutex, inits, probedOver,
                     lora, nrf, connected, plugs, injects, forced, overlap, crashed>>
  BY DEF SpawnPoll, At, ctx, starts, world, history
<1>2. Threads /\ Handlers /\ MutexOutlivesUsers /\ TypeOK /\ Api \in Thread /\ Api \notin Poll
  BY ApiIsThread DEF IInv, Threads
<1>3. th[Api].job = "boot"
  <2>1. th[Api].job \in Job /\ th[Api].at \in PlacesOf(th[Api].job)
    BY <1>2 DEF Threads, TypeOK, JobFits, ThreadState
  <2> QED
    BY <1>1, <2>1, Places DEF Job
<1>4. /\ th' \in [Thread -> ThreadState]
      /\ \A u \in Thread : th'[u] = IF u = Api \/ u = inits THEN Rest ELSE th[u]
  <2>1. th \in [Thread -> ThreadState] /\ Rest \in ThreadState
    BY <1>2, RestFits DEF TypeOK
  <2> HIDE DEF Rest
  <2> QED
    BY <1>1, <2>1
<1>5. Rest.at = "idle" /\ Rest.job = "none" /\ Rest.tries = 0
  BY DEF Rest
<1>6. TypeOK'
  BY <1>1, <1>2, <1>4 DEF TypeOK
<1>7. JobFits'
  BY <1>1, <1>2, <1>4, <1>5, Places DEF Threads, JobFits
<1>8. MutexOutlivesUsers'
  BY <1>1, <1>2 DEF MutexOutlivesUsers
<1>9. CASE overlap
  BY <1>1, <1>2, <1>6, <1>7, <1>8, <1>9 DEF IInv, Threads, Handlers, Orderly
<1>10. CASE ~overlap
  <2>1. \A u \in Thread : th'[u].job = "none" /\ th'[u].at \in {"off", "idle", "probed"}
    BY <1>2, <1>3, <1>4, <1>5, <1>10, ApiAlone, ApiIsThread DEF Busy
  <2>2. OneJob' /\ (\A u \in Thread : Counted(u)' /\ RadiosAt(u)')
    BY <2>1 DEF OneJob, Busy, Counted, RadiosAt
  <2>3. mutex /\ Life'
    BY <1>1, <1>2, <1>3, <1>10, <2>1, ApiIsThread DEF Threads, Life, At
  <2>4. (Orderly /\ ~probedOver)' => Settled
    BY <1>1, <1>2 DEF Handlers, RadiosAt, Orderly
  <2>5. (Orderly /\ ~probedOver)' => RadiosAtRest'
    BY <1>1, <2>4 DEF RadiosAtRest, Settled, Quiet, LoraUses
  <2> QED
    BY <1>6, <1>7, <1>8, <2>2, <2>3, <2>5 DEF IInv, Threads, Handlers
<1> QED
  BY <1>9, <1>10

LEMMA SpawnFailsStep ==
    ASSUME IInv, SpawnFails
    PROVE  IInv'
<1>1. /\ th[Api].at = "spawn" /\ running' /\ running' \in BOOLEAN
      /\ ~mutex' /\ mutex' \in BOOLEAN
      /\ th' = [th EXCEPT ![Api] = Rest]
      /\ UNCHANGED <<state, loraStatus, nrfStatus, retry, initialized, inits, probedOver,
                     lora, nrf, connected, plugs, injects, forced, overlap, crashed>>
  BY DEF SpawnFails, At, ctx, starts, world, history
<1>2. Threads /\ Handlers /\ MutexOutlivesUsers /\ TypeOK /\ Api \in Thread /\ Api \notin Poll
  BY ApiIsThread DEF IInv, Threads
<1>3. th[Api].job = "boot"
  <2>1. th[Api].job \in Job /\ th[Api].at \in PlacesOf(th[Api].job)
    BY <1>2 DEF Threads, TypeOK, JobFits, ThreadState
  <2> QED
    BY <1>1, <2>1, Places DEF Job
<1>4. Moved(Api, "none", "idle", 0)
  <2>1. Rest.at = "idle" /\ Rest.job = "none" /\ Rest.tries = 0
    BY DEF Rest
  <2> QED
    BY <1>1, <1>2, <2>1, RestFits, Replaced
<1>5. TypeOK'
  BY <1>1, <1>2, <1>4 DEF TypeOK, Moved
<1>6. JobFits'
  BY <1>1, <1>2, <1>4, Places DEF Threads, JobFits, Moved
<1>7. MutexOutlivesUsers'
  BY <1>1, <1>2 DEF MutexOutlivesUsers
<1>8. CASE overlap
  BY <1>1, <1>2, <1>5, <1>6, <1>7, <1>8 DEF IInv, Threads, Handlers, Orderly
<1>9. CASE ~overlap
  <2>1. \A u \in Thread : th'[u].job = "none" /\ th'[u].at \in {"off", "idle", "probed"}
    BY <1>2, <1>3, <1>4, <1>9, ApiAlone, ApiIsThread DEF Busy, Moved
  <2>2. OneJob' /\ (\A u \in Thread : Counted(u)' /\ RadiosAt(u)')
    BY <2>1 DEF OneJob, Busy, Counted, RadiosAt
  <2>3. ~initialized /\ \A p \in Poll : At(p, "off")
    BY <1>2, <1>3, <1>9 DEF Threads, Life
  <2>4. Life'
    BY <1>1, <1>4, <2>1, <2>3, ApiIsThread DEF Life, At, Moved
  <2>5. (Orderly /\ ~probedOver)' => Settled
    BY <1>1, <1>2 DEF Handlers, RadiosAt, Orderly
  <2>6. (Orderly /\ ~probedOver)' => RadiosAtRest'
    BY <1>1, <2>3, <2>5 DEF RadiosAtRest, Settled, Quiet, LoraUses
  <2> QED
    BY <1>5, <1>6, <1>7, <2>2, <2>4, <2>6 DEF IInv, Threads, Handlers
<1> QED
  BY <1>8, <1>9

LEMMA DeinitCleanupStep ==
    ASSUME IInv, DeinitCleanup
    PROVE  IInv'
<1>1. /\ th[Api].at = "cleanup" /\ DelayElapsed /\ state' = "initializing"
      /\ ~mutex' /\ mutex' \in BOOLEAN /\ ~initialized' /\ initialized' \in BOOLEAN
      /\ lora' \in {"inactive", lora} /\ loraStatus' \in {"inactive", loraStatus}
      /\ nrfStatus' \in {"inactive", nrfStatus}
      /\ nrf' = nrf \/ nrf' = [handle |-> FALSE, init |-> FALSE]
      /\ loraStatus = "active" => lora' = "inactive"
      /\ nrfStatus = "active" => ~nrf.init \/ nrf' = [handle |-> FALSE, init |-> FALSE]
      /\ th' = [th EXCEPT ![Api] = Rest]
      /\ UNCHANGED <<retry, running, inits, probedOver,
                     connected, plugs, injects, forced, overlap, crashed>>
  BY DEF DeinitCleanup, At, starts, world, history
<1>2. Threads /\ Handlers /\ MutexOutlivesUsers /\ TypeOK /\ Api \in Thread /\ Api \notin Poll
  BY ApiIsThread DEF IInv, Threads
<1>3. th[Api].job = "deinit"
  <2>1. th[Api].job \in Job /\ th[Api].at \in PlacesOf(th[Api].job)
    BY <1>2 DEF Threads, TypeOK, JobFits, ThreadState
  <2> QED
    BY <1>1, <2>1, Places DEF Job
<1>4. Moved(Api, "none", "idle", 0)
  <2>1. Rest.at = "idle" /\ Rest.job = "none" /\ Rest.tries = 0
    BY DEF Rest
  <2> QED
    BY <1>1, <1>2, <2>1, RestFits, Replaced
<1>5. /\ nrf' \in [handle : BOOLEAN, init : BOOLEAN]
      /\ nrf'.init => nrf.init
      /\ nrfStatus = "active" => ~nrf'.init
  <2>1. CASE nrf' = nrf
    BY <1>1, <1>2, <2>1, NrfDriver DEF TypeOK
  <2>2. CASE nrf' = [handle |-> FALSE, init |-> FALSE]
    <3>1. nrf' \in [handle : BOOLEAN, init : BOOLEAN] /\ ~nrf'.init
      BY <2>2, NrfDriver
    <3> QED
      BY <3>1
  <2> QED
    BY <1>1, <2>1, <2>2
<1>6. TypeOK'
  BY <1>1, <1>2, <1>4, <1>5 DEF TypeOK, Moved, State, Status
<1>7. JobFits'
  BY <1>1, <1>2, <1>4, Places DEF Threads, JobFits, Moved
<1>8. MutexOutlivesUsers'
  BY <1>1, <1>2 DEF MutexOutlivesUsers
<1>9. CASE overlap
  BY <1>1, <1>2, <1>6, <1>7, <1>8, <1>9 DEF IInv, Threads, Handlers, Orderly
<1>10. CASE ~overlap
  <2>1. \A u \in Thread : th'[u].job = "none" /\ th'[u].at \in {"off", "idle"}
    BY <1>1, <1>2, <1>3, <1>4, <1>10, ApiAlone, ApiIsThread DEF Busy, Moved, DelayElapsed, At
  <2>2. OneJob' /\ (\A u \in Thread : Counted(u)' /\ RadiosAt(u)')
    BY <2>1 DEF OneJob, Busy, Counted, RadiosAt
  <2>3. \A p \in Poll : th'[p].at = "off"
    BY <1>1, <1>2, <1>3, <1>4, <1>10, ApiAlone, ApiIsThread DEF Busy, Moved, DelayElapsed, At
  <2>4. Life'
    BY <1>1, <1>4, <2>3, ApiIsThread DEF Life, At, Moved
  <2>5. (Orderly /\ ~probedOver)' => Settled
    BY <1>1, <1>2 DEF Handlers, RadiosAt, Orderly
  <2>6. (Orderly /\ ~probedOver)' => RadiosAtRest'
    BY <1>1, <1>5, <2>5 DEF RadiosAtRest, Settled, Quiet, LoraUses
  <2> QED
    BY <1>6, <1>7, <1>8, <2>2, <2>4, <2>6 DEF IInv, Threads, Handlers
<1> QED
  BY <1>9, <1>10


-----------------------------------------------------------------------------
(* The poll task between jobs. *)

LEMMA PollIsIdle ==
    ASSUME Threads, NEW t \in Poll, th[t].at \in {"idle", "late", "probed"}
    PROVE  /\ t \in Thread /\ t # Api /\ ~Busy(t) /\ th[t].job = "none"
           /\ ~overlap => initialized
<1>1. t \in Thread /\ t # Api
  BY ApiIsThread
<1>2. ~Busy(t) /\ th[t].job = "none"
  BY <1>1, AtWork DEF Busy
<1>3. ~overlap => initialized
  BY DEF Threads, Life, At
<1> QED
  BY <1>1, <1>2, <1>3

(* A poll task that takes no job goes on.                                  *)
LEMMA PollKeeps ==
    ASSUME IInv, NEW t \in Poll, th[t].at \in {"idle", "late", "probed"},
           NEW place \in {"off", "idle", "probed"}, Moved(t, "none", place, 0),
           UNCHANGED <<state, loraStatus, nrfStatus, retry, initialized, running, mutex, inits,
                       probedOver, lora, nrf, connected, plugs, injects, forced, overlap, crashed>>
    PROVE  IInv'
<1>1. /\ Threads /\ Handlers /\ MutexOutlivesUsers /\ TypeOK
      /\ t \in Thread /\ t # Api /\ th[t].job = "none" /\ (~overlap => initialized)
      /\ Api \in Thread /\ Api \notin Poll
  BY PollIsIdle, ApiIsThread DEF IInv, Threads
<1>2. \A u \in Thread \ {t} : th'[u] = th[u]
  BY DEF Moved
<1>3. th'[t].job = "none" /\ th'[t].at = place
  BY DEF Moved
<1>4. TypeOK'
  BY <1>1 DEF TypeOK, Moved
<1>5. JobFits'
  BY <1>1, <1>2, <1>3, Places DEF Threads, JobFits
<1>6. ~overlap' => OneJob'
  BY <1>1, <1>2, <1>3 DEF Threads, OneJob, Busy
<1>7. ASSUME ~overlap' PROVE Life'
  <2>1. Life /\ initialized /\ th'[Api] = th[Api]
    BY <1>1, <1>2, <1>7 DEF Threads
  <2>2. \A p \in Poll : (~At(p, "late"))' /\ ((~At(p, "off"))' => initialized')
    BY <1>1, <1>2, <1>3, <2>1, ApiIsThread DEF Life, At
  <2> QED
    BY <2>1, <2>2 DEF Life
<1>8. MutexOutlivesUsers'
  BY <1>1 DEF MutexOutlivesUsers
<1>9. \A u \in Thread : (Counted(u) => Counted(u)') /\ (RadiosAt(u) => RadiosAt(u)')
  BY <1>1, <1>2, <1>3 DEF Counted, RadiosAt, Quiet, Settled, LoraUses
<1>10. RadiosAtRest => RadiosAtRest'
  BY <1>1, <1>2, <1>3 DEF RadiosAtRest, Busy, Quiet, Settled, LoraUses
<1>11. Handlers'
  BY <1>1, <1>9, <1>10 DEF Handlers, Orderly
<1> QED
  BY <1>4, <1>5, <1>6, <1>7, <1>8, <1>11 DEF IInv, Threads

LEMMA PollProbeStep ==
    ASSUME IInv, NEW t \in Poll, PollProbe(t)
    PROVE  IInv'
<1> DEFINE r == [Rest EXCEPT !.at = "probed", !.saw = Present]
<1>1. th[t].at \in {"idle", "late"} /\ th' = [th EXCEPT ![t] = r]
  BY DEF PollProbe
<1>2. UNCHANGED <<state, loraStatus, nrfStatus, retry, initialized, running, mutex, inits,
                  probedOver, lora, nrf, connected, plugs, injects, forced, overlap, crashed>>
  BY DEF PollProbe, ctx, life, starts, world, history
<1>3. TypeOK /\ t \in Thread
  BY ApiIsThread DEF IInv, Threads
<1>4. Present \in BOOLEAN
  BY <1>3 DEF Present, TypeOK
<1>5. r \in ThreadState /\ r.at = "probed" /\ r.job = "none" /\ r.tries = 0
  BY <1>4, RestFits DEF Rest, ThreadState, Place
<1>6. Moved(t, "none", "probed", 0)
  <2> HIDE DEF r
  <2>1. Moved(t, r.job, r.at, r.tries)
    BY <1>1, <1>3, <1>5, Replaced
  <2> QED
    BY <1>5, <2>1
<1> QED
  BY <1>1, <1>2, <1>6, PollKeeps

LEMMA PollExitStep ==
    ASSUME IInv, NEW t \in Poll, PollExit(t)
    PROVE  IInv'
<1>1. th[t].at \in {"idle", "late"} /\ th' = [th EXCEPT ![t] = Gone]
  BY DEF PollExit
<1>2. UNCHANGED <<state, loraStatus, nrfStatus, retry, initialized, running, mutex, inits,
                  probedOver, lora, nrf, connected, plugs, injects, forced, overlap, crashed>>
  BY DEF PollExit, ctx, life, starts, world, history
<1>3. TypeOK /\ t \in Thread
  BY ApiIsThread DEF IInv, Threads
<1>4. Moved(t, "none", "off", 0)
  <2>1. Moved(t, Gone.job, Gone.at, Gone.tries)
    BY <1>1, <1>3, RestFits, Replaced
  <2> QED
    BY <2>1, RestFits
<1> QED
  BY <1>1, <1>2, <1>4, PollKeeps

LEMMA PollBeginsJob ==
    ASSUME IInv, NEW t \in Poll, th[t].at = "probed", NEW job, NEW place,
           \/ job = "toNrf" /\ place = "start" /\ state = "loraActive"
           \/ job = "recovery" /\ place = "start" /\ state = "loraActive"
           \/ job = "toLora" /\ place = "start" /\ state = "nrf24Active"
           \/ job = "fromError" /\ place = "nrf" /\ state = "error",
           Begin(t, job, place),
           UNCHANGED <<state, loraStatus, nrfStatus, retry, initialized, running, mutex, inits,
                       probedOver, lora, nrf, connected, plugs, injects, forced, crashed>>
    PROVE  IInv'
<1>1. Threads /\ TypeOK /\ t \in Thread /\ t # Api /\ ~Busy(t) /\ (~overlap => initialized)
  BY PollIsIdle DEF IInv, Threads
<1>2. job \in Job \ {"none"} /\ place \in Place /\ place \in PlacesOf(job)
      /\ job \notin {"boot", "rollback", "deinit"}
  BY Places DEF Job, Place
<1>3. overlap' \in BOOLEAN /\ (overlap => overlap')
  BY DEF Begin
<1>4. Moved(t, job, place, 0) => TypeOK'
  BY <1>1, <1>3 DEF TypeOK, Moved
<1>5. Moved(t, job, place, 0) => Counted(t)'
  BY <1>2 DEF Moved, Counted
<1>6. ASSUME Moved(t, job, place, 0), Life PROVE Life'
  <2>1. ~At(t, "off") /\ initialized
    BY <1>6 DEF At, Life
  <2> QED
    BY <1>1, <1>2, <1>6, <2>1, ApiIsThread DEF Moved, Life, At
<1>7. ASSUME Moved(t, job, place, 0), (Orderly /\ ~probedOver)', \A u \in Thread : ~Busy(u)
      PROVE  RadiosAt(t)'
  <2>1. Orderly /\ ~probedOver
    BY <1>3, <1>7 DEF Orderly
  <2>2. Settled
    BY <1>1, <1>7, <2>1 DEF IInv, Handlers, RadiosAtRest, Orderly
  <2> QED
    BY <1>7, <2>2 DEF Moved, RadiosAt, Settled, Quiet, LoraUses
<1> QED
  BY <1>1, <1>2, <1>4, <1>5, <1>6, <1>7, BeginKeeps

LEMMA PollDecideStep ==
    ASSUME IInv, NEW t \in Poll, PollDecide(t)
    PROVE  IInv'
<1> DEFINE job == PollJob(th[t].saw)
<1>1. /\ th[t].at = "probed"
      /\ UNCHANGED <<state, loraStatus, nrfStatus, retry, initialized, running, mutex, inits,
                     probedOver, lora, nrf, connected, plugs, injects, forced, crashed>>
  BY DEF PollDecide, At, ctx, life, starts, world, history
<1>2. \/ job = "none" /\ th' = [th EXCEPT ![t] = Rest] /\ overlap' = overlap
      \/ job = "fromError" /\ Begin(t, job, "nrf")
      \/ job \notin {"none", "fromError"} /\ Begin(t, job, "start")
  BY DEF PollDecide
<1>3. \/ job = "none"
      \/ job \in {"toNrf", "recovery"} /\ state = "loraActive"
      \/ job = "toLora" /\ state = "nrf24Active"
      \/ job = "fromError" /\ state = "error"
  BY DEF PollJob
<1> HIDE DEF job
<1>4. CASE job = "none"
  <2>1. th' = [th EXCEPT ![t] = Rest] /\ overlap' = overlap
    BY <1>2, <1>4
  <2>2. TypeOK /\ t \in Thread
    BY ApiIsThread DEF IInv, Threads
  <2>3. Moved(t, "none", "idle", 0)
    <3>1. Rest.at = "idle" /\ Rest.job = "none" /\ Rest.tries = 0
      BY DEF Rest
    <3> QED
      BY <2>1, <2>2, <3>1, RestFits, Replaced
  <2> QED
    BY <1>1, <2>1, <2>3, PollKeeps
<1>5. CASE job = "fromError"
  BY <1>1, <1>2, <1>3, <1>5, PollBeginsJob
<1>6. CASE job \notin {"none", "fromError"}
  BY <1>1, <1>2, <1>3, <1>6, PollBeginsJob
<1> QED
  BY <1>4, <1>5, <1>6

(* The mutex a poll task waits for is gone only if handlers overlapped.    *)
LEMMA TakesDeletedMutexStep ==
    ASSUME IInv, NEW t \in Poll, TakesDeletedMutex(t)
    PROVE  IInv'
<1>1. /\ th[t].at \in {"probed", "take"} /\ ~mutex /\ crashed' /\ crashed' \in BOOLEAN
      /\ UNCHANGED <<state, loraStatus, nrfStatus, retry, initialized, running, mutex, inits, th,
                     probedOver, lora, nrf, connected, plugs, injects, forced, overlap>>
  BY DEF TakesDeletedMutex, ctx, life, starts, world, history
<1>2. overlap
  BY <1>1 DEF IInv, Threads, Life, At
<1>3. TypeOK' /\ JobFits'
  BY <1>1 DEF IInv, Threads, TypeOK, JobFits
<1> QED
  BY <1>1, <1>2, <1>3 DEF IInv, Threads, Handlers, MutexOutlivesUsers, Orderly


-----------------------------------------------------------------------------
(* Injected events, the world, and nothing at all. *)

LEMMA InjectHandlerStep ==
    ASSUME IInv, InjectHandler
    PROVE  IInv'
<1>1. /\ th[Api].at = "idle" /\ initialized /\ injects < MaxInjects /\ injects' = injects + 1
      /\ UNCHANGED <<state, loraStatus, nrfStatus, retry, initialized, running, mutex, inits,
                     probedOver, lora, nrf, connected, plugs, forced, crashed>>
  BY DEF InjectHandler, MayInject, At, ctx, life, starts, world
<1>2. PICK job \in {"toNrf", "recovery", "toLora"} :
         /\ Begin(Api, job, "start")
         /\ job \in {"toNrf", "recovery"} => state = "loraActive"
         /\ job = "toLora" => state = "nrf24Active"
  BY DEF InjectHandler
<1>3. Threads /\ TypeOK /\ Api \in Thread /\ ~Busy(Api)
  BY <1>1, ApiIsThread, AtWork DEF IInv, Threads
<1>4. job \in Job \ {"none"} /\ "start" \in Place /\ "start" \in PlacesOf(job)
  BY Places DEF Job, Place
<1>5. overlap' \in BOOLEAN /\ (overlap => overlap') /\ injects' \in 0..MaxInjects
  BY <1>1, <1>2, <1>3, HwConstants DEF Begin, TypeOK
<1>6. Moved(Api, job, "start", 0) => TypeOK'
  BY <1>1, <1>3, <1>5 DEF TypeOK, Moved
<1>7. Moved(Api, job, "start", 0) => Counted(Api)'
  BY DEF Moved, Counted
<1>8. ASSUME Moved(Api, job, "start", 0), Life PROVE Life'
  <2>1. running
    BY <1>1, <1>3, <1>8 DEF Life, Busy
  <2> QED
    BY <1>1, <1>8, <2>1, ApiIsThread DEF Moved, Life, At
<1>9. ASSUME Moved(Api, job, "start", 0), (Orderly /\ ~probedOver)', \A u \in Thread : ~Busy(u)
      PROVE  RadiosAt(Api)'
  <2>1. Settled
    BY <1>1, <1>5, <1>9 DEF IInv, Handlers, RadiosAtRest, Orderly
  <2> QED
    BY <1>1, <1>2, <1>9, <2>1 DEF Moved, RadiosAt, Settled, Quiet, LoraUses
<1> QED
  BY <1>1, <1>2, <1>3, <1>4, <1>6, <1>7, <1>8, <1>9, BeginKeeps

(* An event that overrides the state leaves the threads where they are.    *)
LEMMA OverrideKeeps ==
    ASSUME IInv, Override, state' \in State, loraStatus' \in Status, nrfStatus' \in Status,
           retry' \in Nat,
           UNCHANGED <<initialized, running, mutex, inits, probedOver, th, lora, nrf, connected,
                       plugs, overlap, crashed>>
    PROVE  IInv'
<1>1. forced' /\ forced' \in BOOLEAN /\ injects' \in 0..MaxInjects
  BY HwConstants DEF Override, MayInject, IInv, Threads, TypeOK
<1>2. TypeOK'
  BY <1>1 DEF IInv, Threads, TypeOK
<1>3. JobFits' /\ (~overlap' => OneJob' /\ Life')
  BY <1>1 DEF IInv, Threads, JobFits, OneJob, Life, Busy, At
<1> QED
  BY <1>1, <1>2, <1>3 DEF IInv, Threads, Handlers, Orderly, MutexOutlivesUsers

LEMMA InjectNrfInitFailStep ==
    ASSUME IInv, InjectNrfInitFail
    PROVE  IInv'
<1>1. /\ th[Api].at = "idle" /\ initialized /\ injects < MaxInjects /\ injects' = injects + 1
      /\ forced' /\ forced' \in BOOLEAN /\ nrfStatus' = "error" /\ Begin(Api, "rollback", "lora")
      /\ UNCHANGED <<state, loraStatus, retry, initialized, running, mutex, inits,
                     probedOver, lora, nrf, connected, plugs, crashed>>
  BY DEF InjectNrfInitFail, Override, MayInject, At, life, starts, world
<1>2. Threads /\ TypeOK /\ Api \in Thread /\ ~Busy(Api)
  BY <1>1, ApiIsThread, AtWork DEF IInv, Threads
<1>3. "rollback" \in Job \ {"none"} /\ "lora" \in Place /\ "lora" \in PlacesOf("rollback")
  BY Places DEF Job, Place
<1>4. overlap' \in BOOLEAN /\ injects' \in 0..MaxInjects
  BY <1>1, <1>2, HwConstants DEF Begin, TypeOK
<1>5. Moved(Api, "rollback", "lora", 0) => TypeOK'
  BY <1>1, <1>2, <1>4 DEF TypeOK, Moved, Status
<1>6. Moved(Api, "rollback", "lora", 0) => Counted(Api)'
  BY DEF Moved, Counted
<1>7. ASSUME Moved(Api, "rollback", "lora", 0), Life PROVE Life'
  <2>1. running
    BY <1>1, <1>2, <1>7 DEF Life, Busy
  <2> QED
    BY <1>1, <1>7, <2>1, ApiIsThread DEF Moved, Life, At
<1>8. ~Orderly'
  BY <1>1 DEF Orderly
<1> QED
  BY <1>1, <1>2, <1>3, <1>5, <1>6, <1>7, <1>8, BeginKeeps

LEMMA InjectStep ==
    ASSUME IInv, Inject
    PROVE  IInv'
<1>1. TypeOK
  BY DEF IInv, Threads
<1>2. CASE InjectNrfInitOk
  BY <1>1, <1>2, OverrideKeeps DEF InjectNrfInitOk, State, Status, TypeOK, life, starts, world
<1>3. CASE InjectLoraOk
  BY <1>1, <1>3, OverrideKeeps DEF InjectLoraOk, State, Status, TypeOK, life, starts, world
<1>4. CASE InjectLoraInitFail
  BY <1>1, <1>4, OverrideKeeps DEF InjectLoraInitFail, State, Status, TypeOK, life, starts, world
<1>5. CASE InjectLoraResetFail
  <2>1. Override /\ retry' = retry + 1 /\ state' \in {"error", state}
        /\ UNCHANGED <<loraStatus, nrfStatus, initialized, running, mutex, inits, probedOver,
                       th, lora, nrf, connected, plugs, overlap, crashed>>
    BY <1>5 DEF InjectLoraResetFail, life, starts, world
  <2>2. retry' \in Nat /\ state' \in State
    BY <1>1, <2>1 DEF TypeOK, State
  <2> QED
    BY <1>1, <2>1, <2>2, OverrideKeeps DEF TypeOK
<1>6. CASE InjectAllFailed
  BY <1>1, <1>6, OverrideKeeps DEF InjectAllFailed, State, Status, TypeOK, life, starts, world
<1> QED
  BY <1>2, <1>3, <1>4, <1>5, <1>6, InjectHandlerStep, InjectNrfInitFailStep DEF Inject

LEMMA PlugStep ==
    ASSUME IInv, Plug
    PROVE  IInv'
<1>1. plugs < MaxPlugs /\ plugs' = plugs + 1 /\ connected' = ~connected
      /\ UNCHANGED <<state, loraStatus, nrfStatus, retry, initialized, running, mutex, inits, th,
                     probedOver, lora, nrf, injects, forced, overlap, crashed>>
  BY DEF Plug, ctx, life, starts, history
<1>2. plugs' \in 0..MaxPlugs
  BY <1>1, HwConstants DEF IInv, Threads, TypeOK
<1>3. connected' \in BOOLEAN
  BY <1>1
<1>4. TypeOK'
  BY <1>1, <1>2, <1>3 DEF IInv, Threads, TypeOK
<1>5. JobFits' /\ (~overlap' => OneJob' /\ Life') /\ MutexOutlivesUsers'
  BY <1>1 DEF IInv, Threads, JobFits, OneJob, Life, Busy, At, MutexOutlivesUsers
<1>6. Handlers'
  BY <1>1 DEF IInv, Handlers, Orderly, Counted, RadiosAt, RadiosAtRest, Settled, Quiet, LoraUses, Busy
<1> QED
  BY <1>4, <1>5, <1>6 DEF IInv, Threads

LEMMA Stutter ==
    ASSUME IInv, UNCHANGED vars
    PROVE  IInv'
<1>1. UNCHANGED <<state, loraStatus, nrfStatus, retry, initialized, running, mutex, inits, th,
                  probedOver, lora, nrf, connected, plugs, injects, forced, overlap, crashed>>
  BY DEF vars, ctx, life, starts, world, history
<1>2. TypeOK'
  BY <1>1 DEF IInv, Threads, TypeOK
<1>3. JobFits' /\ (~overlap' => OneJob' /\ Life') /\ MutexOutlivesUsers'
  BY <1>1 DEF IInv, Threads, JobFits, OneJob, Life, Busy, At, MutexOutlivesUsers
<1>4. Handlers'
  BY <1>1 DEF IInv, Handlers, Orderly, Counted, RadiosAt, RadiosAtRest, Settled, Quiet, LoraUses, Busy
<1> QED
  BY <1>2, <1>3, <1>4 DEF IInv, Threads

LEMMA Beginning ==
    ASSUME Init
    PROVE  IInv
<1>1. /\ Rest \in ThreadState /\ Gone \in ThreadState
      /\ Rest.at = "idle" /\ Rest.job = "none" /\ Gone.at = "off" /\ Gone.job = "none"
  BY RestFits DEF Rest
<1>2. /\ th \in [Thread -> ThreadState]
      /\ \A t \in Thread : th[t] = IF t = Api THEN Rest ELSE Gone
  BY <1>1 DEF Init
<1>3. nrf \in [handle : BOOLEAN, init : BOOLEAN] /\ ~nrf.init
  BY NrfDriver DEF Init
<1>4. inits \in 0..MaxInits /\ injects \in 0..MaxInjects /\ plugs \in 0..MaxPlugs /\ retry \in Nat
  BY HwConstants DEF Init
<1>5. TypeOK
  BY <1>2, <1>3, <1>4 DEF Init, TypeOK, State, Status
<1>6. \A t \in Thread : th[t].job = "none" /\ th[t].at \in {"off", "idle"}
  BY <1>1, <1>2
<1>7. \A p \in Poll : th[p].at = "off"
  BY <1>1, <1>2, ApiIsThread
<1>8. JobFits /\ OneJob
  BY <1>6, Places DEF JobFits, OneJob, Busy
<1>9. Life
  BY <1>6, <1>7, ApiIsThread DEF Life, At, Init
<1>10. Handlers /\ MutexOutlivesUsers
  BY <1>3, <1>6 DEF Handlers, Counted, RadiosAt, RadiosAtRest, MutexOutlivesUsers, Init
<1> QED
  BY <1>5, <1>8, <1>9, <1>10 DEF IInv, Threads


-----------------------------------------------------------------------------
(* The theorems. *)

LEMMA Preserved ==
    ASSUME IInv, [Next]_vars
    PROVE  IInv'
<1>1. CASE HwInit
  BY <1>1, HwInitStep
<1>2. CASE DeinitStop
  BY <1>2, DeinitStopStep
<1>3. CASE ApiStep
  BY <1>3, SpawnPollStep, SpawnFailsStep, DeinitCleanupStep DEF ApiStep
<1>4. CASE \E t \in Thread : HandlerStep(t)
  BY <1>4, HandlerStepKeeps
<1>5. CASE \E t \in Poll : PollStep(t)
  BY <1>5, PollProbeStep, PollExitStep, PollDecideStep, TakesDeletedMutexStep DEF PollStep
<1>6. CASE Inject
  BY <1>6, InjectStep
<1>7. CASE Plug
  BY <1>7, PlugStep
<1>8. CASE UNCHANGED vars
  BY <1>8, Stutter
<1> QED
  BY <1>1, <1>2, <1>3, <1>4, <1>5, <1>6, <1>7, <1>8 DEF Next

(* The inductive invariant: the threads, the radios at each place of a     *)
(* handler, and the mutex.                                                 *)
THEOREM Invariance == Spec => []IInv
<1>1. Init => IInv
  BY Beginning
<1>2. IInv /\ [Next]_vars => IInv'
  BY Preserved
<1> QED
  BY <1>1, <1>2, PTL DEF Spec

(* Every variable of hw_manager.c and of the two drivers keeps its range.  *)
THEOREM TypeCorrect == Spec => []TypeOK
<1>1. IInv => TypeOK
  BY DEF IInv, Threads
<1> QED
  BY <1>1, Invariance, PTL

(* The two radios are never both up on the shared bus while one handler    *)
(* runs at a time, through swaps, rollbacks, recoveries and revivals.      *)
THEOREM OneRadioOnTheBus == Spec => []ExclusiveRadios
<1>1. ASSUME IInv, Orderly, ~probedOver PROVE ~(LoraUses /\ nrf.init)
  <2>1. RadiosAtRest /\ (\A t \in Thread : RadiosAt(t)) /\ Threads
    BY <1>1 DEF IInv, Handlers
  <2>2. CASE \A t \in Thread : ~Busy(t)
    BY <2>1, <2>2 DEF RadiosAtRest, Settled, Quiet, LoraUses
  <2>3. CASE \E t \in Thread : Busy(t)
    <3>1. PICK t \in Thread : Busy(t)
      BY <2>3
    <3>2. /\ th[t].at \in {"start", "nrf", "nrfInit", "lora", "loraInit", "retry", "take",
                           "spawn", "cleanup"}
          /\ th[t].at = "start" => th[t].job \in {"toNrf", "recovery", "toLora"}
      <4>1. th[t].job \in Job /\ th[t].at \in PlacesOf(th[t].job)
        BY <2>1 DEF Threads, TypeOK, JobFits, ThreadState
      <4> QED
        BY <3>1, <4>1, Places DEF Job, Busy
    <3>3. RadiosAt(t)
      BY <2>1
    <3> QED
      BY <3>1, <3>2, <3>3 DEF RadiosAt, Settled, Quiet, LoraUses, Busy
  <2> QED
    BY <2>2, <2>3
<1>2. IInv => ExclusiveRadios
  BY <1>1 DEF ExclusiveRadios
<1> QED
  BY <1>2, Invariance, PTL

(* Between jobs s_ctx.state names the radio that is up, and the error      *)
(* state means that none is.                                               *)
THEOREM StateNamesTheRadio == Spec => []StateMatchesRadio
<1>1. IInv => StateMatchesRadio
  BY DEF IInv, Handlers, RadiosAtRest, Settled, Quiet, LoraUses, StateMatchesRadio
<1> QED
  BY <1>1, Invariance, PTL

(* No task takes the mutex hw_manager_deinit has deleted, unless a job     *)
(* overlapped another.                                                     *)
THEOREM MutexHolds == Spec => []MutexOutlivesUsers
<1>1. IInv => MutexOutlivesUsers
  BY DEF IInv
<1> QED
  BY <1>1, Invariance, PTL

-----------------------------------------------------------------------------
(* Giving up on LoRa. *)

(* A recovery that ends in the error state has made every attempt.         *)
LEMMA GivesUpStep ==
    ASSUME IInv, [Next]_vars, Orderly', state = "loraRecovery", state' = "error"
    PROVE  retry = RetryMax
<1>1. Threads /\ Handlers /\ TypeOK
  BY DEF IInv, Threads
<1>2. \A t \in Thread : th[t].job \in Job /\ th[t].at \in PlacesOf(th[t].job)
  BY <1>1 DEF Threads, TypeOK, JobFits, ThreadState
<1>3. ASSUME NEW t \in Thread, RetriesExhausted(t) PROVE retry = RetryMax
  <2>1. th[t].at = "retry" /\ th[t].tries = RetryMax /\ Orderly
    BY <1>3 DEF RetriesExhausted, At, Orderly, history
  <2>2. th[t].job = "recovery" /\ Counted(t)
    BY <1>1, <1>2, <2>1, Places DEF Job, Handlers
  <2> QED
    BY <2>1, <2>2 DEF Counted
<1>4. ASSUME NEW t \in Thread, th[t].at \in {"lora", "loraInit"}, AfterLoraFailed(t), Orderly
      PROVE  FALSE
  <2>1. th[t].job # "recovery"
    BY <1>4 DEF AfterLoraFailed
  <2>2. th[t].job \in {"boot", "toLora", "rollback"}
    BY <1>2, <1>4, <2>1, Places DEF Job
  <2>3. Counted(t)
    BY <1>1, <1>4 DEF Handlers
  <2>4. th[t].job # "rollback"
    BY <1>1, <1>4 DEF Threads, JobFits, Orderly
  <2> QED
    BY <1>4, <2>2, <2>3, <2>4 DEF Counted
<1>5. ASSUME NEW t \in Thread, HandlerStep(t) PROVE retry = RetryMax
  <2>1. CASE LoraRefused(t)
    BY <1>4, <2>1 DEF LoraRefused, At, Orderly, history
  <2>2. CASE LoraDown(t)
    BY <1>4, <2>2 DEF LoraDown, At, Orderly, history
  <2>3. CASE RetriesExhausted(t)
    BY <1>3, <2>3
  <2>4. CASE SwitchToNrf(t) \/ SwitchToLora(t) \/ RecoveryBegins(t) \/ RetryLora(t) \/ NrfBegins(t)
    BY <2>4 DEF SwitchToNrf, SwitchToLora, RecoveryBegins, RetryLora, NrfBegins
  <2>5. CASE NrfUp(t) \/ NrfDown(t) \/ ReviveTransition(t) \/ LoraBegins(t) \/ LoraUp(t)
    BY <2>5 DEF NrfUp, NrfDown, ReviveTransition, LoraBegins, LoraUp
  <2> QED
    BY <1>5, <2>1, <2>2, <2>3, <2>4, <2>5 DEF HandlerStep
<1>6. ASSUME NEW t \in Poll, PollStep(t) PROVE FALSE
  BY <1>6 DEF PollStep, PollProbe, PollExit, PollDecide, TakesDeletedMutex, ctx
<1>7. ~Inject
  BY DEF Inject, InjectHandler, InjectNrfInitOk, InjectNrfInitFail, InjectLoraOk,
         InjectLoraInitFail, InjectLoraResetFail, InjectAllFailed, Override, Orderly, ctx
<1>8. ~HwInit /\ ~DeinitStop /\ ~ApiStep /\ ~Plug
  BY DEF HwInit, DeinitStop, ApiStep, SpawnPoll, SpawnFails, DeinitCleanup, Plug, ctx
<1>9. ~UNCHANGED vars
  BY DEF vars, ctx
<1> QED
  BY <1>5, <1>6, <1>7, <1>8, <1>9 DEF Next

(* LoRa is given up on during a recovery only after lora_retry_max         *)
(* attempts.                                                               *)
THEOREM AllRetriesMade == Spec => GivesUpAfterAllRetries
<1>1. IInv /\ [Next]_vars =>
         [(Orderly' /\ state = "loraRecovery" /\ state' = "error") => retry = RetryMax]_vars
  BY GivesUpStep
<1> QED
  BY <1>1, Invariance, PTL DEF Spec, GivesUpAfterAllRetries


=============================================================================
