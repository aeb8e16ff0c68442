------------------------------ MODULE Debouncer ------------------------------
(***************************************************************************)
(* The recompute debouncer of the SDN controller (sdn/src/debounce.rs).    *)
(*                                                                         *)
(* Callers ask for a recompute of the flow solution; a worker task fires   *)
(* it once the requests have been quiet for window, and a request fires it *)
(* itself when its cycle is max_wait old.  Fires are coalesced with two    *)
(* atomic flags: fire_inflight and fire_rerun.                             *)
(*                                                                         *)
(* Instants are ages in ticks: pending, cycle_start and last_request are   *)
(* set and cleared together and are one variable, cycle.                   *)
(***************************************************************************)
EXTENDS Integers, TLAPS

CONSTANTS
    Client,  \* the threads that call request, flush, cancel...
    Worker,  \* the worker task
    Window,  \* the windows the debouncer may be given
    MaxWait, \* and the caps on the age of a cycle
    MaxAge   \* bound: no timing is longer, older ages are the same

Timing == [window : Window, maxWait : MaxWait]

ASSUME WorkerAssumption == Worker \notin Client
ASSUME MaxAgeAssumption == MaxAge \in Nat
ASSUME TimingAssumption == Window \subseteq 0..MaxAge /\ MaxWait \subseteq 0..MaxAge

VARIABLES
    timing,   \* window and max_wait
    cycle,    \* age of cycle_start and of last_request, NoCycle if not pending
    closed,   \* shutdown() was called
    workerPermit, \* the stored permit of notify
    worker,   \* where the worker is, and what is left of its sleep
    call,     \* call[c]: what c still has to do after leaving the lock
    inflight, \* fire_inflight
    rerun,    \* fire_rerun
    runner,   \* runner[c]: the blocking thread that c's spawn_fire started
    owed      \* history: a fire was triggered and none has begun since

debouncerVars == <<timing, cycle, closed, workerPermit, worker, call, inflight, rerun, runner,
          owed>>

Caller == Client \cup {Worker}
NoCycle == [age |-> -1, quiet |-> -1]
NewCycle == [age |-> 0, quiet |-> 0]
Older(age) == IF age < MaxAge THEN age + 1 ELSE age

DebouncerInit ==
    /\ timing \in Timing
    /\ cycle = NoCycle
    /\ closed = FALSE
    /\ workerPermit = FALSE
    /\ worker = [pc |-> "snapshot", sleep |-> 0]
    /\ call = [c \in Caller |-> "done"]
    /\ inflight = FALSE
    /\ rerun = FALSE
    /\ runner = [c \in Caller |-> "none"]
    /\ owed = FALSE

-----------------------------------------------------------------------------
(***************************************************************************)
(* The public operations: one critical section, then spawn_fire or notify. *)
(***************************************************************************)

\* Close the cycle and go on to spawn_fire.
Trigger(c) ==
    /\ cycle' = NoCycle
    /\ owed' = TRUE
    /\ call' = [call EXCEPT ![c] = "swap"]

\* Mutant of Request: a request that opens or extends a cycle does not notify.
RequestSilent(c) ==
    /\ call[c] = "done"
    /\ ~closed
    /\ IF timing.window = 0 \/ (cycle # NoCycle /\ cycle.age >= timing.maxWait)
         THEN Trigger(c)
         ELSE /\ cycle' = IF cycle = NoCycle THEN NewCycle
                          ELSE [age |-> cycle.age, quiet |-> 0]
              /\ UNCHANGED <<call, owed>>
    /\ UNCHANGED <<timing, closed, workerPermit, worker, inflight, rerun, runner>>

Request(c) ==
    /\ call[c] = "done"
    /\ ~closed
    /\ IF timing.window = 0 \/ (cycle # NoCycle /\ cycle.age >= timing.maxWait)
         THEN Trigger(c)
         ELSE /\ cycle' = IF cycle = NoCycle THEN NewCycle
                          ELSE [age |-> cycle.age, quiet |-> 0]
              /\ call' = [call EXCEPT ![c] = "notify"]
              /\ UNCHANGED owed
    /\ UNCHANGED <<timing, closed, workerPermit, worker, inflight, rerun, runner>>

Flush(c) ==
    /\ call[c] = "done"
    /\ cycle # NoCycle
    /\ Trigger(c)
    /\ UNCHANGED <<timing, closed, workerPermit, worker, inflight, rerun, runner>>

Cancel(c) ==
    /\ call[c] = "done"
    /\ cycle' = NoCycle
    /\ call' = [call EXCEPT ![c] = "notify"]
    /\ UNCHANGED <<timing, closed, workerPermit, worker, inflight, rerun, runner, owed>>

UpdateTiming(c, t) ==
    /\ call[c] = "done"
    /\ timing' = t
    /\ call' = [call EXCEPT ![c] = "notify"]
    /\ UNCHANGED <<cycle, closed, workerPermit, worker, inflight, rerun, runner, owed>>

Shutdown(c) ==
    /\ call[c] = "done"
    /\ ~closed
    /\ closed' = TRUE
    /\ cycle' = NoCycle
    /\ call' = [call EXCEPT ![c] = "notify"]
    /\ UNCHANGED <<timing, workerPermit, worker, inflight, rerun, runner, owed>>

NotifyOne(c) ==
    /\ call[c] = "notify"
    /\ workerPermit' = TRUE
    /\ call' = [call EXCEPT ![c] = "done"]
    /\ UNCHANGED <<timing, cycle, closed, worker, inflight, rerun, runner, owed>>

-----------------------------------------------------------------------------
(***************************************************************************)
(* spawn_fire and the blocking thread it starts.                           *)
(***************************************************************************)

\* Mutant of SpawnSwap: the answer of the swap is ignored.
SpawnSwapBlind(c) ==
    /\ call[c] = "swap"
    /\ inflight' = TRUE
    /\ call' = [call EXCEPT ![c] = "done"]
    /\ runner' = [runner EXCEPT ![c] = "arm"]
    /\ UNCHANGED <<timing, cycle, closed, workerPermit, worker, rerun, owed>>

\* fire_inflight.swap(true): whoever reads FALSE starts the runner.
SpawnSwap(c) ==
    /\ call[c] = "swap"
    /\ inflight' = TRUE
    /\ IF inflight
         THEN /\ call' = [call EXCEPT ![c] = "rerun"]
              /\ UNCHANGED runner
         ELSE /\ call' = [call EXCEPT ![c] = "done"]
              /\ runner' = [runner EXCEPT ![c] = "arm"]
    /\ UNCHANGED <<timing, cycle, closed, workerPermit, worker, rerun, owed>>

SpawnRerun(c) ==
    /\ call[c] = "rerun"
    /\ rerun' = TRUE
    /\ call' = [call EXCEPT ![c] = "done"]
    /\ UNCHANGED <<timing, cycle, closed, workerPermit, worker, inflight, runner, owed>>

\* fire_rerun.store(false) at the top of the loop.
RunnerArm(c) ==
    /\ runner[c] = "arm"
    /\ rerun' = FALSE
    /\ runner' = [runner EXCEPT ![c] = "fire"]
    /\ UNCHANGED <<timing, cycle, closed, workerPermit, worker, call, inflight, owed>>

\* (inner.fire)() reads its inputs now, so it answers every earlier trigger.
FireBegins(c) ==
    /\ runner[c] = "fire"
    /\ owed' = FALSE
    /\ runner' = [runner EXCEPT ![c] = "firing"]
    /\ UNCHANGED <<timing, cycle, closed, workerPermit, worker, call, inflight, rerun>>

FireEnds(c) ==
    /\ runner[c] = "firing"
    /\ runner' = [runner EXCEPT ![c] = "check"]
    /\ UNCHANGED <<timing, cycle, closed, workerPermit, worker, call, inflight, rerun,
                   owed>>

\* Mutant of RunnerCheck: the thread ends without looking at fire_rerun.
RunnerCheckOnce(c) ==
    /\ runner[c] = "check"
    /\ rerun' = FALSE
    /\ runner' = [runner EXCEPT ![c] = "clear"]
    /\ UNCHANGED <<timing, cycle, closed, workerPermit, worker, call, inflight, owed>>

\* fire_rerun.swap(false)
RunnerCheck(c) ==
    /\ runner[c] = "check"
    /\ rerun' = FALSE
    /\ runner' = [runner EXCEPT ![c] = IF rerun THEN "arm" ELSE "clear"]
    /\ UNCHANGED <<timing, cycle, closed, workerPermit, worker, call, inflight, owed>>

RunnerClear(c) ==
    /\ runner[c] = "clear"
    /\ inflight' = FALSE
    /\ runner' = [runner EXCEPT ![c] = "none"]
    /\ UNCHANGED <<timing, cycle, closed, workerPermit, worker, call, rerun, owed>>

RunnerStep(c) ==
    RunnerArm(c) \/ FireBegins(c) \/ FireEnds(c) \/ RunnerCheck(c) \/ RunnerClear(c)

-----------------------------------------------------------------------------
(***************************************************************************)
(* run_worker.                                                             *)
(***************************************************************************)

WorkerSnapshot ==
    /\ worker.pc = "snapshot"
    /\ call[Worker] = "done"
    /\ worker' = IF closed THEN [pc |-> "exited", sleep |-> 0]
                 ELSE IF cycle = NoCycle THEN [pc |-> "idle", sleep |-> 0]
                 ELSE [pc |-> "asleep",
                       sleep |-> IF cycle.quiet >= timing.window THEN 0
                                 ELSE timing.window - cycle.quiet]
    /\ UNCHANGED <<timing, cycle, closed, workerPermit, call, inflight, rerun, runner,
                   owed>>

\* Either branch that waits on notify.
WorkerNotified ==
    /\ worker.pc \in {"idle", "asleep"}
    /\ workerPermit
    /\ workerPermit' = FALSE
    /\ worker' = [pc |-> "snapshot", sleep |-> 0]
    /\ UNCHANGED <<timing, cycle, closed, call, inflight, rerun, runner, owed>>

\* The deadline of the snapshot; the cycle is looked at again under the lock.
WorkerDeadline ==
    /\ worker.pc = "asleep"
    /\ worker.sleep = 0
    /\ worker' = [pc |-> IF closed THEN "exited" ELSE "snapshot", sleep |-> 0]
    /\ IF ~closed /\ cycle # NoCycle /\ cycle.quiet >= timing.window
         THEN Trigger(Worker)
         ELSE UNCHANGED <<cycle, call, owed>>
    /\ UNCHANGED <<timing, closed, workerPermit, inflight, rerun, runner>>

Tick ==
    /\ cycle' = IF cycle = NoCycle THEN NoCycle
                ELSE [age |-> Older(cycle.age), quiet |-> Older(cycle.quiet)]
    /\ worker' = [pc |-> worker.pc,
                  sleep |-> IF worker.sleep > 0 THEN worker.sleep - 1 ELSE 0]
    /\ UNCHANGED <<timing, closed, workerPermit, call, inflight, rerun, runner, owed>>

-----------------------------------------------------------------------------
CallStep(c) == NotifyOne(c) \/ SpawnSwap(c) \/ SpawnRerun(c)

WorkerStep == WorkerSnapshot \/ WorkerNotified \/ WorkerDeadline

DebouncerNext ==
    \/ \E c \in Client :
          \/ Request(c) \/ Flush(c) \/ Cancel(c) \/ Shutdown(c)
          \/ \E t \in Timing : UpdateTiming(c, t)
    \/ \E c \in Caller : CallStep(c) \/ RunnerStep(c)
    \/ WorkerStep
    \/ Tick

DebouncerSpec == DebouncerInit /\ [][DebouncerNext]_debouncerVars

-----------------------------------------------------------------------------
(***************************************************************************)
(* Properties.                                                             *)
(***************************************************************************)

\* Timings, ages, flags and control points have their types.
DebouncerTypeOK ==
    /\ timing \in Timing
    /\ cycle \in {NoCycle} \cup [age : 0..MaxAge, quiet : 0..MaxAge]
    /\ closed \in BOOLEAN
    /\ workerPermit \in BOOLEAN
    /\ worker \in [pc : {"snapshot", "idle", "asleep", "exited"}, sleep : 0..MaxAge]
    /\ call \in [Caller -> {"done", "notify", "swap", "rerun"}]
    /\ inflight \in BOOLEAN
    /\ rerun \in BOOLEAN
    /\ runner \in [Caller -> {"none", "arm", "fire", "firing", "check", "clear"}]
    /\ owed \in BOOLEAN

\* "this caps the debouncer at ONE fire in flight": no two blocking threads
\* exist, however requests, flushes and the worker race into spawn_fire.
OneFireInFlight ==
    \A c, d \in Caller : runner[c] # "none" /\ runner[d] # "none" => c = d

\* A trigger that no fire has answered yet is never forgotten: its caller is
\* still inside spawn_fire, or a thread is about to fire, or fire_rerun is set.
OwedIsTracked ==
    owed => \/ \E c \in Caller : call[c] \in {"swap", "rerun"}
            \/ \E c \in Caller : runner[c] \in {"arm", "fire"}
            \/ rerun

\* The gap that spawn_fire's comment admits: the flag is set, nobody runs.
Parked == rerun /\ ~inflight

\* Everything asked of the debouncer ends.  A pending recompute does not starve: under
\* any rate of requests and any retuning its cycle is closed, by a fire, a cancel or the
\* shutdown.  A trigger is answered by a fire that begins after it, or is parked.  After
\* shutdown() the worker task ends, whatever it was waiting for.
Progress ==
    /\ []<>(cycle = NoCycle)
    /\ []<>(owed => Parked)
    /\ []<>(closed => worker.pc = "exited")

-----------------------------------------------------------------------------
(***************************************************************************)
(* Proofs.  At most one fire is in flight and no trigger is forgotten, for *)
(* any number of client threads and any timings.                           *)
(***************************************************************************)

\* fire_inflight is set as long as a blocking thread exists.
FlagInv == \A c \in Caller : runner[c] # "none" => inflight

IInv == DebouncerTypeOK /\ OneFireInFlight /\ FlagInv

Cycle == {NoCycle} \cup [age : 0..MaxAge, quiet : 0..MaxAge]
WorkerState == [pc : {"snapshot", "idle", "asleep", "exited"}, sleep : 0..MaxAge]

-----------------------------------------------------------------------------
(***************************************************************************)
(* Types.                                                                  *)
(***************************************************************************)

\* Ages stay within the bound and sleeps within the window.
LEMMA AgeType ==
    /\ NewCycle \in Cycle /\ NoCycle \in Cycle
    /\ \A a \in 0..MaxAge : Older(a) \in 0..MaxAge
    /\ \A t \in Timing : t.window \in 0..MaxAge /\ t.maxWait \in 0..MaxAge
<1>1. NewCycle \in Cycle /\ NoCycle \in Cycle
  BY MaxAgeAssumption DEF NewCycle, Cycle
<1>2. \A a \in 0..MaxAge : Older(a) \in 0..MaxAge
  BY MaxAgeAssumption DEF Older
<1>3. \A t \in Timing : t.window \in 0..MaxAge /\ t.maxWait \in 0..MaxAge
  BY TimingAssumption DEF Timing
<1> QED BY <1>1, <1>2, <1>3

\* The initial state is well typed.
LEMMA InitType == DebouncerInit => DebouncerTypeOK
<1> SUFFICES ASSUME DebouncerInit PROVE DebouncerTypeOK
  OBVIOUS
<1>1. closed \in BOOLEAN /\ workerPermit \in BOOLEAN /\ inflight \in BOOLEAN
      /\ rerun \in BOOLEAN /\ owed \in BOOLEAN
  BY Zenon DEF DebouncerInit
<1>2. timing \in Timing /\ cycle = NoCycle
      /\ worker = [pc |-> "snapshot", sleep |-> 0]
  BY Zenon DEF DebouncerInit
<1>3. call = [c \in Caller |-> "done"] /\ runner = [c \in Caller |-> "none"]
  BY Zenon DEF DebouncerInit
<1> QED BY <1>1, <1>2, <1>3, MaxAgeAssumption DEF DebouncerTypeOK

\* Every step keeps the types.
LEMMA NextType == DebouncerTypeOK /\ [DebouncerNext]_debouncerVars => DebouncerTypeOK'
<1> SUFFICES ASSUME DebouncerTypeOK, [DebouncerNext]_debouncerVars PROVE DebouncerTypeOK'
  OBVIOUS
<1> USE DEF Caller
<1>1. ASSUME NEW c \in Client, Request(c) PROVE DebouncerTypeOK'
  <2>1. CASE timing.window = 0 \/ (cycle # NoCycle /\ cycle.age >= timing.maxWait)
    BY <1>1, <2>1 DEF DebouncerTypeOK, Request, Trigger
  <2>2. CASE ~(timing.window = 0 \/ (cycle # NoCycle /\ cycle.age >= timing.maxWait))
    <3>1. cycle' \in Cycle
      BY <1>1, <2>2, MaxAgeAssumption DEF Request, DebouncerTypeOK, Cycle, NewCycle
    <3> QED BY <1>1, <2>2, <3>1 DEF DebouncerTypeOK, Request, Cycle
  <2> QED BY <2>1, <2>2
<1>2. ASSUME NEW c \in Client, Flush(c) PROVE DebouncerTypeOK'
  BY <1>2 DEF DebouncerTypeOK, Flush, Trigger
<1>3. ASSUME NEW c \in Client, Cancel(c) PROVE DebouncerTypeOK'
  BY <1>3 DEF DebouncerTypeOK, Cancel
<1>4. ASSUME NEW c \in Client, NEW t \in Timing, UpdateTiming(c, t) PROVE DebouncerTypeOK'
  BY <1>4 DEF DebouncerTypeOK, UpdateTiming
<1>5. ASSUME NEW c \in Client, Shutdown(c) PROVE DebouncerTypeOK'
  BY <1>5 DEF DebouncerTypeOK, Shutdown
<1>6. ASSUME NEW c \in Caller, CallStep(c) PROVE DebouncerTypeOK'
  <2>1. CASE NotifyOne(c)
    BY <2>1 DEF DebouncerTypeOK, NotifyOne
  <2>2. CASE SpawnSwap(c)
    BY <2>2 DEF DebouncerTypeOK, SpawnSwap
  <2>3. CASE SpawnRerun(c)
    BY <2>3 DEF DebouncerTypeOK, SpawnRerun
  <2> QED BY <1>6, <2>1, <2>2, <2>3 DEF CallStep
<1>7. ASSUME NEW c \in Caller, RunnerStep(c) PROVE DebouncerTypeOK'
  <2>1. CASE RunnerArm(c)
    BY <2>1 DEF DebouncerTypeOK, RunnerArm
  <2>2. CASE FireBegins(c)
    BY <2>2 DEF DebouncerTypeOK, FireBegins
  <2>3. CASE FireEnds(c)
    BY <2>3 DEF DebouncerTypeOK, FireEnds
  <2>4. CASE RunnerCheck(c)
    BY <2>4 DEF DebouncerTypeOK, RunnerCheck
  <2>5. CASE RunnerClear(c)
    BY <2>5 DEF DebouncerTypeOK, RunnerClear
  <2> QED BY <1>7, <2>1, <2>2, <2>3, <2>4, <2>5 DEF RunnerStep
<1>8. CASE WorkerSnapshot
  <2>1. cycle # NoCycle => cycle.quiet \in 0..MaxAge
    BY DEF DebouncerTypeOK
  <2>2. worker' \in WorkerState
    BY <1>8, <2>1, AgeType, MaxAgeAssumption DEF DebouncerTypeOK, WorkerSnapshot, WorkerState
  <2>3. UNCHANGED <<timing, cycle, closed, workerPermit, call, inflight, rerun, runner, owed>>
    BY <1>8 DEF WorkerSnapshot
  <2> QED BY <2>2, <2>3 DEF DebouncerTypeOK, WorkerState
<1>9. CASE WorkerNotified
  <2>1. workerPermit' \in BOOLEAN
    BY <1>9, Zenon DEF WorkerNotified
  <2>2. worker' \in WorkerState
    BY <1>9, MaxAgeAssumption DEF WorkerNotified, WorkerState
  <2>3. UNCHANGED <<timing, cycle, closed, call, inflight, rerun, runner, owed>>
    BY <1>9 DEF WorkerNotified
  <2> QED BY <2>1, <2>2, <2>3 DEF DebouncerTypeOK, WorkerState
<1>10. CASE WorkerDeadline
  BY <1>10, MaxAgeAssumption DEF DebouncerTypeOK, WorkerDeadline, Trigger
<1>11. CASE Tick
  BY <1>11, AgeType, MaxAgeAssumption DEF DebouncerTypeOK, Tick, Cycle
<1>12. CASE UNCHANGED debouncerVars
  BY <1>12 DEF DebouncerTypeOK, debouncerVars
<1> QED BY <1>1, <1>2, <1>3, <1>4, <1>5, <1>6, <1>7, <1>8, <1>9, <1>10, <1>11, <1>12
        DEF DebouncerNext, WorkerStep

-----------------------------------------------------------------------------
(***************************************************************************)
(* One fire in flight.                                                     *)
(***************************************************************************)

\* A step that leaves the flags and the threads alone keeps the invariant.
LEMMA FireIdle ==
    ASSUME OneFireInFlight, FlagInv, UNCHANGED <<inflight, runner>>
    PROVE  OneFireInFlight' /\ FlagInv'
BY DEF OneFireInFlight, FlagInv

\* A thread that exists takes a step of its loop and keeps existing.
LEMMA FireMove ==
    ASSUME DebouncerTypeOK, OneFireInFlight, FlagInv, NEW c \in Caller, NEW pc,
           runner[c] # "none", runner' = [runner EXCEPT ![c] = pc],
           inflight' = inflight
    PROVE  OneFireInFlight' /\ FlagInv'
<1>1. \A d \in Caller : runner'[d] # "none" => runner[d] # "none"
  BY DEF DebouncerTypeOK
<1> QED BY <1>1 DEF OneFireInFlight, FlagInv

\* Every step keeps at most one blocking thread.
LEMMA FireStep == IInv /\ [DebouncerNext]_debouncerVars => OneFireInFlight' /\ FlagInv'
<1> SUFFICES ASSUME IInv, [DebouncerNext]_debouncerVars PROVE OneFireInFlight' /\ FlagInv'
  OBVIOUS
<1>0. DebouncerTypeOK /\ OneFireInFlight /\ FlagInv
  BY DEF IInv
<1>1. ASSUME NEW c \in Caller, SpawnSwap(c) PROVE OneFireInFlight' /\ FlagInv'
  <2>1. CASE inflight
    BY <1>0, <1>1, <2>1 DEF SpawnSwap, OneFireInFlight, FlagInv
  <2>2. CASE ~inflight
    <3>1. \A d \in Caller : runner[d] = "none"
      BY <1>0, <2>2 DEF FlagInv
    <3>2. \A d \in Caller : runner'[d] # "none" => d = c
      BY <1>0, <1>1, <2>2, <3>1 DEF SpawnSwap, DebouncerTypeOK
    <3>3. inflight'
      BY <1>1 DEF SpawnSwap
    <3> QED BY <3>2, <3>3 DEF OneFireInFlight, FlagInv
  <2> QED BY <2>1, <2>2
<1>2. ASSUME NEW c \in Caller, RunnerClear(c) PROVE OneFireInFlight' /\ FlagInv'
  <2>1. \A d \in Caller : runner'[d] = "none"
    BY <1>0, <1>2 DEF RunnerClear, OneFireInFlight, DebouncerTypeOK
  <2> QED BY <2>1 DEF OneFireInFlight, FlagInv
<1>3. ASSUME NEW c \in Caller, RunnerArm(c) PROVE OneFireInFlight' /\ FlagInv'
  BY <1>0, <1>3, FireMove DEF RunnerArm
<1>4. ASSUME NEW c \in Caller, FireBegins(c) PROVE OneFireInFlight' /\ FlagInv'
  BY <1>0, <1>4, FireMove DEF FireBegins
<1>5. ASSUME NEW c \in Caller, FireEnds(c) PROVE OneFireInFlight' /\ FlagInv'
  BY <1>0, <1>5, FireMove DEF FireEnds
<1>6. ASSUME NEW c \in Caller, RunnerCheck(c) PROVE OneFireInFlight' /\ FlagInv'
  BY <1>0, <1>6, FireMove DEF RunnerCheck
<1>7. CASE UNCHANGED <<inflight, runner>>
  BY <1>0, <1>7, FireIdle
<1> QED BY <1>1, <1>2, <1>3, <1>4, <1>5, <1>6, <1>7
        DEF DebouncerNext, debouncerVars, Request, Flush, Cancel, UpdateTiming, Shutdown, CallStep,
            NotifyOne, SpawnRerun, RunnerStep, WorkerStep, WorkerSnapshot,
            WorkerNotified, WorkerDeadline, Tick

\* The debouncer keeps its types and its flag tells the truth.
THEOREM InvCorrect == DebouncerSpec => []IInv
<1>1. DebouncerInit => IInv
  BY InitType DEF DebouncerInit, IInv, OneFireInFlight, FlagInv
<1>2. IInv /\ [DebouncerNext]_debouncerVars => IInv'
  BY NextType, FireStep DEF IInv
<1> QED BY <1>1, <1>2, PTL DEF DebouncerSpec

\* The types hold in every reachable state.
THEOREM TypeCorrect == DebouncerSpec => []DebouncerTypeOK
<1>1. IInv => DebouncerTypeOK
  BY DEF IInv
<1> QED BY <1>1, InvCorrect, PTL

\* At most one fire is in flight, for any number of threads in spawn_fire.
THEOREM OneFireInFlightCorrect == DebouncerSpec => []OneFireInFlight
<1>1. IInv => OneFireInFlight
  BY DEF IInv
<1> QED BY <1>1, InvCorrect, PTL

-----------------------------------------------------------------------------
(***************************************************************************)
(* No trigger is forgotten.                                                *)
(***************************************************************************)

\* A step of an idle client that ends in notify leaves the triggers alone.
LEMMA TrackedNotify ==
    ASSUME DebouncerTypeOK, OwedIsTracked, NEW c \in Caller, NEW pc,
           call[c] \in {"done", "notify"}, call' = [call EXCEPT ![c] = pc],
           UNCHANGED <<rerun, runner, owed>>
    PROVE  OwedIsTracked'
<1>1. \A d \in Caller : call[d] \in {"swap", "rerun"} => call'[d] = call[d]
  BY DEF DebouncerTypeOK
<1> QED BY <1>1 DEF OwedIsTracked

\* A trigger puts its caller inside spawn_fire.
LEMMA TrackedTrigger ==
    ASSUME DebouncerTypeOK, NEW c \in Caller, Trigger(c)
    PROVE  OwedIsTracked'
<1>1. call'[c] = "swap"
  BY DEF Trigger, DebouncerTypeOK
<1> QED BY <1>1 DEF OwedIsTracked

\* Every step keeps track of the trigger that is owed.
LEMMA TrackedStep == DebouncerTypeOK /\ OwedIsTracked /\ [DebouncerNext]_debouncerVars => OwedIsTracked'
<1> SUFFICES ASSUME DebouncerTypeOK, OwedIsTracked, [DebouncerNext]_debouncerVars PROVE OwedIsTracked'
  OBVIOUS
<1>1. ASSUME NEW c \in Client, Request(c) PROVE OwedIsTracked'
  <2>1. c \in Caller
    BY DEF Caller
  <2>2. CASE timing.window = 0 \/ (cycle # NoCycle /\ cycle.age >= timing.maxWait)
    BY <1>1, <2>1, <2>2, TrackedTrigger DEF Request
  <2>3. CASE ~(timing.window = 0 \/ (cycle # NoCycle /\ cycle.age >= timing.maxWait))
    BY <1>1, <2>1, <2>3, TrackedNotify DEF Request
  <2> QED BY <2>2, <2>3
<1>2. ASSUME NEW c \in Client, Flush(c) PROVE OwedIsTracked'
  BY <1>2, TrackedTrigger DEF Flush, Caller
<1>3. ASSUME NEW c \in Client, Cancel(c) PROVE OwedIsTracked'
  BY <1>3, TrackedNotify DEF Cancel, Caller
<1>4. ASSUME NEW c \in Client, NEW t \in Timing, UpdateTiming(c, t) PROVE OwedIsTracked'
  BY <1>4, TrackedNotify DEF UpdateTiming, Caller
<1>5. ASSUME NEW c \in Client, Shutdown(c) PROVE OwedIsTracked'
  BY <1>5, TrackedNotify DEF Shutdown, Caller
<1>6. ASSUME NEW c \in Caller, NotifyOne(c) PROVE OwedIsTracked'
  BY <1>6, TrackedNotify DEF NotifyOne
<1>7. ASSUME NEW c \in Caller, SpawnSwap(c) PROVE OwedIsTracked'
  <2>1. CASE inflight
    <3>1. call'[c] = "rerun"
      BY <1>7, <2>1 DEF SpawnSwap, DebouncerTypeOK
    <3> QED BY <3>1 DEF OwedIsTracked
  <2>2. CASE ~inflight
    <3>1. runner'[c] = "arm"
      BY <1>7, <2>2 DEF SpawnSwap, DebouncerTypeOK
    <3> QED BY <3>1 DEF OwedIsTracked
  <2> QED BY <2>1, <2>2
<1>8. ASSUME NEW c \in Caller, SpawnRerun(c) PROVE OwedIsTracked'
  BY <1>8 DEF SpawnRerun, OwedIsTracked
<1>9. ASSUME NEW c \in Caller, RunnerArm(c) PROVE OwedIsTracked'
  <2>1. runner'[c] = "fire"
    BY <1>9 DEF RunnerArm, DebouncerTypeOK
  <2> QED BY <2>1 DEF OwedIsTracked
<1>10. ASSUME NEW c \in Caller, FireBegins(c) PROVE OwedIsTracked'
  BY <1>10 DEF FireBegins, OwedIsTracked
<1>11. ASSUME NEW c \in Caller, runner[c] \notin {"arm", "fire"}, NEW pc,
              runner' = [runner EXCEPT ![c] = pc],
              UNCHANGED <<call, rerun, owed>>
       PROVE  OwedIsTracked'
  <2>1. \A d \in Caller : runner[d] \in {"arm", "fire"} => runner'[d] = runner[d]
    BY <1>11 DEF DebouncerTypeOK
  <2> QED BY <1>11, <2>1 DEF OwedIsTracked
<1>12. ASSUME NEW c \in Caller, FireEnds(c) PROVE OwedIsTracked'
  BY <1>11, <1>12 DEF FireEnds
<1>13. ASSUME NEW c \in Caller, RunnerCheck(c) PROVE OwedIsTracked'
  <2>1. CASE rerun
    <3>1. runner'[c] = "arm"
      BY <1>13, <2>1 DEF RunnerCheck, DebouncerTypeOK
    <3> QED BY <3>1 DEF OwedIsTracked
  <2>2. CASE ~rerun
    <3>1. \A d \in Caller : runner[d] \in {"arm", "fire"} => runner'[d] = runner[d]
      BY <1>13 DEF RunnerCheck, DebouncerTypeOK
    <3>2. UNCHANGED <<call, owed>>
      BY <1>13 DEF RunnerCheck
    <3> QED BY <2>2, <3>1, <3>2 DEF OwedIsTracked
  <2> QED BY <2>1, <2>2
<1>14. ASSUME NEW c \in Caller, RunnerClear(c) PROVE OwedIsTracked'
  BY <1>11, <1>14 DEF RunnerClear
<1>15. CASE WorkerDeadline
  <2>1. CASE ~closed /\ cycle # NoCycle /\ cycle.quiet >= timing.window
    BY <1>15, <2>1, TrackedTrigger DEF WorkerDeadline, Caller
  <2>2. CASE ~(~closed /\ cycle # NoCycle /\ cycle.quiet >= timing.window)
    BY <1>15, <2>2 DEF WorkerDeadline, OwedIsTracked
  <2> QED BY <2>1, <2>2
<1>16. CASE UNCHANGED <<call, rerun, runner, owed>>
  BY <1>16 DEF OwedIsTracked
<1> QED BY <1>1, <1>2, <1>3, <1>4, <1>5, <1>6, <1>7, <1>8, <1>9, <1>10, <1>12,
           <1>13, <1>14, <1>15, <1>16
        DEF DebouncerNext, debouncerVars, CallStep, RunnerStep, WorkerStep, WorkerSnapshot,
            WorkerNotified, Tick

\* A trigger no fire has answered is always on record: in a caller, in a thread
\* that will fire, or in fire_rerun.
THEOREM OwedIsTrackedCorrect == DebouncerSpec => []OwedIsTracked
<1>1. DebouncerInit => OwedIsTracked
  BY DEF DebouncerInit, OwedIsTracked
<1> QED BY <1>1, TrackedStep, TypeCorrect, PTL DEF DebouncerSpec
=============================================================================
