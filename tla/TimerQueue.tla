----------------------------- MODULE TimerQueue -----------------------------
(***************************************************************************)
(* The host timers and the event loop (src/src/execution/timer_queue.rs,   *)
(* the eval and timer entry points of src/src/runtime/context.rs): a       *)
(* virtual clock, timers set and cleared by scripts, by other timers and   *)
(* by microtasks, and a microtask checkpoint after every callback.         *)
(*                                                                         *)
(* What a callback is does not matter here, only what it does to the       *)
(* timers and to the microtask queue, whose tasks are merely counted.      *)
(***************************************************************************)
EXTENDS Naturals, Sequences, FiniteSets

CONSTANTS Delays,         \* the delays scripts ask for
          MaxClock,       \* the largest time (u64::MAX), where sums saturate
          MaxIterations,  \* max_iterations of run_until
          MicrotaskLimit, \* MAX_ITERATIONS of run_microtasks
          MaxTimers,      \* bound: timers ever set
          MaxQueued,      \* bound: microtasks queued at a time
          NoTimer         \* no callback is running

ASSUME TimerAssumption ==
  /\ MaxClock \in Nat \ {0} /\ Delays \subseteq 0..MaxClock
  /\ MaxIterations \in Nat \ {0} /\ MicrotaskLimit \in Nat \ {0}
  /\ MaxTimers \in Nat /\ MaxQueued \in Nat

Times == 0..MaxClock
Ids == 1..MaxTimers
OneShot == 0    \* the interval of a timeout
Timer == [id : Ids, target : Times, interval : Times, cancelled : BOOLEAN]

ASSUME NoTimerAssumption == NoTimer \notin Timer

VARIABLES
  timers,      \* the Vec of timers, in the order they were pushed
  nextId,
  clock,       \* current_time_ms
  queued,      \* microtasks pending
  pc,          \* what the thread is doing
  goal,        \* target_clock of the run
  iterations,  \* iterations of the run
  executed,    \* microtasks executed by the checkpoint
  running      \* the timer whose turn it is

VARIABLES      \* history
  last,        \* the last timer whose callback was called
  cleared,     \* ids cleared
  selfCleared  \* ids cleared during their own turn

history == <<last, cleared, selfCleared>>
vars == <<timers, nextId, clock, queued, pc, goal, iterations, executed, running, history>>

-----------------------------------------------------------------------------
Saturate(n) == IF n > MaxClock THEN MaxClock ELSE n
Later(a, b) == IF a > b THEN a ELSE b
Elements(s) == {s[i] : i \in DOMAIN s}
Active == {t \in Elements(timers) : ~t.cancelled}

Init ==
  /\ timers = <<>> /\ nextId = 1 /\ clock = 0 /\ queued = 0
  /\ pc = "idle" /\ goal = 0 /\ iterations = 0 /\ executed = 0 /\ running = NoTimer
  /\ last = NoTimer /\ cleared = {} /\ selfCleared = {}

-----------------------------------------------------------------------------
(* What scripts, callbacks and microtasks do. *)

Scripting == pc \in {"script", "callback", "microtask"}

(* set_timeout and set_interval: an interval is at least 1. *)
NewTimer(delay, interval) ==
  [id |-> nextId, target |-> Saturate(clock + delay), interval |-> interval, cancelled |-> FALSE]

SetTimer(delay, interval) ==
  /\ Scripting /\ nextId \in Ids
  /\ timers' = Append(timers, NewTimer(delay, interval))
  /\ nextId' = nextId + 1
  /\ UNCHANGED <<clock, queued, pc, goal, iterations, executed, running, history>>

SetTimeout(delay) == SetTimer(delay, OneShot)
(* Mutant: the target is not capped. *)
MutSetInterval(delay) ==
  /\ Scripting /\ nextId \in Ids
  /\ timers' = Append(timers, [NewTimer(delay, Later(delay, 1)) EXCEPT !.target = clock + delay])
  /\ nextId' = nextId + 1
  /\ UNCHANGED <<clock, queued, pc, goal, iterations, executed, running, history>>
SetInterval(delay) == SetTimer(Later(delay, 1), Later(delay, 1))

(* clear_timer marks the timers of the list; the running one is not in it. *)
ClearTimer(id) ==
  /\ Scripting
  /\ timers' = [i \in DOMAIN timers |->
                  IF timers[i].id = id THEN [timers[i] EXCEPT !.cancelled = TRUE] ELSE timers[i]]
  /\ cleared' = cleared \cup {id}
  /\ selfCleared' = IF running # NoTimer /\ running.id = id THEN selfCleared \cup {id}
                                                            ELSE selfCleared
  /\ UNCHANGED <<nextId, clock, queued, pc, goal, iterations, executed, running, last>>

QueueMicrotask ==
  /\ Scripting /\ queued < MaxQueued
  /\ queued' = queued + 1
  /\ UNCHANGED <<timers, nextId, clock, pc, goal, iterations, executed, running, history>>

Script ==
  \/ \E delay \in Delays : SetTimeout(delay) \/ SetInterval(delay)
  \/ \E id \in 1..(nextId - 1) : ClearTimer(id)
  \/ QueueMicrotask

-----------------------------------------------------------------------------
(* Context::eval, and run_microtasks after a script or a callback. *)

BeginScript ==
  /\ pc = "idle" /\ pc' = "script"
  /\ UNCHANGED <<timers, nextId, clock, queued, goal, iterations, executed, running, history>>

(* The script or the callback is over: drain the microtasks. *)
Return ==
  /\ pc \in {"script", "callback"}
  /\ pc' = "checkpoint" /\ executed' = 0
  /\ UNCHANGED <<timers, nextId, clock, queued, goal, iterations, running, history>>

AfterTask == "checkpoint"

AfterCheckpoint == IF running = NoTimer THEN "idle" ELSE "reschedule"

BeginMicrotask ==
  /\ pc = "checkpoint" /\ queued > 0 /\ executed < MicrotaskLimit
  /\ queued' = queued - 1 /\ executed' = executed + 1
  /\ pc' = "microtask"
  /\ UNCHANGED <<timers, nextId, clock, goal, iterations, running, history>>

EndMicrotask ==
  /\ pc = "microtask"
  /\ pc' = AfterTask
  /\ UNCHANGED <<timers, nextId, clock, queued, goal, iterations, executed, running, history>>

CheckpointDone ==
  /\ pc = "checkpoint" /\ queued = 0
  /\ pc' = AfterCheckpoint
  /\ UNCHANGED <<timers, nextId, clock, queued, goal, iterations, executed, running, history>>

(* Too many microtasks: the error is dropped, and so is the task popped. *)
CheckpointAborted ==
  /\ pc = "checkpoint" /\ queued > 0 /\ executed >= MicrotaskLimit
  /\ queued' = queued - 1
  /\ pc' = AfterCheckpoint
  /\ UNCHANGED <<timers, nextId, clock, goal, iterations, executed, running, history>>

-----------------------------------------------------------------------------
(* advance_time, run_all, and the loop of run_until. *)

BeginRun(target) ==
  /\ pc = "idle"
  /\ goal' = target /\ iterations' = 0
  /\ pc' = "select"
  /\ UNCHANGED <<timers, nextId, clock, queued, executed, running, history>>

AdvanceTime(ms) == BeginRun(Saturate(clock + ms))

RunAll ==
  LET targets == {t.target : t \in Active} \cup {0}
  IN BeginRun(CHOOSE m \in targets : \A n \in targets : n <= m)

(* Mutant: cancelled timers are kept. *)
MutRetained == timers
Retained ==
  LET kept == {i \in DOMAIN timers : ~timers[i].cancelled}
      Place(i) == Cardinality({j \in kept : j <= i})
  IN [k \in 1..Cardinality(kept) |-> timers[CHOOSE i \in kept : Place(i) = k]]

Due(list) == {i \in DOMAIN list : list[i].target <= goal}

(* Mutant: the last of the timers with the earliest target. *)
MutEarliest(list) ==
  CHOOSE i \in Due(list) : \A j \in Due(list) :
    list[i].target < list[j].target \/ (list[i].target = list[j].target /\ i >= j)

Earliest(list) ==
  CHOOSE i \in Due(list) : \A j \in Due(list) :
    list[i].target < list[j].target \/ (list[i].target = list[j].target /\ i <= j)

(* Mutant: the timer stays in the list. *)
MutWithout(list, i) == list
Without(list, i) == SubSeq(list, 1, i - 1) \o SubSeq(list, i + 1, Len(list))

ClockAt(timer) == Later(clock, timer.target)

(* Mutant: iterations are not counted. *)
MutNextIteration == iterations
NextIteration == iterations + 1

CallTimer ==
  /\ pc = "select" /\ NextIteration <= MaxIterations
  /\ LET list == Retained
     IN /\ Due(list) # {}
        /\ timers' = Without(list, Earliest(list))
        /\ running' = list[Earliest(list)]
  /\ clock' = ClockAt(running')
  /\ last' = running'
  /\ iterations' = NextIteration
  /\ pc' = "callback"
  /\ UNCHANGED <<nextId, queued, goal, executed, cleared, selfCleared>>

(* An interval not cancelled meanwhile goes back to the list. *)
Reschedule ==
  /\ pc = "reschedule"
  /\ timers' = IF running.interval # OneShot
                  /\ ~\E t \in Elements(timers) : t.id = running.id /\ t.cancelled
               THEN Append(timers, [running EXCEPT !.target = Saturate(@ + running.interval)])
               ELSE timers
  /\ running' = NoTimer
  /\ pc' = "select"
  /\ UNCHANGED <<nextId, clock, queued, goal, iterations, executed, history>>

RunDone ==
  /\ pc = "select" /\ NextIteration <= MaxIterations /\ Due(Retained) = {}
  /\ timers' = Retained
  /\ clock' = Later(clock, goal)
  /\ goal' = 0 /\ iterations' = 0
  /\ pc' = "idle"
  /\ UNCHANGED <<nextId, queued, executed, running, last, cleared, selfCleared>>

(* The run gives up, and moves the clock all the same. *)
RunAborted ==
  /\ pc = "select" /\ NextIteration > MaxIterations
  /\ clock' = Later(clock, goal)
  /\ goal' = 0 /\ iterations' = 0
  /\ pc' = "idle"
  /\ UNCHANGED <<timers, nextId, queued, executed, running, last, cleared, selfCleared>>

Host == BeginScript \/ RunAll \/ \E ms \in Times : AdvanceTime(ms)

Loop ==
  \/ Return \/ BeginMicrotask \/ EndMicrotask \/ CheckpointDone \/ CheckpointAborted
  \/ CallTimer \/ Reschedule \/ RunDone \/ RunAborted

Next == Host \/ Script \/ Loop

Spec == Init /\ [][Next]_vars
FairSpec == Spec /\ WF_vars(Loop)
-----------------------------------------------------------------------------
(* Properties *)

TypeOK ==
  /\ timers \in Seq(Timer) /\ nextId \in 1..(MaxTimers + 1) /\ clock \in Times
  /\ queued \in 0..MaxQueued /\ goal \in Times
  /\ pc \in {"idle", "script", "checkpoint", "microtask", "select", "callback", "reschedule"}
  /\ iterations \in 0..MaxIterations /\ executed \in 0..MicrotaskLimit
  /\ running \in Timer \cup {NoTimer} /\ last \in Timer \cup {NoTimer}
  /\ cleared \subseteq Ids /\ selfCleared \subseteq cleared

(* A timer is scheduled once: no two entries of the list share an id, and  *)
(* the timer whose callback runs is not in the list, so rescheduling it    *)
(* cannot make it fire twice per period (run_until, remove and push).      *)
ScheduledOnce ==
  /\ \A i, j \in DOMAIN timers : timers[i].id = timers[j].id => i = j
  /\ running # NoTimer => \A i \in DOMAIN timers : timers[i].id # running.id

(* Timers fire in the order of their targets and, for equal targets, in    *)
(* the order they were set: whatever callbacks and microtasks schedule or  *)
(* clear, no active timer is ever due before the one called last.          *)
FiresInOrder ==
  last # NoTimer => \A t \in Active :
    /\ t.target >= last.target
    /\ t.target = last.target /\ t.interval = OneShot /\ last.interval = OneShot => t.id > last.id

(* A timer cleared while another callback, a script or a microtask runs    *)
(* never fires afterwards.                                                 *)
ClearedStaysQuiet ==
  [][running = NoTimer /\ running' # NoTimer => running'.id \notin cleared \ selfCleared]_vars

(* Every run ends, even when an interval at the end of time falls due      *)
(* again at once: max_iterations is what stops it.                         *)
RunEnds == pc = "select" ~> pc = "idle"

=============================================================================
