----------------------------- MODULE WorkerPool -----------------------------
(***************************************************************************)
(* HealthChecker.Run: one goroutine keeps the pool of workers at the size  *)
(* last asked for, the caller's own (the feeder) loads the registry and    *)
(* hands node after node to the workers.  Both hand over on unbuffered     *)
(* channels: nodeCh to feed a worker, exitCh to dismiss one; an idle       *)
(* worker takes from whichever is offered.                                 *)
(*                                                                         *)
(* Workers are all alike and are counted.  What a worker does with a node  *)
(* is HealthCheck's business.  A sleep is a step that may take arbitrarily *)
(* long, so a look that leads to nothing but a sleep is no step at all.    *)
(***************************************************************************)
EXTENDS Integers

CONSTANTS
  Sizes,        \* the arguments of ResetCheckWorkerPoolSize, uint32
  Half,         \* 2^31: uint32 is 0 .. 2 * Half - 1, int32 is -Half .. Half - 1
  DefaultSize,  \* the size that 0 stands for
  MaxNodes,     \* bound on the nodes of the registry
  MaxCommands   \* bound on the calls of the setters

ASSUME HalfAssumption == Half \in Nat \ {0}
ASSUME SizesAssumption ==
  /\ Sizes \subseteq 0 .. 2 * Half - 1
  /\ DefaultSize \in 1 .. Half - 1
ASSUME BoundsAssumption == MaxNodes \in Nat /\ MaxCommands \in Nat

VARIABLES
  size,      \* checkWorkerPoolSize
  isPaused, isExited,
  commands,  \* how many calls of the setters there were
  mpc,       \* where the manager of the pool stands
  old,       \* its oldWorkerPoolSize
  want,      \* its workerPoolSize
  left,      \* the workers it still has to start, or (negative) to dismiss
  idle,      \* the workers waiting for a node or for exitCh
  busy,      \* the workers checking a node
  fpc,       \* where the feeder stands
  queued,    \* the nodes it still has to hand out
  wide       \* history: the manager has seen a size that is no int32

settings == <<size, isPaused, isExited, commands>>
manager  == <<mpc, old, want, left, wide>>
feeder   == <<fpc, queued>>
vars     == <<settings, manager, idle, busy, feeder>>

Init ==
  /\ size \in Sizes
  /\ isPaused = FALSE
  /\ isExited = FALSE
  /\ commands = 0
  /\ mpc = "look"
  /\ old = 0
  /\ want = 0
  /\ left = 0
  /\ idle = 0
  /\ busy = 0
  /\ fpc = "look"
  /\ queued = 0
  /\ wide = FALSE

(***************************************************************************)
(* The conversion of a uint32 to an int32, and an int32 subtraction.       *)
(***************************************************************************)
ToInt32(n) == IF n < Half THEN n ELSE n - 2 * Half

Minus(m, n) ==
  CASE m - n >= Half  -> m - n - 2 * Half
    [] m - n < -Half  -> m - n + 2 * Half
    [] OTHER          -> m - n

\* The size the pool is to have.
Asked == IF size = 0 THEN DefaultSize ELSE size

Pool == idle + busy
-----------------------------------------------------------------------------
\* ResetCheckWorkerPoolSize, Exit, Pause and Resume: one store each.
Command ==
  /\ commands < MaxCommands
  /\ commands' = commands + 1
  /\ UNCHANGED <<manager, idle, busy, feeder>>

ResetSize(n) == Command /\ size' = n /\ UNCHANGED <<isPaused, isExited>>
Exit         == Command /\ isExited' = TRUE /\ UNCHANGED <<size, isPaused>>
Pause        == Command /\ isPaused' = TRUE /\ UNCHANGED <<size, isExited>>
Resume       == Command /\ isPaused' = FALSE /\ UNCHANGED <<size, isExited>>
-----------------------------------------------------------------------------
(***************************************************************************)
(* The manager.                                                            *)
(***************************************************************************)
ManagerExits ==
  /\ mpc = "look"
  /\ isExited
  /\ mpc' = "done"
  /\ UNCHANGED <<settings, old, want, left, wide, idle, busy, feeder>>

\* Seeded fault: the difference to what there was is not taken.
LookAfresh ==
  /\ mpc = "look"
  /\ ~isExited
  /\ Asked # old
  /\ want' = Asked
  /\ left' = ToInt32(Asked)
  /\ mpc' = "adjust"
  /\ wide' = (wide \/ Asked >= Half)
  /\ UNCHANGED <<settings, old, idle, busy, feeder>>

Look ==
  /\ mpc = "look"
  /\ ~isExited
  /\ Asked # old
  /\ want' = Asked
  /\ left' = Minus(ToInt32(Asked), ToInt32(old))
  /\ mpc' = "adjust"
  /\ wide' = (wide \/ Asked >= Half)
  /\ UNCHANGED <<settings, old, idle, busy, feeder>>

Start ==
  /\ mpc = "adjust"
  /\ left > 0
  /\ left' = left - 1
  /\ idle' = idle + 1
  /\ UNCHANGED <<settings, mpc, old, want, wide, busy, feeder>>

\* exitCh <- struct{}{} meets an idle worker.
Dismiss ==
  /\ mpc = "adjust"
  /\ left < 0
  /\ idle > 0
  /\ left' = left + 1
  /\ idle' = idle - 1
  /\ UNCHANGED <<settings, mpc, old, want, wide, busy, feeder>>

\* Seeded fault: what was asked for is forgotten.
AdjustedForgotten ==
  /\ mpc = "adjust"
  /\ left = 0
  /\ mpc' = "look"
  /\ UNCHANGED <<settings, old, want, left, wide, idle, busy, feeder>>

Adjusted ==
  /\ mpc = "adjust"
  /\ left = 0
  /\ old' = want
  /\ mpc' = "look"
  /\ UNCHANGED <<settings, want, left, wide, idle, busy, feeder>>
-----------------------------------------------------------------------------
(***************************************************************************)
(* The feeder.  isExited and isPaused are looked at between rounds only.   *)
(***************************************************************************)
FeederExits ==
  /\ fpc = "look"
  /\ isExited
  /\ fpc' = "done"
  /\ UNCHANGED <<settings, manager, idle, busy, queued>>

Load ==
  /\ fpc = "look"
  /\ ~isExited
  /\ ~isPaused
  /\ queued' \in 0 .. MaxNodes
  /\ fpc' = "feed"
  /\ UNCHANGED <<settings, manager, idle, busy>>

\* nodeCh <- node meets an idle worker.
Hand ==
  /\ fpc = "feed"
  /\ queued > 0
  /\ idle > 0
  /\ queued' = queued - 1
  /\ idle' = idle - 1
  /\ busy' = busy + 1
  /\ UNCHANGED <<settings, manager, fpc>>

\* Seeded fault: the round is left as soon as Exit is called.
RoundEndsEarly ==
  /\ fpc = "feed"
  /\ queued = 0 \/ isExited
  /\ fpc' = "look"
  /\ UNCHANGED <<settings, manager, idle, busy, queued>>

RoundEnds ==
  /\ fpc = "feed"
  /\ queued = 0
  /\ fpc' = "look"
  /\ UNCHANGED <<settings, manager, idle, busy, queued>>

\* Seeded fault: a worker ends with its check.
FinishAndQuit ==
  /\ busy > 0
  /\ busy' = busy - 1
  /\ UNCHANGED <<settings, manager, idle, feeder>>

\* A worker has checked its node.
Finish ==
  /\ busy > 0
  /\ busy' = busy - 1
  /\ idle' = idle + 1
  /\ UNCHANGED <<settings, manager, feeder>>
-----------------------------------------------------------------------------
ManagerStep == ManagerExits \/ Look \/ Start \/ Adjusted
FeederStep  == FeederExits \/ Load \/ RoundEnds

Next ==
  \/ \E n \in Sizes : ResetSize(n)
  \/ Exit \/ Pause \/ Resume
  \/ ManagerStep \/ Dismiss
  \/ FeederStep \/ Hand \/ Finish

Spec == Init /\ [][Next]_vars

(***************************************************************************)
(* Goroutines run, checks end (each ping has a timeout), and of the two    *)
(* channels an idle worker waits on neither is passed over for ever: a     *)
(* select with both ready chooses at random.                               *)
(***************************************************************************)
Fairness ==
  /\ WF_vars(ManagerStep)
  /\ WF_vars(FeederStep)
  /\ WF_vars(Finish)
  /\ SF_vars(Dismiss)
  /\ SF_vars(Hand)

FairSpec == Spec /\ Fairness
-----------------------------------------------------------------------------
Uint32 == 0 .. 2 * Half - 1
Int32  == -Half .. Half - 1

(***************************************************************************)
(* Every variable has its type, and no two of the counters disagree on     *)
(* whether an adjustment is under way.                                     *)
(***************************************************************************)
TypeOK ==
  /\ size \in Sizes
  /\ isPaused \in BOOLEAN /\ isExited \in BOOLEAN
  /\ commands \in 0 .. MaxCommands
  /\ mpc \in {"look", "adjust", "done"}
  /\ old \in Uint32 /\ want \in Uint32 /\ left \in Int32
  /\ idle \in Nat /\ busy \in Nat
  /\ fpc \in {"look", "feed", "done"}
  /\ queued \in 0 .. MaxNodes
  /\ wide \in BOOLEAN
  /\ mpc # "adjust" => left = 0
  /\ fpc # "feed" => queued = 0

(***************************************************************************)
(* However often the size is reset, also while the pool is being adjusted, *)
(* the workers there are and those still to be started or dismissed make   *)
(* up the size that was last looked at: none is started twice, dismissed   *)
(* twice or lost.  A size of 2^31 or more spoils that for good.            *)
(***************************************************************************)
PoolMatches == wide \/ Pool + left = IF mpc = "adjust" THEN want ELSE old

(***************************************************************************)
(* Whatever the sizes, the same holds up to a multiple of 2^32: a size of  *)
(* 2^31 or more above the pool's dismisses instead of starting.            *)
(***************************************************************************)
PoolCongruent ==
  (Pool + left - IF mpc = "adjust" THEN want ELSE old) % (2 * Half) = 0

(***************************************************************************)
(* When the setters are left alone the pool gets the size asked for last.  *)
(***************************************************************************)
PoolConverges == <>[](isExited \/ wide \/ Pool = Asked)

(***************************************************************************)
(* Run returns after Exit, whatever round it is in, unless Exit came       *)
(* before the manager had started its first worker: then the feeder hangs  *)
(* on its first node.  With too large a size, the manager may have sent    *)
(* every worker away, and wait for more.                                   *)
(***************************************************************************)
ExitEndsRun ==
  isExited ~> (fpc = "done" \/ (Pool = 0 /\ (wide \/ mpc = "done")))
=============================================================================
