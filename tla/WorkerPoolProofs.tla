-------------------------- MODULE WorkerPoolProofs --------------------------
(***************************************************************************)
(* What holds of the health checker's pool for any sizes and any width of  *)
(* an int32.                                                               *)
(***************************************************************************)
EXTENDS WorkerPool, TLAPS

\* A uint32 converted to an int32 is one, and so is a difference of two.
LEMMA Conversions ==
  ASSUME NEW m \in Uint32, NEW n \in Uint32
  PROVE  Minus(ToInt32(m), ToInt32(n)) \in Int32
BY HalfAssumption DEF Minus, ToInt32, Uint32, Int32

\* Below 2^31 the conversions change nothing.
LEMMA NarrowDifference ==
  ASSUME NEW m \in 0 .. Half - 1, NEW n \in 0 .. Half - 1
  PROVE  Minus(ToInt32(m), ToInt32(n)) = m - n
BY HalfAssumption DEF Minus, ToInt32

\* What is asked for is a uint32.
LEMMA AskedSize ==
  ASSUME size \in Sizes
  PROVE  Asked \in Uint32
BY HalfAssumption, SizesAssumption DEF Asked, Uint32

\* The manager's difference is the true one, up to a multiple of 2^32.
LEMMA CongruentDifference ==
  ASSUME NEW m \in Uint32, NEW n \in Uint32
  PROVE  \E j \in {-1, 0, 1} : Minus(ToInt32(m), ToInt32(n)) = m - n + j * (2 * Half)
<1>1. \/ Minus(ToInt32(m), ToInt32(n)) = m - n
      \/ Minus(ToInt32(m), ToInt32(n)) = m - n + 2 * Half
      \/ Minus(ToInt32(m), ToInt32(n)) = m - n - 2 * Half
  BY HalfAssumption DEF Minus, ToInt32, Uint32
<1>2. /\ m - n = m - n + 0 * (2 * Half)
      /\ m - n + 2 * Half = m - n + 1 * (2 * Half)
      /\ m - n - 2 * Half = m - n + (-1) * (2 * Half)
  BY HalfAssumption DEF Uint32
<1>3. QED
  BY <1>1, <1>2

\* A multiple leaves no remainder, and the sum of two multiples is one.
LEMMA MultipleRemainder ==
  ASSUME NEW k \in Int, NEW n \in Nat \ {0}
  PROVE  (k * n) % n = 0
BY Z3

LEMMA SumOfMultiples ==
  ASSUME NEW j \in Int, NEW k \in Int, NEW n \in Int
  PROVE  j * n + k * n = (j + k) * n
OBVIOUS
-----------------------------------------------------------------------------
(***************************************************************************)
(* Every variable of the pool keeps its type, whatever the setters do: the *)
(* int32 subtraction never leaves int32, and no counter of workers or      *)
(* nodes falls below zero.                                                 *)
(***************************************************************************)
THEOREM TypeCorrect == Spec => []TypeOK
<1>1. Init => TypeOK
  <2> SUFFICES ASSUME Init PROVE TypeOK
    OBVIOUS
  <2>1. isPaused \in BOOLEAN /\ isExited \in BOOLEAN /\ wide \in BOOLEAN
    BY Zenon DEF Init
  <2>2. 0 \in Uint32 /\ 0 \in Int32 /\ 0 \in 0 .. MaxCommands /\ 0 \in 0 .. MaxNodes
    BY HalfAssumption, BoundsAssumption DEF Uint32, Int32
  <2>3. QED
    BY <2>1, <2>2 DEF Init, TypeOK
<1>2. TypeOK /\ [Next]_vars => TypeOK'
  <2> SUFFICES ASSUME TypeOK, [Next]_vars PROVE TypeOK'
    OBVIOUS
  <2> USE HalfAssumption, SizesAssumption, BoundsAssumption
  <2>1. CASE (\E n \in Sizes : ResetSize(n)) \/ Exit \/ Pause \/ Resume
    <3>1. isPaused' \in BOOLEAN /\ isExited' \in BOOLEAN
      BY <2>1, Zenon DEF TypeOK, ResetSize, Exit, Pause, Resume
    <3>2. size' \in Sizes
      BY <2>1 DEF TypeOK, ResetSize, Exit, Pause, Resume
    <3>3. commands' \in 0 .. MaxCommands /\ UNCHANGED <<manager, idle, busy, feeder>>
      BY <2>1 DEF TypeOK, ResetSize, Exit, Pause, Resume, Command
    <3>4. QED
      BY <3>1, <3>2, <3>3 DEF TypeOK, manager, feeder
  <2>2. CASE Look
    <3>1. Asked \in Uint32 /\ old \in Uint32
      BY AskedSize DEF TypeOK
    <3>2. want' \in Uint32 /\ left' \in Int32
      BY <2>2, <3>1, Conversions DEF Look
    <3>3. wide' \in BOOLEAN
      BY <2>2, Zenon DEF Look, TypeOK
    <3>4. QED
      BY <2>2, <3>2, <3>3 DEF Look, TypeOK, settings, feeder
  <2>3. CASE ManagerExits \/ Start \/ Adjusted \/ Dismiss
    BY <2>3 DEF TypeOK, ManagerExits, Start, Adjusted, Dismiss, settings, feeder,
                Uint32, Int32
  <2>4. CASE FeederStep \/ Hand \/ Finish
    BY <2>4 DEF TypeOK, FeederStep, FeederExits, Load, RoundEnds, Hand, Finish,
                settings, manager, feeder, Uint32, Int32
  <2>5. CASE UNCHANGED vars
    BY <2>5 DEF TypeOK, vars, settings, manager, feeder
  <2>6. QED
    BY <2>1, <2>2, <2>3, <2>4, <2>5 DEF Next, ManagerStep
<1>3. QED
  BY <1>1, <1>2, PTL DEF Spec
-----------------------------------------------------------------------------
(***************************************************************************)
(* The strengthening: as long as no larger one was seen, the sizes the     *)
(* manager compares stay below 2^31, so that their int32 difference is the *)
(* true one.                                                               *)
(***************************************************************************)
Sized == wide \/ (old < Half /\ want < Half)

(***************************************************************************)
(* Until the manager has seen a size of 2^31 or more, the workers there    *)
(* are and those still to be started or dismissed always make up the size  *)
(* looked at.                                                              *)
(***************************************************************************)
THEOREM Matches == Spec => []PoolMatches
<1>1. Init => Sized /\ PoolMatches
  BY HalfAssumption DEF Init, Sized, PoolMatches, Pool
<1>2. TypeOK /\ Sized /\ PoolMatches /\ [Next]_vars => (Sized /\ PoolMatches)'
  <2> SUFFICES ASSUME TypeOK, Sized, PoolMatches, [Next]_vars
               PROVE  Sized' /\ PoolMatches'
    OBVIOUS
  <2>0. /\ old \in Nat /\ want \in Nat
        /\ idle \in Nat /\ busy \in Nat /\ left \in Int /\ Half \in Nat
        /\ mpc # "adjust" => left = 0
    BY HalfAssumption DEF TypeOK, Uint32, Int32
  <2>1. CASE (\E n \in Sizes : ResetSize(n)) \/ Exit \/ Pause \/ Resume
    BY <2>1 DEF Sized, PoolMatches, Pool, ResetSize, Exit, Pause, Resume, Command,
                manager
  <2>2. CASE Look
    <3>1. CASE wide \/ Asked >= Half
      BY <2>2, <3>1 DEF Look, Sized, PoolMatches
    <3>2. CASE ~wide /\ ~(Asked >= Half)
      <4>1. Asked \in 0 .. Half - 1 /\ old \in 0 .. Half - 1
        BY <3>2, <2>0, AskedSize DEF TypeOK, Sized, Uint32
      <4>2. left' = Asked - old
        BY <2>2, <4>1, NarrowDifference DEF Look
      <4>3. QED
        BY <2>2, <3>2, <2>0, <4>1, <4>2 DEF Look, Sized, PoolMatches, Pool
    <3>3. QED
      BY <3>1, <3>2
  <2>3. CASE ManagerExits \/ Start \/ Adjusted \/ Dismiss
    BY <2>3, <2>0 DEF Sized, PoolMatches, Pool, ManagerExits, Start, Adjusted, Dismiss
  <2>4. CASE FeederStep \/ Hand \/ Finish
    BY <2>4, <2>0 DEF Sized, PoolMatches, Pool, FeederStep, FeederExits, Load,
                      RoundEnds, Hand, Finish, manager
  <2>5. CASE UNCHANGED vars
    BY <2>5 DEF Sized, PoolMatches, Pool, vars, manager
  <2>6. QED
    BY <2>1, <2>2, <2>3, <2>4, <2>5 DEF Next, ManagerStep
<1>3. QED
  BY <1>1, <1>2, TypeCorrect, PTL DEF Spec
-----------------------------------------------------------------------------
\* By how much the pool is out, which is a number of whole 2^32s.
Excess == Pool + left - IF mpc = "adjust" THEN want ELSE old

Whole == \E k \in Int : Excess = k * (2 * Half)

(***************************************************************************)
(* Whatever the sizes asked for, and whatever the width of an int32, the   *)
(* pool accounts for the size looked at up to a multiple of 2^32.          *)
(***************************************************************************)
THEOREM Congruent == Spec => []PoolCongruent
<1>1. Init => Whole
  <2> SUFFICES ASSUME Init PROVE Whole
    OBVIOUS
  <2>1. Excess = 0 /\ 0 = 0 * (2 * Half)
    BY HalfAssumption DEF Init, Excess, Pool
  <2>2. QED
    BY <2>1 DEF Whole
<1>2. TypeOK /\ Whole /\ [Next]_vars => Whole'
  <2> SUFFICES ASSUME TypeOK, Whole, [Next]_vars PROVE Whole'
    OBVIOUS
  <2>0. /\ old \in Nat /\ want \in Nat
        /\ idle \in Nat /\ busy \in Nat /\ left \in Int /\ Half \in Nat
        /\ mpc # "adjust" => left = 0
    BY HalfAssumption DEF TypeOK, Uint32, Int32
  <2>1. CASE Look
    <3>1. PICK k \in Int : Excess = k * (2 * Half)
      BY DEF Whole
    <3>2. Asked \in Uint32 /\ old \in Uint32 /\ Asked \in Nat
      BY AskedSize DEF TypeOK, Uint32
    <3>3. PICK j \in {-1, 0, 1} : left' = Asked - old + j * (2 * Half)
      BY <2>1, <3>2, CongruentDifference DEF Look
    <3>4. Excess = Pool - old /\ Excess' = Pool + left' - Asked /\ Pool \in Nat
      BY <2>1, <2>0 DEF Look, Excess, Pool
    <3>5. Excess' = j * (2 * Half) + k * (2 * Half)
      <4>1. j * (2 * Half) \in Int /\ k * (2 * Half) \in Int
        BY <2>0
      <4>2. QED
        BY <2>0, <3>1, <3>2, <3>3, <3>4, <4>1
    <3>6. j + k \in Int /\ Excess' = (j + k) * (2 * Half)
      BY <2>0, <3>5, SumOfMultiples
    <3>7. QED
      BY <3>6 DEF Whole
  <2>2. CASE ~Look
    <3>1. CASE (\E n \in Sizes : ResetSize(n)) \/ Exit \/ Pause \/ Resume
      BY <3>1 DEF Excess, Pool, Whole, ResetSize, Exit, Pause, Resume, Command, manager
    <3>2. CASE ManagerExits \/ Start \/ Adjusted \/ Dismiss
      <4>1. Excess' = Excess
        <5>1. CASE ManagerExits
          BY <5>1 DEF Excess, Pool, ManagerExits
        <5>2. CASE Adjusted
          BY <5>2 DEF Excess, Pool, Adjusted
        <5>3. CASE Start \/ Dismiss
          BY <5>3, <2>0 DEF Excess, Pool, Start, Dismiss
        <5>4. QED
          BY <3>2, <5>1, <5>2, <5>3
      <4>2. QED
        BY <4>1 DEF Whole
    <3>3. CASE FeederStep \/ Hand \/ Finish
      <4>1. Excess' = Excess
        BY <3>3, <2>0 DEF Excess, Pool, FeederStep, FeederExits, Load, RoundEnds, Hand,
                          Finish, manager
      <4>2. QED
        BY <4>1 DEF Whole
    <3>4. CASE UNCHANGED vars
      BY <3>4 DEF Excess, Pool, Whole, vars, manager
    <3>5. QED
      BY <2>2, <3>1, <3>2, <3>3, <3>4 DEF Next, ManagerStep
  <2>3. QED
    BY <2>1, <2>2
<1>3. Whole => PoolCongruent
  <2> SUFFICES ASSUME Whole PROVE PoolCongruent
    OBVIOUS
  <2>1. PICK k \in Int : Excess = k * (2 * Half)
    BY DEF Whole
  <2>2. 2 * Half \in Nat \ {0}
    BY HalfAssumption
  <2>3. QED
    BY <2>1, <2>2, MultipleRemainder DEF PoolCongruent, Excess
<1>4. QED
  BY <1>1, <1>2, <1>3, TypeCorrect, PTL DEF Spec
=============================================================================
