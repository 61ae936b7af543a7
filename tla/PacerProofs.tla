---------------------------- MODULE PacerProofs ----------------------------
(***************************************************************************)
(* For any number of requesters and any delays: starts keep their spacing, *)
(* a live pacer lets one request through at a time and none in a cooldown, *)
(* and a backfill's cooldown is broken by one request at most.             *)
(***************************************************************************)
EXTENDS Pacer, TLAPS

\* The lock is held by the requester that sleeps, and in a live pacer the serial lock by
\* the one that waits for it, sleeps or has a request under way.
LocksHeld ==
  /\ \A r \in Requesters : state[r] = "sleeping" => lock = r
  /\ backfill => \A r \in Requesters : state[r] # "turn"
  /\ ~backfill => \A r \in Requesters : state[r] \in {"waiting", "sleeping", "sent"} => serial = r

\* What the next start owes is never more than what it will wait for.
OwedIsWaitedFor ==
  /\ owed <= gap
  /\ \A r \in Requesters : state[r] = "sleeping" => owed <= sleep[r]

\* A sleep begun since the last failure outlasts the cooldown; in a live pacer, and once one
\* request has started early, every sleep was.
CooldownIsSleptOut ==
  /\ early <= IF backfill THEN 1 ELSE 0
  /\ ~backfill \/ (early = 1 /\ cool > 0) =>
       \A r \in Requesters : state[r] = "sleeping" => cool <= sleep[r]

IInv == TypeOK /\ LocksHeld /\ OwedIsWaitedFor /\ CooldownIsSleptOut

-----------------------------------------------------------------------------

LEMMA DelayType == ASSUME PacerAssumption, TypeOK PROVE Delay \in Nat /\ gap <= Delay /\ cool <= Delay
BY DEF TypeOK, Delay, Larger

LEMMA RetryDelaysType ==
  ASSUME PacerAssumption, NEW n \in 0 .. Attempts - 1, NEW d \in RetryDelays(n)
  PROVE  d \in Nat
<1>1. Doublings[n + 1] \in Nat
  <2>1. n + 1 \in 1 .. 5
    BY DEF PacerAssumption
  <2>2. n + 1 = 1 \/ n + 1 = 2 \/ n + 1 = 3 \/ n + 1 = 4 \/ n + 1 = 5
    BY <2>1
  <2> QED
    BY <2>2 DEF Doublings
<1>2. InitialBackoff * Doublings[n + 1] \in Nat
  BY <1>1 DEF PacerAssumption
<1>3. Smaller(MaxBackoff, InitialBackoff * Doublings[n + 1]) \in Nat
  BY <1>2 DEF PacerAssumption, Smaller
<1> HIDE DEF Doublings
<1> QED
  BY <1>3 DEF PacerAssumption, RetryDelays

LEMMA InitIInv == PacerAssumption /\ Init => IInv
BY DEF PacerAssumption, Init, IInv, TypeOK, LocksHeld, OwedIsWaitedFor, CooldownIsSleptOut

LEMMA TickKeeps ==
  ASSUME PacerAssumption, IInv, Tick
  PROVE  IInv'
<1> USE DEF IInv, Tick, Less
<1>1. TypeOK'
  BY DEF TypeOK
<1>2. LocksHeld'
  BY DEF LocksHeld
<1>3. OwedIsWaitedFor'
  BY DEF OwedIsWaitedFor, TypeOK
<1>4. CooldownIsSleptOut'
  BY DEF CooldownIsSleptOut, TypeOK
<1> QED
  BY <1>1, <1>2, <1>3, <1>4

\* Steps that change neither the times nor who sleeps.
LEMMA ArriveKeeps ==
  ASSUME PacerAssumption, IInv, NEW r \in Requesters, Begin(r) \/ TakeTurn(r)
  PROVE  IInv'
<1> USE DEF IInv, Begin, TakeTurn, Ready, pacer, history
<1>1. TypeOK'
  BY DEF TypeOK, PacerAssumption
<1>2. LocksHeld'
  BY DEF LocksHeld, TypeOK, PacerAssumption
<1>3. OwedIsWaitedFor'
  BY DEF OwedIsWaitedFor, TypeOK
<1>4. CooldownIsSleptOut'
  BY DEF CooldownIsSleptOut, TypeOK
<1> QED
  BY <1>1, <1>2, <1>3, <1>4

LEMMA EnterKeeps ==
  ASSUME PacerAssumption, IInv, NEW r \in Requesters, Enter(r)
  PROVE  IInv'
<1> USE DEF IInv, Enter
<1>1. Delay \in Nat /\ gap <= Delay /\ cool <= Delay
  BY DelayType
<1>2. CASE Delay = 0
  <2>1. TypeOK'
    BY <1>1, <1>2 DEF TypeOK, Started, PacerAssumption
  <2>2. LocksHeld'
    BY <1>2 DEF LocksHeld, TypeOK, Started
  <2>3. OwedIsWaitedFor'
    BY <1>2 DEF OwedIsWaitedFor, LocksHeld, TypeOK, Started, PacerAssumption
  <2>4. CooldownIsSleptOut'
    BY <1>1, <1>2 DEF CooldownIsSleptOut, TypeOK, Started
  <2> QED
    BY <2>1, <2>2, <2>3, <2>4
<1>3. CASE Delay # 0
  <2>1. TypeOK'
    BY <1>1, <1>3 DEF TypeOK, history
  <2>2. LocksHeld'
    BY <1>3 DEF LocksHeld, TypeOK, PacerAssumption
  <2>3. OwedIsWaitedFor'
    BY <1>1, <1>3 DEF OwedIsWaitedFor, TypeOK, history
  <2>4. CooldownIsSleptOut'
    BY <1>1, <1>3 DEF CooldownIsSleptOut, TypeOK, history
  <2> QED
    BY <2>1, <2>2, <2>3, <2>4
<1> QED
  BY <1>2, <1>3

LEMMA WakeKeeps ==
  ASSUME PacerAssumption, IInv, NEW r \in Requesters, Wake(r)
  PROVE  IInv'
<1> USE DEF IInv, Wake, Started
<1>1. TypeOK'
  BY DEF TypeOK, PacerAssumption
<1>2. \A s \in Requesters : state'[s] # "sleeping"
  BY DEF TypeOK, LocksHeld
<1>3. LocksHeld'
  BY <1>2 DEF LocksHeld, TypeOK
<1>4. OwedIsWaitedFor'
  BY <1>2 DEF OwedIsWaitedFor, TypeOK, PacerAssumption
<1>5. CooldownIsSleptOut'
  BY <1>2 DEF CooldownIsSleptOut, TypeOK
<1> QED
  BY <1>1, <1>3, <1>4, <1>5

\* In a live pacer nobody sleeps while a request is under way.
LEMMA SentAlone ==
  ASSUME IInv, NEW r \in Requesters, state[r] = "sent", ~backfill, NEW s \in Requesters
  PROVE  state[s] \in {"waiting", "sleeping", "sent"} => s = r
BY DEF IInv, LocksHeld

LEMMA AnswerKeeps ==
  ASSUME PacerAssumption, IInv, NEW r \in Requesters, Answer(r)
  PROVE  IInv'
<1> USE DEF IInv, Answer, Leave
<1>1. TypeOK'
  BY DEF TypeOK, PacerAssumption
<1>2. LocksHeld'
  BY SentAlone DEF LocksHeld, TypeOK
<1>3. OwedIsWaitedFor'
  BY SentAlone DEF OwedIsWaitedFor, TypeOK, PacerAssumption
<1>4. CooldownIsSleptOut'
  BY DEF CooldownIsSleptOut, TypeOK
<1> QED
  BY <1>1, <1>2, <1>3, <1>4

LEMMA TransientFailureKeeps ==
  ASSUME PacerAssumption, IInv, NEW r \in Requesters, TransientFailure(r)
  PROVE  IInv'
<1> USE DEF IInv, TransientFailure, Leave, Ready, SlowDown
<1>1. PICK d \in RetryDelays(attempt[r]) : cool' = Larger(cool, d)
  OBVIOUS
<1>2. d \in Nat
  BY RetryDelaysType DEF TypeOK
<1>3. TypeOK'
  BY <1>1, <1>2 DEF TypeOK, PacerAssumption, Larger, Smaller
<1>4. LocksHeld'
  BY SentAlone DEF LocksHeld, TypeOK, PacerAssumption
<1>5. OwedIsWaitedFor'
  BY SentAlone DEF OwedIsWaitedFor, TypeOK, PacerAssumption
<1>6. CooldownIsSleptOut'
  BY SentAlone DEF CooldownIsSleptOut, TypeOK
<1> QED
  BY <1>3, <1>4, <1>5, <1>6

LEMMA CancelKeeps ==
  ASSUME PacerAssumption, IInv, NEW r \in Requesters, Cancel(r)
  PROVE  IInv'
<1> USE DEF IInv, Cancel, history
<1>1. TypeOK'
  BY DEF TypeOK
<1>2. LocksHeld'
  BY DEF LocksHeld, TypeOK, PacerAssumption
<1>3. OwedIsWaitedFor'
  BY DEF OwedIsWaitedFor, TypeOK
<1>4. CooldownIsSleptOut'
  BY DEF CooldownIsSleptOut, TypeOK
<1> QED
  BY <1>1, <1>2, <1>3, <1>4

LEMMA StutterKeeps == ASSUME IInv, UNCHANGED vars PROVE IInv'
BY DEF IInv, TypeOK, LocksHeld, OwedIsWaitedFor, CooldownIsSleptOut, vars, pacer, history

LEMMA NextKeeps == ASSUME PacerAssumption, IInv, [Next]_vars PROVE IInv'
BY TickKeeps, ArriveKeeps, EnterKeeps, WakeKeeps, AnswerKeeps, TransientFailureKeeps, CancelKeeps,
   StutterKeeps DEF Next, Step

-----------------------------------------------------------------------------

\* The strengthened invariant, on which the theorems below rest.
THEOREM InductiveInvariant == SafeSpec => []IInv
<1>1. Init => IInv
  BY InitIInv, PacerAssumption
<1>2. IInv /\ [Next]_vars => IInv'
  BY NextKeeps, PacerAssumption
<1> QED
  BY <1>1, <1>2, PTL DEF SafeSpec

\* The pacer's state keeps its types: among them, that the rate stays between its bounds.
THEOREM TypeInvariant == SafeSpec => []TypeOK
BY InductiveInvariant, PTL DEF IInv

\* A live pacer lets one request through at a time (enter, leave).
THEOREM OneAtATimeHolds == SafeSpec => []OneAtATime
<1>1. IInv => OneAtATime
  BY DEF IInv, LocksHeld, OneAtATime
<1> QED
  BY <1>1, InductiveInvariant, PTL

\* In live polling no request starts in a cooldown, whoever's failure brought it on (enter,
\* leave, fail).
THEOREM LiveCooldownKeptHolds == SafeSpec => []LiveCooldownKept
<1>1. IInv => LiveCooldownKept
  BY DEF IInv, TypeOK, CooldownIsSleptOut, LiveCooldownKept, CooldownKept
<1> QED
  BY <1>1, InductiveInvariant, PTL

\* In a backfill at most one request starts in a cooldown: the one that slept with the lock
\* when the failure came (enter, fail).
THEOREM OneEarlyAtMostHolds == SafeSpec => []OneEarlyAtMost
<1>1. IInv => OneEarlyAtMost
  BY DEF IInv, TypeOK, CooldownIsSleptOut, OneEarlyAtMost
<1> QED
  BY <1>1, InductiveInvariant, PTL

\* A request that starts was let in by Enter, or had slept.
LEMMA StartsHow ==
  ASSUME PacerAssumption, IInv, [Next]_vars, NEW r \in Requesters, Starts(r)
  PROVE  (Delay = 0) \/ (state[r] = "sleeping" /\ sleep[r] = 0)
<1>1. CASE \E s \in Requesters : Enter(s) /\ Delay # 0
  BY <1>1 DEF Starts, Enter, IInv, TypeOK
<1>2. CASE \E s \in Requesters : Wake(s)
  BY <1>2 DEF Starts, Wake, Started, IInv, TypeOK
<1>3. CASE Tick \/ UNCHANGED vars \/ \E s \in Requesters : Begin(s) \/ TakeTurn(s) \/ Cancel(s)
  BY <1>3 DEF Starts, Tick, vars, Begin, TakeTurn, Cancel, Ready, IInv, TypeOK
<1>4. CASE \E s \in Requesters : Answer(s) \/ TransientFailure(s)
  BY <1>4 DEF Starts, Answer, TransientFailure, Ready, IInv, TypeOK
<1> QED
  BY <1>1, <1>2, <1>3, <1>4 DEF Next, Step

\* Starts keep the spacing the pacer asks for, and live ones the gap after a response.
THEOREM SpacedHolds == SafeSpec => Spaced
<1>1. IInv /\ [Next]_vars => [\A r \in Requesters : Starts(r) => owed = 0]_vars
  <2>1. ASSUME IInv, [Next]_vars, NEW r \in Requesters, Starts(r) PROVE owed = 0
    <3>1. (Delay = 0) \/ (state[r] = "sleeping" /\ sleep[r] = 0)
      BY <2>1, StartsHow, PacerAssumption
    <3>2. gap <= Delay /\ Delay \in Nat
      BY <2>1, DelayType, PacerAssumption DEF IInv
    <3> QED
      BY <2>1, <3>1, <3>2 DEF IInv, TypeOK, OwedIsWaitedFor
  <2> QED
    BY <2>1
<1> QED
  BY <1>1, InductiveInvariant, PTL DEF SafeSpec, Spaced

=============================================================================
