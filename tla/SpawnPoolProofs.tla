--------------------------- MODULE SpawnPoolProofs ---------------------------
(***************************************************************************)
(* What the pool guarantees for every number of calls and every limit.     *)
(*                                                                         *)
(* That the count is the number of slots out needs that only a holder      *)
(* releases; that no wake-up is lost needs that a release moves exactly    *)
(* one call out of the line, so that the sum of the slots out and the      *)
(* calls woken does not drop while somebody waits.                         *)
(***************************************************************************)
EXTENDS SpawnPool, FiniteSetTheorems, TLAPS

IInv == TypeOK /\ SlotsAccounted /\ LineMatchesStages /\ NoIdleSlot

-----------------------------------------------------------------------------
\* Finite sets of calls: one element more, one element less.
LEMMA OneMore ==
    ASSUME NEW S \in SUBSET Jobs, NEW j \in Jobs, j \notin S
    PROVE  /\ Cardinality(S) \in Nat
           /\ Cardinality(S \cup {j}) = Cardinality(S) + 1
<1>1. IsFiniteSet(S)
  BY PoolConstants, FS_Subset
<1>2. QED
  BY <1>1, FS_CardinalityType, FS_AddElement

LEMMA OneLess ==
    ASSUME NEW S \in SUBSET Jobs, NEW j \in S
    PROVE  /\ Cardinality(S) \in Nat /\ Cardinality(S) >= 1
           /\ Cardinality(S \ {j}) = Cardinality(S) - 1
<1>1. IsFiniteSet(S) /\ IsFiniteSet(S \ {j})
  BY PoolConstants, FS_Subset
<1>2. Cardinality(S) \in Nat /\ Cardinality(S \ {j}) \in Nat
  BY <1>1, FS_CardinalityType
<1>3. Cardinality(S \ {j}) = Cardinality(S) - 1
  BY <1>1, FS_RemoveElement
<1>4. QED
  BY <1>2, <1>3

\* The line: who is first, and what is left behind.
LEMMA FirstInLine ==
    ASSUME TypeOK, LineMatchesStages, waiting # <<>>
    PROVE  /\ Head(waiting) \in Jobs
           /\ stage[Head(waiting)] = "waiting"
           /\ Tail(waiting) \in Seq(Jobs)
           /\ \A i \in DOMAIN Tail(waiting) :
                /\ i + 1 \in DOMAIN waiting
                /\ Tail(waiting)[i] = waiting[i + 1]
                /\ waiting[i + 1] # Head(waiting)
<1>1. waiting \in Seq(Jobs) /\ Len(waiting) \in Nat /\ Len(waiting) >= 1
  BY DEF TypeOK
<1>2. Head(waiting) = waiting[1] /\ 1 \in DOMAIN waiting
  BY <1>1
<1>3. /\ Tail(waiting) \in Seq(Jobs)
      /\ \A i \in DOMAIN Tail(waiting) :
           i + 1 \in DOMAIN waiting /\ Tail(waiting)[i] = waiting[i + 1] /\ i + 1 # 1
  BY <1>1
<1>4. QED
  BY <1>1, <1>2, <1>3 DEF LineMatchesStages

\* The first turn of the event loop's queue.
LEMMA FirstTurn ==
    ASSUME TypeOK, micro # <<>>
    PROVE  Head(micro) \in Jobs /\ Tail(micro) \in Seq(Jobs)
BY DEF TypeOK
-----------------------------------------------------------------------------
\* A call that is not waiting takes a slot: the count and the holders grow together.
LEMMA TakeSlotKeeps ==
    ASSUME IInv, NEW j \in Jobs, j \notin holding, stage[j] # "waiting",
           micro # <<>>, TakeSlot(j)
    PROVE  IInv'
<1> USE DEF IInv
<1>1. TypeOK'
  BY FirstTurn DEF TypeOK, TakeSlot, Stage
<1>2. SlotsAccounted'
  <2>1. inflight' = Cardinality(holding')
    BY OneMore DEF TypeOK, TakeSlot, SlotsAccounted
  <2>2. \A k \in holding' : stage'[k] \in {"running", "settled"}
    BY DEF TypeOK, TakeSlot, SlotsAccounted
  <2>3. QED
    BY <2>1, <2>2 DEF SlotsAccounted
<1>3. LineMatchesStages'
  BY DEF TypeOK, TakeSlot, LineMatchesStages
<1>4. NoIdleSlot'
  <2>1. CASE stage[j] = "woken"
    <3>1. At("woken")' = At("woken") \ {j} /\ j \in At("woken")
      BY <2>1 DEF TypeOK, TakeSlot, At
    <3>2. At("woken") \in SUBSET Jobs
      BY DEF At
    <3>3. Cardinality(At("woken")) \in Nat
          /\ Cardinality(At("woken")') = Cardinality(At("woken")) - 1
      BY <3>1, <3>2, OneLess
    <3>4. QED
      BY <3>3, PoolConstants DEF TypeOK, TakeSlot, NoIdleSlot
  <2>2. CASE stage[j] # "woken"
    <3>1. At("woken")' = At("woken")
      BY <2>2 DEF TypeOK, TakeSlot, At
    <3>2. Cardinality(At("woken")) \in Nat
      <4>1. At("woken") \in SUBSET Jobs
        BY DEF At
      <4>2. QED
        BY <4>1, FS_Subset, FS_CardinalityType, PoolConstants
    <3>3. QED
      BY <3>1, <3>2, PoolConstants DEF TypeOK, TakeSlot, NoIdleSlot
  <2>3. QED
    BY <2>1, <2>2
<1>5. QED
  BY <1>1, <1>2, <1>3, <1>4

\* A holder gives its slot back: one slot less out, one call more woken.
LEMMA ReleaseKeeps ==
    ASSUME IInv, NEW j \in holding, NEW s \in {"running", "done"},
           NEW queue \in Seq(Jobs), Release(j, s, queue),
           s = "running" => stage[j] = "running"
    PROVE  IInv'
<1> USE DEF IInv
<1>1. j \in Jobs /\ stage[j] # "waiting" /\ stage[j] # "woken"
  BY DEF TypeOK, SlotsAccounted
<1>2. inflight' = inflight - 1 /\ inflight' \in Nat /\ inflight' = Cardinality(holding')
  BY OneLess DEF TypeOK, SlotsAccounted, Release
<1>3. CASE waiting = <<>>
  <2>1. /\ stage' = [stage EXCEPT ![j] = s]
        /\ micro' = queue /\ waiting' = <<>> /\ holding' = holding \ {j}
    BY <1>3 DEF Release
  <2>2. TypeOK'
    BY <1>1, <1>2, <2>1 DEF TypeOK, Stage
  <2>3. SlotsAccounted'
    BY <1>1, <1>2, <2>1 DEF TypeOK, SlotsAccounted
  <2>4. LineMatchesStages' /\ NoIdleSlot'
    BY <2>1 DEF LineMatchesStages, NoIdleSlot
  <2>5. QED
    BY <2>2, <2>3, <2>4
<1>4. CASE waiting # <<>>
  <2> DEFINE w == Head(waiting)
  <2>1. /\ stage' = [stage EXCEPT ![j] = s, ![w] = "woken"]
        /\ micro' = Append(queue, w)
        /\ waiting' = Tail(waiting) /\ holding' = holding \ {j}
    BY <1>4 DEF Release
  <2>2. w \in Jobs /\ stage[w] = "waiting" /\ w # j /\ w \notin holding
    BY <1>1, <1>4, FirstInLine DEF SlotsAccounted
  <2>3. /\ stage' \in [Jobs -> Stage]
        /\ stage'[w] = "woken" /\ stage'[j] = s
        /\ \A k \in Jobs \ {j, w} : stage'[k] = stage[k]
    BY <1>1, <2>1, <2>2 DEF TypeOK, Stage
  <2>4. TypeOK'
    BY <1>2, <1>4, <2>1, <2>2, <2>3, FirstInLine DEF TypeOK
  <2>5. SlotsAccounted'
    BY <1>2, <2>1, <2>2, <2>3 DEF TypeOK, SlotsAccounted
  <2>6. LineMatchesStages'
    <3>1. \A i \in DOMAIN waiting' :
            /\ i + 1 \in DOMAIN waiting /\ waiting'[i] = waiting[i + 1]
            /\ waiting'[i] # w /\ waiting'[i] \in Jobs
      BY <1>4, <2>1, FirstInLine DEF TypeOK
    <3>2. \A i \in DOMAIN waiting' : stage'[waiting'[i]] = "waiting"
      BY <1>1, <2>3, <3>1 DEF LineMatchesStages
    <3>3. \A i, k \in DOMAIN waiting' : i # k => waiting'[i] # waiting'[k]
      <4>1. DOMAIN waiting' \subseteq Nat
        BY <1>4, <2>1, FirstInLine
      <4>2. \A i, k \in DOMAIN waiting' : i # k => i + 1 # k + 1
        BY <4>1
      <4>3. QED
        BY <3>1, <4>2 DEF LineMatchesStages
    <3>4. QED
      BY <3>2, <3>3 DEF LineMatchesStages
  <2>7. NoIdleSlot'
    <3>1. At("woken")' = At("woken") \cup {w} /\ w \notin At("woken")
      BY <1>1, <2>2, <2>3 DEF At
    <3>2. At("woken") \in SUBSET Jobs
      BY DEF At
    <3>3. Cardinality(At("woken")) \in Nat
          /\ Cardinality(At("woken")') = Cardinality(At("woken")) + 1
      BY <2>2, <3>1, <3>2, OneMore
    <3>4. QED
      BY <1>2, <1>4, <3>3, PoolConstants DEF TypeOK, NoIdleSlot
  <2>8. QED
    BY <2>4, <2>5, <2>6, <2>7
<1>5. QED
  BY <1>3, <1>4
-----------------------------------------------------------------------------
\* Who is woken does not change when a call goes from one other stage to another.
LEMMA SameWoken ==
    ASSUME stage \in [Jobs -> Stage], NEW j \in Jobs, NEW s \in Stage \ {"woken"},
           stage[j] # "woken", stage' = [stage EXCEPT ![j] = s]
    PROVE  At("woken")' = At("woken")
BY DEF At

\* Every action keeps the inductive invariant.
LEMMA Inductive == IInv /\ [Next]_vars => IInv'
<1> SUFFICES ASSUME IInv, [Next]_vars
             PROVE  IInv'
  OBVIOUS
<1> USE DEF IInv
<1>1. ASSUME NEW j \in Jobs, Call(j)
      PROVE  IInv'
  <2>1. TypeOK' /\ SlotsAccounted'
    BY <1>1 DEF Call, TypeOK, Stage, SlotsAccounted
  <2>2. LineMatchesStages'
    BY <1>1 DEF Call, TypeOK, LineMatchesStages
  <2>3. At("woken")' = At("woken")
    BY <1>1, SameWoken DEF Call, TypeOK, Stage
  <2>4. QED
    BY <1>1, <2>1, <2>2, <2>3 DEF Call, NoIdleSlot
<1>2. ASSUME NEW j \in Jobs, Enter(j) \/ Resume(j)
      PROVE  IInv'
  <2>1. stage[j] \in {"calling", "woken"} /\ micro # <<>> /\ TakeSlot(j)
    BY <1>2 DEF Enter, Resume, Turn
  <2>2. QED
    BY <2>1, TakeSlotKeeps DEF SlotsAccounted
<1>3. ASSUME NEW j \in Jobs, Queue(j)
      PROVE  IInv'
  <2>1. /\ micro # <<>> /\ stage[j] = "calling" /\ inflight >= Limit
        /\ waiting' = Append(waiting, j) /\ stage' = [stage EXCEPT ![j] = "waiting"]
        /\ micro' = Tail(micro) /\ UNCHANGED <<holding, inflight>>
    BY <1>3 DEF Queue, Turn
  <2>2. TypeOK'
    BY <2>1, FirstTurn DEF TypeOK, Stage
  <2>3. SlotsAccounted'
    BY <2>1 DEF TypeOK, SlotsAccounted
  <2>4. LineMatchesStages'
    BY <2>1 DEF TypeOK, LineMatchesStages
  <2>5. At("woken")' \in SUBSET Jobs
    BY DEF At
  <2>6. Cardinality(At("woken")') \in Nat
    BY <2>5, FS_Subset, FS_CardinalityType, PoolConstants
  <2>7. NoIdleSlot'
    BY <2>1, <2>6, PoolConstants DEF NoIdleSlot, TypeOK
  <2>8. QED
    BY <2>2, <2>3, <2>4, <2>7
<1>4. ASSUME NEW j \in Jobs, Return(j)
      PROVE  IInv'
  <2>1. TypeOK' /\ SlotsAccounted'
    BY <1>4 DEF Return, TypeOK, Stage, SlotsAccounted
  <2>2. LineMatchesStages'
    BY <1>4 DEF Return, TypeOK, LineMatchesStages
  <2>3. At("woken")' = At("woken")
    BY <1>4, SameWoken DEF Return, TypeOK, Stage
  <2>4. QED
    BY <1>4, <2>1, <2>2, <2>3 DEF Return, NoIdleSlot
<1>5. ASSUME NEW j \in Jobs, Finish(j)
      PROVE  IInv'
  <2>1. stage[j] = "settled" /\ micro # <<>>
    BY <1>5 DEF Finish, Turn
  <2>2. CASE j \in holding
    <3>1. Tail(micro) \in Seq(Jobs) /\ Release(j, "done", Tail(micro))
      BY <1>5, <2>1, <2>2, FirstTurn DEF Finish
    <3>2. QED
      BY <2>2, <3>1, ReleaseKeeps
  <2>3. CASE j \notin holding
    <3>1. /\ stage' = [stage EXCEPT ![j] = "done"]
          /\ micro' = Tail(micro) /\ UNCHANGED <<holding, inflight, waiting>>
      BY <1>5, <2>3 DEF Finish
    <3>2. TypeOK' /\ SlotsAccounted'
      BY <2>1, <2>3, <3>1, FirstTurn DEF TypeOK, Stage, SlotsAccounted
    <3>3. LineMatchesStages'
      BY <2>1, <3>1 DEF TypeOK, LineMatchesStages
    <3>4. At("woken")' = At("woken")
      BY <2>1, <3>1, SameWoken DEF TypeOK, Stage
    <3>5. QED
      BY <3>1, <3>2, <3>3, <3>4 DEF NoIdleSlot
  <2>4. QED
    BY <2>2, <2>3
<1>6. ASSUME NEW j \in Jobs, Guard(j)
      PROVE  IInv'
  <2>1. j \in holding /\ stage[j] = "running" /\ Release(j, "running", micro)
    BY <1>6 DEF Guard
  <2>2. QED
    BY <2>1, ReleaseKeeps DEF TypeOK
<1>7. CASE Reset
  <2>1. /\ inflight' = 0 /\ holding' = {} /\ waiting' = <<>>
        /\ micro' = micro \o waiting
        /\ stage' = [j \in Jobs |-> IF stage[j] = "waiting" THEN "woken" ELSE stage[j]]
    BY <1>7 DEF Reset
  <2>2. TypeOK'
    BY <2>1 DEF TypeOK, Stage
  <2>3. SlotsAccounted'
    BY <2>1, FS_EmptySet DEF SlotsAccounted
  <2>4. LineMatchesStages' /\ NoIdleSlot'
    BY <2>1 DEF LineMatchesStages, NoIdleSlot
  <2>5. QED
    BY <2>2, <2>3, <2>4
<1>8. CASE UNCHANGED vars
  <2>1. TypeOK' /\ SlotsAccounted' /\ LineMatchesStages'
    BY <1>8 DEF vars, TypeOK, SlotsAccounted, LineMatchesStages
  <2>2. At("woken")' = At("woken")
    BY <1>8 DEF vars, At
  <2>3. QED
    BY <1>8, <2>1, <2>2 DEF vars, NoIdleSlot
<1>9. QED
  BY <1>1, <1>2, <1>3, <1>4, <1>5, <1>6, <1>7, <1>8 DEF Next, Continue

LEMMA Initially == Init => IInv
<1>1. Cardinality({}) = 0
  BY FS_EmptySet
<1>2. QED
  BY <1>1 DEF Init, IInv, TypeOK, Stage, SlotsAccounted, LineMatchesStages, NoIdleSlot

\* The count stays a natural number: see TypeOK.
THEOREM TypeCorrect == Spec => []TypeOK
<1>1. IInv => TypeOK
  BY DEF IInv
<1>2. QED
  BY <1>1, Initially, Inductive, PTL DEF Spec

\* No slot is leaked and none is returned twice, whatever the order of returns,
\* guards and resets: see SlotsAccounted.
THEOREM SlotsKept == Spec => []SlotsAccounted
<1>1. IInv => SlotsAccounted
  BY DEF IInv
<1>2. QED
  BY <1>1, Initially, Inductive, PTL DEF Spec

\* No wake-up is lost: see NoIdleSlot.
THEOREM NoWakeUpLost == Spec => []NoIdleSlot
<1>1. IInv => NoIdleSlot
  BY DEF IInv
<1>2. QED
  BY <1>1, Initially, Inductive, PTL DEF Spec
=============================================================================
