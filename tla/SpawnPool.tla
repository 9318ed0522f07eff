----------------------------- MODULE SpawnPool -----------------------------
(***************************************************************************)
(* spawnpool.ts: the one counter every awaited subprocess of the server    *)
(* goes through, and the JavaScript event loop it runs on.                 *)
(*                                                                         *)
(* A job is one call of withSpawnSlot.  What is between two awaits runs    *)
(* without interruption, but resolving a promise only queues what awaits   *)
(* it: micro is that queue, and a job's stage says what its entry will do. *)
(* Timers fire only when the queue is empty.                               *)
(***************************************************************************)
EXTENDS Integers, Sequences, FiniteSets

CONSTANTS
    Jobs,       \* the calls of withSpawnSlot
    Limit,      \* limit()
    TestSeam    \* whether __resetSpawnPoolForTest may be called

ASSUME PoolConstants ==
    /\ IsFiniteSet(Jobs)
    /\ Limit \in Nat \ {0}
    /\ TestSeam \in BOOLEAN

VARIABLES
    stage,      \* where each call is in withSpawnSlot
    holding,    \* the calls whose `released` is false, of this generation
    inflight,
    waiting,
    micro       \* continuations ready to run, oldest first

vars == <<stage, holding, inflight, waiting, micro>>

\* "calling", "woken" and "settled" have an entry in micro.
Stage == {"idle", "calling", "waiting", "woken", "running", "settled", "done"}
At(s) == {j \in Jobs : stage[j] = s}

Init ==
    /\ stage = [j \in Jobs |-> "idle"]
    /\ holding = {}
    /\ inflight = 0
    /\ waiting = <<>>
    /\ micro = <<>>

\* Some code of the server is about to call withSpawnSlot.
Call(j) ==
    /\ stage[j] = "idle"
    /\ stage' = [stage EXCEPT ![j] = "calling"]
    /\ micro' = Append(micro, j)
    /\ UNCHANGED <<holding, inflight, waiting>>

\* The oldest continuation is j's, and is of this kind.
Turn(j, s) == micro # <<>> /\ j = Head(micro) /\ stage[j] = s

\* inflight++ and on to fn().
TakeSlot(j) ==
    /\ inflight' = inflight + 1
    /\ holding' = holding \cup {j}
    /\ stage' = [stage EXCEPT ![j] = "running"]
    /\ micro' = Tail(micro)
    /\ UNCHANGED waiting

Enter(j) == Turn(j, "calling") /\ inflight < Limit /\ TakeSlot(j)

Queue(j) ==
    /\ Turn(j, "calling")
    /\ inflight >= Limit
    /\ waiting' = Append(waiting, j)
    /\ stage' = [stage EXCEPT ![j] = "waiting"]
    /\ micro' = Tail(micro)
    /\ UNCHANGED <<holding, inflight>>

\* A woken call goes straight on: the limit is not looked at again.
Resume(j) == Turn(j, "woken") /\ TakeSlot(j)

\* fn() settled, with a value or an error: queue the `finally`.
Return(j) ==
    /\ stage[j] = "running"
    /\ stage' = [stage EXCEPT ![j] = "settled"]
    /\ micro' = Append(micro, j)
    /\ UNCHANGED <<holding, inflight, waiting>>

\* Mutant: the freed slot wakes nobody.
ReleaseSilently(j, s, queue) ==
    /\ holding' = holding \ {j}
    /\ inflight' = inflight - 1
    /\ stage' = [stage EXCEPT ![j] = s]
    /\ micro' = queue
    /\ UNCHANGED waiting

\* release(): the slot is free, and the first in line is woken.
Release(j, s, queue) ==
    /\ holding' = holding \ {j}
    /\ inflight' = inflight - 1
    /\ IF waiting = <<>>
       THEN /\ stage' = [stage EXCEPT ![j] = s]
            /\ micro' = queue
            /\ UNCHANGED waiting
       ELSE /\ stage' = [stage EXCEPT ![j] = s, ![Head(waiting)] = "woken"]
            /\ micro' = Append(queue, Head(waiting))
            /\ waiting' = Tail(waiting)

\* Mutant: nobody asks whether the guard has given the slot back already.
FinishTwice(j) == Turn(j, "settled") /\ Release(j, "done", Tail(micro))

\* The `finally`: a slot the guard took back, or a reset forgot, stays so.
Finish(j) ==
    /\ Turn(j, "settled")
    /\ IF j \in holding
       THEN Release(j, "done", Tail(micro))
       ELSE /\ stage' = [stage EXCEPT ![j] = "done"]
            /\ micro' = Tail(micro)
            /\ UNCHANGED <<holding, inflight, waiting>>

\* Mutant: the guard gives the slot back and forgets that it did.
GuardForgets(j) ==
    /\ micro = <<>>
    /\ stage[j] = "running" /\ j \in holding
    /\ inflight' = inflight - 1
    /\ UNCHANGED <<stage, holding, waiting, micro>>

\* Mutant: the guard gives the slot back to nobody.
GuardSilent(j) ==
    /\ micro = <<>>
    /\ stage[j] = "running" /\ j \in holding
    /\ holding' = holding \ {j}
    /\ inflight' = inflight - 1
    /\ UNCHANGED <<stage, waiting, micro>>

\* The guard timer: fn() has not settled, its slot is given back all the same.
Guard(j) ==
    /\ micro = <<>>
    /\ stage[j] = "running" /\ j \in holding
    /\ Release(j, "running", micro)

\* __resetSpawnPoolForTest: slots are forgotten, every waiter is let go.
Reset ==
    /\ TestSeam
    /\ inflight' = 0
    /\ holding' = {}
    /\ stage' = [j \in Jobs |-> IF stage[j] = "waiting" THEN "woken" ELSE stage[j]]
    /\ micro' = micro \o waiting
    /\ waiting' = <<>>

Continue(j) == Enter(j) \/ Queue(j) \/ Resume(j) \/ Finish(j)

Next ==
    \/ \E j \in Jobs : Call(j) \/ Continue(j) \/ Return(j) \/ Guard(j)
    \/ Reset

Spec == Init /\ [][Next]_vars

\* The event loop drains its queue and its timers fire.  No subprocess need end.
Fairness ==
    /\ WF_vars(\E j \in Jobs : Continue(j))
    /\ \A j \in Jobs : WF_vars(Guard(j))

FairSpec == Spec /\ Fairness
-----------------------------------------------------------------------------
\* Every variable keeps its type: above all the count never goes negative,
\* which would lift the limit for good.
TypeOK ==
    /\ stage \in [Jobs -> Stage]
    /\ holding \subseteq Jobs
    /\ inflight \in Nat
    /\ waiting \in Seq(Jobs)
    /\ micro \in Seq(Jobs)

\* The count is the number of slots really out, for every order in which a
\* subprocess ends, its guard fires and the pool is reset: no slot is leaked
\* (the pool would drain to nothing) and none is returned twice.
SlotsAccounted ==
    /\ inflight = Cardinality(holding)
    /\ \A j \in holding : stage[j] \in {"running", "settled"}

\* No wake-up is lost: while a call waits, every slot is out or on its way to a
\* call that has been woken.
NoIdleSlot == waiting # <<>> => inflight + Cardinality(At("woken")) >= Limit

\* Who waits is in the line, once.
LineMatchesStages ==
    /\ \A i \in DOMAIN waiting : stage[waiting[i]] = "waiting"
    /\ \A i, k \in DOMAIN waiting : i # k => waiting[i] # waiting[k]

\* Waiting is not dropping: whoever asks gets to run, even if every subprocess
\* ahead of it hangs for ever.
EveryCallRuns ==
    \A j \in Jobs : stage[j] = "calling" ~> stage[j] \in {"running", "settled", "done"}
=============================================================================
