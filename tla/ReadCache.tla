----------------------------- MODULE ReadCache -----------------------------
(***************************************************************************)
(* ttlread.ts over singleflight.ts, for one key: reads of something on     *)
(* GitHub that changes under them, answered from memory for a while and    *)
(* asked once when several callers want it in the same moment.             *)
(*                                                                         *)
(* A read that finds nothing to share starts a load and owns its flight.   *)
(* Each await of the code is a boundary between two actions: the request   *)
(* is sent, GitHub answers it from what is true then, the answer is        *)
(* remembered, and the flight is closed and its readers are answered.      *)
(***************************************************************************)
EXTENDS Naturals

CONSTANTS
    Readers,    \* callers of ttlRead for the key, each with one read at a time
    Nobody,     \* no flight: a value that is no reader
    Ttl,        \* ttlMs, in ticks
    MaxLoad,    \* the longest a load takes: the kill timeout of its subprocess
    MaxWrites,  \* bound: changes of what is read
    MaxTime     \* bound: the clock stops here

ASSUME CacheConstants ==
    /\ Nobody \notin Readers
    /\ Ttl \in Nat \ {0} /\ MaxLoad \in Nat
    /\ MaxWrites \in Nat /\ MaxTime \in Nat

VARIABLES
    now,
    version,    \* how often what is read has changed
    memo,       \* memo.get(key)
    flight,     \* singleflight's inflight map: who owns the running load
    load,       \* each owner's load
    read        \* each caller's read: the flight it waits for, or its answer and when it came

vars == <<now, version, memo, flight, load, read>>

Kind == {"ttl", "fresh"}

\* What a load brought back: what was true, and when.
Value    == [ok : BOOLEAN, version : Nat, seen : Nat]
NoValue  == [ok |-> FALSE, version |-> 0, seen |-> 0]
NoEntry  == [held |-> FALSE, at |-> 0, value |-> NoValue]
NoLoad   == [step |-> "none", began |-> 0, value |-> NoValue]
NotAsked == [waits |-> FALSE, kind |-> "ttl", version |-> 0,
             joined |-> Nobody, answer |-> NoValue, at |-> 0]

Init ==
    /\ now = 0 /\ version = 0
    /\ memo = NoEntry
    /\ flight = [k \in Kind |-> Nobody]
    /\ load = [r \in Readers |-> NoLoad]
    /\ read = [r \in Readers |-> NotAsked]

Loading(r) == load[r].step # "none"

\* Time passes, but no load outlives its subprocess.
Tick ==
    /\ now < MaxTime
    /\ \A r \in Readers : Loading(r) => now < load[r].began + MaxLoad
    /\ now' = now + 1
    /\ UNCHANGED <<version, memo, flight, load, read>>

\* Somebody changes what is read: this server or anyone else.
Write ==
    /\ version < MaxWrites
    /\ version' = version + 1
    /\ UNCHANGED <<now, memo, flight, load, read>>

\* forgetReads after a write, or the key falling to the sweep past MAX_ENTRIES.
Forget ==
    /\ memo.held
    /\ memo' = NoEntry
    /\ UNCHANGED <<now, version, flight, load, read>>

\* Mutant: a value as old as the ttl still counts.
FreshEnoughLoose == memo.held /\ now - memo.at <= Ttl

FreshEnough == memo.held /\ now - memo.at < Ttl

Asked(k) == [NotAsked EXCEPT !.kind = k, !.version = version]
Waits(k, owner) == [Asked(k) EXCEPT !.waits = TRUE, !.joined = owner]
Answer(asked, value) ==
    [asked EXCEPT !.waits = FALSE, !.joined = Nobody, !.answer = value, !.at = now]

Hit(r) ==
    /\ ~read[r].waits
    /\ FreshEnough
    /\ read' = [read EXCEPT ![r] = Answer(Asked("ttl"), memo.value)]
    /\ UNCHANGED <<now, version, memo, flight, load>>

\* A read that memory does not answer; a forced one does not look there.
Misses(r, k) == ~read[r].waits /\ (k = "ttl" => ~FreshEnough)

Join(r, k) ==
    /\ Misses(r, k)
    /\ flight[k] # Nobody
    /\ read' = [read EXCEPT ![r] = Waits(k, flight[k])]
    /\ UNCHANGED <<now, version, memo, flight, load>>

Start(r, k) ==
    /\ Misses(r, k)
    /\ flight[k] = Nobody
    /\ flight' = [flight EXCEPT ![k] = r]
    /\ load' = [load EXCEPT ![r] = [NoLoad EXCEPT !.step = "sent", !.began = now]]
    /\ read' = [read EXCEPT ![r] = Waits(k, r)]
    /\ UNCHANGED <<now, version, memo>>

\* The request is answered from what is true now, or fails.
See(r, ok) ==
    /\ load[r].step = "sent"
    /\ load' = [load EXCEPT ![r].step = "seen",
                            ![r].value = [ok |-> ok, version |-> version, seen |-> now]]
    /\ UNCHANGED <<now, version, memo, flight, read>>

\* Mutant: a value `keep` refuses is remembered all the same.
StoreAll(r) ==
    /\ load[r].step = "seen"
    /\ load' = [load EXCEPT ![r].step = "stored"]
    /\ memo' = [held |-> TRUE, at |-> now, value |-> load[r].value]
    /\ UNCHANGED <<now, version, flight, read>>

\* After `await load()`: remembered as of now, if it is worth keeping.
Store(r) ==
    /\ load[r].step = "seen"
    /\ load' = [load EXCEPT ![r].step = "stored"]
    /\ memo' = IF load[r].value.ok
               THEN [held |-> TRUE, at |-> now, value |-> load[r].value] ELSE memo
    /\ UNCHANGED <<now, version, flight, read>>

\* What the readers of r's flight become when it lands.
Answered(r) ==
    [q \in Readers |->
        IF read[q].waits /\ read[q].joined = r THEN Answer(read[q], load[r].value) ELSE read[q]]

\* Mutant: the entry is dropped by a `.then`, which a failure skips.
SettleIfKept(r) ==
    /\ load[r].step = "stored"
    /\ flight' = IF load[r].value.ok THEN [flight EXCEPT ![read[r].kind] = Nobody] ELSE flight
    /\ read' = Answered(r)
    /\ load' = [load EXCEPT ![r] = NoLoad]
    /\ UNCHANGED <<now, version, memo>>

\* Mutant: a failure answers nobody but the caller that started the load.
SettleOwner(r) ==
    /\ load[r].step = "stored"
    /\ flight' = [flight EXCEPT ![read[r].kind] = Nobody]
    /\ read' = [read EXCEPT ![r] = Answered(r)[r]]
    /\ load' = [load EXCEPT ![r] = NoLoad]
    /\ UNCHANGED <<now, version, memo>>

\* The `finally` and what awaits it: the entry goes and every reader is answered.
Settle(r) ==
    /\ load[r].step = "stored"
    /\ flight' = [flight EXCEPT ![read[r].kind] = Nobody]
    /\ read' = Answered(r)
    /\ load' = [load EXCEPT ![r] = NoLoad]
    /\ UNCHANGED <<now, version, memo>>

Advance(r) == (\E ok \in BOOLEAN : See(r, ok)) \/ Store(r) \/ Settle(r)

Next ==
    \/ Tick
    \/ Write
    \/ Forget
    \/ \E r \in Readers : Hit(r) \/ Advance(r) \/ (\E k \in Kind : Join(r, k) \/ Start(r, k))

Spec == Init /\ [][Next]_vars

\* A load ends, by its subprocess's own timeout if not before.
Fairness == \A r \in Readers : WF_vars(Advance(r))
FairSpec == Spec /\ Fairness
-----------------------------------------------------------------------------
\* Every variable keeps its type; what is remembered is never a failure.
TypeOK ==
    /\ now \in Nat /\ version \in Nat
    /\ memo \in [held : BOOLEAN, at : Nat, value : Value]
    /\ memo.held => memo.value.ok
    /\ flight \in [Kind -> Readers \cup {Nobody}]
    /\ load \in [Readers -> [step : {"none", "sent", "seen", "stored"},
                             began : Nat, value : Value]]
    /\ read \in [Readers -> [waits : BOOLEAN, kind : Kind, version : Nat,
                             joined : Readers \cup {Nobody}, answer : Value, at : Nat]]

\* The inflight map is the running loads, one of each kind: an entry whose load
\* has ended would pin its key for ever, and a load without its entry would let
\* a second one start beside it.
FlightsAreLoads ==
    /\ \A k \in Kind : flight[k] # Nobody => Loading(flight[k]) /\ read[flight[k]].kind = k
    /\ \A r \in Readers : Loading(r) => flight[read[r].kind] = r

\* How old an answer may be: a remembered one was true less than a ttl and a
\* load ago, a forced one no longer ago than a load takes, through every
\* overlap of forced and plain loads, forgetting and failure.
AnswerAge ==
    \A r \in Readers : ~read[r].waits =>
        /\ read[r].at < read[r].answer.seen + Ttl + MaxLoad
        /\ read[r].kind = "fresh" => read[r].at <= read[r].answer.seen + MaxLoad

\* Whoever reads is answered, if only with a failure.
EveryReadAnswered ==
    \A r \in Readers : read[r].waits ~> ~read[r].waits

\* ttlread.ts:34, "A forced read must not join a flight that started before the
\* write that made it necessary": it has a key of its own, which the forced read
\* of an earlier write may still be flying under.
ForcedReadSeesWrite ==
    \A r \in Readers :
        ~read[r].waits /\ read[r].kind = "fresh" /\ read[r].answer.ok
        => read[r].answer.version >= read[r].version
=============================================================================
