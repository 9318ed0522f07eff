------------------------- MODULE SettingsDoorProofs -------------------------
(***************************************************************************)
(* Proofs about the settings door, for every set of agents and settings,   *)
(* every height of the ladder and every ceiling on what may wait.          *)
(***************************************************************************)
EXTENDS SettingsDoor, FiniteSetTheorems, TLAPS

\* A request is answered once: what is being applied no longer waits.
Separate == waiting \cap applying = {}

\* Only a request somebody made waits or is applied.
Made ==
    \A i \in CardIds :
        card[i].who = "nobody" => i \notin waiting \cup applying /\ applied[i] = 0

\* All that is ever asked of the switch is to turn it off, and nothing is asked for
\* that only the person may give.
AsksFitAgents ==
    \A i \in CardIds :
        /\ card[i].setting = Trust => card[i].to = 0
        /\ Class[card[i].setting] = "personTop" => card[i].to # Top

DoorInv ==
    /\ DoorTypeOK /\ OneCardPerAsk /\ AppliedOnce
    /\ Separate /\ Made /\ AsksFitAgents

LEMMA CardIdsFinite == IsFiniteSet(CardIds)
    BY DoorConstants, FS_Interval DEF CardIds

\* What waits stays within the ceiling while it only shrinks.
LEMMA FewerWait ==
    ASSUME DoorTypeOK, NEW S, S \subseteq waiting
    PROVE  S \subseteq CardIds /\ Cardinality(S) <= MaxPending
<1>1. IsFiniteSet(waiting) /\ waiting \subseteq CardIds /\ Cardinality(waiting) <= MaxPending
    BY CardIdsFinite, FS_Subset DEF DoorTypeOK
<1>2. IsFiniteSet(S) /\ Cardinality(S) <= Cardinality(waiting)
    BY <1>1, FS_Subset
<1>3. Cardinality(S) \in Nat /\ Cardinality(waiting) \in Nat
    BY <1>1, <1>2, FS_CardinalityType
<1> QED
    BY <1>1, <1>2, <1>3, DoorConstants

\* One more waits.
LEMMA OneMore ==
    ASSUME NEW S, IsFiniteSet(S), NEW x
    PROVE  /\ Cardinality(S \cup {x}) <= Cardinality(S) + 1
           /\ Cardinality(S \cup {x}) \in Nat
<1>1. Cardinality(S) \in Nat
    BY FS_CardinalityType
<1>2. Cardinality(S \cup {x}) = IF x \in S THEN Cardinality(S) ELSE Cardinality(S) + 1
    BY FS_AddElement
<1> QED
    BY <1>1, <1>2

\* The switch's two values are ranks like any other.
LEMMA ValuesAreRanks ==
    \A s \in Settings : \A via \in Ways(s) : Values(s, via) \subseteq Ranks
    BY DoorConstants DEF Values, Ranks

\* So is what a way in reads of a setting, and what it leaves.
LEMMA ReadsAndWrites ==
    ASSUME DoorTypeOK, NEW s \in Settings, NEW via, NEW to \in Ranks
    PROVE  Reads(s, via) \in Ranks /\ Written(s, to, via) \in Ranks
    BY DoorConstants DEF DoorTypeOK, Reads, Written, Ranks

LEMMA TwoWays == \A s \in Settings : Ways(s) \subseteq {"door", "store"}
    BY DEF Ways

LEMMA InitInv == DoorInit => DoorInv
<1> SUFFICES ASSUME DoorInit PROVE DoorInv
    OBVIOUS
<1>1. DoorTypeOK
    <2>1. Cardinality(waiting) <= MaxPending
        BY FS_EmptySet, DoorConstants DEF DoorInit
    <2> QED
        BY <2>1, DoorConstants DEF DoorInit, DoorTypeOK, NoCard, Cards, Ranks
<1>2. OneCardPerAsk /\ AppliedOnce /\ Separate /\ Made /\ AsksFitAgents
    BY DoorConstants DEF DoorInit, OneCardPerAsk, AppliedOnce, Separate, Made,
           AsksFitAgents, NoCard
<1> QED
    BY <1>1, <1>2 DEF DoorInv

\* A setting is written by hand or by an agent that only narrows it.
LEMMA WriteKeepsInv ==
    ASSUME DoorInv, NEW s \in Settings, NEW via \in Ways(s), NEW to \in Values(s, via),
           PersonSets(s, to, via) \/ \E a \in Agents : AgentApplies(a, s, to, via)
    PROVE  DoorInv'
<1> USE DEF DoorInv
<1>1. /\ value' = [value EXCEPT ![s] = Written(s, to, via)] /\ Drop(s, via)
      /\ UNCHANGED <<card, past, applying, applied>>
      /\ writes' = writes \/ (writes < MaxWrites /\ writes' = writes + 1)
    BY DEF PersonSets, AgentApplies
<1>2. waiting' \subseteq waiting
    BY <1>1 DEF Drop
<1>3. DoorTypeOK'
    <2>1. waiting' \subseteq CardIds /\ Cardinality(waiting') <= MaxPending
        BY <1>2, FewerWait
    <2>2. value' \in [Settings -> Ranks]
        <3>1. Written(s, to, via) \in Ranks
            BY ValuesAreRanks, ReadsAndWrites
        <3> QED
            BY <1>1, <3>1 DEF DoorTypeOK
    <2>3. writes' \in 0 .. MaxWrites
        BY <1>1, DoorConstants DEF DoorTypeOK
    <2> QED
        BY <1>1, <2>1, <2>2, <2>3 DEF DoorTypeOK
<1>4. OneCardPerAsk' /\ Separate' /\ AsksFitAgents'
    BY <1>1, <1>2 DEF OneCardPerAsk, Separate, AsksFitAgents
<1>5. AppliedOnce' /\ Made'
    BY <1>1, <1>2 DEF AppliedOnce, Made
<1> QED
    BY <1>3, <1>4, <1>5

LEMMA AsksKeepsInv ==
    ASSUME DoorInv, NEW a \in Agents, NEW s \in Settings, NEW via \in Ways(s),
           NEW to \in Values(s, via), AgentAsks(a, s, to, via)
    PROVE  DoorInv'
<1> USE DEF DoorInv
<1> DEFINE others == {i \in Unexpired : ~SameAsk(i, a, s, to, via)}
           new == [setting |-> s, who |-> a, via |-> via, from |-> Reads(s, via), to |-> to]
<1>1. PICK i \in CardIds :
          /\ card[i] = NoCard /\ Cardinality(others) < MaxPending
          /\ waiting' = others \cup {i} /\ card' = [card EXCEPT ![i] = new]
    BY DEF AgentAsks, Queue
<1>2. UNCHANGED <<value, past, applying, writes, applied>>
    BY DEF AgentAsks
<1>3. others \subseteq waiting
    BY DEF Unexpired
<1>4. /\ card'[i] = new /\ \A j \in CardIds \ {i} : card'[j] = card[j]
      /\ i \notin waiting \cup applying /\ applied[i] = 0
    BY <1>1 DEF DoorTypeOK, Made, NoCard
<1>5. DoorTypeOK'
    <2>1. IsFiniteSet(others) /\ Cardinality(others) \in Nat
        BY <1>3, CardIdsFinite, FS_Subset, FS_CardinalityType DEF DoorTypeOK
    <2>2. Cardinality(waiting') <= MaxPending
        <3>1. Cardinality(others \cup {i}) <= Cardinality(others) + 1
              /\ Cardinality(others \cup {i}) \in Nat
            BY <2>1, OneMore
        <3> QED
            BY <1>1, <2>1, <3>1, DoorConstants
    <2>3. new \in Cards
        BY ValuesAreRanks, ReadsAndWrites, TwoWays DEF Cards
    <2>4. card' \in [CardIds -> Cards]
        BY <1>1, <2>3 DEF DoorTypeOK
    <2>5. waiting' \subseteq CardIds
        BY <1>1, <1>3 DEF DoorTypeOK
    <2> QED
        BY <1>2, <2>2, <2>4, <2>5 DEF DoorTypeOK
<1>6. OneCardPerAsk'
    <2> SUFFICES ASSUME NEW j \in waiting', NEW k \in waiting', j # k,
                        card'[j].setting = card'[k].setting, card'[j].who = card'[k].who,
                        card'[j].via = card'[k].via
                 PROVE  Holder[card'[j].setting] = "mode" /\ card'[j].to # card'[k].to
        BY DEF OneCardPerAsk
    <2>0. j \in CardIds /\ k \in CardIds
        BY <1>5 DEF DoorTypeOK
    <2>1. CASE j # i /\ k # i
        <3>1. j \in waiting /\ k \in waiting /\ card'[j] = card[j] /\ card'[k] = card[k]
            BY <2>0, <2>1, <1>1, <1>3, <1>4
        <3> QED
            BY <3>1 DEF OneCardPerAsk
    <2>2. CASE j = i
        <3>1. k \in others /\ card'[k] = card[k]
            BY <2>0, <2>2, <1>1, <1>4
        <3> QED
            BY <3>1, <2>2, <1>4 DEF SameAsk
    <2>3. CASE k = i
        <3>1. j \in others /\ card'[j] = card[j]
            BY <2>0, <2>3, <1>1, <1>4
        <3> QED
            BY <3>1, <2>3, <1>4 DEF SameAsk
    <2> QED
        BY <2>1, <2>2, <2>3
<1>7. AppliedOnce'
    BY <1>1, <1>2, <1>3, <1>4 DEF AppliedOnce
<1>8. Separate'
    BY <1>1, <1>2, <1>3, <1>4 DEF Separate
<1>9. Made'
    <2>1. a # "nobody"
        BY DoorConstants
    <2> QED
        BY <1>1, <1>2, <1>3, <1>4, <2>1 DEF Made
<1>10. AsksFitAgents'
    <2>1. ASSUME s = Trust PROVE to = 0
        <3>0. Reads(s, via) = value[s] /\ to # value[s] /\ value[s] \in 0 .. Top /\ to \in {0, Top}
            BY <2>1, DoorConstants DEF AgentAsks, Reads, DoorTypeOK, Ranks, Values
        <3>1. AgentVerdict(s, to, via) # "ask"
            BY <2>1, DoorConstants DEF AgentVerdict
        <3>2. AgentVerdict(s, to, via) = "apply"
            BY <3>1 DEF AgentAsks, Verdict
        <3>3. to <= value[s]
            BY <2>1, <3>0, <3>2, DoorConstants DEF AgentVerdict
        <3> QED
            BY <3>0, <3>3, DoorConstants
    <2>2. ASSUME Class[s] = "personTop" PROVE to # Top
        <3>1. AgentVerdict(s, to, via) # "refuse"
            BY DEF AgentAsks, Verdict
        <3> QED
            BY <2>2, <3>1 DEF AgentVerdict
    <2> QED
        BY <1>4, <2>1, <2>2 DEF AsksFitAgents
<1> QED
    BY <1>5, <1>6, <1>7, <1>8, <1>9, <1>10

LEMMA ApproveKeepsInv ==
    ASSUME DoorInv, NEW i \in CardIds, Approve(i)
    PROVE  DoorInv'
<1> USE DEF DoorInv
<1>1. /\ i \in waiting /\ waiting' \subseteq waiting /\ i \notin waiting'
      /\ UNCHANGED <<card, past, writes>>
    BY DEF Approve, Unexpired
<1>2. i \notin applying /\ applied[i] = 0 /\ card[i].setting \in Settings /\ card[i].to \in Ranks
    BY <1>1 DEF Separate, AppliedOnce, DoorTypeOK, Cards
<1>3. \/ /\ value' = [value EXCEPT ![card[i].setting] = card[i].to]
         /\ applied' = [applied EXCEPT ![i] = @ + 1] /\ applying' = applying
      \/ UNCHANGED <<value, applied, applying>>
      \/ applying' = applying \cup {i} /\ UNCHANGED <<value, applied>>
    BY DEF Approve, Granted
<1>4. /\ applied' \in [CardIds -> Nat]
      /\ applied'[i] \in {0, 1} /\ (i \in applying' => applied'[i] = 0)
      /\ \A j \in CardIds \ {i} : applied'[j] = applied[j]
      /\ applying' \subseteq applying \cup {i}
    BY <1>2, <1>3 DEF DoorTypeOK
<1>5. DoorTypeOK'
    <2>1. waiting' \subseteq CardIds /\ Cardinality(waiting') <= MaxPending
        BY <1>1, FewerWait
    <2>2. value' \in [Settings -> Ranks]
        BY <1>2, <1>3 DEF DoorTypeOK
    <2> QED
        BY <1>1, <1>4, <2>1, <2>2 DEF DoorTypeOK
<1>6. OneCardPerAsk' /\ AsksFitAgents'
    BY <1>1 DEF OneCardPerAsk, AsksFitAgents
<1>7. AppliedOnce'
    BY <1>1, <1>4 DEF AppliedOnce
<1>8. Separate'
    BY <1>1, <1>4 DEF Separate
<1>9. Made'
    BY <1>1, <1>4 DEF Made
<1> QED
    BY <1>5, <1>6, <1>7, <1>8, <1>9

LEMMA AppliesKeepsInv ==
    ASSUME DoorInv, NEW i \in CardIds, Applies(i)
    PROVE  DoorInv'
<1> USE DEF DoorInv
<1>1. /\ i \in applying /\ applying' = applying \ {i}
      /\ value' = [value EXCEPT ![card[i].setting] = Written(card[i].setting, card[i].to, "door")]
      /\ applied' = [applied EXCEPT ![i] = @ + 1]
      /\ UNCHANGED <<card, waiting, past, writes>>
    BY DEF Applies
<1>2. /\ i \notin waiting /\ applied'[i] = 1
      /\ \A j \in CardIds \ {i} : applied'[j] = applied[j]
    BY <1>1 DEF Separate, AppliedOnce, DoorTypeOK
<1>3. DoorTypeOK'
    <2>1. value' \in [Settings -> Ranks]
        <3>1. card[i].setting \in Settings /\ card[i].to \in Ranks
            BY DEF DoorTypeOK, Cards
        <3>2. Written(card[i].setting, card[i].to, "door") \in Ranks
            BY <3>1, ReadsAndWrites
        <3> QED
            BY <1>1, <3>1, <3>2 DEF DoorTypeOK
    <2>2. applied' \in [CardIds -> Nat]
        BY <1>1 DEF DoorTypeOK
    <2> QED
        BY <1>1, <2>1, <2>2 DEF DoorTypeOK
<1>4. OneCardPerAsk' /\ AsksFitAgents' /\ Separate'
    BY <1>1 DEF OneCardPerAsk, AsksFitAgents, Separate
<1>5. AppliedOnce'
    BY <1>1, <1>2 DEF AppliedOnce
<1>6. Made'
    BY <1>1, <1>2 DEF Made
<1> QED
    BY <1>3, <1>4, <1>5, <1>6

\* Steps that only take requests away, or let them grow old.
QuietStep ==
    \/ \E s \in Settings : PersonDismisses(s)
    \/ \E i \in CardIds : Decline(i) \/ ComesToNothing(i) \/ GoesPast(i) \/ Timer(i)
    \/ Look \/ DoorRestart

LEMMA QuietKeepsInv ==
    ASSUME DoorInv, QuietStep
    PROVE  DoorInv'
<1> USE DEF DoorInv
<1>1. waiting' \subseteq waiting
    BY DEF QuietStep, PersonDismisses, Drop, Decline, ComesToNothing, GoesPast, Timer, Look,
           DoorRestart, Unexpired
<1>2. applying' \subseteq applying /\ UNCHANGED <<value, card, writes, applied>>
    BY DEF QuietStep, PersonDismisses, Decline, ComesToNothing, GoesPast, Timer, Look, DoorRestart
<1>3. past' \subseteq CardIds
    BY DEF QuietStep, PersonDismisses, Decline, ComesToNothing, GoesPast, Timer, Look,
           DoorRestart, DoorTypeOK
<1>4. DoorTypeOK'
    <2>1. waiting' \subseteq CardIds /\ Cardinality(waiting') <= MaxPending
        BY <1>1, FewerWait
    <2> QED
        BY <1>2, <1>3, <2>1 DEF DoorTypeOK
<1>5. OneCardPerAsk' /\ AppliedOnce'
    BY <1>1, <1>2 DEF OneCardPerAsk, AppliedOnce
<1>6. Separate' /\ Made' /\ AsksFitAgents'
    BY <1>1, <1>2 DEF Separate, Made, AsksFitAgents
<1> QED
    BY <1>4, <1>5, <1>6

LEMMA NextInv == DoorInv /\ [DoorNext]_doorVars => DoorInv'
<1> SUFFICES ASSUME DoorInv, [DoorNext]_doorVars PROVE DoorInv'
    OBVIOUS
<1>1. CASE \E s \in Settings : \E via \in Ways(s) : \E to \in Values(s, via) :
              PersonSets(s, to, via) \/ \E a \in Agents : AgentApplies(a, s, to, via)
    BY <1>1, WriteKeepsInv
<1>2. CASE \E s \in Settings : \E via \in Ways(s) : \E to \in Values(s, via) :
              \E a \in Agents : AgentAsks(a, s, to, via)
    BY <1>2, AsksKeepsInv
<1>3. CASE \E i \in CardIds : Approve(i)
    BY <1>3, ApproveKeepsInv
<1>4. CASE \E i \in CardIds : Applies(i)
    BY <1>4, AppliesKeepsInv
<1>5. CASE QuietStep
    BY <1>5, QuietKeepsInv
<1>6. CASE UNCHANGED doorVars
    BY <1>6 DEF DoorInv, DoorTypeOK, OneCardPerAsk, AppliedOnce, Separate,
                Made, AsksFitAgents, doorVars
<1> QED
    BY <1>1, <1>2, <1>3, <1>4, <1>5, <1>6 DEF DoorNext, QuietStep

LEMMA DoorInvariant == DoorSpec => []DoorInv
    BY InitInv, NextInv, PTL DEF DoorSpec

\* The door's state keeps its shape, and never more than MaxPending requests wait.
THEOREM TypeCorrect == DoorSpec => []DoorTypeOK
<1>1. DoorInv => DoorTypeOK
    BY DEF DoorInv
<1> QED
    BY <1>1, DoorInvariant, PTL

\* One caller has one card for one setting.
THEOREM OneCard == DoorSpec => []OneCardPerAsk
<1>1. DoorInv => OneCardPerAsk
    BY DEF DoorInv
<1> QED
    BY <1>1, DoorInvariant, PTL

\* A request is applied once at most, and not before it is answered.
THEOREM OneWrite == DoorSpec => []AppliedOnce
<1>1. DoorInv => AppliedOnce
    BY DEF DoorInv
<1> QED
    BY <1>1, DoorInvariant, PTL

\* What is the person's alone is the server's, and no rule or mode.
LEMMA PersonalHolders ==
    ASSUME NEW s \in Settings, Personal(s)
    PROVE  Holder[s] # "base"
    BY DoorConstants DEF Personal

\* Only the person's own hand gives what is the person's alone.
THEOREM PersonsHand == DoorSpec => PersonsAlone
<1>1. DoorInv /\ [DoorNext]_doorVars =>
          [\A s \in Settings : Personal(s) => writes' > writes]_doorVars
    <2> SUFFICES ASSUME DoorInv, DoorNext, NEW s \in Settings, Personal(s)
                 PROVE  writes' > writes
        BY DEF doorVars
    <2>0. /\ value \in [Settings -> Ranks] /\ value[s] \in Nat /\ Trust \in Settings
          /\ writes \in Nat /\ Class[Trust] = "personOnly" /\ Top \in Nat
        BY DoorConstants DEF DoorInv, DoorTypeOK, Ranks
    <2>1. ASSUME NEW a \in Agents, NEW r \in Settings, NEW via \in Ways(r),
                 NEW to \in Values(r, via), AgentApplies(a, r, to, via)
          PROVE  FALSE
        <3>1. /\ value' = [value EXCEPT ![r] = Written(r, to, via)]
              /\ Verdict(a, r, to, via) = "apply"
            BY <2>1 DEF AgentApplies
        <3>2. r = s
            BY <2>0, <3>1 DEF Personal
        <3>3. AgentVerdict(s, to, via) = "apply" /\ via \in Ways(s) /\ to \in Nat
            BY <3>1, <3>2, ValuesAreRanks, DoorConstants DEF Verdict, Ranks
        <3>4. Reads(s, via) = value[s] /\ Written(s, to, via) = to
            BY <2>0, <3>2, PersonalHolders DEF Reads, Written
        <3>5. CASE s = Trust
            <4>1. to <= value[s]
                BY <2>0, <3>3, <3>4, <3>5 DEF AgentVerdict
            <4> QED
                BY <2>0, <3>1, <3>2, <3>3, <3>4, <3>5, <4>1 DEF Personal
        <3>6. CASE Class[s] = "personTop"
            <4>1. to # Top
                BY <3>3, <3>6 DEF AgentVerdict
            <4> QED
                BY <2>0, <3>1, <3>2, <3>4, <3>6, <4>1 DEF Personal
        <3> QED
            BY <3>5, <3>6 DEF Personal
    <2>2. ASSUME NEW i \in CardIds, Approve(i) \/ Applies(i)
          PROVE  FALSE
        <3>1. \/ value' = value
              \/ value' = [value EXCEPT ![card[i].setting] = card[i].to]
              \/ value' = [value EXCEPT ![card[i].setting] =
                             Written(card[i].setting, card[i].to, "door")]
            BY <2>2 DEF Approve, Granted, Applies
        <3>2. card[i].setting = s
            BY <2>0, <3>1 DEF Personal
        <3>3. Written(s, card[i].to, "door") = card[i].to
            BY PersonalHolders DEF Written
        <3>4. value'[s] = card[i].to
            BY <2>0, <3>1, <3>2, <3>3 DEF Personal
        <3>5. /\ s = Trust => card[i].to = 0
              /\ Class[s] = "personTop" => card[i].to # Top
            BY <3>2 DEF DoorInv, AsksFitAgents
        <3> QED
            BY <2>0, <3>4, <3>5 DEF Personal
    <2>3. ASSUME NEW r \in Settings, NEW via \in Ways(r), NEW to \in Values(r, via),
                 PersonSets(r, to, via)
          PROVE  writes' > writes
        BY <2>0, <2>3 DEF PersonSets
    <2>4. ASSUME value' = value PROVE FALSE
        BY <2>0, <2>4 DEF Personal
    <2> QED
        BY <2>1, <2>2, <2>3, <2>4 DEF DoorNext, AgentAsks, PersonDismisses, Decline, ComesToNothing,
            GoesPast, Timer, Look, DoorRestart
<1> QED
    BY <1>1, DoorInvariant, PTL DEF DoorSpec, PersonsAlone
=============================================================================
