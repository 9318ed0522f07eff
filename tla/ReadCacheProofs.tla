-------------------------- MODULE ReadCacheProofs --------------------------
(***************************************************************************)
(* Proofs about the shared reads, for any set of callers, any ttl, any     *)
(* kill timeout and any number of writes.                                  *)
(***************************************************************************)
EXTENDS ReadCache, TLAPS

\* Whoever runs a load waits for it.
OwnersWait == \A r \in Readers : Loading(r) => read[r].waits /\ read[r].joined = r

\* Whoever waits has joined a running load of the kind asked for.
WaitersJoined ==
    \A q \in Readers : read[q].waits =>
        /\ read[q].joined \in Readers
        /\ Loading(read[q].joined)
        /\ read[read[q].joined].kind = read[q].kind

\* No load is older than its subprocess may be, nor is what it brought.
LoadsTimed ==
    \A r \in Readers : Loading(r) =>
        /\ load[r].began <= now /\ now <= load[r].began + MaxLoad
        /\ load[r].step # "sent" => load[r].began <= load[r].value.seen /\ load[r].value.seen <= now

\* What is remembered was true at most a load before it was remembered.
MemoTimed == memo.held => memo.at <= now /\ memo.at <= memo.value.seen + MaxLoad

CacheInv ==
    /\ TypeOK /\ FlightsAreLoads /\ AnswerAge
    /\ OwnersWait /\ WaitersJoined /\ LoadsTimed /\ MemoTimed

\* A read and a load as records.
ReadRec == [waits : BOOLEAN, kind : Kind, version : Nat,
            joined : Readers \cup {Nobody}, answer : Value, at : Nat]
LoadRec == [step : {"none", "sent", "seen", "stored"}, began : Nat, value : Value]

LEMMA RestTypes == NoValue \in Value /\ NoLoad \in LoadRec /\ NotAsked \in ReadRec
    BY CacheConstants DEF NoValue, Value, NoLoad, LoadRec, NotAsked, ReadRec, Kind

LEMMA InitInv == Init => CacheInv
<1> SUFFICES ASSUME Init PROVE CacheInv
    OBVIOUS
<1>1. TypeOK
    BY RestTypes, CacheConstants DEF Init, TypeOK, NoEntry, LoadRec, ReadRec
<1>2. \A r \in Readers : ~Loading(r) /\ ~read[r].waits /\ read[r].kind = "ttl"
                         /\ read[r].at = 0 /\ read[r].answer.seen = 0
    BY DEF Init, Loading, NoLoad, NotAsked, NoValue
<1>3. ~memo.held /\ \A k \in Kind : flight[k] = Nobody
    BY DEF Init, NoEntry
<1> QED
    BY <1>1, <1>2, <1>3, CacheConstants
    DEF CacheInv, FlightsAreLoads, AnswerAge, OwnersWait, WaitersJoined, LoadsTimed, MemoTimed

\* Time and writes: what is remembered and in flight only grows older.
LEMMA ClockKeepsInv ==
    ASSUME CacheInv, Tick \/ Write \/ Forget
    PROVE  CacheInv'
<1> USE DEF CacheInv, Loading
<1>1. CASE Tick
    <2>1. now' = now + 1 /\ UNCHANGED <<version, memo, flight, load, read>>
        BY <1>1 DEF Tick
    <2>2. TypeOK' /\ FlightsAreLoads' /\ AnswerAge' /\ OwnersWait' /\ WaitersJoined'
        BY <2>1 DEF TypeOK, FlightsAreLoads, AnswerAge, OwnersWait, WaitersJoined, Loading
    <2>3. LoadsTimed'
        BY <1>1, <2>1, CacheConstants DEF Tick, TypeOK, LoadsTimed, Loading, Value
    <2>4. MemoTimed'
        BY <2>1 DEF TypeOK, MemoTimed
    <2> QED
        BY <2>2, <2>3, <2>4
<1>2. CASE Write
    BY <1>2 DEF Write, TypeOK, FlightsAreLoads, AnswerAge, OwnersWait, WaitersJoined,
                LoadsTimed, MemoTimed, Loading
<1>3. CASE Forget
    <2>1. NoEntry \in [held : BOOLEAN, at : Nat, value : Value] /\ ~NoEntry.held
        BY RestTypes DEF NoEntry
    <2> QED
        BY <1>3, <2>1 DEF Forget, TypeOK, FlightsAreLoads, AnswerAge, OwnersWait, WaitersJoined,
                          LoadsTimed, MemoTimed, Loading
<1> QED
    BY <1>1, <1>2, <1>3

LEMMA HitKeepsInv ==
    ASSUME CacheInv, NEW r \in Readers, Hit(r)
    PROVE  CacheInv'
<1> USE DEF CacheInv, Loading
<1> DEFINE a == Answer(Asked("ttl"), memo.value)
<1>1. /\ ~read[r].waits /\ FreshEnough
      /\ read' = [read EXCEPT ![r] = a]
      /\ UNCHANGED <<now, version, memo, flight, load>>
    BY DEF Hit
<1>2. /\ a \in ReadRec
      /\ ~a.waits /\ a.kind = "ttl" /\ a.answer = memo.value /\ a.at = now
    BY RestTypes DEF Answer, Asked, ReadRec, TypeOK, Kind
<1> HIDE DEF a
<1>3. read'[r] = a /\ \A q \in Readers \ {r} : read'[q] = read[q]
    BY <1>1 DEF TypeOK
<1>4. TypeOK'
    BY <1>1, <1>2 DEF TypeOK, ReadRec
<1>5. ~Loading(r)
    BY <1>1 DEF OwnersWait
<1>6. FlightsAreLoads'
    BY <1>1, <1>3, <1>5 DEF FlightsAreLoads, Loading, TypeOK
<1>7. AnswerAge'
    <2>1. now - memo.at < Ttl /\ memo.at <= memo.value.seen + MaxLoad
        BY <1>1 DEF FreshEnough, MemoTimed
    <2>2. memo.value.seen \in Nat /\ memo.at \in Nat /\ now \in Nat
        BY DEF TypeOK, Value
    <2>3. a.at < a.answer.seen + Ttl + MaxLoad /\ a.kind = "ttl"
        BY <1>2, <2>1, <2>2, CacheConstants
    <2> QED
        BY <1>3, <2>3 DEF AnswerAge
<1>8. OwnersWait' /\ LoadsTimed' /\ MemoTimed'
    BY <1>1, <1>3, <1>5 DEF OwnersWait, LoadsTimed, MemoTimed, Loading
<1>9. WaitersJoined'
    <2> SUFFICES ASSUME NEW q \in Readers, read'[q].waits
                 PROVE  /\ read'[q].joined \in Readers
                        /\ load'[read'[q].joined].step # "none"
                        /\ read'[read'[q].joined].kind = read'[q].kind
        BY DEF WaitersJoined
    <2>1. q # r /\ read'[q] = read[q]
        BY <1>2, <1>3
    <2>2. read[q].joined \in Readers \ {r}
        BY <1>5, <2>1 DEF WaitersJoined
    <2> QED
        BY <1>1, <1>3, <2>1, <2>2 DEF WaitersJoined, Loading
<1> QED
    BY <1>4, <1>6, <1>7, <1>8, <1>9

LEMMA JoinKeepsInv ==
    ASSUME CacheInv, NEW r \in Readers, NEW k \in Kind, Join(r, k)
    PROVE  CacheInv'
<1> USE DEF CacheInv, Loading
<1> DEFINE a == Waits(k, flight[k])
<1>1. /\ ~read[r].waits /\ flight[k] \in Readers
      /\ read' = [read EXCEPT ![r] = a]
      /\ UNCHANGED <<now, version, memo, flight, load>>
    BY DEF Join, Misses, TypeOK
<1>2. a \in ReadRec /\ a.waits /\ a.kind = k /\ a.joined = flight[k]
    BY <1>1, RestTypes DEF Waits, Asked, ReadRec, TypeOK
<1> HIDE DEF a
<1>3. read'[r] = a /\ \A q \in Readers \ {r} : read'[q] = read[q]
    BY <1>1 DEF TypeOK
<1>4. TypeOK'
    BY <1>1, <1>2 DEF TypeOK, ReadRec
<1>5. ~Loading(r) /\ flight[k] # r /\ Loading(flight[k]) /\ read[flight[k]].kind = k
    BY <1>1, CacheConstants DEF OwnersWait, FlightsAreLoads
<1>6. FlightsAreLoads'
    BY <1>1, <1>3, <1>5 DEF FlightsAreLoads, Loading, TypeOK
<1>7. AnswerAge'
    BY <1>2, <1>3 DEF AnswerAge
<1>8. OwnersWait' /\ LoadsTimed' /\ MemoTimed'
    BY <1>1, <1>3, <1>5 DEF OwnersWait, LoadsTimed, MemoTimed, Loading
<1>9. WaitersJoined'
    <2> SUFFICES ASSUME NEW q \in Readers, read'[q].waits
                 PROVE  /\ read'[q].joined \in Readers
                        /\ load'[read'[q].joined].step # "none"
                        /\ read'[read'[q].joined].kind = read'[q].kind
        BY DEF WaitersJoined
    <2>1. CASE q = r
        BY <1>1, <1>2, <1>3, <1>5, <2>1 DEF Loading
    <2>2. CASE q # r
        <3>1. read'[q] = read[q] /\ read[q].joined \in Readers \ {r}
            BY <1>3, <1>5, <2>2 DEF WaitersJoined
        <3> QED
            BY <1>1, <1>3, <3>1 DEF WaitersJoined, Loading
    <2> QED
        BY <2>1, <2>2
<1> QED
    BY <1>4, <1>6, <1>7, <1>8, <1>9

LEMMA StartKeepsInv ==
    ASSUME CacheInv, NEW r \in Readers, NEW k \in Kind, Start(r, k)
    PROVE  CacheInv'
<1> USE DEF CacheInv, Loading
<1> DEFINE a == Waits(k, r)
           l == [NoLoad EXCEPT !.step = "sent", !.began = now]
<1>1. /\ ~read[r].waits /\ flight[k] = Nobody
      /\ flight' = [flight EXCEPT ![k] = r]
      /\ load' = [load EXCEPT ![r] = l]
      /\ read' = [read EXCEPT ![r] = a]
      /\ UNCHANGED <<now, version, memo>>
    BY DEF Start, Misses
<1>2. /\ a \in ReadRec /\ a.waits /\ a.kind = k /\ a.joined = r
      /\ l \in LoadRec /\ l.step = "sent" /\ l.began = now
    BY RestTypes DEF Waits, Asked, ReadRec, LoadRec, TypeOK
<1> HIDE DEF a, l
<1>3. /\ read'[r] = a /\ \A q \in Readers \ {r} : read'[q] = read[q]
      /\ load'[r] = l /\ \A q \in Readers \ {r} : load'[q] = load[q]
      /\ flight'[k] = r /\ \A j \in Kind \ {k} : flight'[j] = flight[j]
    BY <1>1 DEF TypeOK
<1>4. TypeOK'
    BY <1>1, <1>2 DEF TypeOK, ReadRec, LoadRec
<1>5. ~Loading(r) /\ load'[r].step # "none" /\ \A q \in Readers \ {r} : load'[q].step # "none" <=> Loading(q)
    BY <1>1, <1>2, <1>3 DEF OwnersWait, Loading
<1>6. \A j \in Kind : flight[j] # r
    BY <1>5, CacheConstants DEF FlightsAreLoads
<1>7. \A q \in Readers \ {r} : Loading(q) => read[q].kind # k
    BY <1>1, CacheConstants DEF FlightsAreLoads
<1>8. FlightsAreLoads'
    <2>1. \A j \in Kind : flight'[j] # Nobody => load'[flight'[j]].step # "none" /\ read'[flight'[j]].kind = j
        BY <1>2, <1>3, <1>5, <1>6 DEF FlightsAreLoads, TypeOK
    <2>2. \A q \in Readers : load'[q].step # "none" => flight'[read'[q].kind] = q
        BY <1>2, <1>3, <1>5, <1>7 DEF FlightsAreLoads, TypeOK
    <2> QED
        BY <2>1, <2>2 DEF FlightsAreLoads
<1>9. AnswerAge'
    BY <1>2, <1>3 DEF AnswerAge
<1>10. OwnersWait' /\ MemoTimed'
    BY <1>1, <1>2, <1>3, <1>5 DEF OwnersWait, MemoTimed
<1>11. LoadsTimed'
    <2>1. now \in Nat /\ l.began = now /\ l.step = "sent"
        BY <1>2 DEF TypeOK
    <2> QED
        BY <1>1, <1>3, <1>5, <2>1, CacheConstants DEF LoadsTimed
<1>12. WaitersJoined'
    <2> SUFFICES ASSUME NEW q \in Readers, read'[q].waits
                 PROVE  /\ read'[q].joined \in Readers
                        /\ load'[read'[q].joined].step # "none"
                        /\ read'[read'[q].joined].kind = read'[q].kind
        BY DEF WaitersJoined
    <2>1. CASE q = r
        BY <1>2, <1>3, <1>5, <2>1
    <2>2. CASE q # r
        <3>1. read'[q] = read[q] /\ read[q].joined \in Readers \ {r}
            BY <1>3, <1>5, <2>2 DEF WaitersJoined
        <3> QED
            BY <1>3, <1>5, <3>1 DEF WaitersJoined
    <2> QED
        BY <2>1, <2>2
<1> QED
    BY <1>4, <1>8, <1>9, <1>10, <1>11, <1>12

LEMMA SeeKeepsInv ==
    ASSUME CacheInv, NEW r \in Readers, NEW ok \in BOOLEAN, See(r, ok)
    PROVE  CacheInv'
<1> USE DEF CacheInv, Loading
<1> DEFINE v == [ok |-> ok, version |-> version, seen |-> now]
<1>1. /\ load[r].step = "sent"
      /\ load' = [load EXCEPT ![r].step = "seen", ![r].value = v]
      /\ UNCHANGED <<now, version, memo, flight, read>>
    BY DEF See, TypeOK
<1>2. v \in Value /\ v.seen = now
    BY DEF TypeOK, Value
<1> HIDE DEF v
<1>3. \A q \in Readers : load'[q].step # "none" <=> Loading(q)
    BY <1>1 DEF Loading, TypeOK
<1>4. TypeOK'
    <2> DEFINE l == [load[r] EXCEPT !.step = "seen", !.value = v]
    <2>1. load \in [Readers -> LoadRec]
        BY DEF TypeOK, LoadRec
    <2>2. l \in LoadRec
        BY <1>2, <2>1 DEF LoadRec
    <2>3. load' = [load EXCEPT ![r] = l]
        BY <1>1, <2>1 DEF LoadRec
    <2> HIDE DEF l
    <2>4. load' \in [Readers -> LoadRec]
        BY <2>1, <2>2, <2>3
    <2> QED
        BY <1>1, <2>4 DEF TypeOK, LoadRec
<1>5. LoadsTimed'
    BY <1>1, <1>2, <1>3, CacheConstants DEF LoadsTimed, TypeOK
<1>6. FlightsAreLoads' /\ AnswerAge' /\ OwnersWait' /\ MemoTimed'
    BY <1>1, <1>3, CacheConstants DEF FlightsAreLoads, AnswerAge, OwnersWait, MemoTimed, TypeOK
<1>7. WaitersJoined'
    BY <1>1, <1>3 DEF WaitersJoined
<1> QED
    BY <1>4, <1>5, <1>6, <1>7

LEMMA StoreKeepsInv ==
    ASSUME CacheInv, NEW r \in Readers, Store(r)
    PROVE  CacheInv'
<1> USE DEF CacheInv, Loading
<1>1. /\ load[r].step = "seen"
      /\ load' = [load EXCEPT ![r] = [load[r] EXCEPT !.step = "stored"]]
      /\ memo' = IF load[r].value.ok
                 THEN [held |-> TRUE, at |-> now, value |-> load[r].value] ELSE memo
      /\ UNCHANGED <<now, version, flight, read>>
    BY DEF Store
<1>2. \A q \in Readers : /\ load'[q].step # "none" <=> Loading(q)
                         /\ load'[q].began = load[q].began /\ load'[q].value = load[q].value
                         /\ load'[q].step = "sent" <=> load[q].step = "sent"
    BY <1>1 DEF Loading, TypeOK
<1>3. TypeOK'
    <2>1. [load[r] EXCEPT !.step = "stored"] \in LoadRec
        BY DEF TypeOK, LoadRec
    <2>2. load' \in [Readers -> LoadRec]
        BY <1>1, <2>1 DEF TypeOK, LoadRec
    <2>3. memo' \in [held : BOOLEAN, at : Nat, value : Value] /\ (memo'.held => memo'.value.ok)
        BY <1>1 DEF TypeOK
    <2> QED
        BY <1>1, <2>2, <2>3 DEF TypeOK, LoadRec
<1>4. LoadsTimed'
    BY <1>1, <1>2 DEF LoadsTimed
<1>5. MemoTimed'
    <2>1. /\ load[r].began <= load[r].value.seen /\ now <= load[r].began + MaxLoad
          /\ now \in Nat /\ load[r].began \in Nat /\ load[r].value.seen \in Nat
        BY <1>1 DEF LoadsTimed, Loading, TypeOK, Value
    <2>2. now <= load[r].value.seen + MaxLoad
        BY <2>1, CacheConstants
    <2> QED
        BY <1>1, <2>1, <2>2 DEF MemoTimed
<1>6. FlightsAreLoads' /\ AnswerAge' /\ OwnersWait'
    BY <1>1, <1>2, CacheConstants DEF FlightsAreLoads, AnswerAge, OwnersWait, TypeOK
<1>7. WaitersJoined'
    BY <1>1, <1>2 DEF WaitersJoined
<1> QED
    BY <1>3, <1>4, <1>5, <1>6, <1>7

LEMMA SettleKeepsInv ==
    ASSUME CacheInv, NEW r \in Readers, Settle(r)
    PROVE  CacheInv'
<1> USE DEF CacheInv, Loading
<1> DEFINE k == read[r].kind
           joined(q) == read[q].waits /\ read[q].joined = r
<1>1. /\ load[r].step = "stored"
      /\ flight' = [flight EXCEPT ![k] = Nobody]
      /\ read' = Answered(r)
      /\ load' = [load EXCEPT ![r] = NoLoad]
      /\ UNCHANGED <<now, version, memo>>
    BY DEF Settle
<1>2. Loading(r) /\ joined(r) /\ k \in Kind /\ flight[k] = r
    BY <1>1 DEF OwnersWait, FlightsAreLoads, Loading, TypeOK
<1>3. \A q \in Readers :
        /\ read'[q] \in ReadRec
        /\ joined(q) => /\ ~read'[q].waits /\ read'[q].kind = read[q].kind
                        /\ read'[q].answer = load[r].value /\ read'[q].at = now
        /\ ~joined(q) => read'[q] = read[q]
    <2> SUFFICES ASSUME NEW q \in Readers
                 PROVE  /\ read'[q] \in ReadRec
                        /\ joined(q) => /\ ~read'[q].waits /\ read'[q].kind = read[q].kind
                                        /\ read'[q].answer = load[r].value /\ read'[q].at = now
                        /\ ~joined(q) => read'[q] = read[q]
        OBVIOUS
    <2>1. read'[q] = IF joined(q) THEN Answer(read[q], load[r].value) ELSE read[q]
        BY <1>1 DEF Answered
    <2>2. read[q] \in ReadRec /\ load[r].value \in Value /\ now \in Nat
        BY DEF TypeOK, ReadRec
    <2> QED
        BY <2>1, <2>2 DEF Answer, ReadRec
<1>4. \A q \in Readers : read'[q].kind = read[q].kind /\ (read'[q].waits <=> read[q].waits /\ ~joined(q))
    BY <1>3
<1>5. load'[r].step = "none" /\ \A q \in Readers \ {r} : load'[q].step # "none" <=> Loading(q)
    BY <1>1 DEF Loading, NoLoad, TypeOK
<1>6. flight'[k] = Nobody /\ \A j \in Kind \ {k} : flight'[j] = flight[j]
    BY <1>1, <1>2 DEF TypeOK
<1>7. TypeOK'
    <2>1. read' \in [Readers -> ReadRec]
        BY <1>1, <1>3 DEF Answered
    <2>2. load' \in [Readers -> LoadRec]
        BY <1>1, RestTypes DEF TypeOK, LoadRec
    <2> QED
        BY <1>1, <1>2, <2>1, <2>2 DEF TypeOK, ReadRec, LoadRec
<1>8. FlightsAreLoads'
    <2>1. \A j \in Kind : flight'[j] # Nobody => load'[flight'[j]].step # "none" /\ read'[flight'[j]].kind = j
        BY <1>2, <1>4, <1>5, <1>6 DEF FlightsAreLoads, TypeOK
    <2>2. \A q \in Readers : load'[q].step # "none" => flight'[read'[q].kind] = q
        BY <1>2, <1>4, <1>5, <1>6 DEF FlightsAreLoads, TypeOK
    <2> QED
        BY <2>1, <2>2 DEF FlightsAreLoads
<1>9. AnswerAge'
    <2>1. /\ load[r].began <= load[r].value.seen /\ now <= load[r].began + MaxLoad
          /\ now \in Nat /\ load[r].began \in Nat /\ load[r].value.seen \in Nat
        BY <1>1, <1>2 DEF LoadsTimed, TypeOK, Value
    <2>2. now <= load[r].value.seen + MaxLoad /\ now < load[r].value.seen + Ttl + MaxLoad
        BY <2>1, CacheConstants
    <2> SUFFICES ASSUME NEW q \in Readers, ~read'[q].waits
                 PROVE  /\ read'[q].at < read'[q].answer.seen + Ttl + MaxLoad
                        /\ read'[q].kind = "fresh" => read'[q].at <= read'[q].answer.seen + MaxLoad
        BY DEF AnswerAge
    <2>3. CASE joined(q)
        BY <1>3, <2>2, <2>3
    <2>4. CASE ~joined(q)
        BY <1>3, <1>4, <2>4 DEF AnswerAge
    <2> QED
        BY <2>3, <2>4
<1>10. OwnersWait'
    <2> SUFFICES ASSUME NEW q \in Readers, load'[q].step # "none" PROVE read'[q].waits /\ read'[q].joined = q
        BY DEF OwnersWait
    <2>1. q # r /\ read[q].waits /\ read[q].joined = q
        BY <1>5 DEF OwnersWait
    <2> QED
        BY <1>3, <2>1
<1>11. LoadsTimed' /\ MemoTimed'
    <2>1. \A q \in Readers \ {r} : load'[q] = load[q]
        BY <1>1 DEF TypeOK
    <2> QED
        BY <1>1, <1>5, <2>1 DEF LoadsTimed, MemoTimed
<1>12. WaitersJoined'
    <2> SUFFICES ASSUME NEW q \in Readers, read'[q].waits
                 PROVE  /\ read'[q].joined \in Readers
                        /\ load'[read'[q].joined].step # "none"
                        /\ read'[read'[q].joined].kind = read'[q].kind
        BY DEF WaitersJoined
    <2>1. read'[q] = read[q] /\ read[q].waits /\ read[q].joined # r
        BY <1>3, <1>4
    <2>2. read[q].joined \in Readers \ {r}
        BY <2>1 DEF WaitersJoined
    <2> QED
        BY <1>4, <1>5, <2>1, <2>2 DEF WaitersJoined
<1> QED
    BY <1>7, <1>8, <1>9, <1>10, <1>11, <1>12

LEMMA NextInv == CacheInv /\ [Next]_vars => CacheInv'
<1> SUFFICES ASSUME CacheInv, [Next]_vars PROVE CacheInv'
    OBVIOUS
<1>1. CASE Tick \/ Write \/ Forget
    BY <1>1, ClockKeepsInv
<1>2. ASSUME NEW r \in Readers, Hit(r) PROVE CacheInv'
    BY <1>2, HitKeepsInv
<1>3. ASSUME NEW r \in Readers, Advance(r) PROVE CacheInv'
    BY <1>3, SeeKeepsInv, StoreKeepsInv, SettleKeepsInv DEF Advance
<1>4. ASSUME NEW r \in Readers, NEW k \in Kind, Join(r, k) \/ Start(r, k) PROVE CacheInv'
    BY <1>4, JoinKeepsInv, StartKeepsInv
<1>5. CASE UNCHANGED vars
    BY <1>5 DEF vars, CacheInv, TypeOK, FlightsAreLoads, AnswerAge, OwnersWait, WaitersJoined,
                LoadsTimed, MemoTimed, Loading
<1> QED
    BY <1>1, <1>2, <1>3, <1>4, <1>5 DEF Next

LEMMA CacheInvariant == Spec => []CacheInv
    BY InitInv, NextInv, PTL DEF Spec

\* Every variable keeps its type, and no failure is ever remembered.
THEOREM TypeCorrect == Spec => []TypeOK
<1>1. CacheInv => TypeOK
    BY DEF CacheInv
<1> QED
    BY <1>1, CacheInvariant, PTL

\* The inflight map is the running loads, one of each kind: no key is pinned by a
\* load that has ended, and none is loaded twice at once.
THEOREM NoFlightLeaks == Spec => []FlightsAreLoads
<1>1. CacheInv => FlightsAreLoads
    BY DEF CacheInv
<1> QED
    BY <1>1, CacheInvariant, PTL

\* No answer is older than a ttl and a load, no forced one older than a load.
THEOREM AnswersAreRecent == Spec => []AnswerAge
<1>1. CacheInv => AnswerAge
    BY DEF CacheInv
<1> QED
    BY <1>1, CacheInvariant, PTL
=============================================================================
