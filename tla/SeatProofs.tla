----------------------------- MODULE SeatProofs -----------------------------
(***************************************************************************)
(* Proofs about the seat's queue and the shape of its tray, for every set  *)
(* of names and tasks and every number of reports and mishaps.             *)
(***************************************************************************)
EXTENDS Seat, FiniteSetTheorems, TLAPS

\* The attempts on the row are the times the task was handed out.
AttemptsCounted == \A t \in Tasks : handed[t] = task[t].tries

\* Whoever was given a task, or is about to be, has the row: unless it is finished,
\* or a look freed it before the agent opened.
HandsHoldRows ==
    \A n \in Names : \A t \in Tasks \ early :
        (handing[n] = t \/ at[n] = t) => (task[t].done \/ task[t].by = n)

SeatInv == SeatTypeOK /\ AttemptsCounted /\ HandsHoldRows

\* Of MaxReports reports at most MaxReports wait.
LEMMA WaitingBounded ==
    ASSUME NEW rs
    PROVE  Waiting(rs) \in 0 .. MaxReports
<1>1. IsFiniteSet(ReportIds) /\ Cardinality(ReportIds) = MaxReports
    BY SeatConstants, FS_Interval DEF ReportIds
<1>2. {r \in ReportIds : rs[r] = "urgent"} \subseteq ReportIds
    OBVIOUS
<1>3. /\ IsFiniteSet({r \in ReportIds : rs[r] = "urgent"})
      /\ Cardinality({r \in ReportIds : rs[r] = "urgent"}) <= MaxReports
    BY <1>1, <1>2, FS_Subset
<1>4. Cardinality({r \in ReportIds : rs[r] = "urgent"}) \in Nat
    BY <1>3, FS_CardinalityType
<1> QED
    BY <1>3, <1>4, SeatConstants DEF Waiting

\* The shape of the tray and the chair, and that of the queue.
TrayType ==
    /\ chair \in {"free", "busy", "gone", "empty"} /\ told \in BOOLEAN
    /\ reports \in [ReportIds -> {"unfiled", "urgent", "routine", "read"}]
    /\ parked \in BOOLEAN /\ field \in BOOLEAN /\ looking \in BOOLEAN
    /\ woken \in [field : BOOLEAN, waiting : -1 .. MaxReports]
    /\ sending \subseteq Prompts /\ missed \in BOOLEAN

QueueType ==
    /\ task \in [Tasks -> [by : Names \cup {None}, tries : 0 .. MaxAttempts, done : BOOLEAN]]
    /\ \A t \in Tasks : task[t].by # None => task[t].tries > 0
    /\ alive \subseteq Names /\ at \in [Names -> Tasks \cup {None}]
    /\ handing \in [Names -> Tasks \cup {None}]
    /\ \A n \in Names : at[n] # None <=> n \in alive
    /\ early \subseteq Tasks /\ handed \in [Tasks -> Nat]

MishapType == mishaps \in 0 .. MaxMishaps

LEMMA TypeParts == SeatTypeOK <=> TrayType /\ QueueType /\ MishapType
    BY DEF SeatTypeOK, TrayType, QueueType, MishapType

LEMMA InitInv == SeatInit => SeatInv
<1> SUFFICES ASSUME SeatInit PROVE SeatInv
    OBVIOUS
<1>1. TrayType
    <2>1. NotWoken \in [field : BOOLEAN, waiting : -1 .. MaxReports]
        BY SeatConstants DEF NotWoken
    <2> QED
        BY <2>1 DEF SeatInit, TrayType
<1>2. QueueType
    BY SeatConstants DEF SeatInit, QueueType
<1>3. MishapType
    BY SeatConstants DEF SeatInit, MishapType
<1>4. AttemptsCounted
    BY DEF SeatInit, AttemptsCounted
<1>5. HandsHoldRows
    BY SeatConstants DEF SeatInit, HandsHoldRows
<1> QED
    BY <1>1, <1>2, <1>3, <1>4, <1>5, TypeParts DEF SeatInv

\* Steps of the tray and of the chair leave the queue alone.
TrayStep ==
    \/ \E r \in ReportIds, urgent \in BOOLEAN : File(r, urgent)
    \/ \E p \in Prompts : Park(p) \/ TypedIn(p) \/ TypingFails(p) \/ NobodyThere(p)
    \/ PromptCarries \/ ReadInbox
    \/ TurnEnds \/ BoxFills \/ PaneGoes \/ SeatOpens \/ SeatAdopted \/ SeatCloses
    \/ FieldChanges \/ LookEnds \/ ServerRestarts

LEMMA TrayLeavesQueue ==
    ASSUME TrayStep
    PROVE  UNCHANGED queueVars
    BY DEF TrayStep, File, Park, TypedIn, TypingFails, NobodyThere, PromptCarries, ReadInbox,
           TurnEnds, BoxFills, PaneGoes, SeatOpens, SeatAdopted, SeatCloses, FieldChanges,
           LookEnds, ServerRestarts

\* Only a mishap counts one.
LEMMA TrayKeepsMishaps ==
    ASSUME MishapType, TrayStep
    PROVE  MishapType'
<1>1. mishaps' = mishaps \/ Mishap
    BY DEF TrayStep, File, Park, TypedIn, TypingFails, NobodyThere, PromptCarries, ReadInbox,
           TurnEnds, BoxFills, PaneGoes, SeatOpens, SeatAdopted, SeatCloses, FieldChanges,
           LookEnds, ServerRestarts
<1> QED
    BY <1>1, SeatConstants DEF Mishap, MishapType

LEMMA TrayKeepsType ==
    ASSUME TrayType, TrayStep
    PROVE  TrayType'
<1> USE DEF TrayType
<1>1. ASSUME NEW r \in ReportIds, NEW urgent \in BOOLEAN, File(r, urgent)
      PROVE  TrayType'
    <2>1. Waiting(reports') \in -1 .. MaxReports
        BY WaitingBounded, SeatConstants
    <2>2. woken' \in [field : BOOLEAN, waiting : -1 .. MaxReports]
        <3>1. CASE urgent /\ Seated
            <4>1. woken' = [field |-> woken.field, waiting |-> Waiting(reports')]
                BY <1>1, <3>1 DEF File
            <4>2. woken.field \in BOOLEAN
                OBVIOUS
            <4> QED
                BY <4>1, <4>2, <2>1
        <3>2. CASE ~(urgent /\ Seated)
            BY <1>1, <3>2 DEF File
        <3> QED
            BY <3>1, <3>2
    <2>3. reports' \in [ReportIds -> {"unfiled", "urgent", "routine", "read"}]
        BY <1>1 DEF File
    <2>4. sending' \subseteq Prompts
        BY <1>1 DEF File, Prompts
    <2>5. missed' \in BOOLEAN
        BY <1>1 DEF File
    <2> QED
        BY <1>1, <2>2, <2>3, <2>4, <2>5 DEF File
<1>2. ASSUME NEW p \in Prompts, Park(p) \/ TypedIn(p) \/ TypingFails(p) \/ NobodyThere(p)
      PROVE  TrayType'
    <2>1. CASE Park(p)
        BY <2>1 DEF Park
    <2>2. CASE TypedIn(p)
        BY <2>2 DEF TypedIn
    <2>3. CASE TypingFails(p) \/ NobodyThere(p)
        BY <2>3 DEF TypingFails, NobodyThere
    <2> QED
        BY <1>2, <2>1, <2>2, <2>3
<1>3. CASE PromptCarries \/ ReadInbox
    BY <1>3 DEF PromptCarries, ReadInbox
<1>4. CASE TurnEnds \/ BoxFills \/ SeatOpens
    BY <1>4 DEF TurnEnds, BoxFills, SeatOpens
<1>5. CASE SeatAdopted \/ FieldChanges
    <2>1. missed' \in BOOLEAN /\ field' \in BOOLEAN
        BY <1>5 DEF SeatAdopted, FieldChanges
    <2> QED
        BY <1>5, <2>1 DEF SeatAdopted, FieldChanges
<1>6. CASE PaneGoes \/ SeatCloses
    <2>1. missed' \in BOOLEAN
        BY <1>6 DEF PaneGoes, SeatCloses
    <2> QED
        BY <1>6, <2>1 DEF PaneGoes, SeatCloses
<1>7. CASE LookEnds
    <2>1. Waiting(reports) \in -1 .. MaxReports
        BY WaitingBounded, SeatConstants
    <2>2. woken' = [field |-> field, waiting |-> Waiting(reports)]
        BY <1>7 DEF LookEnds
    <2>3. woken' \in [field : BOOLEAN, waiting : -1 .. MaxReports]
        BY <2>1, <2>2
    <2>4. sending' \subseteq Prompts
        BY <1>7 DEF LookEnds, Prompts
    <2> QED
        BY <1>7, <2>3, <2>4 DEF LookEnds
<1>8. CASE ServerRestarts
    <2>1. NotWoken \in [field : BOOLEAN, waiting : -1 .. MaxReports]
        BY SeatConstants DEF NotWoken
    <2>2. missed' \in BOOLEAN
        BY <1>8 DEF ServerRestarts
    <2> QED
        BY <1>8, <2>1, <2>2 DEF ServerRestarts
<1> QED
    BY <1>1, <1>2, <1>3, <1>4, <1>5, <1>6, <1>7, <1>8 DEF TrayStep

LEMMA TrayKeepsInv ==
    ASSUME SeatInv, TrayStep
    PROVE  SeatInv'
<1>1. UNCHANGED queueVars
    BY TrayLeavesQueue
<1>2. TrayType' /\ MishapType'
    BY TypeParts, TrayKeepsType, TrayKeepsMishaps DEF SeatInv
<1>3. QueueType'
    BY <1>1, TypeParts DEF SeatInv, QueueType, queueVars
<1>4. AttemptsCounted' /\ HandsHoldRows'
    BY <1>1 DEF SeatInv, AttemptsCounted, HandsHoldRows, queueVars
<1>5. SeatTypeOK'
    BY <1>2, <1>3 DEF SeatTypeOK, TrayType, QueueType, MishapType
<1> QED
    BY <1>4, <1>5 DEF SeatInv

LEMMA ClaimKeepsInv ==
    ASSUME SeatInv, NEW t \in Tasks, NEW n \in Names, Claim(t, n)
    PROVE  SeatInv'
<1> USE DEF SeatInv
<1>0. /\ MaxAttempts \in Nat /\ task[t].tries \in Nat /\ task[t].tries < MaxAttempts
      /\ task[t].by = None /\ ~task[t].done
      /\ n \notin alive /\ handing[n] = None
    BY SeatConstants DEF Claim, Free, SeatTypeOK
<1>1. /\ task' = [task EXCEPT ![t].by = n, ![t].tries = @ + 1]
      /\ handing' = [handing EXCEPT ![n] = t] /\ handed' = [handed EXCEPT ![t] = @ + 1]
      /\ UNCHANGED <<trayVars, alive, at, early, mishaps>>
    BY DEF Claim
<1>2. task'[t] = [by |-> n, tries |-> task[t].tries + 1, done |-> FALSE]
      /\ \A u \in Tasks \ {t} : task'[u] = task[u]
    BY <1>0, <1>1 DEF SeatTypeOK
<1>3. SeatTypeOK'
    <2>1. task' \in [Tasks -> [by : Names \cup {None}, tries : 0 .. MaxAttempts, done : BOOLEAN]]
        BY <1>0, <1>1 DEF SeatTypeOK
    <2>2. \A u \in Tasks : task'[u].by # None => task'[u].tries > 0
        BY <1>0, <1>2 DEF SeatTypeOK
    <2> QED
        BY <1>1, <2>1, <2>2 DEF SeatTypeOK, trayVars
<1>4. AttemptsCounted'
    BY <1>1, <1>2 DEF AttemptsCounted, SeatTypeOK
<1>5. HandsHoldRows'
    <2> SUFFICES ASSUME NEW m \in Names, NEW u \in Tasks \ early, handing'[m] = u \/ at[m] = u
                 PROVE  task'[u].done \/ task'[u].by = m
        BY <1>1 DEF HandsHoldRows
    <2>1. CASE m = n /\ handing'[m] = u
        BY <2>1, <1>1, <1>2 DEF SeatTypeOK
    <2>2. CASE m # n \/ handing'[m] # u
        <3>1. handing[m] = u \/ at[m] = u
            BY <2>2, <1>0, <1>1 DEF SeatTypeOK
        <3>2. task[u].done \/ task[u].by = m
            BY <3>1 DEF HandsHoldRows
        <3>3. u # t
            BY <3>2, <1>0, SeatConstants
        <3> QED
            BY <3>2, <3>3, <1>2
    <2> QED
        BY <2>1, <2>2
<1> QED
    BY <1>3, <1>4, <1>5

LEMMA LookStartsKeepsInv ==
    ASSUME SeatInv, LookStarts
    PROVE  SeatInv'
<1> USE DEF SeatInv
<1>0. MaxAttempts \in Nat
    BY SeatConstants
<1>1. /\ task' = [t \in Tasks |-> IF t \in Vanished THEN Released(task[t]) ELSE task[t]]
      /\ early' = early \cup {t \in Vanished : handing[task[t].by] = t}
      /\ UNCHANGED <<alive, at, handing, handed, mishaps>>
    BY DEF LookStarts
<1>2. \A t \in Tasks : /\ task'[t].tries = task[t].tries /\ task'[t].done = task[t].done
                       /\ task'[t].by \in {task[t].by, None}
                       /\ t \notin Vanished => task'[t] = task[t]
    BY <1>1 DEF Released, SeatTypeOK
<1>3. SeatTypeOK'
    <2>1. task' \in [Tasks -> [by : Names \cup {None}, tries : 0 .. MaxAttempts, done : BOOLEAN]]
        BY <1>0, <1>1 DEF SeatTypeOK, Released
    <2>2. \A t \in Tasks : task'[t].by # None => task'[t].tries > 0
        BY <1>2 DEF SeatTypeOK
    <2>3. early' \subseteq Tasks
        BY <1>1 DEF SeatTypeOK, Vanished
    <2>4. /\ chair' \in {"free", "busy", "gone", "empty"} /\ told' \in BOOLEAN
          /\ reports' \in [ReportIds -> {"unfiled", "urgent", "routine", "read"}]
          /\ parked' \in BOOLEAN /\ field' \in BOOLEAN /\ looking' \in BOOLEAN
          /\ woken' \in [field : BOOLEAN, waiting : -1 .. MaxReports]
          /\ sending' \subseteq Prompts /\ missed' \in BOOLEAN
        BY DEF LookStarts, SeatTypeOK, Prompts
    <2> QED
        BY <1>1, <2>1, <2>2, <2>3, <2>4 DEF SeatTypeOK
<1>4. AttemptsCounted'
    BY <1>1, <1>2 DEF AttemptsCounted
<1>5. HandsHoldRows'
    <2> SUFFICES ASSUME NEW n \in Names, NEW t \in Tasks \ early', handing[n] = t \/ at[n] = t
                 PROVE  task'[t].done \/ task'[t].by = n
        BY <1>1 DEF HandsHoldRows
    <2>1. t \in Tasks \ early
        BY <1>1
    <2>2. task[t].done \/ task[t].by = n
        BY <2>1 DEF HandsHoldRows
    <2>3. t \notin Vanished
        <3> SUFFICES ASSUME t \in Vanished PROVE FALSE
            OBVIOUS
        <3>1. task[t].by = n /\ n \notin alive
            BY <2>2 DEF Vanished
        <3>2. handing[n] # t
            BY <3>1, <1>1
        <3>3. at[n] = t /\ at[n] # None
            BY <3>2, SeatConstants
        <3> QED
            BY <3>1, <3>3 DEF SeatTypeOK
    <2> QED
        BY <2>2, <2>3, <1>2
<1> QED
    BY <1>3, <1>4, <1>5

LEMMA QueueKeepsInv ==
    ASSUME SeatInv,
           \/ \E t \in Tasks : Finish(t)
           \/ \E n \in Names : AgentOpens(n) \/ NeverOpens(n) \/ AgentGoes(n)
    PROVE  SeatInv'
<1> USE DEF SeatInv
<1>1. ASSUME NEW t \in Tasks, Finish(t) PROVE SeatInv'
    <2>1. /\ task' = [task EXCEPT ![t].done = TRUE]
          /\ UNCHANGED <<trayVars, alive, at, handing, early, handed, mishaps>>
        BY <1>1 DEF Finish
    <2>2. \A u \in Tasks : /\ task'[u].by = task[u].by /\ task'[u].tries = task[u].tries
                           /\ task[u].done => task'[u].done
        BY <2>1 DEF SeatTypeOK
    <2>3. task' \in [Tasks -> [by : Names \cup {None}, tries : 0 .. MaxAttempts, done : BOOLEAN]]
        <3>1. [task[t] EXCEPT !.done = TRUE]
                  \in [by : Names \cup {None}, tries : 0 .. MaxAttempts, done : BOOLEAN]
            <4>1. task[t] \in [by : Names \cup {None}, tries : 0 .. MaxAttempts, done : BOOLEAN]
                BY DEF SeatTypeOK
            <4> QED
                BY <4>1
        <3> QED
            BY <2>1, <3>1 DEF SeatTypeOK
    <2>4. SeatTypeOK'
        BY <2>1, <2>2, <2>3 DEF SeatTypeOK, trayVars
    <2>5. AttemptsCounted' /\ HandsHoldRows'
        BY <2>1, <2>2 DEF AttemptsCounted, HandsHoldRows
    <2> QED
        BY <2>4, <2>5
<1>2. ASSUME NEW n \in Names, AgentOpens(n) PROVE SeatInv'
    <2>1. /\ handing[n] \in Tasks /\ n \notin alive /\ alive' = alive \cup {n}
          /\ at' = [at EXCEPT ![n] = handing[n]] /\ handing' = [handing EXCEPT ![n] = None]
          /\ UNCHANGED <<trayVars, task, early, handed, mishaps>>
        BY <1>2 DEF AgentOpens, SeatTypeOK
    <2>2. SeatTypeOK'
        BY <2>1, SeatConstants DEF SeatTypeOK, trayVars
    <2>3. AttemptsCounted'
        BY <2>1 DEF AttemptsCounted
    <2>4. HandsHoldRows'
        BY <2>1, SeatConstants DEF HandsHoldRows, SeatTypeOK
    <2> QED
        BY <2>2, <2>3, <2>4
<1>3. ASSUME NEW n \in Names, NeverOpens(n) PROVE SeatInv'
    <2>1. handing' = [handing EXCEPT ![n] = None]
          /\ UNCHANGED <<trayVars, task, alive, at, early, handed, mishaps>>
        BY <1>3 DEF NeverOpens
    <2> QED
        BY <2>1, SeatConstants DEF SeatTypeOK, trayVars, AttemptsCounted, HandsHoldRows
<1>4. ASSUME NEW n \in Names, AgentGoes(n) PROVE SeatInv'
    <2>1. alive' = alive \ {n} /\ at' = [at EXCEPT ![n] = None]
          /\ UNCHANGED <<trayVars, task, handing, early, handed, mishaps>>
        BY <1>4 DEF AgentGoes
    <2> QED
        BY <2>1, SeatConstants DEF SeatTypeOK, trayVars, AttemptsCounted, HandsHoldRows
<1> QED
    BY <1>1, <1>2, <1>3, <1>4

LEMMA NextInv == SeatInv /\ [SeatNext]_seatVars => SeatInv'
<1> SUFFICES ASSUME SeatInv, [SeatNext]_seatVars PROVE SeatInv'
    OBVIOUS
<1>1. CASE TrayStep
    BY <1>1, TrayKeepsInv
<1>2. CASE \E t \in Tasks, n \in Names : Claim(t, n)
    BY <1>2, ClaimKeepsInv
<1>3. CASE \/ \E t \in Tasks : Finish(t)
           \/ \E n \in Names : AgentOpens(n) \/ NeverOpens(n) \/ AgentGoes(n)
    BY <1>3, QueueKeepsInv
<1>4. CASE LookStarts
    BY <1>4, LookStartsKeepsInv
<1>5. CASE UNCHANGED seatVars
    BY <1>5 DEF SeatInv, SeatTypeOK, AttemptsCounted, HandsHoldRows, seatVars, trayVars, queueVars
<1> QED
    BY <1>1, <1>2, <1>3, <1>4, <1>5 DEF SeatNext, TrayStep

LEMMA SeatInvariant == SeatSpec => []SeatInv
    BY InitInv, NextInv, PTL DEF SeatSpec

\* Chair, tray and queue keep their shape in every behaviour.
THEOREM TypeCorrect == SeatSpec => []SeatTypeOK
<1>1. SeatInv => SeatTypeOK
    BY DEF SeatInv
<1> QED
    BY <1>1, SeatInvariant, PTL

\* No two agents at work are on one unfinished task that no look freed early.
THEOREM OneAgentPerTask == SeatSpec => []OneAtWork
<1>1. SeatInv => OneAtWork
    BY DEF SeatInv, HandsHoldRows, OneAtWork, SeatTypeOK
<1> QED
    BY <1>1, SeatInvariant, PTL

\* No task is handed out more than MaxAttempts times.
THEOREM NoThirdGo == SeatSpec => []NeverThird
<1>1. SeatInv => NeverThird
    BY SeatConstants DEF SeatInv, AttemptsCounted, NeverThird, SeatTypeOK
<1> QED
    BY <1>1, SeatInvariant, PTL
=============================================================================
