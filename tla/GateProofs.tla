----------------------------- MODULE GateProofs -----------------------------
(* Theorems about the gate, for every set of calls and every constant. *)
EXTENDS Gate, TLAPS

Link == Answer \cup Request \cup {"closed", "held", "404", "500"}

LEMMA ResolvedType ==
    ASSUME NEW row \in Row, NEW a \in Answer, NEW by \in {"human", "timeout", "restart", "rule"}
    PROVE  Resolved(row, a, by) \in Row
BY DEF Resolved, Row

LEMMA TimeoutOutcomeType == ASSUME NEW closed PROVE TimeoutOutcome(closed) \in Answer
BY DEF TimeoutOutcome, Answer

\* What a reply does to the connection and to the requests on their way.
LEMMA ReplyType ==
    ASSUME TypeOK, NEW c \in Calls, NEW kind \in Request, NEW via \in {"live", "stray"},
           NEW m \in Link, Reply(c, kind, via, m)
    PROVE  link' \in [Calls -> Link] /\ stray' \in [Calls -> SUBSET Request]
BY DEF TypeOK, Reply, Link, Request

\* finish, whoever decided.
LEMMA FinishType ==
    ASSUME TypeOK, NEW c \in Calls, NEW a \in Answer,
           NEW by \in {"human", "timeout", "restart", "rule"}, Finish(c, a, by)
    PROVE  TypeOK'
<1>1. rows' \in [Calls -> Row]
  BY ResolvedType DEF TypeOK, Finish
<1>2. waiter' \in [Calls -> Waiter]
  BY DEF TypeOK, Finish, NoWaiter, Waiter
<1>3. log' \subseteq Ruling
  BY DEF TypeOK, Finish, Ruling
<1>4. link' \in [Calls -> Link]
  BY DEF TypeOK, Finish, Link
<1> QED BY <1>1, <1>2, <1>3, <1>4 DEF TypeOK, Finish, Link, hookVars

LEMMA TypeStep == TypeOK /\ [Next]_vars => TypeOK'
<1> SUFFICES ASSUME TypeOK, [Next]_vars PROVE TypeOK'
  OBVIOUS
<1>1. CASE UNCHANGED vars
  BY <1>1 DEF TypeOK, vars
<1>2. CASE Tick
  BY <1>2 DEF TypeOK, Tick, serverVars, hookVars
<1>3. ASSUME NEW c \in Calls, Start(c) \/ Persist(c) PROVE TypeOK'
  <2>1. CASE Start(c)
    <3>1. deadline' \in [Calls -> Nat]
      BY <2>1, GateConstants DEF TypeOK, Start
    <3> QED BY <2>1, <3>1 DEF TypeOK, Start, Request, serverVars
  <2>2. CASE Retry(c)
    BY <2>2 DEF TypeOK, Retry, Request, serverVars
  <2>3. CASE HearAnswer(c)
    BY <2>3 DEF TypeOK, HearAnswer, serverVars
  <2>4. CASE HearUnknown(c)
    BY <2>4 DEF TypeOK, HearUnknown, serverVars
  <2>5. CASE HearError(c)
    BY <2>5 DEF TypeOK, HearError, serverVars
  <2>6. CASE GiveUp(c)
    BY <2>6 DEF TypeOK, GiveUp, Answer, serverVars
  <2> QED BY <1>3, <2>1, <2>2, <2>3, <2>4, <2>5, <2>6 DEF Persist
<1>4. ASSUME NEW c \in Calls, Disconnect(c) PROVE TypeOK'
  <2>1. stray' \in [Calls -> SUBSET Request]
    BY <1>4 DEF TypeOK, Disconnect, Request
  <2>2. waiter' \in [Calls -> Waiter]
    BY <1>4 DEF TypeOK, Disconnect, Waiter
  <2> QED BY <1>4, <2>1, <2>2 DEF TypeOK, Disconnect, Interrupt
<1>5. ASSUME NEW c \in Calls, Timeout(c) PROVE TypeOK'
  BY <1>5, FinishType, TimeoutOutcomeType DEF Timeout
<1>6. ASSUME NEW c \in Calls, NEW via \in {"live", "stray"}, Handle(c, via) PROVE TypeOK'
  <2>1. ASSUME NEW kind \in Request, Attach(c, kind, via) PROVE TypeOK'
    <3>1. waiter' \in [Calls -> Waiter]
      BY <2>1 DEF TypeOK, Attach, Waiter
    <3>2. link' \in [Calls -> Link] /\ stray' \in [Calls -> SUBSET Request]
      BY <2>1, ReplyType DEF Attach, Link
    <3> QED BY <2>1, <3>1, <3>2 DEF TypeOK, Attach, Link, hookVars
  <2>2. ASSUME NEW kind \in Request, Replay(c, kind, via) PROVE TypeOK'
    <3>1. link' \in [Calls -> Link] /\ stray' \in [Calls -> SUBSET Request]
      BY <2>2, ReplyType DEF Replay, Decided, Link
    <3> QED BY <2>2, <3>1 DEF TypeOK, Replay, Link, serverVars, hookVars
  <2>3. CASE Unknown(c, via)
    <3>1. link' \in [Calls -> Link] /\ stray' \in [Calls -> SUBSET Request]
      BY <2>3, ReplyType DEF Unknown, Request, Link
    <3> QED BY <2>3, <3>1 DEF TypeOK, Unknown, Link, serverVars, hookVars
  <2>4. ASSUME NEW a \in RuleVerdicts(c), RuleSpeaks(c, via, a) PROVE TypeOK'
    <3>1. a \in Answer
      BY DEF RuleVerdicts, Answer
    <3>2. link' \in [Calls -> Link] /\ stray' \in [Calls -> SUBSET Request]
      BY <2>4, <3>1, ReplyType DEF RuleSpeaks, Request, Link
    <3>3. NewRow(now, FALSE) \in Row
      BY DEF TypeOK, NewRow, Row
    <3>4. rows' \in [Calls -> Row]
      BY <2>4, <3>1, <3>3, ResolvedType DEF TypeOK, RuleSpeaks
    <3>5. log' \subseteq Ruling
      BY <2>4, <3>1 DEF TypeOK, RuleSpeaks, Ruling
    <3> QED BY <2>4, <3>2, <3>4, <3>5 DEF TypeOK, RuleSpeaks, Link, hookVars
  <2>5. ASSUME NEW a \in RuleVerdicts(c), RuleUnrecorded(c, via, a) PROVE TypeOK'
    <3>1. a \in Answer
      BY DEF RuleVerdicts, Answer
    <3>2. link' \in [Calls -> Link] /\ stray' \in [Calls -> SUBSET Request]
      BY <2>5, <3>1, ReplyType DEF RuleUnrecorded, Request, Link
    <3>3. log' \subseteq Ruling
      BY <2>5, <3>1 DEF TypeOK, RuleUnrecorded, Ruling
    <3> QED BY <2>5, <3>2, <3>3 DEF TypeOK, RuleUnrecorded, Link, hookVars
  <2>6. CASE Hold(c, via)
    <3>1. now + Wait(c) \in Nat
      BY GateConstants DEF TypeOK, Wait
    <3>2. link' \in [Calls -> Link] /\ stray' \in [Calls -> SUBSET Request]
      BY <2>6, ReplyType DEF Hold, Request, Link
    <3>3. rows' \in [Calls -> Row]
      BY <2>6, <3>1 DEF TypeOK, Hold, NewRow, Row
    <3>4. waiter' \in [Calls -> Waiter]
      BY <2>6, <3>1 DEF TypeOK, Hold, Waiter
    <3> QED BY <2>6, <3>2, <3>3, <3>4 DEF TypeOK, Hold, Link, hookVars
  <2>7. CASE HoldFails(c, via)
    <3>1. link' \in [Calls -> Link] /\ stray' \in [Calls -> SUBSET Request]
      BY <2>7, ReplyType DEF HoldFails, Request, Link
    <3> QED BY <2>7, <3>1 DEF TypeOK, HoldFails, Link, serverVars, hookVars
  <2> QED BY <1>6, <2>1, <2>2, <2>3, <2>4, <2>5, <2>6, <2>7 DEF Handle
<1>7. ASSUME NEW c \in Calls, NEW a \in {"deny", "approve"}, Decide(c, a) PROVE TypeOK'
  BY <1>7, FinishType DEF Decide, Answer
<1>8. CASE EraseHistory
  BY <1>8 DEF TypeOK, EraseHistory, NoRow, Row, hookVars
<1>9. CASE Crash
  <2>1. waiter' \in [Calls -> Waiter] /\ stray' \in [Calls -> SUBSET Request]
    BY <1>9 DEF TypeOK, Crash, NoWaiter, Waiter
  <2> QED BY <1>9, <2>1 DEF TypeOK, Crash, Interrupt
<1>10. CASE Restart
  <2>1. rows' \in [Calls -> Row]
    BY <1>10, ResolvedType, TimeoutOutcomeType DEF TypeOK, Restart
  <2>2. waiter' \in [Calls -> Waiter]
    BY <1>10 DEF TypeOK, Restart, NoWaiter, Waiter, Row
  <2>3. log' \subseteq Ruling
    BY <1>10, TimeoutOutcomeType DEF TypeOK, Restart, Ruling
  <2> QED BY <1>10, <2>1, <2>2, <2>3 DEF TypeOK, Restart, hookVars
<1> QED BY <1>1, <1>2, <1>3, <1>4, <1>5, <1>6, <1>7, <1>8, <1>9, <1>10 DEF Next

\* Every variable keeps its type, whatever is lost, crashes or comes back.
THEOREM TypeCorrect == Spec => []TypeOK
<1>1. Init => TypeOK
  BY DEF Init, TypeOK, NoRow, NoWaiter, Row, Waiter
<1> QED BY <1>1, TypeStep, PTL DEF Spec
-----------------------------------------------------------------------------
(* The queue in memory and the rows on disk. *)

LEMMA QueueFinish ==
    ASSUME TypeOK, QueueMatchesRows, up, NEW c \in Calls, NEW a \in Answer,
           NEW by \in {"human", "timeout", "restart", "rule"}, Finish(c, a, by)
    PROVE  QueueMatchesRows'
<1> SUFFICES ASSUME NEW d \in Calls
             PROVE  /\ Waiting(d)' => up' /\ waiter'[d].due = rows'[d].expires
                                      /\ waiter'[d].closed = rows'[d].closed
                    /\ up' => (Waiting(d)' <=> Undecided(d)')
                    /\ Undecided(d)' => rows'[d].closed = (d \in Outward)
  BY DEF QueueMatchesRows, Waiting, Undecided
<1>1. up' = up
  BY DEF Finish
<1>2. CASE d = c
  <2>1. waiter'[c].conn = "none"
    BY DEF Finish, TypeOK, NoWaiter
  <2>2. rows'[c].ruling # "pending"
    BY DEF Finish, TypeOK, Row, Resolved, Answer
  <2> QED BY <1>2, <2>1, <2>2 DEF Waiting, Undecided
<1>3. CASE d # c
  <2>1. waiter'[d] = waiter[d] /\ rows'[d] = rows[d]
    BY <1>3 DEF Finish, TypeOK
  <2> QED BY <1>1, <2>1 DEF QueueMatchesRows, Waiting, Undecided
<1> QED BY <1>2, <1>3

LEMMA QueueStep ==
    TypeOK /\ QueueMatchesRows /\ [Next]_vars => QueueMatchesRows'
<1> SUFFICES ASSUME TypeOK, QueueMatchesRows, [Next]_vars PROVE QueueMatchesRows'
  OBVIOUS
<1>1. ASSUME up' = up, rows' = rows,
             waiter' \in [Calls -> Waiter],
             \A d \in Calls : /\ waiter'[d].conn = "none" <=> waiter[d].conn = "none"
                              /\ waiter'[d].due = waiter[d].due
                              /\ waiter'[d].closed = waiter[d].closed
      PROVE QueueMatchesRows'
  BY <1>1 DEF QueueMatchesRows, Waiting, Undecided
<1>2. ASSUME UNCHANGED <<up, rows, waiter>> PROVE QueueMatchesRows'
  BY <1>2 DEF QueueMatchesRows, Waiting, Undecided
<1>3. CASE UNCHANGED vars
  BY <1>2, <1>3 DEF vars
<1>4. CASE Tick
  BY <1>2, <1>4 DEF Tick, serverVars
<1>5. ASSUME NEW c \in Calls, Start(c) \/ Persist(c) PROVE QueueMatchesRows'
  BY <1>2, <1>5
     DEF Persist, Start, Retry, HearAnswer, HearUnknown, HearError, GiveUp, serverVars
<1>6. ASSUME NEW c \in Calls, Disconnect(c) PROVE QueueMatchesRows'
  <2>1. waiter' \in [Calls -> Waiter]
    BY <1>6 DEF Disconnect, TypeOK, Waiter
  <2>2. ASSUME NEW d \in Calls
        PROVE  /\ waiter'[d].conn = "none" <=> waiter[d].conn = "none"
               /\ waiter'[d].due = waiter[d].due
               /\ waiter'[d].closed = waiter[d].closed
    BY <1>6 DEF Disconnect, TypeOK, Waiter
  <2> QED BY <1>1, <1>6, <2>1, <2>2 DEF Disconnect
<1>7. ASSUME NEW c \in Calls, Timeout(c) PROVE QueueMatchesRows'
  <2>1. up
    BY <1>7 DEF Timeout, QueueMatchesRows
  <2> QED BY <1>7, <2>1, QueueFinish, TimeoutOutcomeType DEF Timeout
<1>8. ASSUME NEW c \in Calls, NEW via \in {"live", "stray"}, Handle(c, via)
      PROVE  QueueMatchesRows'
  <2>1. ASSUME NEW kind \in Request, Attach(c, kind, via) PROVE QueueMatchesRows'
    <3>1. waiter' \in [Calls -> Waiter]
      BY <2>1 DEF Attach, TypeOK, Waiter
    <3>2. ASSUME NEW d \in Calls
          PROVE  /\ waiter'[d].conn = "none" <=> waiter[d].conn = "none"
                 /\ waiter'[d].due = waiter[d].due
                 /\ waiter'[d].closed = waiter[d].closed
      BY <2>1 DEF Attach, Waiting, TypeOK, Waiter
    <3> QED BY <1>1, <2>1, <3>1, <3>2 DEF Attach
  <2>2. ASSUME NEW kind \in Request, Replay(c, kind, via) PROVE QueueMatchesRows'
    BY <1>2, <2>2 DEF Replay, serverVars
  <2>3. CASE Unknown(c, via)
    BY <1>2, <2>3 DEF Unknown, serverVars
  <2>4. ASSUME NEW a \in RuleVerdicts(c), RuleSpeaks(c, via, a) PROVE QueueMatchesRows'
    <3>1. rows'[c].ruling = a /\ a # "pending"
      BY <2>4 DEF RuleSpeaks, RuleVerdicts, TypeOK, Resolved, NewRow
    <3>2. up /\ up' = up /\ waiter' = waiter /\ ~Waiting(c)
      BY <2>4 DEF RuleSpeaks, Fresh, Arrives
    <3>3. ASSUME NEW d \in Calls, d # c PROVE rows'[d] = rows[d]
      BY <2>4, <3>3 DEF RuleSpeaks, TypeOK
    <3> QED BY <3>1, <3>2, <3>3 DEF QueueMatchesRows, Waiting, Undecided
  <2>5. ASSUME NEW a \in RuleVerdicts(c), RuleUnrecorded(c, via, a) PROVE QueueMatchesRows'
    BY <1>2, <2>5 DEF RuleUnrecorded
  <2>6. CASE Hold(c, via)
    <3>1. rows'[c] = NewRow(now + Wait(c), c \in Outward)
      BY <2>6 DEF Hold, TypeOK
    <3>2. /\ waiter'[c].conn \in {"held", "unheld"}
          /\ waiter'[c].due = now + Wait(c)
          /\ waiter'[c].closed = (c \in Outward)
      BY <2>6 DEF Hold, TypeOK
    <3>3. up /\ up' = up
      BY <2>6 DEF Hold, Fresh, Arrives
    <3>4. ASSUME NEW d \in Calls, d # c
          PROVE  rows'[d] = rows[d] /\ waiter'[d] = waiter[d]
      BY <2>6, <3>4 DEF Hold, TypeOK
    <3> QED BY <3>1, <3>2, <3>3, <3>4 DEF QueueMatchesRows, Waiting, Undecided, NewRow
  <2>7. CASE HoldFails(c, via)
    BY <1>2, <2>7 DEF HoldFails, serverVars
  <2> QED BY <1>8, <2>1, <2>2, <2>3, <2>4, <2>5, <2>6, <2>7 DEF Handle
<1>9. ASSUME NEW c \in Calls, NEW a \in {"deny", "approve"}, Decide(c, a)
      PROVE  QueueMatchesRows'
  BY <1>9, QueueFinish DEF Decide, Answer
<1>10. CASE EraseHistory
  <2>1. ASSUME NEW d \in Calls
        PROVE  rows'[d] = IF Decided(d) THEN NoRow ELSE rows[d]
    BY <1>10 DEF EraseHistory
  <2>2. up' = up /\ up /\ waiter' = waiter
    BY <1>10 DEF EraseHistory
  <2> QED BY <2>1, <2>2 DEF QueueMatchesRows, Waiting, Undecided, Decided, NoRow, Answer
<1>11. CASE Crash
  BY <1>11 DEF Crash, QueueMatchesRows, Waiting, Undecided, NoWaiter
<1>12. CASE Restart
  <2>1. ASSUME NEW d \in Calls, Undecided(d), ~Expired(d)
        PROVE  /\ rows'[d] = rows[d]
               /\ waiter'[d] = [conn |-> "unheld", due |-> rows[d].expires,
                                closed |-> rows[d].closed]
    BY <1>12, <2>1 DEF Restart
  <2>2. ASSUME NEW d \in Calls, ~(Undecided(d) /\ ~Expired(d))
        PROVE  waiter'[d] = NoWaiter /\ rows'[d].ruling # "pending"
    <3>1. waiter'[d] = NoWaiter
      BY <1>12, <2>2 DEF Restart
    <3>2. CASE Expired(d)
      <4> DEFINE out == TimeoutOutcome(rows[d].closed)
      <4>1. rows'[d] = Resolved(rows[d], out, "restart")
        BY <1>12, <3>2 DEF Restart
      <4>2. out \in Answer /\ rows[d] \in Row /\ rows[d].ruling = "pending"
        BY <3>2, TimeoutOutcomeType DEF Expired, Undecided, TypeOK
      <4> HIDE DEF out
      <4> QED BY <3>1, <4>1, <4>2 DEF Resolved, Row, Answer
    <3>3. CASE ~Expired(d)
      BY <1>12, <2>2, <3>1, <3>3 DEF Restart, Undecided
    <3> QED BY <3>2, <3>3
  <2>3. up'
    BY <1>12 DEF Restart
  <2>4. ASSUME NEW d \in Calls
        PROVE  /\ Waiting(d)' => up' /\ waiter'[d].due = rows'[d].expires
                                  /\ waiter'[d].closed = rows'[d].closed
               /\ up' => (Waiting(d)' <=> Undecided(d)')
               /\ Undecided(d)' => rows'[d].closed = (d \in Outward)
    <3>1. CASE Undecided(d) /\ ~Expired(d)
      <4>1. /\ waiter'[d].conn = "unheld" /\ waiter'[d].due = rows'[d].expires
            /\ waiter'[d].closed = rows'[d].closed
        <5>1. /\ rows'[d] = rows[d]
              /\ waiter'[d] = [conn |-> "unheld", due |-> rows[d].expires,
                               closed |-> rows[d].closed]
          BY <2>1, <3>1
        <5> QED BY <5>1
      <4>2. rows'[d].closed = (d \in Outward)
        BY <2>1, <3>1 DEF QueueMatchesRows
      <4> QED BY <2>1, <2>3, <3>1, <4>1, <4>2 DEF Waiting, Undecided
    <3>2. CASE ~(Undecided(d) /\ ~Expired(d))
      BY <2>2, <3>2 DEF Waiting, Undecided, NoWaiter
    <3> QED BY <3>1, <3>2
  <2> QED BY <2>4 DEF QueueMatchesRows, Waiting, Undecided
<1> QED BY <1>3, <1>4, <1>5, <1>6, <1>7, <1>8, <1>9, <1>10, <1>11, <1>12 DEF Next

\* No restart, reconnect or repeated request loses a held call or holds a decided one.
THEOREM QueueSafe == Spec => []QueueMatchesRows
<1>1. Init => QueueMatchesRows
  <2> SUFFICES ASSUME Init, NEW c \in Calls
               PROVE  ~Waiting(c) /\ ~Undecided(c)
    BY DEF QueueMatchesRows
  <2> QED BY DEF Init, Waiting, Undecided, NoRow, NoWaiter
<1> QED BY <1>1, QueueStep, TypeCorrect, PTL DEF Spec
-----------------------------------------------------------------------------
(* The rulings: who may give them, and what they leave behind. *)

LEMMA RuleLawful ==
    ASSUME NEW c \in Calls, NEW a \in RuleVerdicts(c)
    PROVE  [call |-> c, answer |-> a, by |-> "rule"] \in Abs!Lawful
BY DEF RuleVerdicts, Abs!Lawful, Abs!LawfulAnswer, Abs!Ruling, Abs!Answer, Abs!Resolution,
       Abs!RuleAnswers

LEMMA HumanLawful ==
    ASSUME NEW c \in Calls, NEW a \in {"deny", "approve"}
    PROVE  [call |-> c, answer |-> a, by |-> "human"] \in Abs!Lawful
BY DEF Abs!Lawful, Abs!LawfulAnswer, Abs!Ruling, Abs!Answer, Abs!Resolution

LEMMA ClockLawful ==
    ASSUME NEW c \in Calls, NEW by \in {"timeout", "restart"}, NEW closed,
           closed = (c \in Outward)
    PROVE  [call |-> c, answer |-> TimeoutOutcome(closed), by |-> by] \in Abs!Lawful
BY DEF TimeoutOutcome, Abs!Lawful, Abs!LawfulAnswer, Abs!Ruling, Abs!Answer, Abs!Resolution,
       Abs!ClockAnswer

\* Only a person can have approved, and nothing else lets an outward call by.
LEMMA LawfulApproval ==
    ASSUME NEW r \in Abs!Lawful,
           r.answer = "approve" \/ (r.call \in Outward /\ r.answer # "deny")
    PROVE  r = [call |-> r.call, answer |-> "approve", by |-> "human"]
BY DEF Abs!Lawful, Abs!LawfulAnswer, Abs!Ruling, Abs!Answer, Abs!Resolution,
       Abs!ClockAnswer, Abs!RuleAnswers
\* RulingsAccounted, call by call.
Accounted(c) ==
    /\ Decided(c) => RulingOf(c) \in log
    /\ c \notin offRecord => \A r \in log : r.call = c => Decided(c) /\ r = RulingOf(c)
    /\ link[c] \in Answer => \E r \in log : r.call = c /\ r.answer = link[c]
    /\ outcome[c] # "none" /\ c \notin gaveUp =>
         \E r \in log : r.call = c /\ r.answer = outcome[c]
    /\ c \in gaveUp => outcome[c] = Abs!Fallback

\* A call whose row, answer and outcome a step leaves alone stays accounted for,
\* if the step says nothing new about it.
LEMMA AccountedKept ==
    ASSUME NEW c \in Calls, Accounted(c), log \subseteq log', rows'[c] = rows[c],
           link'[c] = link[c] \/ link'[c] \notin Answer,
           outcome'[c] = outcome[c], c \in gaveUp' <=> c \in gaveUp,
           offRecord \subseteq offRecord',
           c \notin offRecord' => \A r \in log' : r.call = c => r \in log
    PROVE  Accounted(c)'
<1>1. Decided(c)' <=> Decided(c)
  BY DEF Decided
<1>2. RulingOf(c)' = RulingOf(c)
  BY DEF RulingOf
<1> QED BY <1>1, <1>2 DEF Accounted

\* A ruling goes on the record of a call that had none, and may be its answer.
LEMMA AccountedRuled ==
    ASSUME NEW c \in Calls, Accounted(c), ~Decided(c), NEW a \in Answer, NEW by,
           log' = log \cup {[call |-> c, answer |-> a, by |-> by]},
           rows'[c].ruling = a, rows'[c].by = by,
           link'[c] = link[c] \/ link'[c] = a \/ link'[c] \notin Answer,
           UNCHANGED <<outcome, gaveUp, offRecord>>
    PROVE  Accounted(c)'
<1> DEFINE r == [call |-> c, answer |-> a, by |-> by]
<1>1. Decided(c)' /\ RulingOf(c)' = r
  BY DEF Decided, RulingOf
<1>2. r \in log' /\ r.call = c /\ r.answer = a
  OBVIOUS
<1>3. \A q \in log' : q \in log \/ q = r
  OBVIOUS
<1>4. c \notin offRecord' => \A q \in log' : q.call = c => q = r
  BY <1>3 DEF Accounted
<1> HIDE DEF r
<1>5. link'[c] \in Answer => \E q \in log' : q.call = c /\ q.answer = link'[c]
  BY <1>2 DEF Accounted
<1> QED BY <1>1, <1>2, <1>4, <1>5 DEF Accounted

LEMMA AccountFinish ==
    ASSUME TypeOK, RulingsAccounted, NEW c \in Calls, Undecided(c), NEW a \in Answer,
           NEW by \in {"human", "timeout", "restart", "rule"},
           [call |-> c, answer |-> a, by |-> by] \in Abs!Lawful, Finish(c, a, by)
    PROVE  RulingsAccounted'
<1>1. log' \subseteq Abs!Lawful
  BY DEF Finish, RulingsAccounted
<1>2. ASSUME NEW d \in Calls PROVE Accounted(d)'
  <2>0. Accounted(d)
    BY DEF RulingsAccounted, Accounted
  <2>1. CASE d = c
    <3>1. rows'[c].ruling = a /\ rows'[c].by = by
      BY DEF Finish, TypeOK, Row, Resolved, Undecided
    <3>2. ~Decided(c)
      BY DEF Undecided, Decided, Answer
    <3> QED BY <2>0, <2>1, <3>1, <3>2, AccountedRuled DEF Finish, TypeOK, hookVars
  <2>2. CASE d # c
    BY <2>0, <2>2, AccountedKept DEF Finish, TypeOK, hookVars
  <2> QED BY <2>1, <2>2
<1> QED BY <1>1, <1>2 DEF RulingsAccounted, Accounted
\* HookMatchesLink, call by call.
Matched(c) ==
    /\ link[c] # "closed" <=> hook[c] \in {"first", "retry"}
    /\ outcome[c] # "none" <=> hook[c] = "done"
    /\ c \in gaveUp => hook[c] = "done"
    /\ waiter[c].conn = "held" => link[c] = "held"

LEMMA MatchedKept ==
    ASSUME NEW c \in Calls, Matched(c), link'[c] = link[c], hook'[c] = hook[c],
           outcome'[c] = outcome[c], c \in gaveUp' <=> c \in gaveUp,
           waiter'[c] = waiter[c] \/ waiter'[c].conn # "held"
    PROVE  Matched(c)'
BY DEF Matched

\* A request is taken off the connection and m put in its place.
LEMMA MatchedReply ==
    ASSUME TypeOK, HookMatchesLink, NEW c \in Calls, NEW kind \in Request,
           NEW via \in {"live", "stray"}, NEW m, m # "closed",
           Arrives(c, kind, via), Reply(c, kind, via, m), UNCHANGED hookVars,
           \A d \in Calls : d # c => waiter'[d] = waiter[d],
           waiter'[c].conn = "held" => via = "live" /\ m = "held"
    PROVE  HookMatchesLink'
<1>1. ASSUME NEW d \in Calls PROVE Matched(d)'
  <2>0. Matched(d)
    BY DEF HookMatchesLink, Matched
  <2>1. CASE d # c
    <3>1. link'[d] = link[d]
      BY <2>1 DEF Reply, TypeOK
    <3> QED BY <2>0, <2>1, <3>1, MatchedKept DEF hookVars
  <2>2. CASE d = c /\ via = "live"
    <3>1. link[c] = kind /\ link'[c] = m /\ kind # "closed"
      BY <2>2 DEF Arrives, Reply, TypeOK, Request
    <3> QED BY <2>0, <2>2, <3>1 DEF Matched, hookVars
  <2>3. CASE d = c /\ via = "stray"
    <3>1. link' = link
      BY <2>3 DEF Reply
    <3> QED BY <2>0, <2>3, <3>1 DEF Matched, hookVars
  <2> QED BY <2>1, <2>2, <2>3
<1> QED BY <1>1 DEF HookMatchesLink, Matched

LEMMA MatchedFinish ==
    ASSUME TypeOK, HookMatchesLink, NEW c \in Calls, NEW a \in Answer, NEW by,
           Finish(c, a, by)
    PROVE  HookMatchesLink'
<1>1. ASSUME NEW d \in Calls PROVE Matched(d)'
  <2>0. Matched(d)
    BY DEF HookMatchesLink, Matched
  <2>1. CASE d # c
    BY <2>0, <2>1, MatchedKept DEF Finish, TypeOK, hookVars
  <2>2. CASE d = c
    <3>1. waiter'[c].conn = "none"
      BY DEF Finish, TypeOK, NoWaiter
    <3>2. CASE waiter[c].conn = "held"
      <4>1. link[c] # "closed" /\ link'[c] = a /\ a # "closed"
        BY <2>0, <2>2, <3>2 DEF Matched, Finish, TypeOK, Answer
      <4> QED BY <2>0, <2>2, <3>1, <4>1 DEF Matched, Finish, hookVars
    <3>3. CASE waiter[c].conn # "held"
      BY <2>0, <2>2, <3>1, <3>3, MatchedKept DEF Finish, hookVars
    <3> QED BY <3>2, <3>3
  <2> QED BY <2>1, <2>2
<1> QED BY <1>1 DEF HookMatchesLink, Matched
LEMMA MatchedStep ==
    TypeOK /\ HookMatchesLink /\ [Next]_vars => HookMatchesLink'
<1> SUFFICES ASSUME TypeOK, HookMatchesLink, [Next]_vars PROVE HookMatchesLink'
  OBVIOUS
<1>1. ASSUME \A d \in Calls : Matched(d)' PROVE HookMatchesLink'
  BY <1>1 DEF HookMatchesLink, Matched
<1>2. \A d \in Calls : Matched(d)
  BY DEF HookMatchesLink, Matched
<1>3. CASE UNCHANGED vars
  BY <1>1, <1>2, <1>3, MatchedKept DEF vars
<1>4. CASE Tick
  BY <1>1, <1>2, <1>4, MatchedKept DEF Tick, serverVars, hookVars
<1>5. ASSUME NEW c \in Calls, Start(c) \/ Persist(c) PROVE HookMatchesLink'
  <2>1. ASSUME NEW d \in Calls, d # c PROVE Matched(d)'
    <3>1. /\ link'[d] = link[d] /\ hook'[d] = hook[d] /\ outcome'[d] = outcome[d]
          /\ (d \in gaveUp' <=> d \in gaveUp) /\ waiter' = waiter
      BY <1>5, <2>1 DEF Persist, Start, Retry, HearAnswer, HearUnknown, HearError, GiveUp,
                        serverVars, TypeOK
    <3> QED BY <1>2, <3>1, MatchedKept
  <2>2. Matched(c)'
    <3>1. CASE Start(c)
      BY <1>2, <3>1 DEF Start, Matched, serverVars, TypeOK
    <3>2. CASE Retry(c)
      BY <1>2, <3>2 DEF Retry, Matched, serverVars, TypeOK
    <3>3. CASE HearAnswer(c)
      BY <1>2, <3>3 DEF HearAnswer, Matched, serverVars, TypeOK, Answer
    <3>4. CASE HearUnknown(c)
      BY <1>2, <3>4 DEF HearUnknown, Matched, serverVars, TypeOK
    <3>5. CASE HearError(c)
      BY <1>2, <3>5 DEF HearError, Matched, serverVars, TypeOK
    <3>6. CASE GiveUp(c)
      BY <1>2, <3>6 DEF GiveUp, Matched, serverVars, TypeOK
    <3> QED BY <1>5, <3>1, <3>2, <3>3, <3>4, <3>5, <3>6 DEF Persist
  <2> QED BY <1>1, <2>1, <2>2
<1>6. ASSUME NEW c \in Calls, Disconnect(c) PROVE HookMatchesLink'
  <2>1. ASSUME NEW d \in Calls, d # c PROVE Matched(d)'
    BY <1>2, <1>6, <2>1, MatchedKept DEF Disconnect, Interrupt, TypeOK
  <2>2. Matched(c)'
    <3>1. waiter'[c].conn # "held"
      BY <1>2, <1>6 DEF Disconnect, Matched, TypeOK, Waiter
    <3> QED BY <1>2, <1>6, <3>1 DEF Disconnect, Interrupt, Matched, TypeOK
  <2> QED BY <1>1, <2>1, <2>2
<1>7. ASSUME NEW c \in Calls, Timeout(c) PROVE HookMatchesLink'
  BY <1>7, MatchedFinish, TimeoutOutcomeType DEF Timeout
<1>8. ASSUME NEW c \in Calls, NEW via \in {"live", "stray"}, Handle(c, via)
      PROVE  HookMatchesLink'
  <2>1. ASSUME NEW kind \in Request, Attach(c, kind, via) PROVE HookMatchesLink'
    <3>1. waiter'[c].conn = "held" => via = "live"
      BY <2>1 DEF Attach, TypeOK
    <3>2. \A d \in Calls : d # c => waiter'[d] = waiter[d]
      BY <2>1 DEF Attach, TypeOK
    <3> QED BY <2>1, <3>1, <3>2, MatchedReply DEF Attach
  <2>2. ASSUME NEW kind \in Request, Replay(c, kind, via) PROVE HookMatchesLink'
    BY <2>2, MatchedReply DEF Replay, Waiting, Decided, Answer, serverVars
  <2>3. CASE Unknown(c, via)
    BY <2>3, MatchedReply DEF Unknown, Waiting, Request, serverVars
  <2>4. ASSUME NEW a \in RuleVerdicts(c), RuleSpeaks(c, via, a) PROVE HookMatchesLink'
    BY <2>4, MatchedReply DEF RuleSpeaks, Fresh, Waiting, Request, RuleVerdicts
  <2>5. ASSUME NEW a \in RuleVerdicts(c), RuleUnrecorded(c, via, a) PROVE HookMatchesLink'
    BY <2>5, MatchedReply DEF RuleUnrecorded, Fresh, Waiting, Request, RuleVerdicts
  <2>6. CASE Hold(c, via)
    <3>1. waiter'[c].conn = "held" => via = "live"
      BY <2>6 DEF Hold, TypeOK
    <3>2. \A d \in Calls : d # c => waiter'[d] = waiter[d]
      BY <2>6 DEF Hold, TypeOK
    <3> QED BY <2>6, <3>1, <3>2, MatchedReply DEF Hold, Fresh, Request
  <2>7. CASE HoldFails(c, via)
    BY <2>7, MatchedReply DEF HoldFails, Fresh, Waiting, Request, serverVars
  <2> QED BY <1>8, <2>1, <2>2, <2>3, <2>4, <2>5, <2>6, <2>7 DEF Handle
<1>9. ASSUME NEW c \in Calls, NEW a \in {"deny", "approve"}, Decide(c, a)
      PROVE  HookMatchesLink'
  BY <1>9, MatchedFinish DEF Decide, Answer
<1>10. CASE EraseHistory
  BY <1>1, <1>2, <1>10, MatchedKept DEF EraseHistory, hookVars
<1>11. CASE Crash
  <2>1. ASSUME NEW d \in Calls PROVE Matched(d)'
    <3>1. waiter'[d].conn = "none"
      BY <1>11 DEF Crash, NoWaiter
    <3> QED BY <1>2, <1>11, <3>1 DEF Crash, Interrupt, Matched, Request, TypeOK
  <2> QED BY <1>1, <2>1
<1>12. CASE Restart
  <2>1. ASSUME NEW d \in Calls PROVE waiter'[d].conn # "held"
    BY <1>12 DEF Restart, NoWaiter
  <2> QED BY <1>1, <1>2, <1>12, <2>1, MatchedKept DEF Restart, hookVars
<1> QED BY <1>3, <1>4, <1>5, <1>6, <1>7, <1>8, <1>9, <1>10, <1>11, <1>12 DEF Next
LEMMA AccountStep ==
    /\ TypeOK /\ QueueMatchesRows /\ HookMatchesLink /\ RulingsAccounted
    /\ [Next]_vars
    => RulingsAccounted'
<1> SUFFICES ASSUME TypeOK, QueueMatchesRows, HookMatchesLink, RulingsAccounted, [Next]_vars
             PROVE  RulingsAccounted'
  OBVIOUS
<1>1. ASSUME log' \subseteq Abs!Lawful, \A d \in Calls : Accounted(d)'
      PROVE  RulingsAccounted'
  BY <1>1 DEF RulingsAccounted, Accounted
<1>2. log \subseteq Abs!Lawful /\ \A d \in Calls : Accounted(d)
  BY DEF RulingsAccounted, Accounted
\* Steps that give no ruling and keep every row.
<1>3. ASSUME UNCHANGED <<rows, log, outcome, gaveUp, offRecord>>,
             \A d \in Calls : link'[d] = link[d] \/ link'[d] \notin Answer
      PROVE  RulingsAccounted'
  BY <1>1, <1>2, <1>3, AccountedKept
<1>4. CASE UNCHANGED vars
  BY <1>3, <1>4 DEF vars
<1>5. CASE Tick
  BY <1>3, <1>5 DEF Tick, serverVars, hookVars
<1>6. ASSUME NEW c \in Calls, Start(c) \/ Persist(c) PROVE RulingsAccounted'
  <2>1. CASE Start(c)
    BY <1>3, <2>1 DEF Start, serverVars, TypeOK, Answer
  <2>2. CASE Retry(c)
    BY <1>3, <2>2 DEF Retry, serverVars, TypeOK, Answer
  <2>3. CASE HearAnswer(c)
    <3>1. ASSUME NEW d \in Calls, d # c PROVE Accounted(d)'
      BY <1>2, <2>3, <3>1, AccountedKept DEF HearAnswer, serverVars, TypeOK
    <3>2. link[c] \in Answer /\ link'[c] = "closed" /\ outcome'[c] = link[c]
      BY <2>3 DEF HearAnswer, TypeOK
    <3>3. c \notin gaveUp
      BY <3>2 DEF HookMatchesLink, Answer
    <3>4. UNCHANGED <<rows, log, gaveUp, offRecord>>
      BY <2>3 DEF HearAnswer, serverVars
    <3>5. Decided(c)' <=> Decided(c)
      BY <3>4 DEF Decided
    <3>6. RulingOf(c)' = RulingOf(c)
      BY <3>4 DEF RulingOf
    <3>7. link'[c] \notin Answer
      BY <3>2 DEF Answer
    <3>8. Accounted(c)'
      BY <1>2, <3>2, <3>3, <3>4, <3>5, <3>6, <3>7 DEF Accounted
    <3> QED BY <1>1, <1>2, <3>1, <3>4, <3>8
  <2>4. CASE HearUnknown(c)
    BY <1>3, <2>4 DEF HearUnknown, serverVars, TypeOK, Answer
  <2>5. CASE HearError(c)
    BY <1>3, <2>5 DEF HearError, serverVars, TypeOK, Answer
  <2>6. CASE GiveUp(c)
    <3>1. ASSUME NEW d \in Calls, d # c PROVE Accounted(d)'
      BY <1>2, <2>6, <3>1, AccountedKept DEF GiveUp, serverVars, TypeOK
    <3>2. UNCHANGED <<rows, log, link, offRecord>> /\ c \in gaveUp'
      BY <2>6 DEF GiveUp, serverVars
    <3>3. outcome'[c] = Abs!Fallback
      BY <2>6 DEF GiveUp, TypeOK, Abs!Fallback
    <3>4. Decided(c)' <=> Decided(c)
      BY <3>2 DEF Decided
    <3>5. RulingOf(c)' = RulingOf(c)
      BY <3>2 DEF RulingOf
    <3>6. Accounted(c)'
      BY <1>2, <3>2, <3>3, <3>4, <3>5 DEF Accounted
    <3> QED BY <1>1, <1>2, <3>1, <3>2, <3>6
  <2> QED BY <1>6, <2>1, <2>2, <2>3, <2>4, <2>5, <2>6 DEF Persist
<1>7. ASSUME NEW c \in Calls, Disconnect(c) PROVE RulingsAccounted'
  BY <1>3, <1>7 DEF Disconnect, Interrupt, Answer
<1>8. ASSUME NEW c \in Calls, Timeout(c) PROVE RulingsAccounted'
  <2>1. Undecided(c) /\ waiter[c].closed = (c \in Outward)
    BY <1>8 DEF Timeout, QueueMatchesRows
  <2> QED BY <1>8, <2>1, ClockLawful, AccountFinish, TimeoutOutcomeType DEF Timeout
<1>9. ASSUME NEW c \in Calls, NEW via \in {"live", "stray"}, Handle(c, via)
      PROVE  RulingsAccounted'
  \* What goes back to the hook, when it is not a ruling.
  <2>1. ASSUME NEW kind \in Request, NEW m, m \notin Answer, Reply(c, kind, via, m),
               UNCHANGED <<rows, log, outcome, gaveUp, offRecord>>
        PROVE  RulingsAccounted'
    BY <1>3, <2>1 DEF Reply, TypeOK
  <2>2. ASSUME NEW kind \in Request, Attach(c, kind, via) PROVE RulingsAccounted'
    BY <2>1, <2>2 DEF Attach, Answer, hookVars
  <2>3. ASSUME NEW kind \in Request, Replay(c, kind, via) PROVE RulingsAccounted'
    <3>1. UNCHANGED <<rows, log, outcome, gaveUp, offRecord>>
      BY <2>3 DEF Replay, serverVars, hookVars
    <3>2. ASSUME NEW d \in Calls, d # c PROVE Accounted(d)'
      BY <1>2, <2>3, <3>1, <3>2, AccountedKept DEF Replay, Reply, TypeOK
    <3>3. RulingOf(c) \in log /\ RulingOf(c).call = c /\ RulingOf(c).answer = rows[c].ruling
      BY <1>2, <2>3 DEF Replay, Accounted, RulingOf
    <3>4. link'[c] = link[c] \/ link'[c] = rows[c].ruling
      BY <2>3 DEF Replay, Reply, TypeOK
    <3>5. Decided(c)' <=> Decided(c)
      BY <3>1 DEF Decided
    <3>6. RulingOf(c)' = RulingOf(c)
      BY <3>1 DEF RulingOf
    <3>7. link'[c] \in Answer => \E r \in log' : r.call = c /\ r.answer = link'[c]
      BY <1>2, <3>1, <3>3, <3>4 DEF Accounted
    <3>8. Accounted(c)'
      BY <1>2, <3>1, <3>5, <3>6, <3>7 DEF Accounted
    <3> QED BY <1>1, <1>2, <3>1, <3>2, <3>8
  <2>4. CASE Unknown(c, via)
    BY <2>1, <2>4 DEF Unknown, Answer, Request, serverVars, hookVars
  <2>5. ASSUME NEW a \in RuleVerdicts(c), RuleSpeaks(c, via, a) PROVE RulingsAccounted'
    <3>1. a \in Answer /\ ~Decided(c)
      BY <2>5 DEF RuleVerdicts, Answer, RuleSpeaks, Fresh
    <3>2. rows'[c].ruling = a /\ rows'[c].by = "rule"
      BY <2>5 DEF RuleSpeaks, TypeOK, Resolved, NewRow
    <3>3. link'[c] = link[c] \/ link'[c] = a
      BY <2>5 DEF RuleSpeaks, Reply, TypeOK
    <3>4. Accounted(c)'
      BY <1>2, <2>5, <3>1, <3>2, <3>3, AccountedRuled DEF RuleSpeaks, hookVars
    <3>5. ASSUME NEW d \in Calls, d # c PROVE Accounted(d)'
      <4>1. rows'[d] = rows[d] /\ link'[d] = link[d]
        BY <2>5, <3>5 DEF RuleSpeaks, Reply, TypeOK
      <4>2. \A r \in log' : r.call = d => r \in log
        BY <2>5, <3>5 DEF RuleSpeaks
      <4>3. log \subseteq log' /\ UNCHANGED <<outcome, gaveUp, offRecord>>
        BY <2>5 DEF RuleSpeaks, hookVars
      <4> QED BY <1>2, <4>1, <4>2, <4>3, AccountedKept
    <3>6. log' \subseteq Abs!Lawful
      BY <1>2, <2>5, RuleLawful DEF RuleSpeaks
    <3> QED BY <1>1, <3>4, <3>5, <3>6
  <2>6. ASSUME NEW a \in RuleVerdicts(c), RuleUnrecorded(c, via, a) PROVE RulingsAccounted'
    <3> DEFINE r == [call |-> c, answer |-> a, by |-> "rule"]
    <3>1. /\ UNCHANGED <<rows, outcome, gaveUp>> /\ c \in offRecord'
          /\ log' = log \cup {r} /\ ~Decided(c)
      BY <2>6 DEF RuleUnrecorded, Fresh, hookVars
    <3>2. link'[c] = link[c] \/ link'[c] = a
      BY <2>6 DEF RuleUnrecorded, Reply, TypeOK
    <3>3. r \in log' /\ r.call = c /\ r.answer = a
      BY <3>1
    <3> HIDE DEF r
    <3>4. link'[c] \in Answer => \E q \in log' : q.call = c /\ q.answer = link'[c]
      BY <1>2, <3>1, <3>2, <3>3 DEF Accounted
    <3>5. ~Decided(c)'
      BY <3>1 DEF Decided
    <3>6. Accounted(c)'
      BY <1>2, <3>1, <3>4, <3>5 DEF Accounted
    <3>7. ASSUME NEW d \in Calls, d # c PROVE Accounted(d)'
      BY <1>2, <2>6, <3>7, AccountedKept DEF RuleUnrecorded, Reply, TypeOK, hookVars
    <3>8. log' \subseteq Abs!Lawful
      BY <1>2, <3>1, RuleLawful DEF r
    <3> QED BY <1>1, <3>6, <3>7, <3>8
  <2>7. CASE Hold(c, via)
    <3>1. UNCHANGED <<log, outcome, gaveUp, offRecord>> /\ ~Decided(c)
      BY <2>7 DEF Hold, Fresh, hookVars
    <3>2. ~Decided(c)'
      BY <2>7 DEF Hold, Decided, NewRow, Answer, TypeOK
    <3>3. link'[c] = link[c] \/ link'[c] \notin Answer
      BY <2>7 DEF Hold, Reply, Answer, TypeOK
    <3>4. Accounted(c)'
      BY <1>2, <3>1, <3>2, <3>3 DEF Accounted
    <3>5. ASSUME NEW d \in Calls, d # c PROVE Accounted(d)'
      BY <1>2, <2>7, <3>5, AccountedKept DEF Hold, Reply, TypeOK, hookVars
    <3> QED BY <1>1, <1>2, <3>1, <3>4, <3>5
  <2>8. CASE HoldFails(c, via)
    BY <2>1, <2>8 DEF HoldFails, Answer, Request, serverVars, hookVars
  <2> QED BY <1>9, <2>2, <2>3, <2>4, <2>5, <2>6, <2>7, <2>8 DEF Handle
<1>10. ASSUME NEW c \in Calls, NEW a \in {"deny", "approve"}, Decide(c, a)
       PROVE  RulingsAccounted'
  BY <1>10, HumanLawful, AccountFinish DEF Decide, Answer
<1>11. CASE EraseHistory
  <2>1. ASSUME NEW d \in Calls, ~Decided(d) PROVE Accounted(d)'
    BY <1>2, <1>11, <2>1, AccountedKept DEF EraseHistory, hookVars
  <2>2. ASSUME NEW d \in Calls, Decided(d) PROVE Accounted(d)'
    <3>1. ~Decided(d)' /\ d \in offRecord'
      BY <1>11, <2>2 DEF EraseHistory, Decided, NoRow, Answer
    <3>2. UNCHANGED <<log, link, outcome, gaveUp>>
      BY <1>11 DEF EraseHistory, hookVars
    <3> QED BY <1>2, <3>1, <3>2 DEF Accounted
  <2>3. log' = log
    BY <1>11 DEF EraseHistory
  <2> QED BY <1>1, <1>2, <2>1, <2>2, <2>3
<1>12. CASE Crash
  BY <1>3, <1>12 DEF Crash, Interrupt, Answer
<1>13. CASE Restart
  <2> DEFINE clock(d) == [call |-> d, answer |-> TimeoutOutcome(rows[d].closed),
                          by |-> "restart"]
  <2>1. log' = log \cup {clock(d) : d \in {e \in Calls : Expired(e)}}
    BY <1>13 DEF Restart
  <2>2. ASSUME NEW d \in Calls, Expired(d) PROVE clock(d) \in Abs!Lawful
    <3>1. rows[d].closed = (d \in Outward)
      BY <2>2 DEF Expired, QueueMatchesRows
    <3> QED BY <3>1, ClockLawful
  <2>3. log' \subseteq Abs!Lawful
    BY <1>2, <2>1, <2>2
  <2>4. ASSUME NEW d \in Calls, NEW r \in log', r.call = d
        PROVE  r \in log \/ (Expired(d) /\ r = clock(d))
    BY <2>1, <2>4
  <2>5. ASSUME NEW d \in Calls, ~Expired(d) PROVE Accounted(d)'
    <3>1. \A r \in log' : r.call = d => r \in log
      BY <2>4, <2>5
    <3> QED BY <1>2, <1>13, <2>1, <2>5, <3>1, AccountedKept DEF Restart, hookVars
  <2>6. ASSUME NEW d \in Calls, Expired(d) PROVE Accounted(d)'
    <3>1. ~Decided(d) /\ rows[d].ruling = "pending"
      BY <2>6 DEF Expired, Undecided, Decided, Answer
    <3>2. rows'[d] = Resolved(rows[d], TimeoutOutcome(rows[d].closed), "restart")
      BY <1>13, <2>6 DEF Restart
    <3>3. rows'[d].ruling = clock(d).answer /\ rows'[d].by = "restart"
      BY <3>1, <3>2 DEF Resolved, TypeOK, Row
    <3>4. Decided(d)'
      BY <3>3, TimeoutOutcomeType DEF Decided
    <3>5. RulingOf(d)' = clock(d)
      BY <3>3 DEF RulingOf
    <3>6. clock(d) \in log'
      BY <2>1, <2>6
    <3>7. UNCHANGED <<link, outcome, gaveUp, offRecord>> /\ log \subseteq log'
      BY <1>13, <2>1 DEF Restart, hookVars
    <3>8. d \notin offRecord => \A r \in log' : r.call = d => r = clock(d)
      <4> SUFFICES ASSUME d \notin offRecord, NEW r \in log', r.call = d
                   PROVE  r = clock(d)
        OBVIOUS
      <4> HIDE DEF clock
      <4> QED BY <1>2, <2>4, <3>1 DEF Accounted
    <3> HIDE DEF clock
    <3> QED BY <1>2, <3>4, <3>5, <3>6, <3>7, <3>8 DEF Accounted
  <2> QED BY <1>1, <2>3, <2>5, <2>6
<1> QED BY <1>4, <1>5, <1>6, <1>7, <1>8, <1>9, <1>10, <1>11, <1>12, <1>13 DEF Next

\* The inductive invariant.
IInv == TypeOK /\ QueueMatchesRows /\ HookMatchesLink /\ RulingsAccounted

LEMMA Inductive == Spec => []IInv
<1>1. Init => HookMatchesLink
  <2> SUFFICES ASSUME Init, NEW c \in Calls
               PROVE  /\ link[c] = "closed" /\ hook[c] = "new" /\ outcome[c] = "none"
                      /\ c \notin gaveUp /\ waiter[c].conn = "none"
    BY DEF HookMatchesLink
  <2> QED BY DEF Init, NoWaiter
<1>2. Init => RulingsAccounted
  <2> SUFFICES ASSUME Init, NEW c \in Calls
               PROVE  /\ log = {} /\ ~Decided(c) /\ link[c] \notin Answer
                      /\ outcome[c] = "none" /\ c \notin gaveUp
    BY DEF RulingsAccounted, Init
  <2> QED BY DEF Init, Decided, NoRow, Answer
<1>3. IInv /\ [Next]_vars => HookMatchesLink' /\ RulingsAccounted'
  BY MatchedStep, AccountStep DEF IInv
<1> QED BY <1>1, <1>2, <1>3, TypeCorrect, QueueSafe, PTL DEF Spec, IInv

\* A hook approves, and an outward call goes ahead, on a person's word only.
THEOREM OnlyAPersonApproves == Spec => []ProceedsOnAWord
<1>1. IInv => ProceedsOnAWord
  <2> SUFFICES ASSUME IInv, NEW c \in Calls,
                      \/ outcome[c] = "approve"
                      \/ c \in Outward /\ outcome[c] = "defer" /\ c \notin gaveUp
               PROVE  [call |-> c, answer |-> "approve", by |-> "human"] \in log
    BY DEF ProceedsOnAWord
  <2>1. outcome[c] # "none" /\ c \notin gaveUp
    BY DEF IInv, RulingsAccounted, Abs!Fallback
  <2>2. PICK r \in log : r.call = c /\ r.answer = outcome[c]
    BY <2>1 DEF IInv, RulingsAccounted
  <2>3. r \in Abs!Lawful
    BY DEF IInv, RulingsAccounted
  <2>4. r = [call |-> r.call, answer |-> "approve", by |-> "human"]
    BY <2>2, <2>3, LawfulApproval
  <2> QED BY <2>2, <2>4
<1> QED BY <1>1, Inductive, PTL

\* A call is ruled on once while its record is kept, and its hook obeys the record.
THEOREM RuledOnce == Spec => []OneRuling
<1>1. IInv => OneRuling
  <2> SUFFICES ASSUME IInv, NEW c \in Calls \ offRecord
               PROVE  /\ \A r, q \in log : r.call = c /\ q.call = c => r = q
                      /\ outcome[c] # "none" /\ c \notin gaveUp => outcome[c] = rows[c].ruling
    BY DEF OneRuling
  <2>1. \A r \in log : r.call = c => r = RulingOf(c)
    BY DEF IInv, RulingsAccounted
  <2>2. ASSUME outcome[c] # "none", c \notin gaveUp PROVE outcome[c] = rows[c].ruling
    <3>1. PICK r \in log : r.call = c /\ r.answer = outcome[c]
      BY <2>2 DEF IInv, RulingsAccounted
    <3> QED BY <2>1, <3>1 DEF RulingOf
  <2> QED BY <2>1, <2>2
<1> QED BY <1>1, Inductive, PTL
-----------------------------------------------------------------------------
(* What no step may do. *)

\* What a step does to one row, whichever step it is.
LEMMA RowStep ==
    ASSUME IInv, [Next]_vars, NEW d \in Calls
    PROVE  /\ Decided(d) => rows'[d] \in {rows[d], NoRow}
           /\ Undecided(d) => rows'[d] = rows[d] \/ Decided(d)'
<1> USE DEF IInv
<1>0. ~(Decided(d) /\ Undecided(d))
  BY DEF Decided, Undecided, Answer
<1>1. CASE rows' = rows
  BY <1>1
<1>2. ASSUME NEW c \in Calls, NEW a \in Answer, NEW by, Finish(c, a, by)
      PROVE  rows'[d] = rows[d] \/ (Undecided(d) /\ Decided(d)')
  <2>1. CASE d = c /\ Undecided(c)
    <3>1. rows'[c].ruling = a
      BY <1>2, <2>1 DEF Finish, Resolved, Undecided, TypeOK, Row
    <3> QED BY <2>1, <3>1 DEF Decided
  <2>2. CASE ~(d = c /\ Undecided(c))
    BY <1>2, <2>2 DEF Finish, Resolved, Undecided, TypeOK
  <2> QED BY <2>1, <2>2
<1>3. ASSUME NEW c \in Calls, NEW via, NEW row, Fresh(c, via), rows' = [rows EXCEPT ![c] = row]
      PROVE  rows'[d] = rows[d] \/ (~Decided(d) /\ ~Undecided(d))
  <2>1. ~Undecided(c) /\ ~Decided(c)
    BY <1>3 DEF Fresh, Arrives, QueueMatchesRows
  <2> QED BY <1>3, <2>1 DEF TypeOK
<1>4. CASE UNCHANGED vars
  BY <1>1, <1>4 DEF vars
<1>5. CASE Tick
  BY <1>1, <1>5 DEF Tick, serverVars
<1>6. ASSUME NEW c \in Calls, Start(c) \/ Persist(c) PROVE rows' = rows
  BY <1>6 DEF Persist, Start, Retry, HearAnswer, HearUnknown, HearError, GiveUp, serverVars
<1>7. ASSUME NEW c \in Calls, Disconnect(c) PROVE rows' = rows
  BY <1>7 DEF Disconnect
<1>8. ASSUME NEW c \in Calls, Timeout(c)
      PROVE  rows'[d] = rows[d] \/ (Undecided(d) /\ Decided(d)')
  BY <1>2, <1>8, TimeoutOutcomeType DEF Timeout
<1>9. ASSUME NEW c \in Calls, NEW via \in {"live", "stray"}, Handle(c, via)
      PROVE  rows'[d] = rows[d] \/ (~Decided(d) /\ ~Undecided(d))
  <2>1. ASSUME NEW kind \in Request, Attach(c, kind, via) \/ Replay(c, kind, via)
        PROVE  rows' = rows
    BY <2>1 DEF Attach, Replay, serverVars
  <2>2. CASE Unknown(c, via) \/ HoldFails(c, via)
    BY <2>2 DEF Unknown, HoldFails, serverVars
  <2>3. ASSUME NEW a \in RuleVerdicts(c), RuleUnrecorded(c, via, a) PROVE rows' = rows
    BY <2>3 DEF RuleUnrecorded
  <2>4. ASSUME NEW a \in RuleVerdicts(c), RuleSpeaks(c, via, a)
        PROVE  rows'[d] = rows[d] \/ (~Decided(d) /\ ~Undecided(d))
    BY <1>3, <2>4 DEF RuleSpeaks
  <2>5. CASE Hold(c, via)
    BY <1>3, <2>5 DEF Hold
  <2> QED BY <1>9, <2>1, <2>2, <2>3, <2>4, <2>5 DEF Handle
<1>10. ASSUME NEW c \in Calls, NEW a \in {"deny", "approve"}, Decide(c, a)
       PROVE  rows'[d] = rows[d] \/ (Undecided(d) /\ Decided(d)')
  BY <1>2, <1>10 DEF Decide, Answer
<1>11. CASE EraseHistory
  BY <1>0, <1>11 DEF EraseHistory
<1>12. CASE Crash
  BY <1>1, <1>12 DEF Crash
<1>13. CASE Restart
  <2>1. CASE Expired(d)
    <3>1. rows'[d] = Resolved(rows[d], TimeoutOutcome(rows[d].closed), "restart")
      BY <1>13, <2>1 DEF Restart
    <3>2. rows'[d].ruling \in Answer
      BY <2>1, <3>1, TimeoutOutcomeType DEF Expired, Undecided, Resolved, TypeOK, Row
    <3> QED BY <1>0, <2>1, <3>2 DEF Expired, Decided
  <2>2. CASE ~Expired(d)
    BY <1>13, <2>2 DEF Restart
  <2> QED BY <2>1, <2>2
<1> QED BY <1>0, <1>1, <1>4, <1>5, <1>6, <1>7, <1>8, <1>9, <1>10, <1>11, <1>12, <1>13 DEF Next

\* A recorded decision is changed by nobody: not a late timer, not a second
\* press, not a repeated request, not a restart.
THEOREM DecisionsStand == Spec => DecisionStands
<1>1. IInv /\ [Next]_vars => [\A c \in Calls : Decided(c) => rows'[c] \in {rows[c], NoRow}]_vars
  BY RowStep
<1> QED BY <1>1, Inductive, PTL DEF Spec, DecisionStands

\* A pending request keeps the window and the policy it was taken under.
THEOREM WindowsFixed == Spec => WindowFixed
<1>1. IInv /\ [Next]_vars
      => [\A c \in Calls : Undecided(c) /\ Undecided(c)' => rows'[c] = rows[c]]_vars
  <2> SUFFICES ASSUME IInv, [Next]_vars, NEW c \in Calls, Undecided(c), Undecided(c)'
               PROVE  rows'[c] = rows[c]
    OBVIOUS
  <2>1. ~Decided(c)'
    BY DEF Decided, Undecided, Answer
  <2> QED BY <2>1, RowStep
<1> QED BY <1>1, Inductive, PTL DEF Spec, WindowFixed
-----------------------------------------------------------------------------
(* The gate implements HeldCall. *)

Standing == {RulingOf(c) : c \in {d \in Calls : Decided(d)}}

\* A step that rules on calls that had no ruling on record is one abstract Rule.
LEMMA RefineRule ==
    ASSUME IInv, IInv', UNCHANGED <<outcome, gaveUp>>,
           \A d \in Calls : Decided(d) => rows'[d] = rows[d],
           log \subseteq log',
           \A x \in log' \ log : \E d \in Calls : Decided(d)' /\ x = RulingOf(d)'
    PROVE  Abs!Rule
<1>1. Standing \subseteq Standing'
  <2> SUFFICES ASSUME NEW d \in Calls, Decided(d) PROVE RulingOf(d) \in Standing'
    BY DEF Standing
  <2>1. Decided(d)' /\ RulingOf(d)' = RulingOf(d)
    BY DEF Decided, RulingOf
  <2> QED BY <2>1 DEF Standing
<1>2. Standing' \subseteq log' /\ log' \subseteq Abs!Lawful
  BY DEF IInv, RulingsAccounted, Standing
<1>3. \A r, q \in Standing' : r.call = q.call => r = q
  BY DEF Standing, RulingOf
<1>4. Standing \subseteq log
  BY DEF IInv, RulingsAccounted, Standing
<1>5. \A x \in log' \ log : x \in Standing'
  BY DEF Standing
<1>6. log' = log \cup (Standing' \ Standing)
  BY <1>2, <1>4, <1>5
<1> QED BY <1>1, <1>2, <1>3, <1>6 DEF Abs!Rule, Standing

LEMMA RefineStutter ==
    ASSUME UNCHANGED <<rows, log, outcome, gaveUp>> PROVE UNCHANGED Abs!avars
BY DEF Abs!avars, RulingOf, Decided

LEMMA RefineFinish ==
    ASSUME IInv, IInv', NEW c \in Calls, Undecided(c), NEW a \in Answer,
           NEW by, Finish(c, a, by)
    PROVE  Abs!Rule
<1>1. ~Decided(c)
  BY DEF Undecided, Decided, Answer
<1>2. rows'[c].ruling = a /\ rows'[c].by = by
  BY DEF Finish, Resolved, Undecided, IInv, TypeOK, Row
<1>3. \A d \in Calls : Decided(d) => rows'[d] = rows[d]
  BY <1>1 DEF Finish, IInv, TypeOK
<1>4. Decided(c)' /\ RulingOf(c)' = [call |-> c, answer |-> a, by |-> by]
  BY <1>2 DEF Decided, RulingOf
<1>5. log \subseteq log' /\ \A x \in log' \ log : x = RulingOf(c)'
  BY <1>4 DEF Finish
<1> QED BY <1>3, <1>4, <1>5, RefineRule DEF Finish, hookVars

LEMMA RefineStep == IInv /\ IInv' /\ [Next]_vars => [Abs!ANext]_(Abs!avars)
<1> SUFFICES ASSUME IInv, IInv', [Next]_vars PROVE [Abs!ANext]_(Abs!avars)
  OBVIOUS
<1>1. ASSUME UNCHANGED <<rows, log, outcome, gaveUp>> PROVE [Abs!ANext]_(Abs!avars)
  BY <1>1, RefineStutter
<1>2. ASSUME Abs!Rule PROVE [Abs!ANext]_(Abs!avars)
  BY <1>2 DEF Abs!ANext
<1>3. CASE UNCHANGED vars
  BY <1>1, <1>3 DEF vars
<1>4. CASE Tick
  BY <1>1, <1>4 DEF Tick, serverVars, hookVars
<1>5. ASSUME NEW c \in Calls, Start(c) \/ Persist(c) PROVE [Abs!ANext]_(Abs!avars)
  <2>1. CASE Start(c) \/ Retry(c) \/ HearUnknown(c) \/ HearError(c)
    BY <1>1, <2>1 DEF Start, Retry, HearUnknown, HearError, serverVars
  <2>2. CASE HearAnswer(c)
    <3>1. UNCHANGED <<rows, log, gaveUp>> /\ link[c] \in Answer
      BY <2>2 DEF HearAnswer, serverVars
    <3>2. outcome[c] = "none"
      BY <3>1 DEF IInv, HookMatchesLink, Answer
    <3>3. PICK r \in log : r.call = c /\ r.answer = link[c]
      BY <3>1 DEF IInv, RulingsAccounted
    <3>4. outcome' = [outcome EXCEPT ![c] = r.answer]
      BY <2>2, <3>3 DEF HearAnswer
    <3>5. UNCHANGED Standing
      BY <3>1 DEF Standing, RulingOf, Decided
    <3>6. Abs!Settle(c)
      BY <3>1, <3>2, <3>3, <3>4, <3>5 DEF Abs!Settle, Standing
    <3> QED BY <3>6 DEF Abs!ANext
  <2>3. CASE GiveUp(c)
    <3>1. UNCHANGED <<rows, log>> /\ hook[c] = "backoff"
      BY <2>3 DEF GiveUp, serverVars
    <3>2. outcome[c] = "none"
      BY <3>1 DEF IInv, HookMatchesLink
    <3>3. UNCHANGED Standing
      BY <3>1 DEF Standing, RulingOf, Decided
    <3>4. Abs!GiveUp(c)
      BY <2>3, <3>1, <3>2, <3>3 DEF GiveUp, Abs!GiveUp, Abs!Fallback, Standing
    <3> QED BY <3>4 DEF Abs!ANext
  <2> QED BY <1>5, <2>1, <2>2, <2>3 DEF Persist
<1>6. ASSUME NEW c \in Calls, Disconnect(c) PROVE [Abs!ANext]_(Abs!avars)
  BY <1>1, <1>6 DEF Disconnect, Interrupt
<1>7. ASSUME NEW c \in Calls, Timeout(c) PROVE [Abs!ANext]_(Abs!avars)
  <2>1. Undecided(c)
    BY <1>7 DEF Timeout, IInv, QueueMatchesRows
  <2> QED BY <1>2, <1>7, <2>1, RefineFinish, TimeoutOutcomeType DEF Timeout
<1>8. ASSUME NEW c \in Calls, NEW via \in {"live", "stray"}, Handle(c, via)
      PROVE  [Abs!ANext]_(Abs!avars)
  <2>1. ASSUME NEW kind \in Request, Attach(c, kind, via) \/ Replay(c, kind, via)
        PROVE  [Abs!ANext]_(Abs!avars)
    BY <1>1, <2>1 DEF Attach, Replay, serverVars, hookVars
  <2>2. CASE Unknown(c, via) \/ HoldFails(c, via)
    BY <1>1, <2>2 DEF Unknown, HoldFails, serverVars, hookVars
  <2>3. ASSUME NEW a \in RuleVerdicts(c), RuleSpeaks(c, via, a)
        PROVE  [Abs!ANext]_(Abs!avars)
    <3>1. a \in Answer /\ ~Decided(c)
      BY <2>3 DEF RuleVerdicts, Answer, RuleSpeaks, Fresh
    <3>2. rows'[c].ruling = a /\ rows'[c].by = "rule"
      BY <2>3 DEF RuleSpeaks, Resolved, NewRow, IInv, TypeOK
    <3>3. \A d \in Calls : Decided(d) => rows'[d] = rows[d]
      BY <2>3, <3>1 DEF RuleSpeaks, IInv, TypeOK
    <3>4. Decided(c)' /\ RulingOf(c)' = [call |-> c, answer |-> a, by |-> "rule"]
      BY <3>1, <3>2 DEF Decided, RulingOf
    <3>5. log \subseteq log' /\ \A x \in log' \ log : x = RulingOf(c)'
      BY <2>3, <3>4 DEF RuleSpeaks
    <3> QED BY <1>2, <2>3, <3>3, <3>4, <3>5, RefineRule DEF RuleSpeaks, hookVars
  <2>4. ASSUME NEW a \in RuleVerdicts(c), RuleUnrecorded(c, via, a)
        PROVE  [Abs!ANext]_(Abs!avars)
    <3> DEFINE r == [call |-> c, answer |-> a, by |-> "rule"]
    <3>1. UNCHANGED <<rows, outcome, gaveUp>> /\ log' = log \cup {r} /\ ~Decided(c)
      BY <2>4 DEF RuleUnrecorded, Fresh, hookVars
    <3>2. r \in Abs!Lawful /\ r.by = "rule" /\ r.call = c
      BY RuleLawful
    <3> HIDE DEF r
    <3>3. UNCHANGED Standing
      BY <3>1 DEF Standing, RulingOf, Decided
    <3>4. \A q \in Standing : r.call # q.call
      BY <3>1, <3>2 DEF Standing, RulingOf
    <3>5. Abs!RuleOffRecord(r)
      BY <3>1, <3>2, <3>3, <3>4 DEF Abs!RuleOffRecord, Standing
    <3>6. CASE r \in log
      BY <1>1, <3>1, <3>6
    <3>7. CASE r \notin log
      BY <3>1, <3>5, <3>7 DEF Abs!ANext
    <3> QED BY <3>6, <3>7
  <2>5. CASE Hold(c, via)
    <3>1. \A d \in Calls : Decided(d) => rows'[d] = rows[d]
      BY <2>5 DEF Hold, Fresh, IInv, TypeOK
    <3> QED BY <1>2, <2>5, <3>1, RefineRule DEF Hold, hookVars
  <2> QED BY <1>8, <2>1, <2>2, <2>3, <2>4, <2>5 DEF Handle
<1>9. ASSUME NEW c \in Calls, NEW a \in {"deny", "approve"}, Decide(c, a)
      PROVE  [Abs!ANext]_(Abs!avars)
  BY <1>2, <1>9, RefineFinish DEF Decide, Answer
<1>10. CASE EraseHistory
  <2>1. \A d \in Calls : ~Decided(d)'
    BY <1>10 DEF EraseHistory, Decided, NoRow, Answer
  <2>2. Standing' = {}
    BY <2>1 DEF Standing
  <2>3. Abs!Forget
    BY <1>10, <2>2 DEF EraseHistory, hookVars, Abs!Forget, Standing
  <2> QED BY <2>3 DEF Abs!ANext
<1>11. CASE Crash
  BY <1>1, <1>11 DEF Crash, Interrupt
<1>12. CASE Restart
  <2>1. ASSUME NEW d \in Calls, Decided(d) PROVE rows'[d] = rows[d]
    BY <1>12, <2>1 DEF Restart, Expired, Undecided, Decided, Answer
  <2>2. ASSUME NEW x \in log' \ log PROVE \E d \in Calls : Decided(d)' /\ x = RulingOf(d)'
    <3>1. PICK d \in Calls : /\ Expired(d)
                            /\ x = [call |-> d, answer |-> TimeoutOutcome(rows[d].closed),
                                    by |-> "restart"]
      BY <1>12, <2>2 DEF Restart
    <3>2. rows'[d] = Resolved(rows[d], TimeoutOutcome(rows[d].closed), "restart")
      BY <1>12, <3>1 DEF Restart
    <3>3. rows'[d].ruling = TimeoutOutcome(rows[d].closed) /\ rows'[d].by = "restart"
      BY <3>1, <3>2 DEF Expired, Undecided, Resolved, IInv, TypeOK, Row
    <3> QED BY <3>1, <3>3, TimeoutOutcomeType DEF Decided, RulingOf
  <2> QED BY <1>2, <1>12, <2>1, <2>2, RefineRule DEF Restart, hookVars
<1> QED BY <1>3, <1>4, <1>5, <1>6, <1>7, <1>8, <1>9, <1>10, <1>11, <1>12 DEF Next

\* Connections, timers, rows, retries, crashes and restarts keep the promise of
\* HeldCall: lawful rulings only, one on record per call, obeyed or given up on.
THEOREM GateImplementsHeldCall == Spec => ImplementsHeldCall
<1>1. Init => Abs!AInit
  BY DEF Init, Abs!AInit, Decided, NoRow, Answer
<1> QED BY <1>1, RefineStep, Inductive, PTL DEF Spec, ImplementsHeldCall, Abs!ASpec
=============================================================================
