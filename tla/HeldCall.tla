------------------------------ MODULE HeldCall ------------------------------
(***************************************************************************)
(* What the gate promises, without connections, timers, rows or restarts.  *)
(*                                                                         *)
(* An agent's tool call is held until somebody rules on it.  A ruling is   *)
(* one of three answers: "deny" blocks the call, "approve" lets it run and *)
(* skips the agent's own permission prompt, "defer" has no opinion and     *)
(* leaves the call to that prompt.  Who may give which answer is the whole *)
(* point of the gate, and is stated once here (Lawful).  A recorded ruling *)
(* stands until the person erases the history; the hook that holds the     *)
(* call settles on a ruling that was really given, or gives up.            *)
(***************************************************************************)

CONSTANTS
    Calls,          \* the tool calls, each with its own id
    Outward,        \* those whose effect a colleague can see
    FailClosed,     \* the server denies a hold that nobody answered
    HookFailClosed  \* the hook denies a call it could not get ruled on

VARIABLES
    standing,       \* the rulings on record
    spoken,         \* every ruling ever given, on record or not
    outcome,        \* what each hook did with its call
    gaveUp          \* the calls whose hook stopped waiting

avars == <<standing, spoken, outcome, gaveUp>>

Answer     == {"deny", "approve", "defer"}
Resolution == {"human", "timeout", "restart", "rule"}
Ruling     == [call : Calls, answer : Answer, by : Resolution]

\* The clock denies what is held closed and otherwise has no opinion.
ClockAnswer(closed) == IF closed \/ FailClosed THEN "deny" ELSE "defer"

\* A gate rule may deny anything and let through only what stays inside.
RuleAnswers(c) == IF c \in Outward THEN {"deny"} ELSE {"deny", "defer"}

\* What the hook does with a call it gave up on.
Fallback == IF HookFailClosed THEN "deny" ELSE "defer"

\* Only a person approves; the clock follows the policy; a rule stays inside its remit.
LawfulAnswer(c, by) ==
    CASE by = "human" -> {"deny", "approve"}
      [] by \in {"timeout", "restart"} -> {ClockAnswer(c \in Outward)}
      [] by = "rule" -> RuleAnswers(c)

Lawful == {r \in Ruling : r.answer \in LawfulAnswer(r.call, r.by)}

AInit ==
    /\ standing = {}
    /\ spoken = {}
    /\ outcome = [c \in Calls |-> "none"]
    /\ gaveUp = {}

\* Rulings on distinct calls that have none standing go on record together.
Rule ==
    LET new == standing' \ standing
    IN  /\ standing \subseteq standing'
        /\ new \subseteq Lawful
        /\ \A r, q \in standing' : r \in new /\ r.call = q.call => r = q
        /\ spoken' = spoken \cup new
        /\ UNCHANGED <<outcome, gaveUp>>

\* A rule answers a call that has no record, and none is kept.
RuleOffRecord(r) ==
    /\ r \in Lawful
    /\ r.by = "rule"
    /\ \A q \in standing : r.call # q.call
    /\ spoken' = spoken \cup {r}
    /\ UNCHANGED <<standing, outcome, gaveUp>>

Forget ==
    /\ standing' = {}
    /\ UNCHANGED <<spoken, outcome, gaveUp>>

Settle(c) ==
    /\ outcome[c] = "none"
    /\ \E r \in spoken : r.call = c /\ outcome' = [outcome EXCEPT ![c] = r.answer]
    /\ UNCHANGED <<standing, spoken, gaveUp>>

GiveUp(c) ==
    /\ outcome[c] = "none"
    /\ outcome' = [outcome EXCEPT ![c] = Fallback]
    /\ gaveUp' = gaveUp \cup {c}
    /\ UNCHANGED <<standing, spoken>>

ANext ==
    \/ Rule
    \/ \E r \in spoken' \ spoken : RuleOffRecord(r)
    \/ Forget
    \/ \E c \in Calls : Settle(c) \/ GiveUp(c)

ASpec == AInit /\ [][ANext]_avars
=============================================================================
