----------------------------- MODULE SupportDesk -----------------------------
(***************************************************************************)
(* Support: the customer's screen (frontend/app/support.tsx) with its      *)
(* scripted answers, the cases it escalates to and the replies to them,    *)
(* the staff's screen (app/support-cases.tsx), and the routes of           *)
(* backend/routers/assistant.py.                                           *)
(*                                                                         *)
(* Topics stand for the categories: one that asks for an order first, and  *)
(* the others.  A script is a choice of the topic; "other" opens the       *)
(* escalation at once.  Texts are data.                                    *)
(***************************************************************************)
EXTENDS Naturals, Sequences

CONSTANTS
  None,
  OrderTopics, PlainTopics, \* bound: the categories chosen
  Asks,       \* bound: requests of the customer in progress
  MaxCases,   \* bound: cases
  MaxAsks     \* bound: requests the customer sends

Topics == OrderTopics \cup PlainTopics
Statuses == {"OPEN", "IN_PROGRESS", "CLOSED"}  \* RESOLVED is as CLOSED to the code
Answerable == {"OPEN", "IN_PROGRESS"}

VARIABLES
  category, orderId, script, more, resolved,
  reply,      \* the case the screen confirms, 0 if none
  busy,
  rid,        \* escalationId.current
  selected,   \* the case whose conversation is open, 0 if none
  detail,     \* the status it shows, None while it loads
  draft,      \* caseReply: the case it was typed under, 0 if empty
  replying,
  cases,      \* the collection: [rid, topic, status, said], oldest first;
              \* said counts the customer's replies
  ask,        \* the customer's requests
  asks

topicState == <<category, orderId, script, more, resolved, reply>>
caseView == <<selected, detail, draft, replying>>
vars == <<topicState, busy, rid, caseView, cases, ask, asks>>

Quiet == [pc |-> "idle", op |-> "create", rid |-> 0, topic |-> None, case |-> 0, ui |-> FALSE]

Init ==
  /\ category = None /\ orderId = FALSE /\ script = None /\ more = FALSE /\ resolved = FALSE
  /\ reply = 0 /\ busy = FALSE /\ rid = 1
  /\ selected = 0 /\ detail = None /\ draft = 0 /\ replying = FALSE
  /\ cases = <<>> /\ ask = [a \in Asks |-> Quiet] /\ asks = 0

-----------------------------------------------------------------------------
(* Topics and scripts. *)

\* The categories are buttons also while a case is being created, and choosing
\* one leaves the request's identity alone.
SelectCategory(t) ==
  /\ category # t /\ category' = t
  /\ orderId' = FALSE /\ script' = None /\ more' = FALSE /\ resolved' = FALSE /\ reply' = 0
  /\ UNCHANGED <<busy, rid, caseView, cases, ask, asks>>

ChooseOrder ==
  /\ category \in OrderTopics /\ orderId' = TRUE
  /\ script' = None /\ more' = FALSE /\ resolved' = FALSE /\ reply' = 0
  /\ UNCHANGED <<category, busy, rid, caseView, cases, ask, asks>>

\* Every choice of a topic that asks for an order is disabled without one.
NeedsOrder(t) == t \in OrderTopics
Choices(t) == IF NeedsOrder(t) THEN {"script"} ELSE {"script", "other"}

ChooseScript(s) ==
  /\ category # None /\ s \in Choices(category) /\ (NeedsOrder(category) => orderId)
  /\ script' = s /\ resolved' = FALSE /\ reply' = 0 /\ more' = (s = "other")
  /\ UNCHANGED <<category, orderId, busy, rid, caseView, cases, ask, asks>>

Solved(yes) ==
  /\ script # None /\ ~resolved /\ ~more /\ reply = 0
  /\ resolved' = yes /\ more' = ~yes
  /\ UNCHANGED <<category, orderId, script, reply, busy, rid, caseView, cases, ask, asks>>

TryAnother ==
  /\ script # None /\ more /\ reply = 0 /\ ~busy
  /\ script' = None /\ more' = FALSE /\ resolved' = FALSE /\ reply' = 0
  /\ UNCHANGED <<category, orderId, busy, rid, caseView, cases, ask, asks>>

-----------------------------------------------------------------------------
(* Escalation. *)

Send(op, case) ==
  /\ asks < MaxAsks /\ asks' = asks + 1
  /\ \E a \in Asks :
       /\ ask[a] = Quiet
       /\ ask' = [ask EXCEPT ![a] = [pc |-> "sent", op |-> op, case |-> case, ui |-> TRUE,
                                     rid |-> IF op = "create" THEN rid ELSE 0,
                                     topic |-> IF op = "create" THEN category ELSE None]]

CreateSupportCase ==
  /\ script # None /\ more /\ reply = 0 /\ ~busy
  /\ category \in OrderTopics => orderId
  /\ Send("create", 0) /\ busy' = TRUE
  /\ UNCHANGED <<topicState, rid, caseView, cases>>

At(a, op, pc) == ask[a].op = op /\ ask[a].pc = pc
Goto(a, pc) == ask' = [ask EXCEPT ![a].pc = pc]
WithRid(r) == {i \in 1..Len(cases) : cases[i].rid = r}

\* The route looks for a case of the same request.
FindCase(a) ==
  /\ At(a, "create", "sent")
  /\ IF WithRid(ask[a].rid) # {}
       THEN ask' = [ask EXCEPT ![a].pc = "ok", ![a].case = CHOOSE i \in WithRid(ask[a].rid) : TRUE]
       ELSE Goto(a, "insert")
  /\ UNCHANGED <<topicState, busy, rid, caseView, cases, asks>>

\* Mutant: the identity of a request is not unique in the collection.
InsertUnindexed(a) ==
  /\ At(a, "create", "insert") /\ Len(cases) < MaxCases
  /\ cases' = Append(cases, [rid |-> ask[a].rid, topic |-> ask[a].topic, status |-> "OPEN", said |-> 0])
  /\ ask' = [ask EXCEPT ![a].pc = "ok", ![a].case = Len(cases) + 1]
  /\ UNCHANGED <<topicState, busy, rid, caseView, asks>>

\* The insert; a duplicate answers with the case there is.
InsertCase(a) ==
  /\ At(a, "create", "insert")
  /\ IF WithRid(ask[a].rid) # {}
       THEN /\ ask' = [ask EXCEPT ![a].pc = "ok", ![a].case = CHOOSE i \in WithRid(ask[a].rid) : TRUE]
            /\ UNCHANGED cases
       ELSE /\ Len(cases) < MaxCases
            /\ cases' = Append(cases, [rid |-> ask[a].rid, topic |-> ask[a].topic,
                                       status |-> "OPEN", said |-> 0])
            /\ ask' = [ask EXCEPT ![a].pc = "ok", ![a].case = Len(cases) + 1]
  /\ UNCHANGED <<topicState, busy, rid, caseView, asks>>

\* The answer is shown under whatever topic is on the screen by then, and the
\* next request gets another identity; an error keeps the identity.
CaseCreated(a) ==
  /\ ask[a].op = "create" /\ ask[a].ui /\ ask[a].pc \in {"ok", "failed"}
  /\ IF ask[a].pc = "ok" THEN reply' = ask[a].case /\ rid' = rid + 1
                         ELSE UNCHANGED <<reply, rid>>
  /\ busy' = FALSE /\ ask' = [ask EXCEPT ![a] = Quiet]
  /\ UNCHANGED <<category, orderId, script, more, resolved, caseView, cases, asks>>

-----------------------------------------------------------------------------
(* Conversations. *)

\* The text typed under one case stays in the box when another is opened.
SelectCase(i) ==
  /\ i \in 1..Len(cases) /\ i # selected
  /\ selected' = i /\ detail' = cases[i].status
  /\ UNCHANGED <<topicState, busy, rid, draft, replying, cases, ask, asks>>

TypeReply ==
  /\ selected # 0 /\ detail \in Answerable /\ draft # selected /\ draft' = selected
  /\ UNCHANGED <<topicState, busy, rid, selected, detail, replying, cases, ask, asks>>

SendCaseReply ==
  /\ selected # 0 /\ detail \in Answerable /\ draft # 0 /\ ~replying
  /\ Send("reply", selected) /\ replying' = TRUE
  /\ UNCHANGED <<topicState, busy, rid, selected, detail, draft, cases>>

\* The reply is added to a case that is still open for it.
AddReply(a) ==
  /\ At(a, "reply", "sent")
  /\ LET i == ask[a].case IN
     IF cases[i].status \in Answerable
       THEN cases' = [cases EXCEPT ![i].said = @ + 1] /\ Goto(a, "ok")
       ELSE Goto(a, "failed") /\ UNCHANGED cases
  /\ UNCHANGED <<topicState, busy, rid, caseView, asks>>

\* A reply that was received empties the box, whatever was typed meanwhile, and
\* the conversation on the screen is read again.
Replied(a) ==
  /\ ask[a].op = "reply" /\ ask[a].ui /\ ask[a].pc \in {"ok", "failed"}
  /\ IF ask[a].pc = "ok" THEN draft' = 0 /\ detail' = cases[selected].status
                         ELSE UNCHANGED <<draft, detail>>
  /\ replying' = FALSE /\ ask' = [ask EXCEPT ![a] = Quiet]
  /\ UNCHANGED <<topicState, busy, rid, selected, cases, asks>>

\* The network loses the request, or its answer; or the client stops waiting.
Lose(a) ==
  /\ ask[a].ui /\ ask[a].pc # "failed"
  /\ \/ ask[a].pc = "sent" /\ Goto(a, "failed") /\ UNCHANGED <<busy, replying>>
     \/ /\ ask' = [ask EXCEPT ![a].ui = FALSE]
        /\ busy' = (busy /\ ask[a].op # "create") /\ replying' = (replying /\ ask[a].op # "reply")
  /\ UNCHANGED <<topicState, rid, selected, detail, draft, cases, asks>>

Forget(a) ==
  /\ ask[a].pc \in {"ok", "failed"} /\ ~ask[a].ui /\ ask' = [ask EXCEPT ![a] = Quiet]
  /\ UNCHANGED <<topicState, busy, rid, caseView, cases, asks>>

-----------------------------------------------------------------------------
(* The staff's screen. *)

\* The status of a case is set whatever it is; replies of the staff, and internal
\* notes, go to a case of any status and change nothing else.
ChangeStatus(i, s) ==
  /\ i \in 1..Len(cases) /\ cases[i].status # s
  /\ cases' = [cases EXCEPT ![i].status = s]
  /\ UNCHANGED <<topicState, busy, rid, caseView, ask, asks>>

Next ==
  \/ \E t \in Topics : SelectCategory(t)
  \/ ChooseOrder \/ (\E s \in {"script", "other"} : ChooseScript(s)) \/ TryAnother
  \/ \E yes \in BOOLEAN : Solved(yes)
  \/ CreateSupportCase \/ TypeReply \/ SendCaseReply
  \/ \E i \in 1..MaxCases : SelectCase(i) \/ \E s \in Statuses : ChangeStatus(i, s)
  \/ \E a \in Asks : \/ FindCase(a) \/ InsertCase(a) \/ CaseCreated(a)
                     \/ AddReply(a) \/ Replied(a) \/ Lose(a) \/ Forget(a)

Spec == Init /\ [][Next]_vars

-----------------------------------------------------------------------------
\* However often a customer presses again after a lost or late answer, a press
\* and its repetitions make one case.
OneCasePerRequest == \A i, j \in 1..Len(cases) : cases[i].rid = cases[j].rid => i = j
=============================================================================
