----------------------------- MODULE StaffForms -----------------------------
(***************************************************************************)
(* Three forms of the staff console that send something once               *)
(* (admin-operations.js): an announcement, reviewed before it is           *)
(* published, a message to a customer, and a change of a staff role; with  *)
(* the database functions they call.  Each makes a request id when it is   *)
(* first submitted and keeps it until its answer comes: the announcement's *)
(* and the message's whatever is edited meanwhile, the others' until       *)
(* another customer or member is opened.  A behaviour is one form.         *)
(***************************************************************************)
EXTENDS Naturals, FiniteSets

CONSTANTS
    Targets,  \* customers, or members of staff
    MaxEdits, MaxOpens, MaxSubmits, MaxFaults \* bounds

StaffFormsBounds == {MaxEdits, MaxOpens, MaxSubmits, MaxFaults} \subseteq Nat

VARIABLES
    kind,
    done,      \* what the server has done
    version,   \* member -> version of the role, as the server has it
    recent,    \* the second factor was verified in the last ten minutes
    target,    \* the customer or member the form is open for
    expected,  \* the version it was opened with
    draft,     \* what it says: each edit is a draft of its own
    drafts,
    requestId, ids,
    purpose,   \* history: what the person is about; another begins when the form is emptied
    codeAsked, \* the authenticator field is shown
    counting,  \* drafts whose audience is being counted
    confirm,   \* the draft the confirmation names, or none
    calls,     \* submissions under way
    opens, submits, faults

staffVars == <<kind, done, version, recent, target, expected, draft, drafts, requestId, ids,
               purpose, codeAsked, counting, confirm, calls, opens, submits, faults>>
server == <<done, version, recent>>
opened == <<target, expected>>
written == <<draft, drafts, requestId, ids, purpose>>
review == <<counting, confirm>>
limits == <<opens, submits, faults>>

Kinds == {"announcement", "message", "role"}
Everyone == "everyone"
Protected == kind # "message"
Fault == faults < MaxFaults /\ faults' = faults + 1

Init ==
    /\ kind \in Kinds /\ done = {} /\ version = [t \in Targets |-> 0] /\ recent \in BOOLEAN
    /\ target \in IF kind = "announcement" THEN {Everyone} ELSE Targets
    /\ expected = 0 /\ draft = 0 /\ drafts = 0 /\ requestId = 0 /\ ids = 0 /\ purpose = 1
    /\ codeAsked = FALSE /\ counting = {} /\ confirm = 0 /\ calls = {}
    /\ opens = 0 /\ submits = 0 /\ faults = 0

\* An edit takes the confirmation away; the request id stays.
edited ==
    /\ drafts < MaxEdits /\ drafts' = drafts + 1 /\ draft' = drafts' /\ confirm' = 0
    /\ UNCHANGED <<kind, server, opened, requestId, ids, purpose, codeAsked, counting, calls, limits>>

Review ==
    /\ kind = "announcement" /\ draft # 0 /\ confirm = 0 /\ draft \notin counting
    /\ counting' = counting \cup {draft}
    /\ UNCHANGED <<kind, server, opened, written, codeAsked, confirm, calls, limits>>
\* The confirmation appears whatever has been edited since.
Counted ==
    /\ \E d \in counting :
          /\ counting' = counting \ {d}
          /\ \/ confirm' = d /\ UNCHANGED faults
             \/ Fault /\ UNCHANGED confirm
    /\ UNCHANGED <<kind, server, opened, written, codeAsked, calls, opens, submits>>
Cancel ==
    /\ confirm # 0 /\ confirm' = 0
    /\ UNCHANGED <<kind, server, opened, written, codeAsked, counting, calls, limits>>

\* Emptied for the next purpose.
Empty == draft' = 0 /\ requestId' = 0 /\ purpose' = purpose + 1
Open ==
    /\ opens < MaxOpens /\ opens' = opens + 1 /\ Empty
    /\ \E t \in Targets : target' = t /\ expected' = version[t]
    /\ UNCHANGED <<kind, server, drafts, ids, codeAsked, review, calls, submits, faults>>
\* openCustomerDetail and "Manage role".
resetCustomerMessage == kind = "message" /\ Open
ManageRole == kind = "role" /\ Open

RequestId == IF requestId = 0 THEN ids + 1 ELSE requestId
Submit(k) ==
    /\ kind = k /\ draft # 0 /\ submits < MaxSubmits /\ submits' = submits + 1
    /\ LET id == RequestId
       IN /\ requestId' = id /\ ids' = IF id > ids THEN id ELSE ids
          /\ calls' = calls \cup {[id |-> id, to |-> target, draft |-> draft, purpose |-> purpose,
                                   expected |-> expected, n |-> submits,
                                   state |-> IF codeAsked THEN "verifies" ELSE "sent"]}
    /\ UNCHANGED <<kind, server, opened, draft, drafts, purpose, codeAsked, review, opens, faults>>
\* The publishing button is disabled while it works, the others are not.
publish == confirm # 0 /\ calls = {} /\ Submit("announcement")
sendMessage == Submit("message")
changeRole == Submit("role")

At(c, state) == calls' = (calls \ {c}) \cup {[c EXCEPT !.state = state]}
\* The request id and the role are read from the form only now; by then it may be open
\* for another member, and without an id yet.
ReadLate(c) == [c EXCEPT !.id = requestId, !.draft = IF kind = "role" THEN draft ELSE @,
                         !.state = IF requestId = 0 THEN "refused" ELSE "sent"]
Verified ==
    /\ \E c \in calls :
          /\ c.state = "verifies"
          /\ \/ /\ calls' = (calls \ {c}) \cup {ReadLate(c)}
                /\ recent' = TRUE /\ codeAsked' = FALSE /\ UNCHANGED faults
             \/ Fault /\ calls' = calls \ {c} /\ UNCHANGED <<recent, codeAsked>>
    /\ UNCHANGED <<kind, done, version, opened, written, review, opens, submits>>
TimePasses ==
    /\ recent /\ recent' = FALSE
    /\ UNCHANGED <<kind, done, version, opened, written, codeAsked, review, calls, limits>>

\* staff_publish_announcement, staff_send_notification and change_staff_role: a request
\* done before is answered as done, and only the last compares what it asks.
Done(c) == {x \in done : x.id = c.id /\ (kind = "message" => x.to = c.to)}
Conflicts(c) ==
    kind = "role" /\ IF Done(c) = {} THEN version[c.to] # c.expected
                     ELSE \A x \in Done(c) : x.to # c.to \/ x.draft # c.draft
ServerActs ==
    /\ \E c \in calls :
          /\ c.state = "sent"
          /\ CASE Protected /\ ~recent -> At(c, "needsCode") /\ UNCHANGED <<done, version>>
               [] (~Protected \/ recent) /\ Conflicts(c) -> At(c, "refused") /\ UNCHANGED <<done, version>>
               [] OTHER ->
                    /\ At(c, "done")
                    /\ IF Done(c) # {} THEN UNCHANGED <<done, version>>
                       ELSE /\ done' = done \cup {[id |-> c.id, to |-> c.to, draft |-> c.draft,
                                                   purpose |-> c.purpose]}
                            /\ version' = IF kind = "role" THEN [version EXCEPT ![c.to] = @ + 1]
                                          ELSE version
    /\ UNCHANGED <<kind, recent, opened, written, codeAsked, review, limits>>

Answered(c) ==
    /\ c.state = "done" /\ calls' = calls \ {c}
    /\ UNCHANGED <<kind, server, opened, drafts, ids, codeAsked, counting, limits>>
Published == kind = "announcement" /\ confirm' = 0 /\ Empty /\ \E c \in calls : Answered(c)
\* The form is emptied only if its customer is still open.
MessageSent ==
    /\ kind = "message" /\ UNCHANGED confirm
    /\ \E c \in calls :
          /\ Answered(c)
          /\ IF target = c.to THEN Empty ELSE UNCHANGED <<draft, requestId, purpose>>
RoleSaved == kind = "role" /\ UNCHANGED confirm /\ Empty /\ \E c \in calls : Answered(c)
\* The message of an error stays with the form, and so does the request id.
NotAnswered ==
    /\ \E c \in calls :
          /\ calls' = calls \ {c}
          /\ \/ c.state = "needsCode" /\ codeAsked' = TRUE /\ UNCHANGED faults
             \/ c.state = "refused" /\ UNCHANGED <<codeAsked, faults>>
             \/ c.state \in {"sent", "done"} /\ Fault /\ UNCHANGED codeAsked
    /\ UNCHANGED <<kind, server, opened, written, review, opens, submits>>

Next == \/ edited \/ Review \/ Counted \/ Cancel \/ resetCustomerMessage \/ ManageRole
        \/ publish \/ sendMessage \/ changeRole \/ Verified \/ TimePasses \/ ServerActs
        \/ Published \/ MessageSent \/ RoleSaved \/ NotAnswered
Spec == Init /\ [][Next]_staffVars

-----------------------------------------------------------------------------
TypeOK ==
    /\ kind \in Kinds /\ target \in Targets \cup {Everyone} /\ requestId \in 0 .. ids
    /\ draft \in 0 .. drafts /\ confirm \in 0 .. drafts /\ counting \subseteq 1 .. drafts
    /\ \A c \in calls : c.state \in {"verifies", "sent", "needsCode", "refused", "done"}

\* What the proofs need: what is sent for a purpose has its target, and one id or, for a
\* role, one version, which is over when it is done.
Begun == calls \cup done
FormsTyped ==
    /\ kind \in Kinds /\ {purpose, requestId, ids, expected} \subseteq Nat /\ purpose >= 1
    /\ target \in IF kind = "announcement" THEN {Everyone} ELSE Targets
    /\ version \in [Targets -> Nat]
    /\ \A c \in calls :
          /\ c = [id |-> c.id, to |-> c.to, draft |-> c.draft, purpose |-> c.purpose,
                  expected |-> c.expected, n |-> c.n, state |-> c.state]
          /\ c.expected \in Nat /\ (kind = "role" => c.to \in Targets)
    /\ \A c \in Begun : c.purpose \in 1 .. purpose
PurposesAreKept ==
    /\ \A c, d \in Begun :
          c.purpose = d.purpose => c.to = d.to /\ (kind # "role" => c.id = d.id)
    /\ \A c \in Begun : c.purpose = purpose =>
          /\ c.to = target /\ requestId # 0
          /\ kind # "role" => c.id = requestId
    /\ kind = "announcement" => /\ \A c \in calls : c.purpose = purpose
                                /\ \A c, d \in calls : c = d
    /\ kind = "message" => ~codeAsked /\ \A c \in calls : c.state \notin {"verifies", "needsCode"}
VersionsAreOver ==
    kind = "role" =>
        /\ \A c, d \in calls : c.purpose = d.purpose => c.expected = d.expected
        /\ \A c \in calls : c.purpose = purpose => c.expected = expected
        /\ \A x \in done : /\ \A c \in calls : x.purpose = c.purpose => version[c.to] > c.expected
                           /\ x.purpose = purpose => version[target] > expected

\* Through lost answers, codes asked for and edits after an error, what is meant once is
\* done once.
DoneOnce ==
    \A x, y \in done : x.purpose = y.purpose => x = y
=============================================================================
