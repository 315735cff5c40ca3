---------------------------- MODULE ContactForm ----------------------------
(***************************************************************************)
(* Support requests of the contact page (contact.js) and                   *)
(* submit_support_ticket.  The form keeps one request id until it is       *)
(* edited, accepted or another person signs in: a request sent again       *)
(* after a lost answer is the same request.  The session may change in     *)
(* another tab while calls are under way; authVersion tells their answers  *)
(* apart.                                                                  *)
(***************************************************************************)
EXTENDS Naturals, FiniteSets

CONSTANTS
    People,
    HourlyLimit,  \* requests one person may submit in an hour
    MaxTexts, MaxSubmits, MaxLoads, MaxChanges, MaxFaults \* bounds

ContactBounds == {HourlyLimit, MaxTexts, MaxSubmits, MaxLoads, MaxChanges, MaxFaults} \subseteq Nat

VARIABLES
    tickets,     \* support_requests
    login,       \* the session the client holds: calls are made with it
    user,        \* the session the page knows
    authVersion,
    text,        \* what the form says: each edit is a text of its own
    texts,       \* those written so far
    requestId,
    ids,         \* request ids handed out
    sending,     \* the submission under way
    loads,       \* lists under way
    history,     \* the list shown, and whose
    submits, changes, faults

contactVars == <<tickets, login, user, authVersion, text, texts, requestId, ids, sending, loads,
                 history, submits, changes, faults>>
server == <<tickets, login>>
theForm == <<text, texts, requestId, ids>>

None == "none"
NoId == 0
NoText == 0
NoCall == [state |-> "no", id |-> NoId, text |-> NoText, by |-> None, version |-> 0]
NoList == [of |-> None, ids |-> {}]
Fault == faults < MaxFaults /\ faults' = faults + 1

Init ==
    /\ tickets = {} /\ login \in People /\ user = login /\ authVersion = 1
    /\ text = NoText /\ texts = 0 /\ requestId = NoId /\ ids = 0 /\ sending = NoCall /\ loads = {}
    /\ history = NoList /\ submits = 0 /\ changes = 0 /\ faults = 0

Input ==
    /\ user # None /\ sending.state = "no" /\ texts < MaxTexts
    /\ texts' = texts + 1 /\ text' = texts' /\ requestId' = NoId
    /\ UNCHANGED <<server, user, authVersion, ids, sending, loads, history, submits, changes, faults>>

RequestId == IF requestId = NoId THEN ids + 1 ELSE requestId
submit ==
    /\ user # None /\ sending.state = "no" /\ text # NoText /\ submits < MaxSubmits
    /\ submits' = submits + 1
    /\ LET id == RequestId
       IN /\ requestId' = id /\ ids' = IF id > ids THEN id ELSE ids
          /\ sending' = [state |-> "sent", id |-> id, text |-> text, by |-> login,
                         version |-> authVersion]
    /\ UNCHANGED <<server, user, authVersion, text, texts, loads, history, changes, faults>>

\* submit_support_request: the id of a request saved before is answered as such; that of
\* another's is taken.
Mine(person) == {t \in tickets : t.by = person}
ServerSaves ==
    /\ sending.state = "sent"
    /\ IF \/ sending.by = None
          \/ \E t \in tickets : t.id = sending.id /\ t.by # sending.by
          \/ /\ \A t \in Mine(sending.by) : t.id # sending.id
             /\ Cardinality(Mine(sending.by)) >= HourlyLimit
       THEN sending' = [sending EXCEPT !.state = "refused"] /\ UNCHANGED tickets
       ELSE /\ sending' = [sending EXCEPT !.state = "saved"]
            /\ tickets' = tickets \cup
                  {[id |-> sending.id, by |-> sending.by, text |-> sending.text]}
    /\ UNCHANGED <<login, user, authVersion, theForm, loads, history, submits, changes, faults>>

Load == loads' = loads \cup {[of |-> user, version |-> authVersion, rows |-> {}, read |-> FALSE]}
\* "Request received": the form is emptied, and the list read again.
Received ==
    /\ sending.state = "saved" /\ sending' = NoCall
    /\ IF sending.version = authVersion
       THEN text' = NoText /\ requestId' = NoId /\ Load
       ELSE UNCHANGED <<text, requestId, loads>>
    /\ UNCHANGED <<server, user, authVersion, texts, ids, history, submits, changes, faults>>
\* Refused, or no answer, before or after it was saved: the message is still there.
NotConfirmed ==
    /\ \/ sending.state = "refused" /\ UNCHANGED faults
       \/ sending.state \in {"sent", "saved"} /\ Fault
    /\ sending' = NoCall
    /\ UNCHANGED <<server, user, authVersion, theForm, loads, history, submits, changes>>

loadHistory ==
    /\ user # None /\ Cardinality(loads) < MaxLoads /\ \A l \in loads : l.version # authVersion
    /\ Load
    /\ UNCHANGED <<server, user, authVersion, theForm, sending, history, submits, changes, faults>>
\* Row security lists only what is the caller's.
ServerLists ==
    /\ \E l \in loads :
          /\ ~l.read
          /\ loads' = (loads \ {l}) \cup {[l EXCEPT !.read = TRUE, !.rows =
                {t.id : t \in {u \in Mine(login) : u.by = l.of}}]}
    /\ UNCHANGED <<server, user, authVersion, theForm, sending, history, submits, changes, faults>>
SameVersion(l) == l.version = authVersion
Listed ==
    /\ \E l \in loads :
          /\ l.read /\ loads' = loads \ {l}
          /\ history' = IF SameVersion(l) THEN [of |-> l.of, ids |-> l.rows] ELSE history
    /\ UNCHANGED <<server, user, authVersion, theForm, sending, submits, changes, faults>>
\* "Unable to load requests".
ListFails ==
    /\ \E l \in loads :
          /\ Fault /\ loads' = loads \ {l}
          /\ history' = IF SameVersion(l) THEN NoList ELSE history
    /\ UNCHANGED <<server, user, authVersion, theForm, sending, submits, changes>>

\* Another tab signs in or out; the page hears of it later (updateSession).
SessionChanges ==
    /\ changes < MaxChanges /\ changes' = changes + 1
    /\ \E p \in (People \cup {None}) \ {login} : login' = p
    /\ UNCHANGED <<tickets, user, authVersion, theForm, sending, loads, history, submits, faults>>
updateSession ==
    /\ login # user /\ user' = login /\ authVersion' = authVersion + 1
    /\ requestId' = NoId /\ text' = NoText
    /\ history' = IF login = None THEN NoList ELSE history
    /\ loads' = IF login = None THEN loads
                ELSE loads \cup {[of |-> login, version |-> authVersion + 1, rows |-> {}, read |-> FALSE]}
    /\ UNCHANGED <<server, texts, ids, sending, submits, changes, faults>>

Next == \/ Input \/ submit \/ ServerSaves \/ Received \/ NotConfirmed
        \/ loadHistory \/ ServerLists \/ Listed \/ ListFails
        \/ SessionChanges \/ updateSession
Spec == Init /\ [][Next]_contactVars

-----------------------------------------------------------------------------
TypeOK ==
    /\ {login, user, history.of} \subseteq People \cup {None}
    /\ text \in 0 .. texts /\ requestId \in 0 .. ids
    /\ tickets \subseteq [id : 1 .. ids, by : People, text : 1 .. texts]
    /\ sending.state \in {"no", "sent", "saved", "refused"}

\* What the proofs need: an id belongs to one text, in the form, under way and saved.
IdsAreTexts ==
    /\ {text, texts, requestId, ids} \subseteq Nat /\ text <= texts /\ requestId <= ids
    /\ requestId # NoId => text # NoText
    /\ sending = [state |-> sending.state, id |-> sending.id, text |-> sending.text,
                  by |-> sending.by, version |-> sending.version]
    /\ sending.state # "no" => sending.id \in 1 .. ids /\ sending.text \in 1 .. texts
    /\ \A t \in tickets : /\ t = [id |-> t.id, by |-> t.by, text |-> t.text]
                          /\ t.id \in 1 .. ids /\ t.text \in 1 .. texts
IdOfText(id, words) == \A t \in tickets : t.id = id <=> t.text = words
OneIdEach ==
    /\ text # NoText => IdOfText(requestId, text)
    /\ sending.state # "no" =>
          /\ IdOfText(sending.id, sending.text)
          /\ text # NoText => (sending.id = requestId <=> sending.text = text)

\* Sending again without editing, after a lost answer, makes no second request.
RetrySendsOnce == \A t, u \in tickets : t.text = u.text => t = u

\* The list shown is of whom the page knows, once it has been read for them.
ListsOwnRequests == history' # history => history'.of \in {user', None}

\* What the proofs need: a list under way that will be shown is the user's.
LoadsAreVersions ==
    /\ authVersion \in Nat
    /\ \A l \in loads : /\ l = [of |-> l.of, version |-> l.version, rows |-> l.rows, read |-> l.read]
                        /\ l.version \in 0 .. authVersion
                        /\ l.version = authVersion => l.of = user
=============================================================================
