---------------------------- MODULE StaffConsole ----------------------------
(***************************************************************************)
(* The staff console: the access it holds (admin.js, staff-auth.js) and    *)
(* its tabs (admin-operations.js).  The staff session lives in storage     *)
(* every tab shares; the page learns of a change later, from an auth       *)
(* event, while its calls already carry the new identity.  `clear` makes   *)
(* every call under way stale (generation).                                *)
(***************************************************************************)
EXTENDS Naturals, FiniteSets

CONSTANTS
    Staff,
    Items,        \* customers, contracts and rate observations
    Capabilities, \* the tabs each member of staff may open
    Budgets       \* bounds: changes of the session (and auth events without one), reads,
                  \* protected forms submitted and failed calls that remain at the start

ConsoleBounds ==
    \A b \in Budgets : {b.events, b.reads, b.submits, b.failures} \subseteq Nat
ConsoleCapabilities == DOMAIN Capabilities = Staff

VARIABLES
    login,     \* whose session the staff client holds
    verified,  \* that session has passed two-factor verification
    recent,    \* and did so in the last ten minutes
    session,   \* the page's session
    context,   \* whose console is open
    phase,     \* what the page is doing about access
    calls,     \* calls under way
    screen,    \* per tab or card: what it shows and who asked for it
    selected,  \* customerId and the contract asked for
    form,      \* the open decision form: what it names now
    codeAsked, \* its authenticator field is shown
    decisions, \* protected actions under way
    acted,     \* the last protected action: what was confirmed and what the server did
    events, reads, submits, failures \* what remains of the budget

consoleVars == <<login, verified, recent, session, context, phase, calls, screen, selected,
                 form, codeAsked, decisions, acted, events, reads, submits, failures>>
access == <<login, verified, recent>>
page == <<session, context, phase>>
desk == <<screen, selected, form, codeAsked>>
work == <<decisions, acted, submits>>

None == "none"
Tabs == {"overview", "customers", "contracts", "engine", "funding", "notifications", "staff", "audit"}
Cards == {"customer", "contract"}
Nothing == [item |-> None, by |-> None]
NoForm == [kind |-> None, item |-> None, choice |-> FALSE]

Init ==
    /\ login \in Staff /\ verified = FALSE /\ recent = FALSE
    /\ session = None /\ context = None /\ phase = "due" /\ calls = {}
    /\ screen = [p \in Tabs \cup Cards |-> Nothing] /\ selected = [p \in Cards |-> None]
    /\ form = NoForm /\ codeAsked = FALSE /\ decisions = {}
    /\ acted = [confirmed |-> NoForm, done |-> NoForm]
    /\ \E b \in Budgets : /\ events = b.events /\ reads = b.reads
                          /\ submits = b.submits /\ failures = b.failures

\* No call under way is wanted any more (a check of access that is not wanted does
\* nothing: it is dropped here).
Stale(set) == {[c EXCEPT !.wanted = FALSE] : c \in {d \in set : d.stage \in {"read", "leave"}}}
\* The tables, cards and audit trail are emptied; the funding panel is not among them.
Emptied == [p \in Tabs \cup Cards |-> IF p = "funding" THEN screen[p] ELSE Nothing]
\* A plausible error: the screen is emptied and the access kept.
ClearsScreenOnly ==
    /\ screen' = Emptied /\ selected' = [p \in Cards |-> None]
    /\ codeAsked' = FALSE /\ UNCHANGED <<context, form>>
\* clear() of the page and of its workspaces.  The rates that wait for a decision stay in
\* the hidden funding panel, and the decision form keeps what it names.
clear ==
    /\ context' = None
    /\ screen' = Emptied /\ selected' = [p \in Cards |-> None]
    /\ codeAsked' = FALSE /\ UNCHANGED form
Fault == failures > 0 /\ failures' = failures - 1
fail == clear /\ phase' = "failed" /\ calls' = Stale(calls)

-----------------------------------------------------------------------------
\* Another tab signs in or out; a sign-in starts unverified.
SessionChanges ==
    /\ events > 0 /\ events' = events - 1
    /\ \E s \in (Staff \cup {None}) \ {login} : login' = s
    /\ verified' = FALSE /\ recent' = FALSE
    /\ UNCHANGED <<page, calls, desk, work, reads, failures>>

\* The callback of onAuthStateChange: a token refresh of the same identity keeps the
\* console, anything else drops it and has access checked again.
Keeps(refreshed) == refreshed /\ context # None /\ login = session
AuthEvent ==
    /\ \/ session # login /\ UNCHANGED events
       \/ events > 0 /\ events' = events - 1
    /\ session' = login
    /\ \E refreshed \in BOOLEAN :
          IF Keeps(refreshed) THEN UNCHANGED <<context, phase, calls, desk>>
          ELSE clear /\ phase' = "due" /\ calls' = Stale(calls)
    /\ UNCHANGED <<login, verified, recent, work, reads, failures>>

\* refresh(): reads the session, then asks the server who that is.
Check(stage, who) == [kind |-> "check", stage |-> stage, item |-> None, by |-> who, wanted |-> TRUE]
refresh ==
    /\ phase # "checking" /\ clear /\ phase' = "checking"
    /\ calls' = Stale(calls) \cup {Check("session", None)}
    /\ UNCHANGED <<session, access, work, events, reads, failures>>
SessionRead ==
    \E c \in calls :
        /\ c.kind = "check" /\ c.stage = "session"
        /\ session' = login
        /\ IF login = None
           THEN calls' = calls \ {c} /\ phase' = "signedOut"
           ELSE calls' = (calls \ {c}) \cup {Check("context", login)} /\ UNCHANGED phase
        /\ UNCHANGED <<context, access, desk, work, events, reads, failures>>
\* The context must be of the session read; staff who have not verified stay outside.
ContextRead ==
    \E c \in calls :
        /\ c.kind = "check" /\ c.stage = "context"
        /\ IF c.by # session
           THEN fail
           ELSE /\ context' = IF verified THEN c.by ELSE None
                /\ phase' = IF verified THEN "open" ELSE "mfa"
                /\ calls' = calls \ {c} /\ UNCHANGED desk
        /\ UNCHANGED <<session, access, work, events, reads, failures>>
CheckFails ==
    /\ \E c \in calls : c.kind \in {"check", "recheck"}
    /\ Fault /\ fail
    /\ UNCHANGED <<session, access, work, events, reads>>

\* The authenticator code of the sign-in, whose event drops the page.
mfaVerify ==
    /\ phase = "mfa" /\ login = session /\ verified' = TRUE /\ recent' = TRUE
    /\ clear /\ phase' = "due" /\ calls' = Stale(calls)
    /\ UNCHANGED <<login, session, work, events, reads, failures>>
TimePasses ==
    /\ recent /\ recent' = FALSE
    /\ UNCHANGED <<login, verified, page, calls, desk, work, events, reads, failures>>

\* Every minute the open console asks again; another context starts over.
recheck ==
    /\ phase = "open" /\ \A c \in calls : c.kind # "recheck"
    /\ calls' = calls \cup {[Check("recheck", login) EXCEPT !.kind = "recheck"]}
    /\ UNCHANGED <<access, page, desk, work, events, reads, failures>>
Rechecked ==
    \E c \in calls :
        /\ c.kind = "recheck"
        /\ IF c.by # context
           THEN clear /\ phase' = "due" /\ calls' = Stale(calls)
           ELSE calls' = calls \ {c} /\ UNCHANGED <<context, phase, desk>>
        /\ UNCHANGED <<session, access, work, events, reads, failures>>

SignOut ==
    /\ phase \notin {"checking", "signedOut", "leaving"} /\ clear /\ phase' = "leaving"
    /\ calls' = Stale(calls) \cup {[Check("leave", None) EXCEPT !.kind = "signOut"]}
    /\ UNCHANGED <<session, access, work, events, reads, failures>>
\* Its event comes first and has access checked again; otherwise the page says so.
SignedOut ==
    \E c \in calls :
        /\ c.kind = "signOut"
        /\ \/ login' = None /\ verified' = FALSE /\ recent' = FALSE
              /\ session' = None /\ clear /\ phase' = "due" /\ calls' = Stale(calls \ {c})
              /\ UNCHANGED failures
           \/ Fault /\ calls' = calls \ {c} /\ UNCHANGED <<access, page, desk>>
        /\ UNCHANGED <<work, events, reads>>

-----------------------------------------------------------------------------
\* A read of the console: a tab, or the card of one customer or contract.
can(tab) == phase = "open" /\ tab \in Capabilities[context]
Ask(panel, item) ==
    /\ reads > 0 /\ reads' = reads - 1
    /\ calls' = calls \cup {[kind |-> panel, stage |-> "read", item |-> item, by |-> context,
                             wanted |-> TRUE]}
    /\ UNCHANGED <<access, page, form, codeAsked, work, events, failures>>
Load(tab) == can(tab) /\ Ask(tab, None) /\ UNCHANGED <<screen, selected>>
\* These empty their table first.
Reload(tab) == can(tab) /\ Ask(tab, None) /\ UNCHANGED selected
               /\ screen' = [screen EXCEPT ![tab] = Nothing]
loadOverview == Load("overview")
loadCustomers == Reload("customers")
loadContracts == Reload("contracts")
loadEngine == Reload("engine")
loadFunding == Load("funding")
loadAnnouncements == Load("notifications")
loadStaff == Reload("staff")
\* One page of the audit trail at a time (auditBusy).
loadAudit == (\A c \in calls : c.kind = "audit" => ~c.wanted) /\ Load("audit")

Open(card, tab) ==
    /\ can(tab) /\ screen[tab] # Nothing
    /\ \E i \in Items : selected' = [selected EXCEPT ![card] = i] /\ Ask(card, i)
    /\ screen' = [screen EXCEPT ![card] = Nothing]
openCustomerDetail == Open("customer", "customers")
openContract == Open("contract", "contracts")
closeDetail ==
    /\ \E card \in Cards :
          /\ selected[card] # None
          /\ selected' = [selected EXCEPT ![card] = None]
          /\ screen' = [screen EXCEPT ![card] = Nothing]
    /\ UNCHANGED <<access, page, calls, form, codeAsked, work, events, reads, failures>>

\* A plausible error: an answer is used whatever has happened to the page since.
AnyGeneration(c) == TRUE
\* An answer counts in the generation it was asked in.
Current(c) == c.wanted
\* A customer's card takes only the answer about the customer selected; a contract's
\* card takes any.
Wanted(c) == Current(c) /\ (c.kind = "customer" => selected["customer"] = c.item)
Answered ==
    \E c \in calls :
        /\ c.stage = "read" /\ calls' = calls \ {c}
        /\ screen' = IF Wanted(c) THEN [screen EXCEPT ![c.kind] = [item |-> c.item, by |-> c.by]]
                     ELSE screen
        /\ UNCHANGED <<access, page, selected, form, codeAsked, work, events, reads, failures>>
\* "Could not load"; a refusal seen by the audit trail ends the access.
ReadFails ==
    \E c \in calls :
        /\ c.stage = "read" /\ Fault
        /\ IF c.kind = "audit" /\ c.wanted
           THEN fail
           ELSE calls' = calls \ {c} /\ UNCHANGED <<context, phase, desk>>
        /\ UNCHANGED <<session, access, work, events, reads>>

-----------------------------------------------------------------------------
\* The forms that change something.  item and choice are what the form names; a rate
\* decision, a role change and a treasury figure read one of them only when the call is
\* made, after the code is verified.
voidForm == [kind |-> "void", item |-> screen["contract"].item, choice |-> TRUE]
restrictionForm == [kind |-> "restrict", item |-> selected["customer"], choice |-> TRUE]
OpenForm ==
    /\ \/ screen["contract"] # Nothing /\ form' = voidForm
       \/ selected["customer"] # None /\ form' = restrictionForm
       \/ /\ can("funding") /\ screen["funding"] # Nothing
          /\ \E i \in Items, approve \in BOOLEAN : form' = [kind |-> "rate", item |-> i, choice |-> approve]
       \/ /\ screen["staff"] # Nothing
          /\ \E role \in BOOLEAN : form' = [kind |-> "role", item |-> None, choice |-> role]
    /\ submits > 0 /\ form' # form
    /\ UNCHANGED <<access, page, calls, screen, selected, codeAsked, work, events, reads, failures>>

\* What is done, given the decision confirmed: a plausible error reads the customer too
\* when the call is made.
ReadsCustomerLate(d) ==
    IF d.kind = "restrict" THEN [d EXCEPT !.item = selected["customer"]] ELSE d
ReadLate(d) == CASE d.kind = "rate" /\ form.kind = "rate" -> [d EXCEPT !.item = form.item]
                 [] d.kind = "role" /\ form.kind = "role" -> [d EXCEPT !.choice = form.choice]
                 [] OTHER -> d
\* runProtected: with a code in the field it verifies first.
runProtected ==
    /\ context # None /\ form # NoForm /\ submits > 0 /\ submits' = submits - 1
    /\ decisions' = decisions \cup {[confirmed |-> form, done |-> form, by |-> login,
                                     stage |-> IF codeAsked THEN "verify" ELSE "call"]}
    /\ UNCHANGED <<access, page, calls, desk, acted, events, reads, failures>>
\* A verified code makes its identity the session's again, and its event is kept only by
\* the console of that identity; a call of a dropped console is stale.
Verified ==
    \E d \in decisions :
        /\ d.stage = "verify"
        /\ login' = d.by /\ verified' = TRUE /\ recent' = TRUE /\ session' = d.by
        /\ IF context = d.by /\ session = d.by
           THEN /\ decisions' = (decisions \ {d}) \cup {[d EXCEPT !.stage = "call", !.done = ReadLate(@)]}
                /\ codeAsked' = FALSE
                /\ UNCHANGED <<context, phase, calls, screen, selected, form>>
           ELSE /\ decisions' = decisions \ {d}
                /\ clear /\ phase' = "due" /\ calls' = Stale(calls)
        /\ UNCHANGED <<acted, submits, events, reads, failures>>
CodeRefused ==
    \E d \in decisions :
        /\ d.stage = "verify" /\ Fault /\ decisions' = decisions \ {d}
        /\ UNCHANGED <<access, page, calls, desk, acted, submits, events, reads>>
\* The server wants a recent verification; without one the form asks for a code.
ServerActs ==
    \E d \in decisions :
        /\ d.stage = "call" /\ decisions' = decisions \ {d}
        /\ IF recent /\ verified /\ login = d.by
           THEN acted' = [confirmed |-> d.confirmed, done |-> d.done] /\ UNCHANGED codeAsked
           ELSE codeAsked' = TRUE /\ UNCHANGED acted
        /\ UNCHANGED <<access, page, calls, screen, selected, form, submits, events, reads, failures>>

Next == \/ SessionChanges \/ AuthEvent \/ refresh \/ SessionRead \/ ContextRead \/ CheckFails
        \/ mfaVerify \/ TimePasses \/ recheck \/ Rechecked \/ SignOut \/ SignedOut
        \/ loadOverview \/ loadCustomers \/ loadContracts \/ loadEngine \/ loadFunding
        \/ loadAnnouncements \/ loadStaff \/ loadAudit
        \/ openCustomerDetail \/ openContract \/ closeDetail \/ Answered \/ ReadFails
        \/ OpenForm \/ runProtected \/ Verified \/ CodeRefused \/ ServerActs
Spec == Init /\ [][Next]_consoleVars

-----------------------------------------------------------------------------
TypeOK ==
    /\ {login, session, context} \subseteq Staff \cup {None}
    /\ phase \in {"due", "checking", "signedOut", "mfa", "open", "failed", "leaving"}
    /\ phase = "open" <=> context # None
    /\ \A c \in calls : c.kind \in Tabs \cup Cards \cup {"check", "recheck", "signOut"}

\* What the proofs need.  Calls, panels, forms and decisions are what their actions make
\* them; access is asked for once at a time, while the console is closed; and an answer
\* that will be used was asked for by the member of staff the console is open for.
IsForm(f) == f = [kind |-> f.kind, item |-> f.item, choice |-> f.choice]
CallsAreCalls ==
    \A c \in calls :
        /\ c = [kind |-> c.kind, stage |-> c.stage, item |-> c.item, by |-> c.by, wanted |-> c.wanted]
        /\ c.stage = "read" => c.kind \in Tabs \cup Cards
        /\ c.kind = "check" => c.stage \in {"session", "context"}
        /\ c.kind = "check" /\ c.stage = "context" => c.by # None
PanelsArePanels ==
    screen = [p \in Tabs \cup Cards |-> screen[p]] /\ selected = [p \in Cards |-> selected[p]]
ChecksWhileClosed ==
    /\ phase = "open" <=> context # None
    /\ \A c \in calls : c.kind = "check" => phase = "checking"
    /\ \A c, d \in calls : c.kind = "check" /\ d.kind = "check" => c = d
WantedByOwner == \A c \in calls : c.stage = "read" /\ c.wanted => context # None /\ c.by = context
DecidesAsConfirmed ==
    /\ IsForm(form)
    /\ \A d \in decisions :
          /\ d = [confirmed |-> d.confirmed, done |-> d.done, by |-> d.by, stage |-> d.stage]
          /\ IsForm(d.done) /\ (d.done.kind \in {"void", "restrict"} => d.done = d.confirmed)

\* Whatever the console shows outside the funding panel was asked for by the member of
\* staff it is open for: no answer of before a sign-out, a change of identity or a lost
\* access repaints it, and nothing of before is left; and a customer's card shows the
\* customer its forms act on.  (clear() leaves the funding panel, although admin.js:96 has
\* all data of the former member discarded.)
ShowsItsStaff ==
    /\ \A p \in DOMAIN screen \ {"funding"} :
           screen[p] # Nothing => context # None /\ screen[p].by = context
    /\ screen["customer"] # Nothing => screen["customer"].item = selected["customer"]

\* A contract is voided and a customer restricted as confirmed, although other cards may
\* be opened while the code of the confirmation is verified.
ActsAsConfirmed == acted.done.kind \in {"void", "restrict"} => acted.done = acted.confirmed
=============================================================================
