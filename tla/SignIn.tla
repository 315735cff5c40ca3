------------------------------- MODULE SignIn -------------------------------
(***************************************************************************)
(* The forms that let people in: sign-in and the confirmation e-mail sent  *)
(* again (login.js), sign-up (register.js), password reset                 *)
(* (forgot-password.js) and the staff console's sign-in (staff-login.js).  *)
(* Each asks a limiter (form-guard.js) whose record is in sessionStorage:  *)
(* it survives a reload, and the attempt under way does not.  A behaviour  *)
(* is one form in one tab.                                                 *)
(***************************************************************************)
EXTENDS Naturals, Sequences

CONSTANTS
    Forms,          \* the forms a behaviour may be of
    Limits,         \* form -> [max, window, lock]
    Accounts,
    Staff,          \* those with a staff role
    MaxTime, MaxTries, MaxFaults \* bounds: the clock; recorded attempts; reloads and failed calls

SignInForms == DOMAIN Limits = Forms /\ Forms \subseteq
    {"signin", "staff-signin", "signup", "password-reset", "resend-confirmation"}
SignInLimits == \A f \in Forms :
    Limits[f] \in [max : Nat \ {0}, window : Nat, lock : Nat] /\ Limits[f].lock <= Limits[f].window
None == "none"
SignInBounds == None \notin Accounts /\ Staff \subseteq Accounts /\ {MaxTime, MaxTries, MaxFaults} \subseteq Nat

VARIABLES
    form,     \* the form of this tab
    now,
    limit,    \* the limiter's record: attempts that count, and the end of the pause
    task,     \* the attempt under way, or Idle, or where it led
    store,    \* where the form's client keeps sessions: one per Web Storage
    checking, \* the check whether somebody is signed in already is under way
    recorded, \* history: when attempts were recorded since the last success
    faults

signInVars == <<form, now, limit, task, store, checking, recorded, faults>>

\* Sign-ups and e-mails count when they are asked for, sign-ins when they fail.
CountsAtOnce == form \in {"signup", "password-reset", "resend-confirmation"}

Idle == [step |-> "idle", who |-> None, remember |-> FALSE]
Fresh == [at |-> <<>>, until |-> 0]

\* authStorage.getItem, before a page has been told which storage to use.
Stored(s) == IF s.tab # None THEN s.tab ELSE s.device
\* authStorage.setItem: "remember me" keeps the session on the device, else in the tab.
\* The staff client keeps its sessions on the device.
setItem(who, remember) ==
    IF remember \/ form = "staff-signin" THEN [store EXCEPT !.device = who]
    ELSE [store EXCEPT !.tab = who]

wait == limit.until > now
Reached(at, max) == Len(at) >= max
\* Times only grow, so the attempts that count no more come first.
record ==
    \E old \in 0 .. Len(limit.at) :
        LET at == Append(SubSeq(limit.at, old + 1, Len(limit.at)), now)
        IN /\ \A i \in DOMAIN limit.at : now < limit.at[i] + Limits[form].window <=> i > old
           /\ limit' = IF Reached(at, Limits[form].max)
                       THEN [at |-> <<>>, until |-> now + Limits[form].lock]
                       ELSE [limit EXCEPT !.at = at]
           /\ recorded' = Append(recorded, now)
reset == limit' = Fresh /\ recorded' = <<>>

Init ==
    /\ form \in Forms /\ now = 0 /\ limit = Fresh /\ task = Idle /\ checking = TRUE
    /\ store \in [tab : {None} \cup (IF form = "signin" THEN Accounts ELSE {}),
                  device : {None} \cup (IF CountsAtOnce THEN {} ELSE Accounts)]
    /\ recorded = <<>> /\ faults = 0

TimePasses ==
    /\ now < MaxTime /\ now' = now + 1
    /\ UNCHANGED <<form, limit, task, store, checking, recorded, faults>>
Fault == faults < MaxFaults /\ faults' = faults + 1
Leads(step) == task' = [task EXCEPT !.step = step]

\* redirectIfAuthenticated and redirectIfStaffAuthenticated, while the form can be used:
\* whoever is signed in leaves, staff only with their role.  A check that fails keeps the
\* form.
Recognised == Stored(store) # None /\ (form = "staff-signin" => Stored(store) \in Staff)
Checked ==
    /\ checking /\ task.step # "inside" /\ checking' = FALSE
    /\ IF Recognised
       THEN \/ task' = [Idle EXCEPT !.step = "inside", !.who = Stored(store)] /\ UNCHANGED faults
            \/ Fault /\ UNCHANGED task
       ELSE UNCHANGED <<task, faults>>
    /\ UNCHANGED <<form, now, limit, store, recorded>>

Start(f, counts) ==
    /\ form = f /\ task = Idle /\ ~wait /\ Len(recorded) < MaxTries
    /\ \E who \in Accounts, remember \in (IF f = "signin" THEN BOOLEAN ELSE {FALSE}) :
          task' = [step |-> "asked", who |-> who, remember |-> remember]
    /\ IF counts THEN record ELSE UNCHANGED <<limit, recorded>>
    /\ UNCHANGED <<form, now, store, checking, faults>>
handleLogin == Start("signin", FALSE)
handleStaffLogin == Start("staff-signin", FALSE)
handleRegister == Start("signup", TRUE)
requestReset == Start("password-reset", TRUE)
resendConfirmation == Start("resend-confirmation", TRUE)

Asked(f) == form = f /\ task.step = "asked" /\ UNCHANGED <<form, now, checking, faults>>
LoggedIn ==
    /\ Asked("signin") /\ store' = setItem(task.who, task.remember) /\ reset /\ Leads("inside")
\* The right password of an address not confirmed yet does not count.
LoginFails ==
    /\ Asked("signin") /\ task' = Idle /\ UNCHANGED store
    /\ record \/ UNCHANGED <<limit, recorded>>
\* The password is accepted and the session kept; the role decides.
StaffAccepted ==
    /\ Asked("staff-signin") /\ store' = setItem(task.who, FALSE) /\ Leads("asksRole")
    /\ UNCHANGED <<limit, recorded>>
StaffRefused ==
    /\ Asked("staff-signin") /\ Leads("leaves") /\ UNCHANGED <<store, limit, recorded>>
\* On to account setup, or to sign in.
Registered ==
    /\ Asked("signup") /\ Leads("inside") /\ UNCHANGED <<store, limit, recorded>>
NotRegistered ==
    /\ Asked("signup") /\ task' = Idle /\ UNCHANGED <<store, limit, recorded>>
\* The e-mail is sent, or not; either way the form can be used again.
ResetAnswered ==
    /\ Asked("password-reset") /\ task' = Idle /\ UNCHANGED <<store, limit, recorded>>
ResendAnswered ==
    /\ Asked("resend-confirmation") /\ task' = Idle /\ UNCHANGED <<store, limit, recorded>>

RoleRead ==
    /\ task.step = "asksRole"
    /\ \/ /\ task.who \in Staff /\ reset /\ Leads("inside") /\ UNCHANGED faults
       \/ /\ task.who \notin Staff /\ Leads("leaves") /\ UNCHANGED <<limit, recorded, faults>>
       \/ Fault /\ Leads("leaves") /\ UNCHANGED <<limit, recorded>>
    /\ UNCHANGED <<form, now, store, checking>>
\* staffSignOut, whose failure is ignored; only then is the failure counted and shown.
staffSignOut ==
    /\ task.step = "leaves" /\ task' = Idle /\ record
    /\ \/ store' = [tab |-> None, device |-> None] /\ UNCHANGED faults
       \/ Fault /\ UNCHANGED store
    /\ UNCHANGED <<form, now, checking>>

Reload ==
    /\ task.step # "inside" /\ Fault /\ task' = Idle /\ checking' = TRUE
    /\ UNCHANGED <<form, now, limit, store, recorded>>

Next == \/ TimePasses \/ Checked \/ handleLogin \/ handleStaffLogin \/ handleRegister
        \/ requestReset \/ resendConfirmation \/ LoggedIn \/ LoginFails
        \/ StaffAccepted \/ StaffRefused \/ RoleRead \/ staffSignOut
        \/ Registered \/ NotRegistered \/ ResetAnswered \/ ResendAnswered \/ Reload
Spec == Init /\ [][Next]_signInVars

-----------------------------------------------------------------------------
TypeOK ==
    /\ form \in Forms /\ now \in 0 .. MaxTime /\ faults \in 0 .. MaxFaults
    /\ limit.until \in Nat /\ Len(limit.at) < Limits[form].max
    /\ task.step \in {"idle", "asked", "asksRole", "leaves", "inside"}
    /\ task.who \in Accounts \cup {None}
    /\ \A s \in {"tab", "device"} : store[s] \in Accounts \cup {None}

\* What the proofs need: the attempts that count are the latest ones recorded, and none
\* before them is within the length of a pause of one that may still be recorded.
Times == Len(recorded)
SignInTyped ==
    /\ form \in Forms /\ now \in Nat /\ recorded \in Seq(Nat)
    /\ limit \in [at : Seq(Nat), until : Nat] /\ Len(limit.at) < Limits[form].max
    /\ "step" \in DOMAIN task
    /\ task.step \in {"asksRole", "leaves"} => form = "staff-signin"
CountsTheLatest ==
    /\ Len(limit.at) <= Times
    /\ \A i \in DOMAIN limit.at : limit.at[i] = recorded[Times - Len(limit.at) + i]
OthersAreOver ==
    /\ \A i \in 1 .. Times : recorded[i] <= now
    /\ \A i \in 1 .. Times - Len(limit.at) :
          recorded[i] + Limits[form].lock <= now \/ recorded[i] + Limits[form].lock <= limit.until
    /\ task.step \in {"asked", "asksRole", "leaves"} /\ ~CountsAtOnce => limit.until <= now

\* Who tries is an account.
WhoTries ==
    /\ faults \in Nat /\ store = [tab |-> store.tab, device |-> store.device]
    /\ task = [step |-> task.step, who |-> task.who, remember |-> task.remember]
    /\ task.step = "asked" => task.who \in Accounts

\* However attempts, pauses and reloads follow each other, no more than max of them count
\* within the length of a pause.
AttemptsLimited ==
    \A i \in 1 .. Len(recorded) :
        i + Limits[form].max <= Len(recorded) =>
            recorded[i + Limits[form].max] - recorded[i] >= Limits[form].lock

\* An account without a staff role that signs in to the console leaves no session behind,
\* unless the page is reloaded, or its sign-out fails, in the midst of it.
NoSessionLeft ==
    form = "staff-signin" /\ task # Idle /\ task' = Idle /\ faults' = faults
        => Stored(store') = None

\* Who signs in is who the next page finds signed in, if nobody else was kept in this tab.
SignsInWhoAsked ==
    task.step # "inside" /\ task'.step = "inside" /\ form = "signin" /\ store.tab = None
        => Stored(store') = task'.who
=============================================================================
