------------------------------ MODULE Welcome ------------------------------
(***************************************************************************)
(* What a signed-in tab knows about its customer from page to page: the    *)
(* gate to the welcome questions and their answers (auth.js,               *)
(* onboarding.js), and the settings derived from them (tailoring.js).  It  *)
(* is in sessionStorage, where the next person in this tab finds it:       *)
(* `logout` empties it and then waits for the server, on a page whose      *)
(* calls are still under way.                                              *)
(***************************************************************************)
EXTENDS Naturals

CONSTANTS
    Customers,
    Choices,     \* what may be answered to a question
    MaxLogins, MaxSaves, MaxFaults \* bounds: sign-ins; saved steps; failed calls and reloads

WelcomeBounds == {MaxLogins, MaxSaves, MaxFaults} \subseteq Nat

VARIABLES
    server,   \* customer -> the answers saved, and whether that is all
    user,     \* who is signed in here
    page,     \* where the tab is
    step,     \* the question shown
    kept,     \* sessionStorage: customer -> the answers of one who has finished
    tailored, \* sessionStorage: the answers the settings derive from
    current,  \* those of this page
    known,    \* this page has the answers of the server, or of the tab
    asking,   \* get_my_onboarding
    saving,   \* save_my_onboarding
    leaving,  \* logout waits for signOut
    logins, saves, faults

welcomeVars == <<server, user, page, step, kept, tailored, current, known, asking, saving,
                 leaving, logins, saves, faults>>
here == <<user, page, step>>
settings == <<tailored, current, known>>
limits == <<logins, saves, faults>>

None == "none"
Questions == 1 .. 3
NoAnswers == [q \in Questions |-> None]
NoView == [done |-> FALSE, data |-> NoAnswers]
Asking(state) == [state |-> state, view |-> NoView]
NotSaving == [state |-> "no", data |-> <<>>, finish |-> FALSE, view |-> NoView]
Fault == faults < MaxFaults /\ faults' = faults + 1

Init ==
    /\ server \in [Customers -> [done : BOOLEAN, data : {NoAnswers}]]
    /\ user = None /\ page = "out" /\ step = 1 /\ kept = [c \in Customers |-> NoView]
    /\ tailored = NoAnswers /\ current = NoAnswers /\ known = FALSE
    /\ asking = Asking("no") /\ saving = NotSaving /\ leaving = FALSE
    /\ logins = 0 /\ saves = 0 /\ faults = 0

\* A page that loads applies the settings remembered and asks for the answers, of the tab
\* if it has them.
Load(where, view, remembered) ==
    /\ page' = where /\ step' = 1 /\ saving' = NotSaving /\ leaving' = FALSE
    /\ known' = view.done /\ asking' = Asking(IF view.done THEN "no" ELSE "asked")
    /\ tailored' = IF view.done THEN view.data ELSE remembered
    /\ current' = tailored'

SignIn ==
    /\ page = "out" /\ logins < MaxLogins /\ logins' = logins + 1
    /\ \E c \in Customers : user' = c /\ Load("app", kept[c], tailored)
    /\ UNCHANGED <<server, kept, saves, faults>>

\* cacheOnboarding: only what is final is kept.
cacheOnboarding(view) == kept' = IF view.done THEN [kept EXCEPT ![user] = view] ELSE kept
\* The settings are a function of the answers, which stand for them.
update(answers) == answers

ServerAnswers ==
    /\ asking.state = "asked" /\ asking' = [state |-> "read", view |-> server[user]]
    /\ UNCHANGED <<server, here, kept, settings, saving, leaving, limits>>
\* The gate leads to the questions, whose page is left by one who has answered them.
AnswerRead ==
    /\ asking.state = "read" /\ cacheOnboarding(asking.view)
    /\ LET view == asking.view
       IN IF (page = "app") # view.done
          THEN Load(IF view.done THEN "app" ELSE "welcome", kept'[user], update(view.data))
          ELSE /\ tailored' = update(view.data) /\ current' = tailored' /\ known' = TRUE
               /\ asking' = Asking("no") /\ UNCHANGED <<page, step, saving, leaving>>
    /\ UNCHANGED <<server, user, limits>>
\* The page stays open, with the settings of one who has answered nothing.
AskFails ==
    /\ asking.state # "no" /\ Fault /\ asking' = Asking("no")
    /\ tailored' = NoAnswers /\ current' = NoAnswers
    /\ UNCHANGED <<server, here, kept, known, saving, leaving, logins, saves>>

-----------------------------------------------------------------------------
\* The questions, one save at a time (run, busy).
Save(data, finish) ==
    /\ page = "welcome" /\ saving.state = "no" /\ saves < MaxSaves /\ saves' = saves + 1
    /\ saving' = [NotSaving EXCEPT !.state = "asked", !.data = data, !.finish = finish]
    /\ UNCHANGED <<server, here, kept, settings, asking, leaving, logins, faults>>
\* The questions are hidden until the answers given before have been read.
submit == asking.state = "no"
          /\ \E choice \in Choices \cup {None} : Save([q \in {step} |-> choice], step = 3)
skipAll == Save(<<>>, TRUE)
ServerSaves ==
    /\ saving.state = "asked"
    /\ LET old == server[user]
           new == [done |-> old.done \/ saving.finish,
                   data |-> [q \in Questions |->
                                IF q \in DOMAIN saving.data THEN saving.data[q] ELSE old.data[q]]]
       IN /\ server' = [server EXCEPT ![user] = new]
          /\ saving' = [saving EXCEPT !.state = "saved", !.view = new]
    /\ UNCHANGED <<here, kept, settings, asking, leaving, limits>>
\* The next question; after the last, or "Skip for now", markOnboardingComplete and away.
Saved ==
    /\ saving.state = "saved"
    /\ IF saving.finish
       THEN cacheOnboarding(saving.view) /\ Load("app", kept'[user], saving.view.data)
       ELSE /\ saving.data # <<>> /\ \E q \in DOMAIN saving.data : step' = q + 1
            /\ saving' = NotSaving
            /\ UNCHANGED <<page, kept, settings, asking, leaving>>
    /\ UNCHANGED <<server, user, limits>>
NotSaved ==
    /\ saving.state # "no" /\ Fault /\ saving' = NotSaving
    /\ UNCHANGED <<server, here, kept, settings, asking, leaving, logins, saves>>
\* "Back", and "Skip" of the first question, which saves nothing.
show ==
    /\ page = "welcome" /\ asking.state = "no"
    /\ \/ step > 1 /\ step' = step - 1
       \/ step = 1 /\ step' = 2
    /\ UNCHANGED <<server, user, page, kept, settings, asking, saving, leaving, limits>>

-----------------------------------------------------------------------------
logout ==
    /\ page # "out" /\ ~leaving /\ leaving' = TRUE
    /\ kept' = [c \in Customers |-> NoView] /\ tailored' = NoAnswers
    /\ UNCHANGED <<server, here, current, known, asking, saving, limits>>
\* Answered or not, the page leaves; what came in between stays in the tab.
Left ==
    /\ leaving /\ leaving' = FALSE /\ user' = None /\ page' = "out" /\ step' = 1
    /\ current' = NoAnswers /\ known' = FALSE /\ asking' = Asking("no") /\ saving' = NotSaving
    /\ UNCHANGED <<server, kept, tailored, limits>>
\* The tab goes to another page, or reloads.
Reload ==
    /\ page # "out" /\ Fault /\ Load(page, kept[user], tailored)
    /\ UNCHANGED <<server, user, kept, logins, saves>>

Next == \/ SignIn \/ ServerAnswers \/ AnswerRead \/ AskFails
        \/ submit \/ skipAll \/ ServerSaves \/ Saved \/ NotSaved \/ show
        \/ logout \/ Left \/ Reload
Spec == Init /\ [][Next]_welcomeVars

-----------------------------------------------------------------------------
TypeOK ==
    /\ user \in Customers \cup {None} /\ page \in {"out", "app", "welcome"} /\ step \in Questions
    /\ user = None <=> page = "out"
    /\ \A c \in Customers : ~kept[c].done => kept[c] = NoView
    /\ {tailored, current} \subseteq [Questions -> Choices \cup {None}]

\* What the proofs need: what the tab keeps of a customer is what the server has, who then
\* is past the questions; answers are asked for only while they are not known, and a step
\* with an answer is not saved meanwhile.
IsView(v) == v.done \in BOOLEAN /\ v = [done |-> v.done, data |-> [q \in Questions |-> v.data[q]]]
ViewsAreViews ==
    /\ server = [c \in Customers |-> server[c]] /\ kept = [c \in Customers |-> kept[c]]
    /\ \A c \in Customers : IsView(server[c]) /\ IsView(kept[c])
    /\ page # "out" => page \in {"app", "welcome"} /\ user \in Customers
    /\ {known, saving.finish} \subseteq BOOLEAN /\ asking = [state |-> asking.state, view |-> asking.view]
    /\ saving = [state |-> saving.state, data |-> saving.data, finish |-> saving.finish, view |-> saving.view]
KeptAsSaved == \A c \in Customers : kept[c].done => kept[c] = server[c]
AsksUnknown ==
    /\ asking.state # "no" =>
          page # "out" /\ ~known /\ ~kept[user].done /\ (saving.state # "no" => saving.data = <<>>)
    /\ asking.state = "read" =>
          /\ IsView(asking.view) /\ asking.view.data = server[user].data
          /\ asking.view.done => server[user].done
SavesOnWelcome ==
    /\ page = "welcome" => ~kept[user].done
    /\ saving.state # "no" => page = "welcome"
    /\ saving.state = "saved" => saving.view = server[user] /\ (saving.finish => server[user].done)

\* A page that has read the answers of its customer follows those and no others, whoever
\* used the tab before and whatever stayed in it; and, being past the gate, it has all of
\* them.
FollowsOwnAnswers ==
    known /\ page = "app" => current = server[user].data /\ server[user].done
=============================================================================
