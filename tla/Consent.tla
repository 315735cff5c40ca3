------------------------------ MODULE Consent ------------------------------
(***************************************************************************)
(* Preference storage and its consent, assets/js/consent.js: the record of *)
(* the choice is read once, when a page loads; settings are kept in memory *)
(* by every page and on the device only while that page's record allows    *)
(* it.  theme.js, shell.js, trade.js, engine-notice.js and                 *)
(* trade-companion.js store their settings through it.  Several pages of   *)
(* the site may be open at once; they share the cookie and the device.     *)
(***************************************************************************)
EXTENDS Naturals

CONSTANTS
    Pages,          \* pages (browser tabs) of the site
    Keys,           \* PREFERENCE_KEYS
    Values,
    MaxChoices      \* bound: saved choices

ConsentAssumption == MaxChoices \in Nat

VARIABLES
    cookie,     \* sp_consent: the last choice made, or Unset
    device,     \* localStorage: preference key -> value, or Unset
    record,     \* page -> the choice it read or made, or Closed
    memory,     \* page -> key -> value it keeps for itself, or Unset
    choices,
    elsewhere   \* another page open at the last choice still had one that allows settings

consentVars == <<cookie, device, record, memory, choices, elsewhere>>

Unset == "unset"
Closed == "closed"
Choices == {"preferences", "essential"}
Nothing == [k \in Keys |-> Unset]

allows(p) == record[p] = "preferences"

(* store.getItem.                                                          *)
Visible(p) == [k \in Keys |-> IF allows(p) THEN device[k] ELSE memory[p][k]]

\* Mutant: a choice taken back keeps what is on the device.
KeepsDevice(kept) == [dev |-> device, mem |-> [k \in Keys |-> IF device[k] # Unset THEN device[k] ELSE kept[k]]]

(* clearPreferences takes every setting off the device and keeps it for    *)
(* the page.                                                               *)
clearPreferences(kept) ==
    [dev |-> Nothing, mem |-> [k \in Keys |-> IF device[k] # Unset THEN device[k] ELSE kept[k]]]

(* Settings stored before there was a consent record may be on the device. *)
Init ==
    /\ cookie = Unset
    /\ device \in [Keys -> Values \cup {Unset}]
    /\ record = [p \in Pages |-> Closed]
    /\ memory = [p \in Pages |-> Nothing]
    /\ choices = 0 /\ elsewhere = FALSE

Load(p) ==
    /\ record[p] = Closed
    /\ record' = [record EXCEPT ![p] = cookie]
    /\ LET cleared == clearPreferences(Nothing)
           kept == IF cookie = Unset THEN cleared ELSE [dev |-> device, mem |-> Nothing]
       IN device' = kept.dev /\ memory' = [memory EXCEPT ![p] = kept.mem]
    /\ UNCHANGED <<cookie, choices, elsewhere>>

Close(p) ==
    /\ record[p] # Closed
    /\ record' = [record EXCEPT ![p] = Closed]
    /\ memory' = [memory EXCEPT ![p] = Nothing]
    /\ UNCHANGED <<cookie, device, choices, elsewhere>>

setItem(p, k, v) ==
    /\ record[p] # Closed
    /\ memory' = [memory EXCEPT ![p][k] = v]
    /\ device' = IF allows(p) THEN [device EXCEPT ![k] = v] ELSE device
    /\ UNCHANGED <<cookie, record, choices, elsewhere>>

removeItem(p, k) ==
    /\ record[p] # Closed
    /\ memory' = [memory EXCEPT ![p][k] = Unset]
    /\ device' = [device EXCEPT ![k] = Unset]
    /\ UNCHANGED <<cookie, record, choices, elsewhere>>

(* Settings chosen before consent move from memory to the device.          *)
Move(p) == [dev |-> [k \in Keys |-> IF memory[p][k] # Unset THEN memory[p][k] ELSE device[k]],
            mem |-> memory[p]]

save(p, choice) ==
    /\ record[p] # Closed /\ choices < MaxChoices
    /\ choices' = choices + 1
    /\ cookie' = choice
    /\ elsewhere' = (\E q \in Pages \ {p} : allows(q))
    /\ record' = [record EXCEPT ![p] = choice]
    /\ LET moved == IF choice = "preferences" THEN Move(p) ELSE clearPreferences(memory[p])
       IN device' = moved.dev /\ memory' = [memory EXCEPT ![p] = moved.mem]

Next == \E p \in Pages :
    \/ Load(p) \/ Close(p)
    \/ \E k \in Keys : removeItem(p, k) \/ \E v \in Values : setItem(p, k, v)
    \/ \E choice \in Choices : save(p, choice)

Spec == Init /\ [][Next]_consentVars

-----------------------------------------------------------------------------
TypeOK ==
    /\ cookie \in Choices \cup {Unset}
    /\ device \in [Keys -> Values \cup {Unset}]
    /\ record \in [Pages -> Choices \cup {Unset, Closed}]
    /\ memory \in [Pages -> [Keys -> Values \cup {Unset}]]
    /\ choices \in 0 .. MaxChoices /\ elsewhere \in BOOLEAN

(* What the proofs need: before the first choice no page has one; and when *)
(* it was refused with no page left that allows settings, none allows any  *)
(* since, and none is on the device.                                       *)
RefusalHolds ==
    /\ cookie = Unset => ~elsewhere /\ \A p \in Pages : record[p] \in {Closed, Unset}
    /\ cookie = "essential" /\ ~elsewhere => device = Nothing /\ \A p \in Pages : ~allows(p)

(* Preferences are on the device only by consent: once a page has loaded,  *)
(* nothing is kept there while the last choice does not allow it, whatever *)
(* the open pages do, unless another page open when that choice was made   *)
(* goes on with the former one (pages/cookies.html:101 makes no exception).*)
StoredByConsent ==
    (\E p \in Pages : record[p] # Closed) /\ cookie # "preferences" /\ ~elsewhere => device = Nothing

(* Changing one's mind on a page changes no setting the page follows, even *)
(* one another page stored: what it read before is read after.             *)
KeepsSettings ==
    \A p \in Pages :
        record[p] # Closed /\ record'[p] # Closed /\ allows(p)' # allows(p)
        => \A k \in Keys : Visible(p)[k] # Unset => Visible(p)'[k] = Visible(p)[k]
=============================================================================
