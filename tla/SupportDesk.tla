---------------------------- MODULE SupportDesk ----------------------------
(***************************************************************************)
(* The support conversation (support-ui.js, on the staff console and on    *)
(* the customer's page) over mutate_support (20260917110000).  The other   *)
(* side of a conversation writes too.  A message is the draft it was sent  *)
(* from and the first click on Send of that draft: a draft ends when its   *)
(* author edits it or reads the conversation again.                        *)
(***************************************************************************)
EXTENDS Naturals, FiniteSets, Sequences, SequencesExt

CONSTANTS
    Tickets,
    Texts,       \* what may be written
    MaxSends,    \* bound: clicks on Send
    MaxLoads,    \* bound: loads of a conversation
    MaxUpsets    \* bound: answers lost, tickets reassigned, messages of the other side

Blank == "blank"
DeskBounds == Blank \notin Texts /\ {MaxSends, MaxLoads, MaxUpsets} \subseteq Nat

VARIABLES
    tickets,     \* per ticket: its version and the replies of this side
    receipts,    \* request ids the server has answered, with the answer
    ticket,      \* this.ticket: the ticket selected and the version known, or NoTicket
    thread,      \* the ticket whose messages are on screen, or None
    draft,       \* the reply being written, or Blank
    key,         \* this.key: [fingerprint, id], or NoKey
    busy,        \* a change is being saved
    first,       \* ghost: the first click on Send of this draft, or 0
    loads,       \* loadTicket() calls under way
    sends,       \* mutate() calls under way
    clicks, reads, upsets,
    away         \* tickets this side may no longer see

deskVars == <<tickets, receipts, ticket, thread, draft, key, busy, first,
              loads, sends, clicks, reads, upsets, away>>

None == "none"
NoTicket == [id |-> None, version |-> 0]
NoKey == [fingerprint |-> <<>>, id |-> 0]
NoAnswer == [done |-> FALSE, found |-> FALSE, version |-> 0]

Init ==
    /\ tickets = [t \in Tickets |-> [version |-> 0, replies |-> <<>>]]
    /\ receipts = {} /\ ticket = NoTicket /\ thread = None /\ draft = Blank
    /\ key = NoKey /\ busy = FALSE /\ first = 0 /\ loads = {} /\ sends = {}
    /\ clicks = 0 /\ reads = 0 /\ upsets = 0 /\ away = {}

Upset == upsets < MaxUpsets /\ upsets' = upsets + 1

\* The other side replies, or changes the ticket.
OtherSideWrites ==
    /\ Upset
    /\ \E t \in Tickets : tickets' = [tickets EXCEPT ![t].version = @ + 1]
    /\ UNCHANGED <<receipts, ticket, thread, draft, key, busy, first, loads, sends,
                   clicks, reads, away>>
\* support_access: a support agent sees only the tickets assigned to him.
Reassign ==
    /\ Upset
    /\ \E t \in Tickets \ away :
          away' = away \cup {t} /\ tickets' = [tickets EXCEPT ![t].version = @ + 1]
    /\ UNCHANGED <<receipts, ticket, thread, draft, key, busy, first, loads, sends,
                   clicks, reads>>

\* A load: the page of earlier messages or the latest, and whether it is still wanted
\* (epoch, selection and detailVersion).  ends: a save waits for it.
Load(t, older, ends) ==
    [id |-> t, older |-> older, ends |-> ends, wanted |-> TRUE, answer |-> NoAnswer]
Overtaken(set) == {[c EXCEPT !.wanted = FALSE] : c \in set}
Dropped(set) == {[c EXCEPT !.wanted = FALSE, !.ends = FALSE] : c \in set}
loadTicket(t, older, ends) ==
    /\ reads < MaxLoads /\ reads' = reads + 1
    /\ loads' = Overtaken(loads) \cup {Load(t, older, ends)}

\* A row of the list, which may be of any age, is opened.  The former conversation
\* stays on screen until the new one is read.
select ==
    /\ \E t \in Tickets, v \in 0..MaxUpsets + MaxSends :
          /\ v <= tickets[t].version
          /\ ticket' = [id |-> t, version |-> v]
          /\ reads < MaxLoads /\ reads' = reads + 1
          /\ loads' = Dropped(loads) \cup {Load(t, FALSE, FALSE)}
    /\ key' = NoKey /\ busy' = FALSE /\ draft' = Blank /\ first' = 0
    /\ sends' = Overtaken(sends)
    /\ UNCHANGED <<tickets, receipts, thread, clicks, upsets, away>>

\* "Refresh conversation" and "Load older messages".
Reload ==
    /\ ticket # NoTicket /\ ~busy
    /\ \E older \in BOOLEAN : (older => thread # None) /\ loadTicket(ticket.id, older, FALSE)
    /\ UNCHANGED <<tickets, receipts, ticket, thread, draft, key, busy, first, sends,
                   clicks, upsets, away>>

ServerReads ==
    \E c \in loads :
        /\ ~c.answer.done
        /\ loads' = (loads \ {c}) \cup {[c EXCEPT !.answer =
                        [done |-> TRUE, found |-> c.id \notin away,
                         version |-> tickets[c.id].version]]}
        /\ UNCHANGED <<tickets, receipts, ticket, thread, draft, key, busy, first, sends,
                       clicks, reads, upsets, away>>

\* The answer renews the version known; a page of older messages leaves the newest
\* messages on screen as they were.
TicketRead ==
    \E c \in loads :
        /\ c.answer.done /\ c.answer.found
        /\ loads' = loads \ {c}
        /\ IF c.wanted /\ ticket # NoTicket
           THEN /\ ticket' = [id |-> c.id, version |-> c.answer.version] /\ first' = 0
                /\ thread' = IF c.older THEN thread ELSE c.id
           ELSE UNCHANGED <<ticket, thread, first>>
        /\ busy' = (busy /\ ~c.ends)
        /\ UNCHANGED <<tickets, receipts, draft, key, sends, clicks, reads, upsets, away>>

\* No answer, or a refusal nobody waits for: the draft and the conversation stay.
Refused(c) == c.answer.done /\ ~c.answer.found
LoadFails ==
    \E c \in loads :
        /\ IF Refused(c) /\ ~c.wanted THEN UNCHANGED upsets ELSE Upset
        /\ loads' = loads \ {c}
        /\ busy' = (busy /\ ~c.ends)
        /\ UNCHANGED <<tickets, receipts, ticket, thread, draft, key, first, sends,
                       clicks, reads, away>>

\* The author writes; the field is disabled while a change is saved.
Edit ==
    /\ ticket # NoTicket /\ ~busy
    /\ \E text \in Texts \ {draft} : draft' = text
    /\ first' = 0
    /\ UNCHANGED <<tickets, receipts, ticket, thread, key, busy, loads, sends,
                   clicks, reads, upsets, away>>

\* Send.  The request id is kept while nothing of the request changes.
Fingerprint == <<ticket.id, ticket.version, draft>>
mutate ==
    /\ ticket # NoTicket /\ ~busy /\ draft # Blank
    /\ clicks < MaxSends /\ clicks' = clicks + 1
    /\ key' = IF key.fingerprint = Fingerprint THEN key
              ELSE [fingerprint |-> Fingerprint, id |-> clicks']
    /\ first' = IF first = 0 THEN clicks' ELSE first
    /\ busy' = TRUE
    /\ sends' = sends \cup {[click |-> clicks', id |-> ticket.id, version |-> ticket.version,
                             text |-> draft, request |-> key'.id, first |-> first',
                             wanted |-> TRUE, answer |-> None]}
    /\ UNCHANGED <<tickets, receipts, ticket, thread, draft, loads,
                   reads, upsets, away>>

\* mutate_support: a ticket out of sight is not found; a request answered before is
\* answered alike; a ticket changed since the version known refuses.
Receipt(c) == [request |-> c.request, text |-> c.text]
ServerSaves ==
    \E c \in sends :
        /\ c.answer = None
        /\ IF c.id \in away
           THEN /\ sends' = (sends \ {c}) \cup {[c EXCEPT !.answer = "not_found"]}
                /\ UNCHANGED <<tickets, receipts>>
           ELSE IF Receipt(c) \in receipts
           THEN /\ sends' = (sends \ {c}) \cup {[c EXCEPT !.answer = "saved"]}
                /\ UNCHANGED <<tickets, receipts>>
           ELSE IF tickets[c.id].version # c.version
           THEN /\ sends' = (sends \ {c}) \cup {[c EXCEPT !.answer = "conflict"]}
                /\ UNCHANGED <<tickets, receipts>>
           ELSE /\ tickets' = [tickets EXCEPT ![c.id].version = @ + 1,
                        ![c.id].replies = Append(@, [text |-> c.text, first |-> c.first])]
                /\ receipts' = receipts \cup {Receipt(c)}
                /\ sends' = (sends \ {c}) \cup {[c EXCEPT !.answer = "saved"]}
        /\ UNCHANGED <<ticket, thread, draft, key, busy, first, loads,
                       clicks, reads, upsets, away>>

\* A plausible error: whatever the field holds is cleared.
ClearsField(c) == Blank
\* Only the text that was saved is cleared.
AfterSaving(c) == IF draft = c.text THEN Blank ELSE draft
Saved ==
    \E c \in sends :
        /\ c.answer = "saved"
        /\ sends' = sends \ {c}
        /\ IF c.wanted
           THEN /\ draft' = AfterSaving(c) /\ key' = NoKey /\ busy' = FALSE
                /\ loadTicket(c.id, FALSE, TRUE)
           ELSE UNCHANGED <<draft, key, busy, loads, reads>>
        /\ UNCHANGED <<tickets, receipts, ticket, thread, first, clicks, upsets, away>>

\* A conflict, or no answer: "Your draft is preserved. Please retry."
NotSaved ==
    \E c \in sends :
        /\ IF c.answer = "conflict" \/ (c.answer = "not_found" /\ ~c.wanted)
           THEN UNCHANGED upsets ELSE Upset
        /\ sends' = sends \ {c}
        /\ busy' = (busy /\ ~c.wanted)
        /\ UNCHANGED <<tickets, receipts, ticket, thread, draft, key, first, loads,
                       clicks, reads, away>>

\* error("not_found") of a load, of a save, or of the read mark and the activity read with
\* the conversation: the ticket is dropped and its thread hidden, the reply and the note
\* are erased, and no answer of before is wanted any more.
NotFound ==
    /\ \/ \E c \in loads :
             Refused(c) /\ c.wanted /\ loads' = Dropped(loads \ {c}) /\ sends' = Overtaken(sends)
       \/ \E c \in sends :
             /\ c.answer = "not_found" /\ c.wanted
             /\ loads' = Dropped(loads) /\ sends' = Overtaken(sends \ {c})
       \/ /\ thread # None /\ ticket.id \in away
          /\ loads' = Dropped(loads) /\ sends' = Overtaken(sends)
    /\ ticket' = NoTicket /\ draft' = Blank /\ first' = 0
    /\ UNCHANGED <<tickets, receipts, thread, key, busy, clicks, reads, upsets, away>>

\* The session ends or is another's: everything of the page is dropped.
clear ==
    /\ ticket # NoTicket
    /\ ticket' = NoTicket /\ thread' = None /\ draft' = Blank /\ key' = NoKey /\ busy' = FALSE
    /\ first' = 0
    /\ loads' = Dropped(loads) /\ sends' = Overtaken(sends)
    /\ UNCHANGED <<tickets, receipts, clicks, reads, upsets, away>>

Next == \/ OtherSideWrites \/ Reassign \/ select \/ Reload \/ ServerReads \/ TicketRead \/ LoadFails
        \/ Edit \/ mutate \/ ServerSaves \/ Saved \/ NotSaved \/ NotFound \/ clear
Spec == Init /\ [][Next]_deskVars

-----------------------------------------------------------------------------
TypeOK ==
    /\ ticket.id \in Tickets \cup {None} /\ thread \in Tickets \cup {None}
    /\ draft \in Texts \cup {Blank} /\ busy \in BOOLEAN
    /\ \A c \in sends : c.answer \in {None, "saved", "conflict", "not_found"}

Posted(text) == \E t \in Tickets : \E m \in ToSet(tickets[t].replies) : m.text = text

\* What the proofs need: what is answered as saved is posted; and what one draft sends is
\* for one version of its ticket, which is over as soon as it is posted.
Replies(t) == {tickets[t].replies[i] : i \in DOMAIN tickets[t].replies}
DeskTyped ==
    /\ tickets \in [Tickets -> [version : Nat, replies : Seq([text : Texts, first : Nat])]]
    /\ ticket = NoTicket \/ ticket.id \in Tickets
    /\ draft \in Texts \cup {Blank} /\ {first, clicks, ticket.version} \subseteq Nat
    /\ \A c \in loads :
          /\ c = [id |-> c.id, older |-> c.older, ends |-> c.ends, wanted |-> c.wanted, answer |-> c.answer]
          /\ c.id \in Tickets /\ c.answer.version \in Nat
    /\ \A c \in sends :
          /\ c = [click |-> c.click, id |-> c.id, version |-> c.version, text |-> c.text,
                  request |-> c.request, first |-> c.first, wanted |-> c.wanted, answer |-> c.answer]
          /\ c.id \in Tickets /\ c.text \in Texts /\ {c.version, c.first} \subseteq Nat
SavedIsPosted ==
    /\ \A c \in sends : c.answer = "saved" => Posted(c.text)
    /\ \A r \in receipts : Posted(r.text)
OneVersionEach ==
    /\ first <= clicks /\ \A c \in sends : c.first \in 1 .. clicks
    /\ \A t \in Tickets : \A m \in Replies(t) :
          /\ m.first \in 1 .. clicks
          /\ \A c \in sends : c.first = m.first => tickets[c.id].version > c.version
          /\ m.first = first => tickets[ticket.id].version > ticket.version
    /\ \A c, d \in sends : c.first = d.first => c.id = d.id /\ c.version = d.version
    /\ first # 0 => ticket # NoTicket
                    /\ \A c \in sends : c.first = first => c.id = ticket.id /\ c.version = ticket.version
\* An answer that is waited for is about the conversation selected; a refusal is about a
\* ticket taken away.
RefusedWhenAway ==
    /\ \A c \in loads : (c.wanted => c.id = ticket.id) /\ (Refused(c) => c.id \in away)
    /\ \A c \in sends :
          (c.wanted => c.id = ticket.id) /\ (c.answer = "not_found" => c.id \in away)

\* What the author wrote is given up only when it was saved, when another conversation is
\* opened, when the session ends, or when the ticket was taken away from its author: not
\* when a request times out or conflicts, and not by the confirmation of an earlier reply.
\* (ADMIN_DASHBOARD_FOUNDATION.md:390-391 would keep it for a ticket taken away, too.)
KeepsDraft ==
    draft # Blank /\ draft' = Blank =>
        Posted(draft) \/ select \/ clear \/ (ticket.id \in away /\ ticket' = NoTicket)

\* A reply that is sent again after its answer was lost is posted once, as long as the
\* conversation was not read again in between: reading it, a page of older messages too,
\* renews the version known, so that the next click is another request.
RetryPostsOnce ==
    \A t \in Tickets : \A i, j \in DOMAIN tickets[t].replies :
        i # j => tickets[t].replies[i].first # tickets[t].replies[j].first
=============================================================================
