-------------------------- MODULE MessagePageProofs -------------------------
(***************************************************************************)
(* Proofs about the programs of MessagePages, for any constants: support,  *)
(* the contact page, the notification sheet, and the forms and cards of    *)
(* the staff console.                                                      *)
(***************************************************************************)
EXTENDS MessagePages, FiniteSetTheorems, SequenceTheorems, TLAPS

-----------------------------------------------------------------------------
(* The support conversation: v1 is tickets, v2 receipts, v3 ticket,        *)
(* v5 draft, v8 first, v9 loads, v10 sends, v11 clicks                     *)

DeskInv == S!DeskTyped /\ S!SavedIsPosted /\ S!OneVersionEach /\ S!RetryPostsOnce

\* What a load and a message under way are, and what stays the same of one set aside or
\* answered.
IsLoad(c) == /\ c = [id |-> c.id, older |-> c.older, ends |-> c.ends, wanted |-> c.wanted, answer |-> c.answer]
             /\ c.id \in Desk.Tickets /\ c.answer.version \in Nat
IsSend(c) == /\ c = [click |-> c.click, id |-> c.id, version |-> c.version, text |-> c.text,
                     request |-> c.request, first |-> c.first, wanted |-> c.wanted, answer |-> c.answer]
             /\ c.id \in Desk.Tickets /\ c.text \in Desk.Texts /\ c.version \in Nat /\ c.first \in Nat
Alike(d, c) == d.first = c.first /\ d.id = c.id /\ d.version = c.version /\ d.text = c.text

LEMMA LoadsSetAside ==
    ASSUME NEW set, \A c \in set : IsLoad(c)
    PROVE  (\A d \in S!Overtaken(set) : IsLoad(d)) /\ (\A d \in S!Dropped(set) : IsLoad(d))
<1>1. ASSUME NEW c \in set, NEW d, d = [c EXCEPT !.wanted = FALSE] \/ d = [c EXCEPT !.wanted = FALSE, !.ends = FALSE]
      PROVE  IsLoad(d)
  <2>1. c = [id |-> c.id, older |-> c.older, ends |-> c.ends, wanted |-> c.wanted, answer |-> c.answer]
    BY DEF IsLoad
  <2>2. d = [id |-> d.id, older |-> d.older, ends |-> d.ends, wanted |-> d.wanted, answer |-> d.answer]
        /\ d.id = c.id /\ d.answer = c.answer
    BY <1>1, <2>1
  <2> QED BY <2>2 DEF IsLoad
<1> QED BY <1>1 DEF S!Overtaken, S!Dropped

LEMMA LoadBegins == ASSUME NEW t \in Desk.Tickets, NEW older, NEW ends PROVE IsLoad(S!Load(t, older, ends))
  BY DEF IsLoad, S!Load, S!NoAnswer

LEMMA SendsSetAside ==
    ASSUME NEW set, \A c \in set : IsSend(c)
    PROVE  \A d \in S!Overtaken(set) : IsSend(d) /\ \E c \in set : Alike(d, c) /\ d.answer = c.answer
<1>1. ASSUME NEW c \in set, NEW d, d = [c EXCEPT !.wanted = FALSE] PROVE IsSend(d) /\ Alike(d, c) /\ d.answer = c.answer
  <2>1. c = [click |-> c.click, id |-> c.id, version |-> c.version, text |-> c.text,
             request |-> c.request, first |-> c.first, wanted |-> c.wanted, answer |-> c.answer]
    BY DEF IsSend
  <2>2. d = [click |-> d.click, id |-> d.id, version |-> d.version, text |-> d.text,
             request |-> d.request, first |-> d.first, wanted |-> d.wanted, answer |-> d.answer]
        /\ Alike(d, c) /\ d.answer = c.answer
    BY <1>1, <2>1 DEF Alike
  <2> QED BY <2>2 DEF IsSend, Alike
<1> QED BY <1>1 DEF S!Overtaken

LEMMA SendAnswered ==
    ASSUME NEW c, IsSend(c), NEW answer, NEW d, d = [c EXCEPT !.answer = answer]
    PROVE  IsSend(d) /\ Alike(d, c) /\ d.answer = answer
<1>1. c = [click |-> c.click, id |-> c.id, version |-> c.version, text |-> c.text,
           request |-> c.request, first |-> c.first, wanted |-> c.wanted, answer |-> c.answer]
  BY DEF IsSend
<1>2. d = [click |-> d.click, id |-> d.id, version |-> d.version, text |-> d.text,
           request |-> d.request, first |-> d.first, wanted |-> d.wanted, answer |-> d.answer]
      /\ Alike(d, c) /\ d.answer = answer
  BY <1>1 DEF Alike
<1> QED BY <1>2 DEF IsSend, Alike

\* The types, by parts.
TicketsTyped == v1 \in [Desk.Tickets -> [version : Nat, replies : Seq([text : Desk.Texts, first : Nat])]]
AuthorTyped == /\ v3 = S!NoTicket \/ v3.id \in Desk.Tickets
               /\ v5 \in Desk.Texts \cup {S!Blank} /\ v8 \in Nat /\ v11 \in Nat /\ v3.version \in Nat
LEMMA DeskParts ==
    S!DeskTyped <=> TicketsTyped /\ AuthorTyped /\ (\A c \in v9 : IsLoad(c)) /\ (\A c \in v10 : IsSend(c))
  BY DEF S!DeskTyped, TicketsTyped, AuthorTyped, IsLoad, IsSend
LEMMA DeskPartsNext ==
    S!DeskTyped' <=> TicketsTyped' /\ AuthorTyped' /\ (\A c \in v9' : IsLoad(c)) /\ (\A c \in v10' : IsSend(c))
  BY DEF S!DeskTyped, TicketsTyped, AuthorTyped, IsLoad, IsSend

LEMMA DeskInit == S!Init => DeskInv
<1> SUFFICES ASSUME S!Init PROVE DeskInv
  OBVIOUS
<1>1. /\ v1 = [t \in Desk.Tickets |-> [version |-> 0, replies |-> <<>>]] /\ v2 = {} /\ v3 = S!NoTicket
      /\ v5 = S!Blank /\ v8 = 0 /\ v9 = {} /\ v10 = {} /\ v11 = 0
  BY DEF S!Init
<1>2. [version |-> 0, replies |-> <<>>] \in [version : Nat, replies : Seq([text : Desk.Texts, first : Nat])]
  OBVIOUS
<1>3. TicketsTyped
  BY <1>1, <1>2 DEF TicketsTyped
<1>4. S!DeskTyped
  BY <1>1, <1>3, DeskParts DEF AuthorTyped, S!NoTicket
<1>5. \A t \in Desk.Tickets : v1[t].replies = <<>>
  BY <1>1
<1>6. S!SavedIsPosted
  BY <1>1 DEF S!SavedIsPosted
<1>7. \A t \in Desk.Tickets : S!Replies(t) = {}
  BY <1>5 DEF S!Replies
<1>8. S!OneVersionEach
  BY <1>1, <1>7 DEF S!OneVersionEach
<1>9. S!RetryPostsOnce
  BY <1>5 DEF S!RetryPostsOnce
<1> QED BY <1>4, <1>6, <1>8, <1>9 DEF DeskInv

\* Nothing is posted, and every message under way is one of before.
LEMMA DeskStays ==
    ASSUME DeskInv, UNCHANGED <<v1, v2, v11>>, AuthorTyped', \A c \in v9' : IsLoad(c), \A d \in v10' : IsSend(d),
           \A d \in v10' : \E c \in v10 : Alike(d, c) /\ (d.answer = "saved" => c.answer = "saved" \/ S!Posted(c.text)),
           v8' = 0 \/ (v8' = v8 /\ v3' = v3)
    PROVE  DeskInv'
<1>1. S!DeskTyped'
  BY DeskParts, DeskPartsNext DEF DeskInv, TicketsTyped
<1>2. S!SavedIsPosted'
  <2>1. \A text : S!Posted(text)' <=> S!Posted(text)
    BY DEF S!Posted
  <2>2. ASSUME NEW d \in v10', d.answer = "saved" PROVE S!Posted(d.text)
    <3>1. PICK c \in v10 : d.text = c.text /\ (c.answer = "saved" \/ S!Posted(c.text))
      BY <2>2 DEF Alike
    <3> QED BY <3>1 DEF DeskInv, S!SavedIsPosted
  <2> QED BY <2>2 DEF DeskInv, S!SavedIsPosted, S!Posted
<1>3. S!OneVersionEach'
  <2>1. \A t : S!Replies(t)' = S!Replies(t)
    BY DEF S!Replies
  <2>2. \A d \in v10' : \E c \in v10 : d.first = c.first /\ d.id = c.id /\ d.version = c.version
    BY DEF Alike
  <2>3. v8 \in Nat /\ v11 \in Nat
    BY DeskParts DEF DeskInv, AuthorTyped
  <2>4. (v8' \in Nat /\ v8' <= v11') /\ \A d \in v10' : d.first \in 1 .. v11'
    BY <2>2, <2>3 DEF DeskInv, S!OneVersionEach
  <2>5. \A t \in Desk.Tickets : \A m \in S!Replies(t) :
          /\ m.first \in 1 .. v11'
          /\ \A d \in v10' : d.first = m.first => v1[d.id].version > d.version
          /\ m.first = v8' => v1[v3'.id].version > v3'.version
    BY <2>2, <2>3 DEF DeskInv, S!OneVersionEach
  <2>6. \A c, d \in v10' : c.first = d.first => c.id = d.id /\ c.version = d.version
    BY <2>2 DEF DeskInv, S!OneVersionEach
  <2>7. v8' # 0 => v3' # S!NoTicket /\ \A d \in v10' : d.first = v8' => d.id = v3'.id /\ d.version = v3'.version
    BY <2>2 DEF DeskInv, S!OneVersionEach
  <2> QED BY <2>4, <2>5, <2>6, <2>7 DEF S!OneVersionEach, S!Replies
<1>4. S!RetryPostsOnce'
  BY DEF DeskInv, S!RetryPostsOnce
<1> QED BY <1>1, <1>2, <1>3, <1>4 DEF DeskInv

\* One ticket becomes another record.
IsTicket(r) == r \in [version : Nat, replies : Seq([text : Desk.Texts, first : Nat])]
LEMMA TicketBecomes ==
    ASSUME TicketsTyped, NEW t \in Desk.Tickets, NEW r, IsTicket(r), v1' = [v1 EXCEPT ![t] = r]
    PROVE  TicketsTyped' /\ v1'[t] = r /\ \A u \in Desk.Tickets : u # t => v1'[u] = v1[u]
  BY DEF TicketsTyped, IsTicket
LEMMA TicketIs ==
    ASSUME TicketsTyped, NEW t \in Desk.Tickets
    PROVE  /\ v1[t] = [version |-> v1[t].version, replies |-> v1[t].replies]
           /\ v1[t].version \in Nat /\ v1[t].replies \in Seq([text : Desk.Texts, first : Nat])
  BY DEF TicketsTyped

\* The other side only makes tickets newer.
LEMMA DeskUpset ==
    ASSUME DeskInv, NEW t \in Desk.Tickets, v1' = [v1 EXCEPT ![t].version = @ + 1],
           UNCHANGED <<v2, v3, v5, v8, v9, v10, v11>>
    PROVE  DeskInv'
<1>1. /\ TicketsTyped /\ AuthorTyped /\ (\A c \in v9 : IsLoad(c)) /\ (\A c \in v10 : IsSend(c))
  BY DeskParts DEF DeskInv
<1> DEFINE r == [version |-> v1[t].version + 1, replies |-> v1[t].replies]
<1>a. /\ v1[t] = [version |-> v1[t].version, replies |-> v1[t].replies]
      /\ v1[t].version \in Nat /\ v1[t].replies \in Seq([text : Desk.Texts, first : Nat])
  BY <1>1, TicketIs, Zenon
<1>e. IsTicket(r)
  BY <1>a DEF IsTicket
<1>b. v1' = [v1 EXCEPT ![t] = r]
  <2>1. [v1[t] EXCEPT !.version = @ + 1] = r
    BY <1>a
  <2> QED BY <2>1, Zenon
<1>c. r.version = v1[t].version + 1 /\ r.replies = v1[t].replies
  OBVIOUS
<1> HIDE DEF r
<1>d. TicketsTyped' /\ v1'[t] = r /\ \A u \in Desk.Tickets : u # t => v1'[u] = v1[u]
  BY <1>1, <1>b, <1>e, TicketBecomes
<1>2. \A u \in Desk.Tickets : v1'[u].version \in Nat /\ v1[u].version \in Nat
                              /\ v1'[u].version >= v1[u].version /\ v1'[u].replies = v1[u].replies
  <2> TAKE u \in Desk.Tickets
  <2>1. CASE u = t
    <3>1. v1[t].version \in Nat /\ v1'[t].version = v1[t].version + 1 /\ v1'[t].replies = v1[t].replies
      BY <1>a, <1>c, <1>d, Zenon
    <3> DEFINE w == v1'[t].version
               v == v1[t].version
    <3>2. w \in Nat /\ w >= v
      <4>1. v \in Nat /\ w = v + 1
        BY <3>1
      <4> HIDE DEF w, v
      <4> QED BY <4>1
    <3> QED BY <2>1, <3>1, <3>2, Zenon
  <2>2. CASE u # t
    <3>1. v1'[u] = v1[u] /\ v1[u].version \in Nat
      BY <1>1, <1>d, <2>2, TicketIs, Zenon
    <3> DEFINE v == v1[u].version
    <3>2. v >= v
      <4>1. v \in Nat
        BY <3>1
      <4> HIDE DEF v
      <4> QED BY <4>1
    <3> QED BY <3>1, <3>2, Zenon
  <2> QED BY <2>1, <2>2
<1>3. S!DeskTyped'
  BY <1>1, <1>d, DeskPartsNext DEF AuthorTyped
<1>4. \A u \in Desk.Tickets : S!Replies(u)' = S!Replies(u)
  BY <1>2 DEF S!Replies
<1>5. S!SavedIsPosted'
  BY <1>2 DEF DeskInv, S!SavedIsPosted, S!Posted
<1>6. S!OneVersionEach'
  <2>1. \A u \in Desk.Tickets : \A m \in S!Replies(u) :
          /\ m.first \in 1 .. v11
          /\ \A c \in v10 : c.first = m.first => v1'[c.id].version > c.version
          /\ m.first = v8 => v1'[v3.id].version > v3.version
    <3> SUFFICES ASSUME NEW u \in Desk.Tickets, NEW m \in S!Replies(u)
                 PROVE  /\ m.first \in 1 .. v11
                        /\ \A c \in v10 : c.first = m.first => v1'[c.id].version > c.version
                        /\ m.first = v8 => v1'[v3.id].version > v3.version
      OBVIOUS
    <3>1. /\ m.first \in 1 .. v11
          /\ \A c \in v10 : c.first = m.first => v1[c.id].version > c.version
          /\ m.first = v8 => v1[v3.id].version > v3.version /\ v3 # S!NoTicket
      BY DEF DeskInv, S!OneVersionEach
    <3>2. \A c \in v10 : c.id \in Desk.Tickets /\ c.version \in Nat
      BY <1>1 DEF IsSend
    <3>3. m.first = v8 => v3.id \in Desk.Tickets /\ v3.version \in Nat
      BY <1>1, <3>1 DEF AuthorTyped
    <3> QED BY <1>2, <3>1, <3>2, <3>3
  <2> QED BY <1>4, <2>1 DEF DeskInv, S!OneVersionEach
<1>7. S!RetryPostsOnce'
  BY <1>2 DEF DeskInv, S!RetryPostsOnce
<1> QED BY <1>3, <1>5, <1>6, <1>7 DEF DeskInv

\* Send: of the draft being written, for the version known.
LEMMA DeskSends ==
    ASSUME DeskInv, v3 # S!NoTicket, v5 # S!Blank, v11' = v11 + 1, v8' = (IF v8 = 0 THEN v11' ELSE v8),
           UNCHANGED <<v1, v2, v3, v5, v9>>, NEW c,
           c = [click |-> v11', id |-> v3.id, version |-> v3.version, text |-> v5,
                request |-> v6'.id, first |-> v8', wanted |-> TRUE, answer |-> S!None],
           v10' = v10 \cup {c}
    PROVE  DeskInv'
<1>1. /\ TicketsTyped /\ AuthorTyped /\ (\A d \in v9 : IsLoad(d)) /\ (\A d \in v10 : IsSend(d))
  BY DeskParts DEF DeskInv
<1>2. v8 \in Nat /\ v11 \in Nat /\ v3.id \in Desk.Tickets /\ v3.version \in Nat /\ v5 \in Desk.Texts
  BY <1>1 DEF AuthorTyped
<1>3. c.first = v8' /\ c.id = v3.id /\ c.version = v3.version /\ c.text = v5 /\ c.answer = S!None /\ IsSend(c)
  BY <1>2 DEF IsSend
<1>4. S!DeskTyped'
  <2>1. TicketsTyped'
    BY <1>1 DEF TicketsTyped
  <2>2. v8' \in Nat /\ v11' \in Nat
    BY <1>2
  <2>3. AuthorTyped'
    BY <1>1, <2>2 DEF AuthorTyped
  <2>4. (\A d \in v9' : IsLoad(d)) /\ (\A d \in v10' : IsSend(d))
    BY <1>1, <1>3
  <2> QED BY <2>1, <2>3, <2>4, DeskPartsNext
<1>5. S!SavedIsPosted'
  BY <1>3 DEF DeskInv, S!SavedIsPosted, S!Posted, S!None
<1>6. S!OneVersionEach'
  <2>1. /\ v8 <= v11 /\ \A d \in v10 : d.first \in 1 .. v11
        /\ \A d, e \in v10 : d.first = e.first => d.id = e.id /\ d.version = e.version
        /\ v8 # 0 => \A d \in v10 : d.first = v8 => d.id = v3.id /\ d.version = v3.version
    BY DEF DeskInv, S!OneVersionEach
  <2>2. v8' \in 1 .. v11'
    BY <1>2, <2>1
  <2>3. \A d \in v10 : d.first = v8' => d.id = v3.id /\ d.version = v3.version
    BY <1>2, <2>1
  <2>4. \A d, e \in v10' : d.first = e.first => d.id = e.id /\ d.version = e.version
    BY <1>3, <2>1, <2>3
  <2>5. \A u \in Desk.Tickets : \A m \in S!Replies(u) :
          /\ m.first \in 1 .. v11'
          /\ \A d \in v10' : d.first = m.first => v1[d.id].version > d.version
          /\ m.first = v8' => v1[v3.id].version > v3.version
    <3> SUFFICES ASSUME NEW u \in Desk.Tickets, NEW m \in S!Replies(u)
                 PROVE  /\ m.first \in 1 .. v11'
                        /\ \A d \in v10' : d.first = m.first => v1[d.id].version > d.version
                        /\ m.first = v8' => v1[v3.id].version > v3.version
      OBVIOUS
    <3>1. /\ m.first \in 1 .. v11
          /\ \A d \in v10 : d.first = m.first => v1[d.id].version > d.version
          /\ m.first = v8 => v1[v3.id].version > v3.version
      BY DEF DeskInv, S!OneVersionEach
    <3> QED BY <1>2, <1>3, <3>1
  <2>6. \A d \in v10' : d.first \in 1 .. v11' /\ (d.first = v8' => d.id = v3.id /\ d.version = v3.version)
    BY <1>2, <1>3, <2>1, <2>2, <2>3
  <2>7. \A u : S!Replies(u)' = S!Replies(u)
    BY DEF S!Replies
  <2> QED BY <2>2, <2>4, <2>5, <2>6, <2>7 DEF S!OneVersionEach
<1>7. S!RetryPostsOnce'
  BY DEF DeskInv, S!RetryPostsOnce
<1> QED BY <1>4, <1>5, <1>6, <1>7 DEF DeskInv

\* Posted: the version it was for is over, and nothing of the same draft was posted.
LEMMA DeskPosts ==
    ASSUME DeskInv, NEW c \in v10, v1[c.id].version = c.version, UNCHANGED <<v3, v5, v8, v9, v11>>,
           v1' = [v1 EXCEPT ![c.id].version = @ + 1, ![c.id].replies = Append(@, [text |-> c.text, first |-> c.first])],
           v2' = v2 \cup {S!Receipt(c)}, v10' = (v10 \ {c}) \cup {[c EXCEPT !.answer = "saved"]}
    PROVE  DeskInv'
<1> DEFINE m == [text |-> c.text, first |-> c.first]
           d == [c EXCEPT !.answer = "saved"]
<1>1. /\ TicketsTyped /\ AuthorTyped /\ (\A e \in v9 : IsLoad(e)) /\ (\A e \in v10 : IsSend(e))
  BY DeskParts DEF DeskInv
<1>2. IsSend(d) /\ Alike(d, c) /\ d.answer = "saved"
  BY <1>1, SendAnswered
<1>3. m \in [text : Desk.Texts, first : Nat] /\ m.first = c.first /\ m.text = c.text
  BY <1>1 DEF IsSend
<1> HIDE DEF m, d
<1>4. c.id \in Desk.Tickets /\ c.version \in Nat /\ v1[c.id].replies \in Seq([text : Desk.Texts, first : Nat])
  BY <1>1 DEF IsSend, TicketsTyped
<1> DEFINE r == [version |-> c.version + 1, replies |-> Append(v1[c.id].replies, m)]
<1>a. v1[c.id] = [version |-> c.version, replies |-> v1[c.id].replies] /\ IsTicket(r)
  BY <1>1, <1>3, <1>4, TicketIs DEF IsTicket
<1>b. v1' = [v1 EXCEPT ![c.id] = r]
  <2> DEFINE q == v1[c.id]
  <2>1. [q EXCEPT !.version = @ + 1, !.replies = Append(@, m)] = [version |-> c.version + 1, replies |-> Append(q.replies, m)]
    <3>1. q = [version |-> c.version, replies |-> q.replies]
      BY <1>a
    <3> HIDE DEF q
    <3>2. PICK a, b : q = [version |-> a, replies |-> b] /\ a = c.version
      BY <3>1
    <3>3. PICK e : e = [q EXCEPT !.version = @ + 1, !.replies = Append(@, m)]
      OBVIOUS
    <3>4. e = [version |-> e.version, replies |-> e.replies]
      BY <3>2, <3>3
    <3>5. e.version = c.version + 1 /\ e.replies = Append(q.replies, m)
      BY <3>2, <3>3
    <3> QED BY <3>3, <3>4, <3>5
  <2> QED BY <2>1, Zenon DEF m
<1>c. r.version = c.version + 1 /\ r.replies = Append(v1[c.id].replies, m)
  OBVIOUS
<1> HIDE DEF r
<1>5. /\ TicketsTyped' /\ v1'[c.id].version = c.version + 1 /\ v1'[c.id].replies = Append(v1[c.id].replies, m)
      /\ \A u \in Desk.Tickets : u # c.id => v1'[u] = v1[u]
  BY <1>1, <1>4, <1>a, <1>b, <1>c, TicketBecomes
<1>6. \A u \in Desk.Tickets : v1'[u].version \in Nat /\ v1[u].version \in Nat /\ v1'[u].version >= v1[u].version
  <2> TAKE u \in Desk.Tickets
  <2> DEFINE v == v1[u].version
             w == v1'[u].version
  <2>1. v \in Nat /\ (w = v + 1 \/ w = v)
    <3>1. v \in Nat
      BY <1>1, TicketIs, Zenon
    <3>2. CASE u = c.id
      BY <1>5, <3>1, <3>2, Zenon
    <3>3. CASE u # c.id
      BY <1>5, <3>1, <3>3, Zenon
    <3> QED BY <3>2, <3>3
  <2> HIDE DEF v, w
  <2>2. w \in Nat /\ v \in Nat /\ w >= v
    BY <2>1
  <2> QED BY <2>2 DEF v, w
<1>7. S!DeskTyped'
  BY <1>1, <1>2, <1>5, DeskPartsNext DEF AuthorTyped, d
<1> DEFINE old == v1[c.id].replies
           new == v1'[c.id].replies
<1>8. /\ new[Len(old) + 1] = m /\ (\A i \in 1 .. Len(old) : new[i] = old[i])
      /\ DOMAIN old = 1 .. Len(old) /\ DOMAIN new = 1 .. Len(old) + 1 /\ Len(old) \in Nat
  <2>1. old \in Seq([text : Desk.Texts, first : Nat]) /\ new = Append(old, m)
    BY <1>4, <1>5
  <2> HIDE DEF old, new
  <2> QED BY <1>3, <2>1
<1>9. S!Replies(c.id)' = S!Replies(c.id) \cup {m} /\ \A u \in Desk.Tickets : u # c.id => S!Replies(u)' = S!Replies(u)
  <2>1. S!Replies(c.id) = {old[i] : i \in DOMAIN old} /\ S!Replies(c.id)' = {new[i] : i \in DOMAIN new}
    BY DEF S!Replies
  <2>2. {new[i] : i \in DOMAIN new} = {old[i] : i \in DOMAIN old} \cup {m}
    <3> HIDE DEF old, new
    <3> QED BY <1>8
  <2>3. \A u \in Desk.Tickets : u # c.id => S!Replies(u)' = S!Replies(u)
    BY <1>5 DEF S!Replies
  <2> HIDE DEF old, new
  <2> QED BY <2>1, <2>2, <2>3
<1>10. S!SavedIsPosted'
  <2>1. \A text : S!Posted(text) \/ text = c.text => S!Posted(text)'
    <3>1. \A text : S!Posted(text) <=> \E u \in Desk.Tickets : \E n \in S!Replies(u) : n.text = text
      BY DEF S!Posted, S!ToSet, S!Replies
    <3>2. \A text : S!Posted(text)' <=> \E u \in Desk.Tickets : \E n \in S!Replies(u)' : n.text = text
      BY DEF S!Posted, S!ToSet, S!Replies
    <3> QED BY <1>3, <1>4, <1>9, <3>1, <3>2
  <2>2. S!Receipt(c).text = c.text
    BY DEF S!Receipt
  <2>3. \A e \in v10' : e.answer = "saved" => S!Posted(e.text)'
    BY <1>2, <2>1 DEF DeskInv, S!SavedIsPosted, Alike, d
  <2>4. \A p \in v2' : S!Posted(p.text)'
    BY <2>1, <2>2 DEF DeskInv, S!SavedIsPosted
  <2> QED BY <2>3, <2>4 DEF S!SavedIsPosted
<1>11. S!OneVersionEach'
  <2>1. /\ v8 <= v11 /\ \A e \in v10' : \E f \in v10 : Alike(e, f)
        /\ \A e \in v10 : e.first \in 1 .. v11 /\ (e.first = c.first => e.id = c.id /\ e.version = c.version)
        /\ c.first \in 1 .. v11
        /\ \A e, f \in v10 : e.first = f.first => e.id = f.id /\ e.version = f.version
        /\ v8 # 0 => v3 # S!NoTicket /\ \A e \in v10 : e.first = v8 => e.id = v3.id /\ e.version = v3.version
    BY <1>2 DEF DeskInv, S!OneVersionEach, Alike, d
  <2>2. \A e \in v10 : e.id \in Desk.Tickets /\ e.version \in Nat
    BY <1>1 DEF IsSend
  <2>3. ASSUME NEW u \in Desk.Tickets, NEW n \in S!Replies(u)'
        PROVE  /\ n.first \in 1 .. v11
               /\ \A e \in v10 : e.first = n.first => v1'[e.id].version > e.version
               /\ n.first = v8 => v1'[v3.id].version > v3.version
    <3>1. CASE n \in S!Replies(u)
      <4>1. /\ n.first \in 1 .. v11
            /\ \A e \in v10 : e.first = n.first => v1[e.id].version > e.version
            /\ n.first = v8 => v1[v3.id].version > v3.version /\ v3 # S!NoTicket
        BY <3>1 DEF DeskInv, S!OneVersionEach
      <4>2. n.first = v8 => v3.id \in Desk.Tickets /\ v3.version \in Nat
        BY <1>1, <4>1 DEF AuthorTyped
      <4>3. ASSUME NEW e \in v10, e.first = n.first PROVE v1'[e.id].version > e.version
        <5> DEFINE v == v1[e.id].version
                   w == v1'[e.id].version
        <5>1. v \in Nat /\ w \in Nat /\ w >= v /\ e.version \in Nat
          BY <1>6, <2>2, Zenon
        <5>2. v > e.version
          BY <4>1, <4>3, Zenon
        <5> HIDE DEF v, w
        <5>3. w > e.version
          BY <5>1, <5>2
        <5> QED BY <5>3 DEF w
      <4>4. n.first = v8 => v1'[v3.id].version > v3.version
        <5> SUFFICES ASSUME n.first = v8 PROVE v1'[v3.id].version > v3.version
          OBVIOUS
        <5> DEFINE v == v1[v3.id].version
                   w == v1'[v3.id].version
        <5>1. v \in Nat /\ w \in Nat /\ w >= v /\ v3.version \in Nat /\ v > v3.version
          BY <1>6, <4>1, <4>2, Zenon
        <5> HIDE DEF v, w
        <5>2. w > v3.version
          BY <5>1
        <5> QED BY <5>2 DEF w
      <4> QED BY <4>1, <4>3, <4>4
    <3>2. CASE n = m
      <4>1. n.first = c.first /\ v1'[c.id].version > c.version
        BY <1>3, <1>4, <1>5, <3>2
      <4>2. ASSUME NEW e \in v10, e.first = n.first PROVE v1'[e.id].version > e.version
        BY <2>1, <4>1, <4>2
      <4>3. ASSUME n.first = v8 PROVE v1'[v3.id].version > v3.version
        <5>1. c.first = v8 /\ v8 # 0
          BY <2>1, <4>1, <4>3
        <5>2. c.id = v3.id /\ c.version = v3.version
          BY <2>1, <5>1
        <5> QED BY <4>1, <5>2
      <4> QED BY <2>1, <4>1, <4>2, <4>3
    <3> QED BY <1>9, <2>3, <3>1, <3>2
  <2>4. /\ \A e \in v10' : e.first \in 1 .. v11
        /\ \A e, f \in v10' : e.first = f.first => e.id = f.id /\ e.version = f.version
        /\ v8 # 0 => v3 # S!NoTicket /\ \A e \in v10' : e.first = v8 => e.id = v3.id /\ e.version = v3.version
    BY <2>1 DEF Alike
  <2>5. \A u \in Desk.Tickets : \A n \in S!Replies(u)' :
          /\ n.first \in 1 .. v11
          /\ \A e \in v10' : e.first = n.first => v1'[e.id].version > e.version
          /\ n.first = v8 => v1'[v3.id].version > v3.version
    <3>1. ASSUME NEW u \in Desk.Tickets, NEW n \in S!Replies(u)', NEW e \in v10', e.first = n.first
          PROVE  v1'[e.id].version > e.version
      <4>1. PICK f \in v10 : e.first = f.first /\ e.id = f.id /\ e.version = f.version
        BY <2>1 DEF Alike
      <4>2. \A g \in v10 : g.first = n.first => v1'[g.id].version > g.version
        BY <2>3
      <4>3. f.first = n.first
        BY <3>1, <4>1
      <4> QED BY <4>1, <4>2, <4>3, Zenon
    <3> QED BY <2>3, <3>1
  <2> QED BY <2>1, <2>4, <2>5 DEF S!OneVersionEach
<1>12. S!RetryPostsOnce'
  <2>1. \A i \in DOMAIN v1[c.id].replies : v1[c.id].replies[i].first # c.first
    <3> SUFFICES ASSUME NEW i \in DOMAIN v1[c.id].replies, v1[c.id].replies[i].first = c.first PROVE FALSE
      OBVIOUS
    <3>1. v1[c.id].replies[i] \in S!Replies(c.id)
      BY DEF S!Replies
    <3>2. v1[c.id].version > c.version
      BY <1>4, <3>1 DEF DeskInv, S!OneVersionEach
    <3> QED BY <1>4, <3>2
  <2>2. \A i, j \in DOMAIN new : i # j => new[i].first # new[j].first
    <3>1. \A k, l \in DOMAIN old : k # l => old[k].first # old[l].first
      BY <1>4 DEF DeskInv, S!RetryPostsOnce
    <3>2. \A i \in DOMAIN old : old[i].first # c.first
      BY <2>1
    <3> HIDE DEF old, new
    <3> QED BY <1>3, <1>8, <3>1, <3>2
  <2> DEFINE ok(b) == \A i, j \in DOMAIN b.replies : i # j => b.replies[i].first # b.replies[j].first
  <2>3. ok(v1'[c.id])
    BY <2>2
  <2>4. \A u \in Desk.Tickets : ok(v1[u])
    BY DEF DeskInv, S!RetryPostsOnce
  <2>5. S!RetryPostsOnce' <=> \A u \in Desk.Tickets : ok(v1'[u])
    BY DEF S!RetryPostsOnce
  <2> HIDE DEF ok
  <2>6. \A u \in Desk.Tickets : ok(v1'[u])
    BY <1>5, <2>3, <2>4
  <2> QED BY <2>5, <2>6
<1> QED BY <1>7, <1>10, <1>11, <1>12 DEF DeskInv

\* NotFound and clear set aside what is under way.
LEMMA SetAside ==
    S!NotFound \/ S!clear =>
        \E left \in SUBSET v9, sent \in SUBSET v10 : v9' = S!Dropped(left) /\ v10' = S!Overtaken(sent)
<1>1. \A c \in v9 : v9 \ {c} \in SUBSET v9
  OBVIOUS
<1>2. \A c \in v10 : v10 \ {c} \in SUBSET v10
  OBVIOUS
<1>3. v9 \in SUBSET v9 /\ v10 \in SUBSET v10
  OBVIOUS
<1> QED BY <1>1, <1>2, <1>3, Zenon DEF S!NotFound, S!clear

\* Every step is one of these, or leaves what was posted and what is under way.
LEMMA DeskNext == DeskInv /\ [S!Next]_S!deskVars => DeskInv'
<1> SUFFICES ASSUME DeskInv, [S!Next]_S!deskVars PROVE DeskInv'
  OBVIOUS
<1>1. /\ TicketsTyped /\ AuthorTyped /\ (\A c \in v9 : IsLoad(c)) /\ (\A c \in v10 : IsSend(c))
  BY DeskParts DEF DeskInv
<1> DEFINE Same == /\ UNCHANGED <<v1, v2, v11>> /\ AuthorTyped' /\ (\A c \in v9' : IsLoad(c)) /\ (\A d \in v10' : IsSend(d))
                   /\ \A d \in v10' : \E c \in v10 : Alike(d, c) /\ (d.answer = "saved" => c.answer = "saved" \/ S!Posted(c.text))
                   /\ (v8' = 0 \/ (v8' = v8 /\ v3' = v3))
<1>2. Same => DeskInv'
  BY DeskStays
<1> HIDE DEF Same
<1>3. \A set : (\A c \in set : IsLoad(c)) => (\A d \in S!Overtaken(set) : IsLoad(d)) /\ (\A d \in S!Dropped(set) : IsLoad(d))
  BY LoadsSetAside
<1>4. \A t \in Desk.Tickets : \A older, ends : IsLoad(S!Load(t, older, ends))
  BY LoadBegins
<1>5. \A c : Alike(c, c)
  BY DEF Alike
<1>6. CASE S!OtherSideWrites \/ S!Reassign
  <2>1. PICK t \in Desk.Tickets : v1' = [v1 EXCEPT ![t].version = @ + 1]
    BY <1>6 DEF S!OtherSideWrites, S!Reassign
  <2>2. UNCHANGED <<v2, v3, v5, v8, v9, v10, v11>>
    BY <1>6 DEF S!OtherSideWrites, S!Reassign
  <2> QED BY <2>1, <2>2, DeskUpset
<1>7. CASE S!select
  <2>1. PICK t \in Desk.Tickets, v \in 0 .. Desk.MaxUpsets + Desk.MaxSends :
          v <= v1[t].version /\ v3' = [id |-> t, version |-> v] /\ v9' = S!Dropped(v9) \cup {S!Load(t, FALSE, FALSE)}
    BY <1>7 DEF S!select
  <2>2. v5' = S!Blank /\ v8' = 0 /\ v10' = S!Overtaken(v10) /\ UNCHANGED <<v1, v2, v11>>
    BY <1>7 DEF S!select
  <2>3. v \in Nat
    BY <2>1
  <2>4. AuthorTyped'
    BY <1>1, <2>1, <2>2, <2>3 DEF AuthorTyped
  <2>5. \A c \in v9' : IsLoad(c)
    BY <1>1, <1>3, <1>4, <2>1
  <2>6. \A d \in v10' : IsSend(d) /\ \E c \in v10 : Alike(d, c) /\ d.answer = c.answer
    BY <1>1, <2>2, SendsSetAside
  <2>7. \A d \in v10' : \E c \in v10 : Alike(d, c) /\ (d.answer = "saved" => c.answer = "saved" \/ S!Posted(c.text))
    BY <2>6, Zenon
  <2>8. Same
    BY <2>2, <2>4, <2>5, <2>6, <2>7, Zenon DEF Same
  <2> QED BY <1>2, <2>8
<1>8. CASE S!Reload
  <2>1. PICK older \in BOOLEAN : v9' = S!Overtaken(v9) \cup {S!Load(v3.id, older, FALSE)}
    BY <1>8 DEF S!Reload, S!loadTicket
  <2>2. v3 # S!NoTicket /\ UNCHANGED <<v1, v2, v3, v5, v8, v10, v11>>
    BY <1>8 DEF S!Reload
  <2>3. AuthorTyped' /\ v3.id \in Desk.Tickets
    BY <1>1, <2>2 DEF AuthorTyped
  <2>4. \A c \in v9' : IsLoad(c)
    BY <1>1, <1>3, <1>4, <2>1, <2>3
  <2>5. Same
    BY <1>1, <1>5, <2>2, <2>3, <2>4 DEF Same
  <2> QED BY <1>2, <2>5
<1>9. CASE S!ServerReads
  <2>1. PICK c \in v9 : v9' = (v9 \ {c}) \cup {[c EXCEPT !.answer = [done |-> TRUE, found |-> c.id \notin v14, version |-> v1[c.id].version]]}
    BY <1>9 DEF S!ServerReads
  <2>2. UNCHANGED <<v1, v2, v3, v5, v8, v10, v11>>
    BY <1>9 DEF S!ServerReads
  <2>3. ASSUME NEW d, d = [c EXCEPT !.answer = [done |-> TRUE, found |-> c.id \notin v14, version |-> v1[c.id].version]] PROVE IsLoad(d)
    <3>1. c = [id |-> c.id, older |-> c.older, ends |-> c.ends, wanted |-> c.wanted, answer |-> c.answer]
          /\ c.id \in Desk.Tickets
      BY <1>1 DEF IsLoad
    <3>2. v1[c.id].version \in Nat
      BY <1>1, <3>1, TicketIs, Zenon
    <3> DEFINE v == v1[c.id].version
               f == c.id \notin v14
    <3> HIDE DEF v, f
    <3>3. d = [c EXCEPT !.answer = [done |-> TRUE, found |-> f, version |-> v]] /\ v \in Nat
      BY <2>3, <3>2 DEF v, f
    <3>4. d = [id |-> d.id, older |-> d.older, ends |-> d.ends, wanted |-> d.wanted, answer |-> d.answer]
          /\ d.id = c.id /\ d.answer = [done |-> TRUE, found |-> f, version |-> v]
      BY <3>1, <3>3
    <3> QED BY <3>1, <3>3, <3>4 DEF IsLoad
  <2>4. AuthorTyped'
    BY <1>1, <2>2 DEF AuthorTyped
  <2>5. \A d \in v9' : IsLoad(d)
    BY <1>1, <2>1, <2>3
  <2>6. Same
    BY <1>1, <1>5, <2>2, <2>4, <2>5 DEF Same
  <2> QED BY <1>2, <2>6
<1>10. CASE S!TicketRead
  <2>1. PICK c \in v9 :
          /\ v9' = v9 \ {c}
          /\ IF c.wanted /\ v3 # S!NoTicket
             THEN v3' = [id |-> c.id, version |-> c.answer.version] /\ v8' = 0
             ELSE UNCHANGED <<v3, v8>>
    BY <1>10 DEF S!TicketRead
  <2>2. UNCHANGED <<v1, v2, v5, v10, v11>>
    BY <1>10 DEF S!TicketRead
  <2>3. c.id \in Desk.Tickets /\ c.answer.version \in Nat
    BY <1>1 DEF IsLoad
  <2>4. AuthorTyped'
    BY <1>1, <2>1, <2>2, <2>3 DEF AuthorTyped
  <2>5. \A d \in v9' : IsLoad(d)
    BY <1>1, <2>1
  <2>6. v8' = 0 \/ (v8' = v8 /\ v3' = v3)
    BY <2>1
  <2>7. \A d \in v10' : \E e \in v10 : Alike(d, e) /\ (d.answer = "saved" => e.answer = "saved" \/ S!Posted(e.text))
    BY <1>5, <2>2, Zenon
  <2>8. Same
    BY <1>1, <2>2, <2>4, <2>5, <2>6, <2>7, Zenon DEF Same
  <2> QED BY <1>2, <2>8
<1>11. CASE S!LoadFails \/ S!NotSaved
  <2>1. v9' \subseteq v9 /\ v10' \subseteq v10 /\ UNCHANGED <<v1, v2, v3, v5, v8, v11>>
    BY <1>11 DEF S!LoadFails, S!NotSaved
  <2>2. AuthorTyped'
    BY <1>1, <2>1 DEF AuthorTyped
  <2>3. Same
    BY <1>1, <1>5, <2>1, <2>2 DEF Same
  <2> QED BY <1>2, <2>3
<1>12. CASE S!Edit
  <2>1. v5' \in Desk.Texts /\ v8' = 0 /\ UNCHANGED <<v1, v2, v3, v9, v10, v11>>
    BY <1>12 DEF S!Edit
  <2>2. AuthorTyped'
    BY <1>1, <2>1 DEF AuthorTyped
  <2>3. Same
    BY <1>1, <1>5, <2>1, <2>2 DEF Same
  <2> QED BY <1>2, <2>3
<1>13. CASE S!mutate
  <2> DEFINE c == [click |-> v11', id |-> v3.id, version |-> v3.version, text |-> v5,
                   request |-> v6'.id, first |-> v8', wanted |-> TRUE, answer |-> S!None]
  <2>1. /\ v3 # S!NoTicket /\ v5 # S!Blank /\ v11' = v11 + 1 /\ v8' = (IF v8 = 0 THEN v11' ELSE v8)
        /\ UNCHANGED <<v1, v2, v3, v5, v9>> /\ v10' = v10 \cup {c}
    BY <1>13 DEF S!mutate
  <2>2. PICK d : d = c
    OBVIOUS
  <2> QED BY <2>1, <2>2, DeskSends, Zenon
<1>14. CASE S!ServerSaves
  <2>1. PICK c \in v10 :
          \/ /\ S!Receipt(c) \in v2 /\ UNCHANGED <<v1, v2>>
             /\ v10' = (v10 \ {c}) \cup {[c EXCEPT !.answer = "saved"]}
          \/ /\ v10' = (v10 \ {c}) \cup {[c EXCEPT !.answer = "conflict"]} /\ UNCHANGED <<v1, v2>>
          \/ /\ v10' = (v10 \ {c}) \cup {[c EXCEPT !.answer = "not_found"]} /\ UNCHANGED <<v1, v2>>
          \/ /\ v1[c.id].version = c.version
             /\ v1' = [v1 EXCEPT ![c.id].version = @ + 1,
                                 ![c.id].replies = Append(@, [text |-> c.text, first |-> c.first])]
             /\ v2' = v2 \cup {S!Receipt(c)} /\ v10' = (v10 \ {c}) \cup {[c EXCEPT !.answer = "saved"]}
    BY <1>14, Zenon DEF S!ServerSaves
  <2>2. UNCHANGED <<v3, v5, v8, v9, v11>>
    BY <1>14 DEF S!ServerSaves
  <2>3. AuthorTyped' /\ \A d \in v9' : IsLoad(d)
    BY <1>1, <2>2 DEF AuthorTyped
  <2>4. IsSend(c)
    BY <1>1
  <2>5. ASSUME NEW answer, answer = "saved" => S!Posted(c.text), UNCHANGED <<v1, v2>>,
               v10' = (v10 \ {c}) \cup {[c EXCEPT !.answer = answer]}
        PROVE  DeskInv'
    <3>1. PICK d : d = [c EXCEPT !.answer = answer]
      OBVIOUS
    <3>2. IsSend(d) /\ Alike(d, c) /\ d.answer = answer
      BY <2>4, <3>1, SendAnswered
    <3>3. v10' = (v10 \ {c}) \cup {d}
      BY <2>5, <3>1
    <3>4. Same
      BY <1>1, <1>5, <2>2, <2>3, <2>5, <3>2, <3>3 DEF Same
    <3> QED BY <1>2, <3>4
  <2>6. CASE S!Receipt(c) \in v2 /\ UNCHANGED <<v1, v2>> /\ v10' = (v10 \ {c}) \cup {[c EXCEPT !.answer = "saved"]}
    <3>1. S!Posted(S!Receipt(c).text) /\ S!Receipt(c).text = c.text
      BY <2>6 DEF DeskInv, S!SavedIsPosted, S!Receipt
    <3>2. S!Posted(c.text)
      BY <3>1, Zenon
    <3> QED BY <2>5, <2>6, <3>2
  <2>7. CASE /\ \/ v10' = (v10 \ {c}) \cup {[c EXCEPT !.answer = "conflict"]}
                \/ v10' = (v10 \ {c}) \cup {[c EXCEPT !.answer = "not_found"]}
             /\ UNCHANGED <<v1, v2>>
    BY <2>5, <2>7
  <2>8. CASE /\ v1[c.id].version = c.version
             /\ v1' = [v1 EXCEPT ![c.id].version = @ + 1,
                                 ![c.id].replies = Append(@, [text |-> c.text, first |-> c.first])]
             /\ v2' = v2 \cup {S!Receipt(c)} /\ v10' = (v10 \ {c}) \cup {[c EXCEPT !.answer = "saved"]}
    BY <2>2, <2>8, DeskPosts
  <2> QED BY <2>1, <2>6, <2>7, <2>8
<1>15. CASE S!Saved
  <2>1. PICK c \in v10 :
          /\ v10' = v10 \ {c}
          /\ \/ v5' = S!AfterSaving(c) /\ v9' = S!Overtaken(v9) \cup {S!Load(c.id, FALSE, TRUE)}
             \/ UNCHANGED <<v5, v9>>
    BY <1>15 DEF S!Saved, S!loadTicket
  <2>2. UNCHANGED <<v1, v2, v3, v8, v11>>
    BY <1>15 DEF S!Saved
  <2>3. v5' \in Desk.Texts \cup {S!Blank}
    BY <1>1, <2>1 DEF S!AfterSaving, AuthorTyped
  <2>4. AuthorTyped'
    BY <1>1, <2>2, <2>3 DEF AuthorTyped
  <2>5. c.id \in Desk.Tickets
    BY <1>1 DEF IsSend
  <2>6. \A d \in v9' : IsLoad(d)
    <3>1. CASE v9' = S!Overtaken(v9) \cup {S!Load(c.id, FALSE, TRUE)}
      BY <1>1, <1>3, <1>4, <2>5, <3>1
    <3>2. CASE v9' = v9
      BY <1>1, <3>2
    <3> QED BY <2>1, <3>1, <3>2
  <2>7. Same
    BY <1>1, <1>5, <2>1, <2>2, <2>4, <2>6 DEF Same
  <2> QED BY <1>2, <2>7
<1>16. CASE S!clear
  <2>1. v3' = S!NoTicket /\ v5' = S!Blank /\ v8' = 0 /\ v9' = S!Dropped(v9) /\ v10' = S!Overtaken(v10) /\ UNCHANGED <<v1, v2, v11>>
    BY <1>16 DEF S!clear
  <2>2. AuthorTyped'
    BY <1>1, <2>1 DEF AuthorTyped, S!NoTicket
  <2>3. \A c \in v9' : IsLoad(c)
    BY <1>1, <1>3, <2>1
  <2>4. \A d \in v10' : IsSend(d) /\ \E c \in v10 : Alike(d, c) /\ d.answer = c.answer
    BY <1>1, <2>1, SendsSetAside
  <2>5. \A d \in v10' : \E c \in v10 : Alike(d, c) /\ (d.answer = "saved" => c.answer = "saved" \/ S!Posted(c.text))
    BY <2>4, Zenon
  <2>6. Same
    BY <2>1, <2>2, <2>3, <2>4, <2>5, Zenon DEF Same
  <2> QED BY <1>2, <2>6
<1>18. CASE S!NotFound
  <2>1. v3' = S!NoTicket /\ v5' = S!Blank /\ v8' = 0 /\ UNCHANGED <<v1, v2, v11>>
    BY <1>18 DEF S!NotFound
  <2>2. PICK left \in SUBSET v9, sent \in SUBSET v10 : v9' = S!Dropped(left) /\ v10' = S!Overtaken(sent)
    BY <1>18, SetAside
  <2>3. AuthorTyped'
    BY <1>1, <2>1 DEF AuthorTyped, S!NoTicket
  <2>4. \A c \in v9' : IsLoad(c)
    BY <1>1, <1>3, <2>2
  <2>5. \A d \in v10' : IsSend(d) /\ \E c \in v10 : Alike(d, c) /\ d.answer = c.answer
    <3>1. \A c \in sent : IsSend(c)
      BY <1>1, <2>2
    <3> QED BY <2>2, <3>1, SendsSetAside
  <2>6. \A d \in v10' : \E c \in v10 : Alike(d, c) /\ (d.answer = "saved" => c.answer = "saved" \/ S!Posted(c.text))
    BY <2>5, Zenon
  <2>7. Same
    BY <2>1, <2>3, <2>4, <2>5, <2>6, Zenon DEF Same
  <2> QED BY <1>2, <2>7
<1>17. CASE UNCHANGED S!deskVars
  <2>1. UNCHANGED <<v1, v2, v3, v5, v8, v9, v10, v11>>
    BY <1>17 DEF S!deskVars
  <2>2. AuthorTyped'
    BY <1>1, <2>1 DEF AuthorTyped
  <2>3. Same
    BY <1>1, <1>5, <2>1, <2>2 DEF Same
  <2> QED BY <1>2, <2>3
<1> QED BY <1>6, <1>7, <1>8, <1>9, <1>10, <1>11, <1>12, <1>13, <1>14, <1>15, <1>16, <1>17, <1>18 DEF S!Next

\* Who is told that a ticket is not found: a load or a message under way fits the ticket
\* selected and the tickets taken away.
LoadFits(c, t, aw) == (c.wanted => c.id = t) /\ (S!Refused(c) => c.id \in aw)
SendFits(c, t, aw) == (c.wanted => c.id = t) /\ (c.answer = "not_found" => c.id \in aw)
LEMMA FittingParts ==
    /\ S!RefusedWhenAway <=> (\A c \in v9 : LoadFits(c, v3.id, v14)) /\ (\A c \in v10 : SendFits(c, v3.id, v14))
    /\ S!RefusedWhenAway' <=> (\A c \in v9' : LoadFits(c, v3'.id, v14')) /\ (\A c \in v10' : SendFits(c, v3'.id, v14'))
  BY DEF S!RefusedWhenAway, LoadFits, SendFits, S!Refused

\* What is set aside is not waited for.
LEMMA LoadsFitAside ==
    ASSUME NEW set, NEW s, NEW t, NEW aw, \A c \in set : IsLoad(c) /\ LoadFits(c, s, aw)
    PROVE  (\A d \in S!Overtaken(set) : LoadFits(d, t, aw)) /\ (\A d \in S!Dropped(set) : LoadFits(d, t, aw))
<1>1. ASSUME NEW c \in set, NEW d, d = [c EXCEPT !.wanted = FALSE] \/ d = [c EXCEPT !.wanted = FALSE, !.ends = FALSE]
      PROVE  LoadFits(d, t, aw)
  <2>1. c = [id |-> c.id, older |-> c.older, ends |-> c.ends, wanted |-> c.wanted, answer |-> c.answer]
    BY DEF IsLoad
  <2>2. d.wanted = FALSE /\ d.id = c.id /\ d.answer = c.answer
    BY <1>1, <2>1
  <2>3. S!Refused(d) <=> S!Refused(c)
    BY <2>2, Zenon DEF S!Refused
  <2> QED BY <2>2, <2>3 DEF LoadFits
<1> QED BY <1>1 DEF S!Overtaken, S!Dropped

LEMMA SendsFitAside ==
    ASSUME NEW set, NEW s, NEW t, NEW aw, \A c \in set : IsSend(c) /\ SendFits(c, s, aw)
    PROVE  \A d \in S!Overtaken(set) : SendFits(d, t, aw)
<1>1. ASSUME NEW c \in set, NEW d, d = [c EXCEPT !.wanted = FALSE] PROVE SendFits(d, t, aw)
  <2>1. c = [click |-> c.click, id |-> c.id, version |-> c.version, text |-> c.text,
             request |-> c.request, first |-> c.first, wanted |-> c.wanted, answer |-> c.answer]
    BY DEF IsSend
  <2>2. d.wanted = FALSE /\ d.id = c.id /\ d.answer = c.answer
    BY <1>1, <2>1
  <2> QED BY <2>2 DEF SendFits
<1> QED BY <1>1 DEF S!Overtaken

LEMMA LoadFitsNew == ASSUME NEW t, NEW older, NEW ends, NEW aw PROVE LoadFits(S!Load(t, older, ends), t, aw)
  BY DEF LoadFits, S!Load, S!NoAnswer, S!Refused

LEMMA FittingInit == S!Init => S!RefusedWhenAway
  BY DEF S!Init, S!RefusedWhenAway

LEMMA FittingNext ==
    ASSUME DeskInv, S!RefusedWhenAway, [S!Next]_S!deskVars
    PROVE  S!RefusedWhenAway'
<1>1. (\A c \in v9 : IsLoad(c)) /\ (\A c \in v10 : IsSend(c))
  BY DeskParts DEF DeskInv
<1>2. (\A c \in v9 : LoadFits(c, v3.id, v14)) /\ (\A c \in v10 : SendFits(c, v3.id, v14))
  BY FittingParts
<1> DEFINE LoadsFit == \A c \in v9' : LoadFits(c, v3'.id, v14')
           SendsFit == \A c \in v10' : SendFits(c, v3'.id, v14')
<1>3. LoadsFit /\ SendsFit => S!RefusedWhenAway'
  BY FittingParts
<1>4. \A left \in SUBSET v9 : \A d \in S!Dropped(left) \cup S!Overtaken(left) : \A t : LoadFits(d, t, v14)
  BY <1>1, <1>2, LoadsFitAside
<1>5. \A sent \in SUBSET v10 : \A d \in S!Overtaken(sent) : \A t : SendFits(d, t, v14)
  BY <1>1, <1>2, SendsFitAside
<1>6. v9 \in SUBSET v9 /\ v10 \in SUBSET v10
  OBVIOUS
<1>7. ASSUME v9' \subseteq v9, v10' \subseteq v10, v3'.id = v3.id, v14' = v14 PROVE S!RefusedWhenAway'
  BY <1>2, <1>3, <1>7
\* A load begun for the conversation on screen fits, whatever is set aside for it.
<1>18. ASSUME v14' = v14, NEW old, old = S!Dropped(v9) \/ old = S!Overtaken(v9),
              NEW d, LoadFits(d, v3'.id, v14), v9' = old \cup {d}
       PROVE  LoadsFit
  <2>1. \A e \in old : LoadFits(e, v3'.id, v14)
    BY <1>4, <1>6, <1>18
  <2>2. \A e \in v9' : LoadFits(e, v3'.id, v14)
    BY <1>18, <2>1
  <2> QED BY <1>18, <2>2
<1>8. CASE S!Edit \/ S!OtherSideWrites \/ S!LoadFails \/ S!NotSaved \/ UNCHANGED S!deskVars
  <2>1. v9' \subseteq v9 /\ v10' \subseteq v10 /\ UNCHANGED <<v3, v14>>
    BY <1>8 DEF S!Edit, S!OtherSideWrites, S!LoadFails, S!NotSaved, S!deskVars
  <2> QED BY <1>7, <2>1
<1>9. CASE S!Reassign
  <2>1. v14 \subseteq v14' /\ UNCHANGED <<v3, v9, v10>>
    BY <1>9 DEF S!Reassign
  <2>2. LoadsFit
    BY <1>2, <2>1 DEF LoadFits
  <2>3. SendsFit
    BY <1>2, <2>1 DEF SendFits
  <2> QED BY <1>3, <2>2, <2>3
<1>10. CASE S!select
  <2>1. PICK t \in Desk.Tickets, version \in 0 .. Desk.MaxUpsets + Desk.MaxSends :
                v3' = [id |-> t, version |-> version] /\ v9' = S!Dropped(v9) \cup {S!Load(t, FALSE, FALSE)}
    BY <1>10, Zenon DEF S!select
  <2>2. v10' = S!Overtaken(v10) /\ v14' = v14
    BY <1>10 DEF S!select
  <2>3. LoadsFit
    <3>1. v3'.id = t
      BY <2>1
    <3> QED BY <1>18, <2>1, <2>2, <3>1, LoadFitsNew, Zenon
  <2>4. SendsFit
    BY <1>5, <1>6, <2>2
  <2> QED BY <1>3, <2>3, <2>4
<1>11. CASE S!Reload
  <2>1. PICK older \in BOOLEAN : v9' = S!Overtaken(v9) \cup {S!Load(v3.id, older, FALSE)}
    BY <1>11 DEF S!Reload, S!loadTicket
  <2>2. UNCHANGED <<v3, v10, v14>>
    BY <1>11 DEF S!Reload
  <2>3. LoadsFit
    BY <1>18, <2>1, <2>2, LoadFitsNew, Zenon
  <2> QED BY <1>2, <1>3, <2>2, <2>3
<1>12. CASE S!ServerReads
  <2>1. PICK c \in v9 : v9' = (v9 \ {c}) \cup {[c EXCEPT !.answer = [done |-> TRUE, found |-> c.id \notin v14, version |-> v1[c.id].version]]}
    BY <1>12 DEF S!ServerReads
  <2>2. UNCHANGED <<v3, v10, v14>>
    BY <1>12 DEF S!ServerReads
  <2>3. ASSUME NEW d, d = [c EXCEPT !.answer = [done |-> TRUE, found |-> c.id \notin v14, version |-> v1[c.id].version]]
        PROVE  LoadFits(d, v3.id, v14)
    <3>1. c = [id |-> c.id, older |-> c.older, ends |-> c.ends, wanted |-> c.wanted, answer |-> c.answer]
      BY <1>1 DEF IsLoad
    <3>2. d.id = c.id /\ d.wanted = c.wanted /\ d.answer.found = (c.id \notin v14)
      BY <2>3, <3>1
    <3>3. S!Refused(d) => d.id \in v14
      BY <3>2 DEF S!Refused
    <3> QED BY <1>2, <3>2, <3>3 DEF LoadFits
  <2>4. LoadsFit
    BY <1>2, <2>1, <2>2, <2>3
  <2> QED BY <1>2, <1>3, <2>2, <2>4
<1>13. CASE S!TicketRead
  <2>1. PICK c \in v9 : v9' = v9 \ {c} /\ (v3' = v3 \/ (c.wanted /\ v3'.id = c.id))
    BY <1>13 DEF S!TicketRead
  <2>2. v10' = v10 /\ v14' = v14
    BY <1>13 DEF S!TicketRead
  <2>3. v3'.id = v3.id
    BY <1>2, <2>1 DEF LoadFits
  <2> QED BY <1>7, <2>1, <2>2, <2>3
<1>14. CASE S!mutate
  <2> DEFINE c == [click |-> v11', id |-> v3.id, version |-> v3.version, text |-> v5,
                   request |-> v6'.id, first |-> v8', wanted |-> TRUE, answer |-> S!None]
  <2>1. UNCHANGED <<v3, v9, v14>> /\ v10' = v10 \cup {c}
    BY <1>14 DEF S!mutate
  <2>2. SendFits(c, v3.id, v14)
    BY DEF SendFits, S!None
  <2> HIDE DEF c
  <2>3. SendsFit
    BY <1>2, <2>1, <2>2
  <2> QED BY <1>2, <1>3, <2>1, <2>3
<1>15. CASE S!ServerSaves
  <2>1. PICK c \in v10, answer \in {"not_found", "saved", "conflict"} :
          /\ answer = "not_found" => c.id \in v14
          /\ v10' = (v10 \ {c}) \cup {[c EXCEPT !.answer = answer]}
    BY <1>15, Zenon DEF S!ServerSaves
  <2>2. UNCHANGED <<v3, v9, v14>>
    BY <1>15 DEF S!ServerSaves
  <2>3. ASSUME NEW d, d = [c EXCEPT !.answer = answer] PROVE SendFits(d, v3.id, v14)
    <3>1. c = [click |-> c.click, id |-> c.id, version |-> c.version, text |-> c.text,
               request |-> c.request, first |-> c.first, wanted |-> c.wanted, answer |-> c.answer]
      BY <1>1 DEF IsSend
    <3>2. d.id = c.id /\ d.wanted = c.wanted /\ d.answer = answer
      BY <2>3, <3>1
    <3> QED BY <1>2, <2>1, <3>2 DEF SendFits
  <2>4. SendsFit
    BY <1>2, <2>1, <2>2, <2>3
  <2> QED BY <1>2, <1>3, <2>2, <2>4
<1>16. CASE S!Saved
  <2>1. PICK c \in v10 :
          /\ v10' = v10 \ {c}
          /\ \/ c.wanted /\ v9' = S!Overtaken(v9) \cup {S!Load(c.id, FALSE, TRUE)}
             \/ v9' = v9
    BY <1>16 DEF S!Saved, S!loadTicket
  <2>2. UNCHANGED <<v3, v14>>
    BY <1>16 DEF S!Saved
  <2>3. CASE v9' = v9
    BY <1>7, <2>1, <2>2, <2>3
  <2>4. CASE c.wanted /\ v9' = S!Overtaken(v9) \cup {S!Load(c.id, FALSE, TRUE)}
    <3>1. c.id = v3.id
      BY <1>2, <2>4 DEF SendFits
    <3>2. LoadsFit
      BY <1>18, <2>2, <2>4, <3>1, LoadFitsNew, Zenon
    <3>3. SendsFit
      BY <1>2, <2>1, <2>2
    <3> QED BY <1>3, <3>2, <3>3
  <2> QED BY <2>1, <2>3, <2>4
<1>17. CASE S!NotFound \/ S!clear
  <2>1. PICK left \in SUBSET v9, sent \in SUBSET v10 : v9' = S!Dropped(left) /\ v10' = S!Overtaken(sent)
    BY <1>6, <1>17, SetAside, Zenon
  <2>2. v14' = v14
    BY <1>17 DEF S!NotFound, S!clear
  <2>3. LoadsFit
    BY <1>4, <2>1, <2>2
  <2>4. SendsFit
    BY <1>5, <2>1, <2>2
  <2> QED BY <1>3, <2>3, <2>4
<1> QED BY <1>8, <1>9, <1>10, <1>11, <1>12, <1>13, <1>14, <1>15, <1>16, <1>17 DEF S!Next

\* A conversation is dropped as not found only when its ticket was taken away.
LEMMA DeskRefused == ASSUME S!RefusedWhenAway, S!NotFound PROVE v3.id \in v14 /\ v3' = S!NoTicket
<1>1. (\A c \in v9 : LoadFits(c, v3.id, v14)) /\ (\A c \in v10 : SendFits(c, v3.id, v14))
  BY FittingParts
<1>2. /\ v3' = S!NoTicket
      /\ \/ \E c \in v9 : S!Refused(c) /\ c.wanted
         \/ \E c \in v10 : c.answer = "not_found" /\ c.wanted
         \/ v3.id \in v14
  BY DEF S!NotFound
<1> QED BY <1>1, <1>2 DEF LoadFits, SendFits

\* A draft that goes although its conversation stays, and is its author's, was saved.
LEMMA DeskDrafts == DeskInv /\ S!RefusedWhenAway /\ [S!Next]_S!deskVars => S!KeepsDraft
<1> SUFFICES ASSUME DeskInv, S!RefusedWhenAway, [S!Next]_S!deskVars, v5 # S!Blank, v5' = S!Blank
             PROVE  S!Posted(v5) \/ S!select \/ S!clear \/ (v3.id \in v14 /\ v3' = S!NoTicket)
  BY DEF S!KeepsDraft
<1>1. CASE S!Saved
  <2>1. PICK c \in v10 : c.answer = "saved" /\ (v5' = S!AfterSaving(c) \/ v5' = v5)
    BY <1>1 DEF S!Saved
  <2>2. v5 = c.text
    BY <2>1 DEF S!AfterSaving
  <2> QED BY <2>1, <2>2 DEF DeskInv, S!SavedIsPosted
<1>2. CASE S!Edit
  <2>1. v5' \in Desk.Texts
    BY <1>2 DEF S!Edit
  <2> QED BY <2>1, MessageAssumptions DEF S!DeskBounds
<1>3. CASE S!NotFound
  BY <1>3, DeskRefused
<1>4. ASSUME UNCHANGED v5 PROVE FALSE
  BY <1>4
<1>5. S!OtherSideWrites \/ S!Reassign \/ S!Reload \/ S!ServerReads \/ S!TicketRead \/ S!LoadFails \/ S!mutate \/ S!ServerSaves
      \/ S!NotSaved \/ UNCHANGED S!deskVars => UNCHANGED v5
  BY Zenon DEF S!OtherSideWrites, S!Reassign, S!Reload, S!ServerReads, S!TicketRead, S!LoadFails, S!mutate, S!ServerSaves,
     S!NotSaved, S!deskVars
<1> QED BY <1>1, <1>2, <1>3, <1>4, <1>5 DEF S!Next

-----------------------------------------------------------------------------
(* The contact page: v1 is tickets, v5 text, v6 texts, v7 requestId,       *)
(* v8 ids, v9 sending; of the list, v3 is user, v4 authVersion, v10 loads, *)
(* v11 history                                                             *)

ContactInv == M!IdsAreTexts /\ M!OneIdEach /\ M!RetrySendsOnce

LEMMA ContactInit == M!Init => ContactInv
  BY DEF M!Init, ContactInv, M!IdsAreTexts, M!OneIdEach, M!RetrySendsOnce, M!IdOfText, M!NoCall, M!NoId, M!NoText

LEMMA ContactNext == ContactInv /\ [M!Next]_M!contactVars => ContactInv'
<1> SUFFICES ASSUME ContactInv, [M!Next]_M!contactVars PROVE ContactInv'
  OBVIOUS
<1> USE DEF M!NoId, M!NoText
<1>1. /\ v5 \in Nat /\ v6 \in Nat /\ v7 \in Nat /\ v8 \in Nat /\ v5 <= v6 /\ v7 <= v8 /\ (v7 # 0 => v5 # 0)
      /\ v9 = [state |-> v9.state, id |-> v9.id, text |-> v9.text, by |-> v9.by, version |-> v9.version]
      /\ v9.state # "no" => v9.id \in 1 .. v8 /\ v9.text \in 1 .. v6
      /\ \A t \in v1 : /\ t = [id |-> t.id, by |-> t.by, text |-> t.text]
                       /\ t.id \in 1 .. v8 /\ t.text \in 1 .. v6
  BY DEF ContactInv, M!IdsAreTexts
<1>2. /\ v5 # 0 => M!IdOfText(v7, v5)
      /\ v9.state # "no" => M!IdOfText(v9.id, v9.text) /\ (v5 # 0 => (v9.id = v7 <=> v9.text = v5))
      /\ \A t, u \in v1 : t.text = u.text => t = u
  BY DEF ContactInv, M!OneIdEach, M!RetrySendsOnce
<1>3. M!NoCall.state = "no" /\ M!NoCall = [state |-> "no", id |-> M!NoCall.id, text |-> M!NoCall.text,
                                           by |-> M!NoCall.by, version |-> M!NoCall.version]
  BY DEF M!NoCall
<1> DEFINE Same == /\ v1' = v1 /\ v6' = v6 /\ v8' = v8 /\ (v9' = v9 \/ v9' = M!NoCall)
                   /\ (v5' = v5 /\ v7' = v7) \/ (v5' = 0 /\ v7' = 0)
\* The form is as before or empty, and nothing is sent that was not.
<1>4. Same => ContactInv'
  <2>1. Same => M!IdsAreTexts'
    BY <1>1, <1>3 DEF M!IdsAreTexts
  <2>2. Same => M!OneIdEach' /\ M!RetrySendsOnce'
    BY <1>2, <1>3 DEF M!OneIdEach, M!RetrySendsOnce, M!IdOfText
  <2> QED BY <2>1, <2>2 DEF ContactInv
<1>5. CASE M!Input
  <2>1. v9.state = "no" /\ v6' = v6 + 1 /\ v5' = v6 + 1 /\ v7' = 0 /\ UNCHANGED <<v1, v8, v9>>
    BY <1>5 DEF M!Input, M!server
  <2>2. M!IdsAreTexts'
    BY <1>1, <2>1 DEF M!IdsAreTexts
  <2>3. \A t \in v1 : t.id # 0 /\ t.text # v6 + 1
    BY <1>1
  <2> QED BY <1>2, <2>1, <2>2, <2>3 DEF ContactInv, M!OneIdEach, M!RetrySendsOnce, M!IdOfText
<1>6. CASE M!submit
  <2> DEFINE id == M!RequestId
  <2>1. /\ v9.state = "no" /\ v5 # 0 /\ v7' = id /\ v8' = (IF id > v8 THEN id ELSE v8) /\ UNCHANGED <<v1, v5, v6>>
        /\ v9' = [state |-> "sent", id |-> id, text |-> v5, by |-> v2, version |-> v4]
    BY <1>6 DEF M!submit, M!server
  <2>2. id = (IF v7 = 0 THEN v8 + 1 ELSE v7)
    BY DEF M!RequestId
  <2> HIDE DEF id
  <2>3. id \in 1 .. v8' /\ v8' \in Nat /\ v8 <= v8'
    BY <1>1, <2>1, <2>2
  <2>4. M!IdsAreTexts'
    BY <1>1, <2>1, <2>3 DEF M!IdsAreTexts
  <2>5. \A t \in v1 : t.id = id <=> t.text = v5
    <3>1. \A t \in v1 : t.id = v7 <=> t.text = v5
      BY <1>2, <2>1 DEF M!IdOfText
    <3> QED BY <1>1, <2>2, <3>1
  <2>6. M!OneIdEach' /\ M!RetrySendsOnce'
    BY <1>2, <2>1, <2>5 DEF M!OneIdEach, M!RetrySendsOnce, M!IdOfText
  <2> QED BY <2>4, <2>6 DEF ContactInv
<1>7. CASE M!ServerSaves
  <2> DEFINE new == [id |-> v9.id, by |-> v9.by, text |-> v9.text]
  <2>1. v9.state = "sent" /\ UNCHANGED <<v5, v6, v7, v8>>
    BY <1>7 DEF M!ServerSaves, M!theForm
  <2>2. /\ \E state \in {"refused", "saved"} : v9' = [v9 EXCEPT !.state = state]
        /\ \/ v1' = v1
           \/ v1' = v1 \cup {new} /\ \A t \in v1 : t.id = v9.id => t.by = v9.by
    BY <1>7 DEF M!ServerSaves
  <2>3. v9'.state # "no" /\ v9'.id = v9.id /\ v9'.text = v9.text
        /\ v9' = [state |-> v9'.state, id |-> v9'.id, text |-> v9'.text, by |-> v9'.by, version |-> v9'.version]
    BY <1>1, <2>2
  <2>4. new.id = v9.id /\ new.text = v9.text /\ new.by = v9.by /\ new = [id |-> new.id, by |-> new.by, text |-> new.text]
    OBVIOUS
  <2> HIDE DEF new
  <2>5. M!IdsAreTexts'
    BY <1>1, <2>1, <2>2, <2>3, <2>4 DEF M!IdsAreTexts
  <2>6. M!IdOfText(v9.id, v9.text) /\ (v5 # 0 => (v9.id = v7 <=> v9.text = v5))
    BY <1>2, <2>1
  <2>7. M!OneIdEach'
    BY <1>2, <2>1, <2>2, <2>3, <2>4, <2>6 DEF M!OneIdEach, M!IdOfText
  <2>8. M!RetrySendsOnce'
    <3>1. CASE v1' = v1
      BY <1>2, <3>1 DEF M!RetrySendsOnce
    <3>2. CASE v1' = v1 \cup {new} /\ \A t \in v1 : t.id = v9.id => t.by = v9.by
      <4>1. ASSUME NEW t \in v1, t.text = new.text PROVE t = new
        <5>1. t.id = new.id /\ t.by = new.by
          BY <2>4, <2>6, <3>2, <4>1 DEF M!IdOfText
        <5> QED BY <1>1, <2>4, <4>1, <5>1
      <4> QED BY <1>2, <3>2, <4>1 DEF M!RetrySendsOnce
    <3> QED BY <2>2, <3>1, <3>2
  <2> QED BY <2>5, <2>7, <2>8 DEF ContactInv
<1>8. CASE M!Received \/ M!NotConfirmed
  <2>1. Same
    BY <1>8 DEF M!Received, M!NotConfirmed, M!server, M!theForm
  <2> QED BY <1>4, <2>1
<1>9. CASE M!loadHistory \/ M!ServerLists \/ M!Listed \/ M!ListFails
  <2>1. Same
    BY <1>9 DEF M!loadHistory, M!ServerLists, M!Listed, M!ListFails, M!server, M!theForm
  <2> QED BY <1>4, <2>1
<1>10. CASE M!SessionChanges \/ M!updateSession
  <2>1. Same
    BY <1>10 DEF M!SessionChanges, M!updateSession, M!server, M!theForm
  <2> QED BY <1>4, <2>1
<1>11. CASE UNCHANGED M!contactVars
  <2>1. Same
    BY <1>11 DEF M!contactVars
  <2> QED BY <1>4, <2>1
<1> QED BY <1>5, <1>6, <1>7, <1>8, <1>9, <1>10, <1>11 DEF M!Next

\* A list under way keeps whose it is; one that starts is the user's.
LEMMA ListsInit == M!Init => M!LoadsAreVersions
BY DEF M!Init, M!LoadsAreVersions

LEMMA ListsNext == M!LoadsAreVersions /\ [M!Next]_M!contactVars => M!LoadsAreVersions' /\ M!ListsOwnRequests
<1> SUFFICES ASSUME M!LoadsAreVersions, [M!Next]_M!contactVars
             PROVE  M!LoadsAreVersions' /\ M!ListsOwnRequests
  OBVIOUS
<1>1. /\ v4 \in Nat
      /\ \A l \in v10 : /\ l = [of |-> l.of, version |-> l.version, rows |-> l.rows, read |-> l.read]
                        /\ l.version \in 0 .. v4 /\ (l.version = v4 => l.of = v3)
  BY DEF M!LoadsAreVersions
<1>2. ASSUME NEW new, new = [of |-> v3, version |-> v4, rows |-> {}, read |-> FALSE],
             UNCHANGED <<v3, v4, v11>>, v10' \subseteq v10 \cup {new}
      PROVE  M!LoadsAreVersions' /\ M!ListsOwnRequests
  BY <1>1, <1>2 DEF M!LoadsAreVersions, M!ListsOwnRequests
<1>3. CASE M!Input \/ M!submit \/ M!ServerSaves \/ M!NotConfirmed \/ M!SessionChanges \/ UNCHANGED M!contactVars
  <2>1. UNCHANGED <<v3, v4, v10, v11>>
    BY <1>3, Zenon DEF M!Input, M!submit, M!ServerSaves, M!NotConfirmed, M!SessionChanges, M!contactVars
  <2> QED BY <1>2, <2>1
<1>4. CASE M!Received \/ M!loadHistory
  <2>1. UNCHANGED <<v3, v4, v11>> /\ (M!Load \/ UNCHANGED v10)
    BY <1>4, Zenon DEF M!Received, M!loadHistory
  <2> QED BY <1>2, <2>1 DEF M!Load
<1>5. CASE M!ServerLists
  <2>a. PICK l \in v10 : \E rows : v10' = (v10 \ {l}) \cup {[l EXCEPT !.read = TRUE, !.rows = rows]}
    BY <1>5 DEF M!ServerLists
  <2>1. PICK rows : v10' = (v10 \ {l}) \cup {[l EXCEPT !.read = TRUE, !.rows = rows]}
    BY <2>a
  <2>2. UNCHANGED <<v3, v4, v11>>
    BY <1>5 DEF M!ServerLists
  <2>3. ASSUME NEW d, d = [l EXCEPT !.read = TRUE, !.rows = rows]
        PROVE  /\ d = [of |-> d.of, version |-> d.version, rows |-> d.rows, read |-> d.read]
               /\ d.version = l.version /\ d.of = l.of
    <3>1. l = [of |-> l.of, version |-> l.version, rows |-> l.rows, read |-> l.read]
      BY <1>1
    <3> QED BY <2>3, <3>1
  <2> QED BY <1>1, <2>1, <2>2, <2>3 DEF M!LoadsAreVersions, M!ListsOwnRequests
<1>6. CASE M!Listed \/ M!ListFails
  <2>1. PICK l \in v10 : /\ v10' = v10 \ {l}
                         /\ v11' = v11 \/ v11' = M!NoList \/ (M!SameVersion(l) /\ v11' = [of |-> l.of, ids |-> l.rows])
    BY <1>6 DEF M!Listed, M!ListFails
  <2>2. UNCHANGED <<v3, v4>>
    BY <1>6, Zenon DEF M!Listed, M!ListFails
  <2> QED BY <1>1, <2>1, <2>2 DEF M!LoadsAreVersions, M!ListsOwnRequests, M!SameVersion, M!NoList
<1>7. CASE M!updateSession
  <2>1. /\ v3' = v2 /\ v4' = v4 + 1 /\ (v11' = v11 \/ v11' = M!NoList)
        /\ v10' = v10 \/ v10' = v10 \cup {[of |-> v2, version |-> v4 + 1, rows |-> {}, read |-> FALSE]}
    BY <1>7, Zenon DEF M!updateSession
  <2> QED BY <1>1, <2>1 DEF M!LoadsAreVersions, M!ListsOwnRequests, M!NoList
<1> QED BY <1>3, <1>4, <1>5, <1>6, <1>7, Zenon DEF M!Next

-----------------------------------------------------------------------------
(* The notification sheet: v1 is begun, v2 sent, v4 items, v5 more,        *)
(* v6 loads, v9 base                                                       *)

\* A page of notifications is sorted, and lists all there are between its ends: the place
\* of each among those before the cursor tells it from the others.
LEMMA PageIs ==
    ASSUME v2 \subseteq Inbox.Stamps, NEW before
    PROVE  N!IsPage(N!Earlier(before), v2, before)
<1> DEFINE older == N!Older(before)
           above(n) == {m \in older : m >= n}
           place == [n \in older |-> Cardinality(above(n))]
           size == Cardinality(older)
           shown == IF N!Cardinality(older) <= Inbox.Page THEN N!Cardinality(older) ELSE Inbox.Page
           page == N!Earlier(before)
<1>1. /\ IsFiniteSet(older) /\ size \in Nat /\ older \subseteq v2 /\ older \subseteq Nat \ {0}
      /\ Inbox.Page \in Nat \ {0}
  <2>1. Inbox.Stamps \subseteq Nat \ {0} /\ IsFiniteSet(Inbox.Stamps) /\ Inbox.Page \in Nat \ {0}
    BY MessageAssumptions, Zenon DEF MessageAssumptions, N!InboxBounds, N!IsFiniteSet, IsFiniteSet
  <2>2. older \subseteq v2 /\ older \subseteq Inbox.Stamps
    BY DEF N!Older
  <2> HIDE DEF older
  <2> QED BY <2>1, <2>2, FS_Subset, FS_CardinalityType, Zenon
<1> HIDE DEF older, size
<1>2. \A n \in older : /\ IsFiniteSet(above(n)) /\ Cardinality(above(n)) \in 1 .. size
  <2> TAKE n \in older
  <2>1. above(n) \subseteq older /\ n \in above(n)
    BY <1>1
  <2> HIDE DEF above
  <2>2. IsFiniteSet(above(n)) /\ Cardinality(above(n)) <= size
    BY <1>1, <2>1, FS_Subset, Zenon DEF size
  <2>3. Cardinality(above(n)) \in Nat /\ Cardinality(above(n)) # 0
    BY <2>1, <2>2, FS_CardinalityType, FS_EmptySet
  <2> QED BY <1>1, <2>2, <2>3
<1>3. \A n, m \in older : n < m => place[m] < place[n]
  <2> SUFFICES ASSUME NEW n \in older, NEW m \in older, n < m
               PROVE  Cardinality(above(m)) < Cardinality(above(n))
    OBVIOUS
  <2>1. above(m) \subseteq above(n) /\ n \in above(n) /\ n \notin above(m)
    <3>1. \A k \in older : k \in Nat
      BY <1>1
    <3>2. n \in Nat /\ m \in Nat /\ ~(n >= m) /\ n >= n /\ \A k \in older : k >= m => k >= n
      BY <3>1
    <3> QED BY <3>2
  <2> HIDE DEF above
  <2>2. IsFiniteSet(above(n)) /\ Cardinality(above(m)) \in Nat /\ Cardinality(above(n)) \in Nat
    BY <1>1, <1>2
  <2>3. Cardinality(above(m)) <= Cardinality(above(n)) /\ Cardinality(above(m)) # Cardinality(above(n))
    BY <2>1, <2>2, FS_Subset
  <2> QED BY <2>2, <2>3
<1>4. place \in [older -> 1 .. size] /\ \A n \in older : place[n] = Cardinality(above(n))
  BY <1>2
<1> HIDE DEF place, above
<1>5. \A n, m \in older : /\ n < m <=> place[m] < place[n]
                          /\ n = m <=> place[m] = place[n]
  <2> TAKE n, m \in older
  <2>1. n \in Nat /\ m \in Nat /\ place[n] \in Nat /\ place[m] \in Nat
    BY <1>1, <1>4
  <2> QED BY <1>3, <2>1
<1>6. \A i \in 1 .. size : \E n \in older : place[n] = i
  <2> DEFINE places == 1 .. size
  <2>1. IsFiniteSet(places) /\ Cardinality(places) = size
    <3>1. 1 \in Int /\ size \in Int
      BY <1>1
    <3>2. /\ IsFiniteSet(1 .. size)
          /\ Cardinality(1 .. size) = IF 1 > size THEN 0 ELSE size - 1 + 1
      BY <3>1, FS_Interval
    <3> QED BY <1>1, <3>2
  <2>2. place \in [older -> places]
    BY <1>4
  <2> HIDE DEF places
  <2>3. place \in Injection(older, places)
    BY <1>5, <2>2 DEF Injection, IsInjective
  <2>4. place \in Surjection(older, places)
    BY <2>1, <2>3, FS_Injection, Zenon DEF size
  <2> QED BY <2>4 DEF Surjection, places
<1>7. shown \in 0 .. size /\ shown \in Nat /\ (shown = 0 => size = 0)
  <2>1. N!Cardinality(older) = size
    BY Zenon DEF N!Cardinality, Cardinality, size
  <2> QED BY <1>1, <2>1
<1>8. /\ page = [i \in 1 .. shown |-> CHOOSE n \in older : N!Cardinality({m \in older : m >= n}) = i]
      /\ \A n \in older : N!Cardinality({m \in older : m >= n}) = place[n]
  <2>1. \A set : N!Cardinality(set) = Cardinality(set)
    BY Zenon DEF N!Cardinality, Cardinality
  <2>2. \A n \in older : N!Cardinality({m \in older : m >= n}) = place[n]
    BY <1>4, <2>1 DEF above
  <2>3. page = [i \in 1 .. shown |-> CHOOSE n \in older : N!Cardinality({m \in older : m >= n}) = i]
    BY Zenon DEF N!Earlier, older
  <2> QED BY <2>2, <2>3
<1> HIDE DEF shown
<1> HIDE DEF page
<1>9. /\ Len(page) = shown /\ DOMAIN page = 1 .. shown /\ page \in [1 .. shown -> older]
      /\ \A i \in 1 .. shown : page[i] \in older /\ place[page[i]] = i
  <2>1. \A i \in 1 .. shown : page[i] \in older /\ place[page[i]] = i
    <3> TAKE i \in 1 .. shown
    <3>1. \E n \in older : N!Cardinality({m \in older : m >= n}) = i
      <4>1. i \in 1 .. size
        BY <1>1, <1>7
      <4> QED BY <1>6, <1>8, <4>1, Zenon
    <3>2. page[i] = CHOOSE n \in older : N!Cardinality({m \in older : m >= n}) = i
      BY <1>8, Zenon
    <3>3. page[i] \in older /\ N!Cardinality({m \in older : m >= page[i]}) = i
      BY <3>1, <3>2, Zenon
    <3> QED BY <1>8, <3>3, Zenon
  <2>2. page \in [1 .. shown -> older]
    <3> DEFINE chosen(i) == CHOOSE n \in older : N!Cardinality({m \in older : m >= n}) = i
    <3>1. page = [i \in 1 .. shown |-> chosen(i)]
      BY <1>8
    <3> HIDE DEF chosen
    <3> QED BY <2>1, <3>1
  <2> QED BY <1>7, <2>1, <2>2
<1>10. page \in Seq(v2)
  <2>1. page \in [1 .. shown -> v2]
    BY <1>1, <1>9
  <2> QED BY <1>7, <2>1
<1>11. \A i, j \in DOMAIN page : i < j => page[i] > page[j]
  <2> TAKE i, j \in DOMAIN page
  <2>1. page[i] \in older /\ page[j] \in older /\ place[page[i]] = i /\ place[page[j]] = j
    BY <1>9
  <2>2. page[j] < page[i] <=> place[page[i]] < place[page[j]]
    BY <1>5, <2>1
  <2>3. page[i] \in Nat /\ page[j] \in Nat
    BY <1>1, <2>1
  <2> QED BY <2>1, <2>2, <2>3
<1>12. before # N!NoCursor => \A i \in DOMAIN page : page[i] < before
  <2>1. \A n \in older : before # N!NoCursor => n < before
    BY DEF older, N!Older
  <2> QED BY <1>9, <2>1
<1>13. ASSUME page # <<>>, NEW n \in v2, n >= N!Last(page), before = N!NoCursor \/ n < before
       PROVE  n \in N!ToSet(page)
  <2>1. n \in older
    BY <1>13 DEF older, N!Older
  <2>2. shown \in 1 .. shown /\ N!Last(page) = page[shown]
    BY <1>7, <1>9, <1>13 DEF N!Last
  <2>3. page[shown] \in older /\ place[page[shown]] = shown
    BY <1>9, <2>2
  <2>4. place[n] \in 1 .. shown
    <3>1. n \in Nat /\ page[shown] \in Nat /\ place[n] \in 1 .. size
      BY <1>1, <1>4, <2>1, <2>3
    <3>2. n = page[shown] \/ page[shown] < n
      BY <1>13, <2>2, <3>1
    <3> QED BY <1>5, <2>1, <2>3, <3>1, <3>2, <1>7
  <2>5. page[place[n]] = n
    <3>1. page[place[n]] \in older /\ place[page[place[n]]] = place[n]
      BY <1>9, <2>4
    <3> QED BY <1>5, <2>1, <3>1
  <2> QED BY <1>9, <2>4, <2>5 DEF N!ToSet
<1> QED BY <1>10, <1>11, <1>12, <1>13 DEF N!IsPage, page

InboxInv == N!LoadsContinue /\ N!InboxNoGaps /\ v1 \subseteq Inbox.Stamps

\* What a call is, and what its answer continues.
IsCall(c) == /\ c = [append |-> c.append, before |-> c.before, latest |-> c.latest, answer |-> c.answer]
             /\ {c.append, c.latest, c.answer.done} \subseteq BOOLEAN
             /\ ~c.append => c.before = N!NoCursor
             /\ c.answer.done => c.answer.visible \subseteq v2
                                 /\ N!IsPage(c.answer.page, c.answer.visible, c.before)
GoesOn(c) == c.append /\ c.latest => /\ v4 # <<>> /\ c.before = N!Last(v4)
                                     /\ c.answer.done => v9 \subseteq c.answer.visible

InboxKept == /\ v1 \subseteq Inbox.Stamps /\ v2 \subseteq Inbox.Stamps /\ v9 \subseteq v2
             /\ v4 \in Seq(Inbox.Stamps) /\ (v5 => v4 # <<>>) /\ N!InboxNoGaps
             /\ \A c, d \in v6 : c.latest /\ d.latest => c = d
             /\ \A c \in v6 : IsCall(c) /\ GoesOn(c)
LEMMA InboxParts == InboxInv <=> InboxKept
<1>1. N!LoadsContinue <=> /\ v2 \subseteq Inbox.Stamps /\ v9 \subseteq v2
                          /\ v4 \in Seq(Inbox.Stamps) /\ (v5 => v4 # <<>>)
                          /\ \A c, d \in v6 : c.latest /\ d.latest => c = d
                          /\ \A c \in v6 : IsCall(c) /\ GoesOn(c)
  BY Zenon DEF N!LoadsContinue, IsCall, GoesOn
<1> QED BY <1>1 DEF InboxInv, InboxKept
LEMMA InboxPartsNext == InboxKept' => InboxInv'
<1>1. InboxKept => InboxInv
  BY InboxParts
<1> QED BY <1>1, PTL

LEMMA InboxInit == N!Init => InboxInv
BY InboxParts DEF InboxKept, N!Init, N!InboxNoGaps

\* The calls so far set aside, and one more: for the first page, or for what is earlier.
LEMMA InboxAsks ==
    ASSUME InboxInv, NEW append \in BOOLEAN, N!load(append), append => v5,
           v1' \subseteq Inbox.Stamps, v2 \subseteq v2', v2' \subseteq Inbox.Stamps, UNCHANGED <<v4, v5, v9>>
    PROVE  InboxInv'
<1>1. PICK new : /\ v6' = {[c EXCEPT !.latest = FALSE] : c \in v6} \cup {new}
                 /\ new = N!Call(append, IF append THEN N!cursor ELSE N!NoCursor)
  BY Zenon DEF N!load
<1>2. /\ v9 \subseteq v2 /\ v4 \in Seq(Inbox.Stamps) /\ (v5 => v4 # <<>>) /\ N!InboxNoGaps
      /\ \A c \in v6 : IsCall(c)
  BY InboxParts DEF InboxKept
<1>3. ASSUME NEW c \in v6, NEW d, d = [c EXCEPT !.latest = FALSE]
      PROVE  IsCall(d)' /\ ~d.latest
  <2>1. c = [append |-> c.append, before |-> c.before, latest |-> c.latest, answer |-> c.answer]
    BY <1>2 DEF IsCall
  <2>2. /\ d = [append |-> d.append, before |-> d.before, latest |-> d.latest, answer |-> d.answer]
        /\ d.append = c.append /\ d.before = c.before /\ d.latest = FALSE /\ d.answer = c.answer
    BY <1>3, <2>1
  <2>3. IsCall(c)
    BY <1>2
  <2> QED BY <2>2, <2>3 DEF IsCall, N!IsPage
<1>4. IsCall(new)' /\ GoesOn(new)' /\ new.latest
  <2>1. append => v4' # <<>> /\ N!cursor = N!Last(v4')
    BY <1>2 DEF N!cursor
  <2>2. /\ new = [append |-> new.append, before |-> new.before, latest |-> new.latest, answer |-> new.answer]
        /\ new.append = append /\ new.latest = TRUE /\ new.answer.done = FALSE
        /\ new.before = IF append THEN N!cursor ELSE N!NoCursor
    BY <1>1 DEF N!Call, N!NoAnswer
  <2> QED BY <2>1, <2>2 DEF IsCall, GoesOn
<1>5. \A c \in v6' : IsCall(c)' /\ (GoesOn(c)' /\ (c.latest => c = new))
  <2> TAKE c \in v6'
  <2>1. CASE c = new
    BY <1>4, <2>1
  <2>2. CASE c # new
    <3>1. PICK d \in v6 : c = [d EXCEPT !.latest = FALSE]
      BY <1>1, <2>2
    <3> QED BY <1>3, <3>1 DEF GoesOn
  <2> QED BY <2>1, <2>2
<1>6. N!InboxNoGaps'
  BY <1>2 DEF N!InboxNoGaps, N!ToSet, N!Last
<1>7. InboxKept'
  BY <1>2, <1>5, <1>6 DEF InboxKept
<1> QED BY <1>7, InboxPartsNext

\* The page of the latest call: it starts the list anew, or continues it.
LEMMA InboxLists ==
    ASSUME InboxInv, NEW c \in v6, c.answer.done, c.latest, v6' = v6 \ {c}, UNCHANGED <<v1, v2>>,
           v4' = IF c.append THEN v4 \o c.answer.page ELSE c.answer.page,
           v9' = IF c.append THEN v9 ELSE c.answer.visible,
           v5' = (Len(c.answer.page) = Inbox.Page)
    PROVE  InboxInv'
<1> DEFINE page == c.answer.page
           seen == c.answer.visible
<1>1. /\ v1 \subseteq Inbox.Stamps /\ v2 \subseteq Inbox.Stamps /\ v9 \subseteq v2
      /\ v4 \in Seq(Inbox.Stamps) /\ N!InboxNoGaps
      /\ \A d, e \in v6 : d.latest /\ e.latest => d = e
      /\ \A d \in v6 : IsCall(d) /\ GoesOn(d)
  BY InboxParts DEF InboxKept
<1>2. Inbox.Stamps \subseteq Nat \ {0} /\ Inbox.Page \in Nat \ {0}
  BY MessageAssumptions, Zenon DEF MessageAssumptions, N!InboxBounds
<1>3. /\ seen \subseteq v2 /\ page \in Seq(seen) /\ c.append \in BOOLEAN
      /\ \A i, j \in DOMAIN page : i < j => page[i] > page[j]
      /\ c.before # N!NoCursor => \A i \in DOMAIN page : page[i] < c.before
      /\ page # <<>> => \A n \in seen :
            n >= N!Last(page) /\ (c.before = N!NoCursor \/ n < c.before) => n \in N!ToSet(page)
      /\ ~c.append => c.before = N!NoCursor
  <2>1. IsCall(c)
    BY <1>1
  <2> QED BY <2>1 DEF IsCall, N!IsPage
<1> HIDE DEF page, seen
<1>4. page \in Seq(Inbox.Stamps) /\ Len(page) \in Nat /\ DOMAIN page = 1 .. Len(page)
  <2>1. seen \subseteq Inbox.Stamps
    BY <1>1, <1>3
  <2> QED BY <1>3, <2>1
<1>5. v5' => page # <<>>
  BY <1>2, <1>4 DEF page
<1>6. \A d \in v6' : IsCall(d)' /\ GoesOn(d)' /\ ~d.latest
  <2> TAKE d \in v6'
  <2>1. d \in v6 /\ ~d.latest /\ IsCall(d)
    BY <1>1
  <2>2. IsCall(d)'
    BY <2>1 DEF IsCall, N!IsPage
  <2> QED BY <2>1, <2>2 DEF GoesOn
<1>7. CASE ~c.append
  <2>1. v4' = page /\ v9' = seen
    BY <1>7 DEF page, seen
  <2>2. N!InboxNoGaps'
    BY <1>3, <1>7, <2>1 DEF N!InboxNoGaps, N!ToSet, N!Last
  <2>3. InboxKept'
    BY <1>1, <1>3, <1>4, <1>5, <1>6, <2>1, <2>2 DEF InboxKept
  <2> QED BY <2>3, InboxPartsNext
<1>8. CASE c.append
  <2>1. v4' = v4 \o page /\ v9' = v9
    BY <1>8 DEF page
  <2>2. v4 # <<>> /\ c.before = N!Last(v4) /\ v9 \subseteq seen
    <3>1. GoesOn(c)
      BY <1>1
    <3> QED BY <1>8, <3>1 DEF GoesOn, seen
  <2> DEFINE k == Len(v4)
             longer == v4 \o page
  <2>3. /\ k \in Nat \ {0} /\ DOMAIN v4 = 1 .. k /\ N!Last(v4) = v4[k] /\ v4[k] \in Nat \ {0}
        /\ \A i \in DOMAIN v4 : v4[i] \in Nat
    <3>1. k \in Nat \ {0} /\ DOMAIN v4 = 1 .. k /\ \A i \in 1 .. k : v4[i] \in Inbox.Stamps
      BY <1>1, <2>2
    <3>2. k \in 1 .. k
      BY <3>1
    <3> QED BY <1>2, <3>1, <3>2 DEF N!Last
  <2>4. /\ longer \in Seq(Inbox.Stamps) /\ DOMAIN longer = 1 .. k + Len(page) /\ Len(longer) = k + Len(page)
        /\ \A i \in 1 .. k + Len(page) : longer[i] = IF i <= k THEN v4[i] ELSE page[i - k]
    BY <1>1, <1>4
  <2> HIDE DEF k
  <2>5. \A i, j \in DOMAIN longer : i < j => longer[i] > longer[j]
    <3> HIDE DEF longer
    <3> SUFFICES ASSUME NEW i \in 1 .. k + Len(page), NEW j \in 1 .. k + Len(page), i < j
                 PROVE  longer[i] > longer[j]
      BY <2>4
    <3>1. \A m, n \in 1 .. k : m < n => v4[m] > v4[n]
      BY <1>1, <2>3 DEF N!InboxNoGaps
    <3>2. \A m \in 1 .. Len(page) : page[m] < v4[k] /\ page[m] \in Nat
      <4>1. \A m \in 1 .. Len(page) : page[m] \in Inbox.Stamps
        BY <1>4
      <4> QED BY <1>2, <1>3, <1>4, <2>2, <2>3, <4>1 DEF N!NoCursor
    <3>3. CASE j <= k
      BY <2>3, <2>4, <3>1, <3>3
    <3>4. CASE i > k
      <4>1. i - k \in 1 .. Len(page) /\ j - k \in 1 .. Len(page) /\ i - k < j - k
        BY <1>4, <2>3, <3>4
      <4>2. page[i - k] > page[j - k]
        BY <1>3, <1>4, <4>1
      <4>3. ~(i <= k) /\ ~(j <= k)
        BY <2>3, <3>4
      <4> QED BY <2>4, <4>2, <4>3
    <3>5. CASE i <= k /\ j > k
      <4>1. i \in 1 .. k /\ k \in 1 .. k /\ j - k \in 1 .. Len(page) /\ (i = k \/ i < k)
        BY <1>4, <2>3, <3>5
      <4>2. v4[i] \in Nat /\ v4[k] \in Nat /\ ~(v4[i] < v4[k])
        <5>1. v4[i] \in Nat /\ v4[k] \in Nat
          BY <2>3, <4>1
        <5>2. i < k => v4[i] > v4[k]
          BY <3>1, <4>1
        <5> QED BY <4>1, <5>1, <5>2
      <4>3. page[j - k] < v4[k] /\ page[j - k] \in Nat
        BY <3>2, <4>1
      <4>4. longer[i] = v4[i] /\ longer[j] = page[j - k]
        BY <2>3, <2>4, <3>5
      <4> QED BY <4>2, <4>3, <4>4
    <3> QED BY <1>4, <2>3, <3>3, <3>4, <3>5
  <2>6. longer # <<>> /\ N!Last(longer) = IF page = <<>> THEN v4[k] ELSE N!Last(page)
    <3> HIDE DEF longer
    <3>1. longer # <<>> /\ N!Last(longer) = longer[k + Len(page)]
      BY <1>4, <2>3, <2>4 DEF N!Last
    <3>2. page = <<>> <=> Len(page) = 0
      BY <1>4
    <3>3. Len(page) # 0 => N!Last(page) = page[Len(page)] /\ ~(k + Len(page) <= k) /\ (k + Len(page)) - k = Len(page)
      BY <1>4, <2>3 DEF N!Last
    <3>4. k + Len(page) \in 1 .. k + Len(page)
      BY <1>4, <2>3
    <3> QED BY <1>4, <2>3, <2>4, <3>1, <3>2, <3>3, <3>4
  <2>7. \A n : n \in N!ToSet(longer) <=> n \in N!ToSet(v4) \/ n \in N!ToSet(page)
    <3> HIDE DEF longer
    <3>1. \A i \in 1 .. k : i \in DOMAIN longer /\ longer[i] = v4[i]
      BY <1>4, <2>3, <2>4
    <3>2. \A i \in 1 .. Len(page) : k + i \in DOMAIN longer /\ longer[k + i] = page[i]
      BY <1>4, <2>3, <2>4
    <3>3. \A i \in DOMAIN longer : \/ i \in 1 .. k /\ longer[i] = v4[i]
                                   \/ i - k \in 1 .. Len(page) /\ longer[i] = page[i - k]
      BY <1>4, <2>3, <2>4
    <3> QED BY <1>4, <2>3, <3>1, <3>2, <3>3 DEF N!ToSet
  <2>8. ASSUME NEW n \in v9, n >= N!Last(longer) PROVE n \in N!ToSet(longer)
    <3> HIDE DEF longer
    <3>1. n \in Nat /\ n \in seen
      BY <1>1, <1>2, <2>2
    <3>2. CASE n >= v4[k]
      BY <1>1, <2>2, <2>3, <2>7, <3>2 DEF N!InboxNoGaps
    <3>3. CASE n < v4[k]
      <4>1. page # <<>>
        BY <2>3, <2>6, <2>8, <3>1, <3>3
      <4> QED BY <1>3, <2>2, <2>3, <2>6, <2>7, <2>8, <3>1, <3>3, <4>1
    <3> QED BY <2>3, <3>1, <3>2, <3>3
  <2> HIDE DEF longer
  <2>9. v4' = longer
    BY <2>1 DEF longer
  <2>10. N!InboxNoGaps'
    BY <2>1, <2>5, <2>8, <2>9 DEF N!InboxNoGaps, N!ToSet, N!Last
  <2>11. InboxKept'
    BY <1>1, <1>6, <2>1, <2>4, <2>6, <2>9, <2>10 DEF InboxKept
  <2> QED BY <2>11, InboxPartsNext
<1> QED BY <1>3, <1>7, <1>8

LEMMA InboxNext == InboxInv /\ [N!Next]_N!inboxVars => InboxInv'
<1> SUFFICES ASSUME InboxInv, [N!Next]_N!inboxVars PROVE InboxInv'
  OBVIOUS
<1>1. /\ v1 \subseteq Inbox.Stamps /\ v2 \subseteq Inbox.Stamps /\ v9 \subseteq v2
      /\ v4 \in Seq(Inbox.Stamps) /\ (v5 => v4 # <<>>) /\ N!InboxNoGaps
      /\ \A c, d \in v6 : c.latest /\ d.latest => c = d
      /\ \A c \in v6 : IsCall(c) /\ GoesOn(c)
  BY InboxParts DEF InboxKept
\* Calls only go, and committed notifications are only added.
<1>2. ASSUME v1' \subseteq Inbox.Stamps, v2 \subseteq v2', v2' \subseteq Inbox.Stamps, v6' \subseteq v6,
             UNCHANGED <<v4, v5, v9>>
      PROVE  InboxInv'
  <2>1. \A c \in v6' : IsCall(c)' /\ GoesOn(c)'
    BY <1>1, <1>2 DEF IsCall, GoesOn, N!IsPage, N!Last
  <2>2. N!InboxNoGaps'
    BY <1>1, <1>2 DEF N!InboxNoGaps, N!ToSet, N!Last
  <2>3. InboxKept'
    BY <1>1, <1>2, <2>1, <2>2 DEF InboxKept
  <2> QED BY <2>3, InboxPartsNext
<1>3. CASE N!Begin
  <2>1. PICK n \in Inbox.Stamps : v1' = v1 \cup {n}
    BY <1>3 DEF N!Begin
  <2>2. UNCHANGED <<v2, v4, v5, v6, v9>>
    BY <1>3, Zenon DEF N!Begin
  <2> QED BY <1>1, <1>2, <2>1, <2>2
<1>4. CASE N!Commit
  <2>1. PICK n \in v1 \ v2 : v2' = v2 \cup {n}
    BY <1>4, Zenon DEF N!Commit
  <2>2. (N!load(FALSE) \/ UNCHANGED v6) /\ UNCHANGED <<v1, v4, v5, v9>>
    BY <1>4, Zenon DEF N!Commit
  <2>3. v2 \subseteq v2' /\ v2' \subseteq Inbox.Stamps
    BY <1>1, <2>1
  <2>4. CASE UNCHANGED v6
    BY <1>1, <1>2, <2>2, <2>3, <2>4
  <2>5. CASE N!load(FALSE)
    BY <1>1, <2>2, <2>3, <2>5, InboxAsks
  <2> QED BY <2>2, <2>4, <2>5
<1>5. CASE N!open \/ N!Retry
  <2>1. N!load(FALSE) /\ UNCHANGED <<v1, v2, v4, v5, v9>>
    BY <1>5, Zenon DEF N!open, N!Retry
  <2> QED BY <1>1, <2>1, InboxAsks
<1>6. CASE N!ShowEarlier
  <2>1. v5 /\ N!load(TRUE) /\ UNCHANGED <<v1, v2, v4, v5, v9>>
    BY <1>6, Zenon DEF N!ShowEarlier
  <2> QED BY <1>1, <2>1, InboxAsks
<1>7. CASE N!ServerLists
  <2>1. PICK c \in v6 : /\ ~c.answer.done
                        /\ v6' = (v6 \ {c}) \cup
                              {[c EXCEPT !.answer = [done |-> TRUE, page |-> N!Earlier(c.before), visible |-> v2]]}
    BY <1>7, Zenon DEF N!ServerLists
  <2>2. UNCHANGED <<v1, v2, v4, v5, v9>>
    BY <1>7, Zenon DEF N!ServerLists
  <2> DEFINE page == N!Earlier(c.before)
  <2>3. N!IsPage(page, v2, c.before)
    BY <1>1, PageIs
  <2>4. PICK rows : rows = page
    OBVIOUS
  <2> HIDE DEF page
  <2>5. ASSUME NEW d, d = [c EXCEPT !.answer = [done |-> TRUE, page |-> rows, visible |-> v2]]
        PROVE  IsCall(d)' /\ GoesOn(d)' /\ d.latest = c.latest
    <3>1. c = [append |-> c.append, before |-> c.before, latest |-> c.latest, answer |-> c.answer]
      BY <1>1 DEF IsCall
    <3>2. /\ d = [append |-> d.append, before |-> d.before, latest |-> d.latest, answer |-> d.answer]
          /\ d.append = c.append /\ d.before = c.before /\ d.latest = c.latest
          /\ d.answer = [done |-> TRUE, page |-> rows, visible |-> v2]
      BY <2>5, <3>1
    <3>3. d.answer.done = TRUE /\ d.answer.page = rows /\ d.answer.visible = v2
      BY <3>2
    <3>4. IsCall(c) /\ GoesOn(c) /\ N!IsPage(rows, v2, c.before)
      BY <1>1, <2>3, <2>4
    <3>5. IsCall(d)'
      BY <2>2, <3>2, <3>3, <3>4 DEF IsCall, N!IsPage
    <3>6. GoesOn(d)'
      BY <1>1, <2>2, <3>2, <3>3, <3>4 DEF GoesOn, N!Last
    <3> QED BY <3>2, <3>5, <3>6
  <2>6. \A d \in v6' : IsCall(d)' /\ GoesOn(d)' /\ (d \in v6 \/ d.latest = c.latest)
    <3> TAKE d \in v6'
    <3>1. CASE d \in v6
      BY <1>1, <2>2, <3>1 DEF IsCall, GoesOn, N!IsPage, N!Last
    <3>2. CASE d \notin v6
      <4>1. d = [c EXCEPT !.answer = [done |-> TRUE, page |-> rows, visible |-> v2]]
        BY <2>1, <2>4, <3>2 DEF page
      <4> QED BY <2>5, <4>1
    <3> QED BY <3>1, <3>2
  <2>7. \A d, e \in v6' : d.latest /\ e.latest => d = e
    <3>1. PICK new : v6' = (v6 \ {c}) \cup {new} /\ new.latest = c.latest
      BY <2>1, <2>4, <2>5 DEF page
    <3> QED BY <1>1, <3>1
  <2>8. N!InboxNoGaps'
    BY <1>1, <2>2 DEF N!InboxNoGaps, N!ToSet, N!Last
  <2>9. InboxKept'
    BY <1>1, <2>2, <2>6, <2>7, <2>8 DEF InboxKept
  <2> QED BY <2>9, InboxPartsNext
<1>8. CASE N!Answered
  <2>1. PICK c \in v6 : /\ c.answer.done /\ v6' = v6 \ {c} /\ UNCHANGED <<v1, v2>>
                        /\ IF N!Uses(c)
                           THEN /\ v4' = IF c.append THEN v4 \o c.answer.page ELSE c.answer.page
                                /\ v9' = IF c.append THEN v9 ELSE c.answer.visible
                                /\ v5' = (Len(c.answer.page) = Inbox.Page)
                           ELSE UNCHANGED <<v4, v9, v5>>
    BY <1>8, Zenon DEF N!Answered
  <2>2. CASE c.latest
    BY <2>1, <2>2, InboxLists DEF N!Uses
  <2>3. CASE ~c.latest
    BY <1>1, <1>2, <2>1, <2>3 DEF N!Uses
  <2> QED BY <2>2, <2>3
<1>9. CASE N!LoadFails
  <2>1. v6' \subseteq v6 /\ UNCHANGED <<v1, v2, v4, v5, v9>>
    BY <1>9 DEF N!LoadFails
  <2> QED BY <1>1, <1>2, <2>1
<1>10. CASE N!closeSheet \/ UNCHANGED N!inboxVars
  <2>1. UNCHANGED <<v1, v2, v4, v5, v6, v9>>
    BY <1>10, Zenon DEF N!closeSheet, N!inboxVars
  <2> QED BY <1>1, <1>2, <2>1
<1> QED BY <1>3, <1>4, <1>5, <1>6, <1>7, <1>8, <1>9, <1>10, Zenon DEF N!Next

-----------------------------------------------------------------------------
(* The forms that send something once: v1 is kind, v2 done, v3 version,    *)
(* v5 target, v6 expected, v9 requestId, v10 ids, v11 purpose,             *)
(* v12 codeAsked, v15 calls                                                *)

FormsInv == E!FormsTyped /\ E!PurposesAreKept /\ E!VersionsAreOver /\ E!DoneOnce

LEMMA FormsInit == E!Init => FormsInv
<1> SUFFICES ASSUME E!Init PROVE FormsInv
  OBVIOUS
<1>1. /\ v1 \in E!Kinds /\ v2 = {} /\ v15 = {} /\ v6 = 0 /\ v9 = 0 /\ v10 = 0 /\ v11 = 1 /\ v12 = FALSE
      /\ v3 = [t \in StaffSends.Targets |-> 0] /\ v5 \in IF v1 = "announcement" THEN {E!Everyone} ELSE StaffSends.Targets
  BY DEF E!Init
<1>2. v3 \in [StaffSends.Targets -> Nat]
  BY <1>1
<1>3. E!Begun = {}
  BY <1>1 DEF E!Begun
<1> QED BY <1>1, <1>2, <1>3 DEF FormsInv, E!FormsTyped, E!PurposesAreKept, E!VersionsAreOver, E!DoneOnce

\* The form stays as it is, and nothing more is under way.
FormSame == /\ UNCHANGED <<v1, v2, v3, v5, v6, v9, v10, v11>> /\ v15' \subseteq v15
            /\ v1 = "message" => v12' = v12
LEMMA FormsSame == ASSUME FormsInv, FormSame PROVE FormsInv'
<1>1. E!Begun' \subseteq E!Begun
  BY DEF FormSame, E!Begun
<1>2. E!FormsTyped'
  BY <1>1 DEF FormsInv, FormSame, E!FormsTyped
<1>3. E!PurposesAreKept'
  BY <1>1 DEF FormsInv, FormSame, E!PurposesAreKept
<1>4. E!VersionsAreOver' /\ E!DoneOnce'
  BY DEF FormsInv, FormSame, E!VersionsAreOver, E!DoneOnce
<1> QED BY <1>2, <1>3, <1>4 DEF FormsInv

\* The form is emptied: another purpose begins, of which nothing is under way.
FormEmptied == /\ UNCHANGED <<v1, v2, v3, v10, v12>> /\ v15' \subseteq v15 /\ v9' = 0 /\ v11' = v11 + 1
               /\ v5' \in (IF v1 = "announcement" THEN {E!Everyone} ELSE StaffSends.Targets) /\ v6' \in Nat
               /\ v1 = "announcement" => v15' = {}
LEMMA FormsEmptied == ASSUME FormsInv, FormEmptied PROVE FormsInv'
<1>1. E!Begun' \subseteq E!Begun /\ v15 \subseteq E!Begun /\ v2 \subseteq E!Begun
  BY DEF FormEmptied, E!Begun
<1>2. v11 \in Nat /\ \A c \in E!Begun : c.purpose \in 1 .. v11 /\ c.purpose # v11'
  BY DEF FormsInv, FormEmptied, E!FormsTyped
<1>3. E!FormsTyped'
  BY <1>1, <1>2 DEF FormsInv, FormEmptied, E!FormsTyped
<1>4. E!PurposesAreKept'
  BY <1>1, <1>2 DEF FormsInv, FormEmptied, E!PurposesAreKept
<1>5. E!VersionsAreOver' /\ E!DoneOnce'
  BY <1>1, <1>2 DEF FormsInv, FormEmptied, E!VersionsAreOver, E!DoneOnce
<1> QED BY <1>3, <1>4, <1>5 DEF FormsInv

\* What is sent is of the purpose, and has its target and its id.
LEMMA FormsSent == ASSUME FormsInv, NEW k \in E!Kinds, E!Submit(k), k = "announcement" => v15 = {} PROVE FormsInv'
<1> DEFINE id == E!RequestId
           new == [id |-> id, to |-> v5, draft |-> v7, purpose |-> v11, expected |-> v6, n |-> v17,
                   state |-> IF v12 THEN "verifies" ELSE "sent"]
<1>1. /\ v1 = k /\ v9' = id /\ v10' = (IF id > v10 THEN id ELSE v10) /\ v15' = v15 \cup {new}
      /\ UNCHANGED <<v1, v2, v3, v5, v6, v11, v12>>
  BY DEF E!Submit, E!server, E!opened
<1>2. /\ v9 \in Nat /\ v10 \in Nat /\ v11 \in Nat /\ v6 \in Nat
      /\ v5 \in IF v1 = "announcement" THEN {E!Everyone} ELSE StaffSends.Targets
  BY DEF FormsInv, E!FormsTyped
<1>3. id \in Nat /\ id # 0 /\ v10' \in Nat /\ (v9 # 0 => id = v9)
  BY <1>1, <1>2 DEF E!RequestId
<1>4. new.id = id /\ new.to = v5 /\ new.purpose = v11 /\ new.expected = v6 /\ (~v12 => new.state = "sent")
      /\ new = [id |-> new.id, to |-> new.to, draft |-> new.draft, purpose |-> new.purpose,
                expected |-> new.expected, n |-> new.n, state |-> new.state]
  OBVIOUS
<1> HIDE DEF id, new
<1>5. E!Begun' = E!Begun \cup {new} /\ v2 \subseteq E!Begun /\ v15 \subseteq E!Begun
  BY <1>1 DEF E!Begun
<1>6. \A c \in E!Begun : /\ c.purpose \in 1 .. v11
                         /\ c.purpose = v11 => c.to = v5 /\ v9 # 0 /\ (k # "role" => c.id = id)
  BY <1>1, <1>3 DEF FormsInv, E!FormsTyped, E!PurposesAreKept
<1>7. v11 >= 1
  BY DEF FormsInv, E!FormsTyped
<1>8. E!FormsTyped'
  BY <1>1, <1>2, <1>3, <1>4, <1>5, <1>7 DEF FormsInv, E!FormsTyped
<1>9. E!PurposesAreKept'
  <2>1. \A c, d \in E!Begun : c.purpose = d.purpose => c.to = d.to /\ (k # "role" => c.id = d.id)
    BY <1>1 DEF FormsInv, E!PurposesAreKept
  <2>2. \A c, d \in E!Begun' : c.purpose = d.purpose => c.to = d.to /\ (k # "role" => c.id = d.id)
    BY <1>4, <1>5, <1>6, <2>1
  <2>3. \A c \in E!Begun' : c.purpose = v11 => c.to = v5 /\ id # 0 /\ (k # "role" => c.id = id)
    BY <1>3, <1>4, <1>5, <1>6
  <2>4. k = "announcement" => v15' = {new}
    BY <1>1
  <2>5. k = "message" => ~v12 /\ \A c \in v15' : c.state \notin {"verifies", "needsCode"}
    BY <1>1, <1>4 DEF FormsInv, E!PurposesAreKept
  <2> QED BY <1>1, <1>4, <2>2, <2>3, <2>4, <2>5 DEF E!PurposesAreKept
<1>10. E!VersionsAreOver' /\ E!DoneOnce'
  <2>1. E!DoneOnce'
    BY <1>1 DEF FormsInv, E!DoneOnce
  <2>2. ASSUME v1 = "role" PROVE E!VersionsAreOver'
    <3>1. /\ \A c, d \in v15 : c.purpose = d.purpose => c.expected = d.expected
          /\ \A c \in v15 : c.purpose = v11 => c.expected = v6
          /\ \A x \in v2 : /\ \A c \in v15 : x.purpose = c.purpose => v3[c.to] > c.expected
                           /\ x.purpose = v11 => v3[v5] > v6
      BY <2>2 DEF FormsInv, E!VersionsAreOver
    <3> QED BY <1>1, <1>4, <3>1 DEF E!VersionsAreOver
  <2> QED BY <1>1, <2>1, <2>2 DEF E!VersionsAreOver
<1> QED BY <1>8, <1>9, <1>10 DEF FormsInv

\* A call goes on: it is of its purpose still, and has the id of it.
CallGoesOn(c, d) == /\ d = [id |-> d.id, to |-> c.to, draft |-> d.draft, purpose |-> c.purpose,
                            expected |-> c.expected, n |-> c.n, state |-> d.state]
                    /\ v1 # "role" => d.id = c.id
                    /\ v1 = "message" => d.state \notin {"verifies", "needsCode"}
                    /\ v15' = (v15 \ {c}) \cup {d}
                    /\ UNCHANGED <<v1, v5, v6, v9, v10, v11>> /\ (v1 = "message" => v12' = v12)
LEMMA FormsGoOn == ASSUME FormsInv, NEW c \in v15, NEW d, CallGoesOn(c, d), UNCHANGED <<v2, v3>> PROVE FormsInv'
<1>1. /\ d.to = c.to /\ d.purpose = c.purpose /\ d.expected = c.expected
      /\ v1 # "role" => d.id = c.id
      /\ d = [id |-> d.id, to |-> d.to, draft |-> d.draft, purpose |-> d.purpose,
              expected |-> d.expected, n |-> d.n, state |-> d.state]
      /\ v15' = (v15 \ {c}) \cup {d} /\ UNCHANGED <<v1, v2, v3, v5, v6, v9, v10, v11>>
      /\ v1 = "message" => v12' = v12 /\ d.state \notin {"verifies", "needsCode"}
  BY DEF CallGoesOn
<1>2. E!Begun' \subseteq E!Begun \cup {d} /\ c \in E!Begun
  BY <1>1 DEF E!Begun
<1>3. E!FormsTyped'
  BY <1>1, <1>2 DEF FormsInv, E!FormsTyped
<1>4. E!PurposesAreKept'
  <2>1. \A a, b \in E!Begun : a.purpose = b.purpose => a.to = b.to /\ (v1 # "role" => a.id = b.id)
    BY DEF FormsInv, E!PurposesAreKept
  <2>2. \A a, b \in E!Begun' : a.purpose = b.purpose => a.to = b.to /\ (v1 # "role" => a.id = b.id)
    BY <1>1, <1>2, <2>1
  <2>3. \A a \in E!Begun : a.purpose = v11 => a.to = v5 /\ v9 # 0 /\ (v1 # "role" => a.id = v9)
    BY DEF FormsInv, E!PurposesAreKept
  <2>4. \A a \in E!Begun' : a.purpose = v11 => a.to = v5 /\ v9 # 0 /\ (v1 # "role" => a.id = v9)
    BY <1>1, <1>2, <2>3
  <2>5. v1 = "announcement" => v15' = {d} /\ d.purpose = v11
    BY <1>1 DEF FormsInv, E!PurposesAreKept
  <2>6. v1 = "message" => ~v12 /\ \A a \in v15' : a.state \notin {"verifies", "needsCode"}
    BY <1>1 DEF FormsInv, E!PurposesAreKept
  <2> QED BY <1>1, <2>2, <2>4, <2>5, <2>6 DEF E!PurposesAreKept
<1>5. E!VersionsAreOver'
  BY <1>1 DEF FormsInv, E!VersionsAreOver
<1>6. E!DoneOnce'
  BY <1>1 DEF FormsInv, E!DoneOnce
<1> QED BY <1>3, <1>4, <1>5, <1>6 DEF FormsInv

\* A purpose that is done was not done before: not under its id, nor, for a role, for its
\* version.
LEMMA FormsDone ==
    ASSUME FormsInv, NEW c \in v15, E!Done(c) = {}, ~E!Conflicts(c), NEW d, CallGoesOn(c, d),
           v2' = v2 \cup {[id |-> c.id, to |-> c.to, draft |-> c.draft, purpose |-> c.purpose]}, d.id = c.id,
           v3' = (IF v1 = "role" THEN [v3 EXCEPT ![c.to] = @ + 1] ELSE v3)
    PROVE  FormsInv'
<1> DEFINE x == [id |-> c.id, to |-> c.to, draft |-> c.draft, purpose |-> c.purpose]
<1>1. /\ d.to = c.to /\ d.purpose = c.purpose /\ d.expected = c.expected /\ d.id = c.id
      /\ d = [id |-> d.id, to |-> d.to, draft |-> d.draft, purpose |-> d.purpose,
              expected |-> d.expected, n |-> d.n, state |-> d.state]
      /\ v15' = (v15 \ {c}) \cup {d} /\ UNCHANGED <<v1, v5, v6, v9, v10, v11>>
      /\ v1 = "message" => v12' = v12 /\ d.state \notin {"verifies", "needsCode"}
  BY DEF CallGoesOn
<1>2. x.id = c.id /\ x.to = c.to /\ x.purpose = c.purpose /\ v2' = v2 \cup {x}
  OBVIOUS
<1> HIDE DEF x
<1>3. E!Begun' \subseteq E!Begun \cup {d, x} /\ c \in E!Begun /\ v15 \subseteq E!Begun /\ v2 \subseteq E!Begun
  BY <1>1, <1>2 DEF E!Begun
<1>4. v3 \in [StaffSends.Targets -> Nat] /\ c.expected \in Nat /\ v6 \in Nat /\ (v1 = "role" => c.to \in StaffSends.Targets)
      /\ v3' \in [StaffSends.Targets -> Nat] /\ \A t \in StaffSends.Targets : v3'[t] >= v3[t]
  BY DEF FormsInv, E!FormsTyped
<1>5. E!FormsTyped'
  BY <1>1, <1>2, <1>3, <1>4 DEF FormsInv, E!FormsTyped
<1>6. \A a, b \in E!Begun : a.purpose = b.purpose => a.to = b.to /\ (v1 # "role" => a.id = b.id)
  BY DEF FormsInv, E!PurposesAreKept
<1>7. E!PurposesAreKept'
  <2>1. \A a, b \in E!Begun' : a.purpose = b.purpose => a.to = b.to /\ (v1 # "role" => a.id = b.id)
    BY <1>1, <1>2, <1>3, <1>6
  <2>2. \A a \in E!Begun : a.purpose = v11 => a.to = v5 /\ v9 # 0 /\ (v1 # "role" => a.id = v9)
    BY DEF FormsInv, E!PurposesAreKept
  <2>3. \A a \in E!Begun' : a.purpose = v11 => a.to = v5 /\ v9 # 0 /\ (v1 # "role" => a.id = v9)
    BY <1>1, <1>2, <1>3, <2>2
  <2>4. v1 = "announcement" => v15' = {d} /\ d.purpose = v11
    BY <1>1 DEF FormsInv, E!PurposesAreKept
  <2>5. v1 = "message" => ~v12 /\ \A a \in v15' : a.state \notin {"verifies", "needsCode"}
    BY <1>1 DEF FormsInv, E!PurposesAreKept
  <2> QED BY <1>1, <2>1, <2>3, <2>4, <2>5 DEF E!PurposesAreKept
<1>8. E!VersionsAreOver'
  <2> SUFFICES ASSUME v1 = "role" PROVE E!VersionsAreOver'
    BY <1>1 DEF E!VersionsAreOver
  <2>1. /\ \A a, b \in v15 : a.purpose = b.purpose => a.expected = b.expected
        /\ \A a \in v15 : a.purpose = v11 => a.expected = v6
        /\ \A y \in v2 : /\ \A a \in v15 : y.purpose = a.purpose => v3[a.to] > a.expected
                         /\ y.purpose = v11 => v3[v5] > v6
    BY DEF FormsInv, E!VersionsAreOver
  <2>2. v3[c.to] = c.expected /\ v3'[c.to] > c.expected
    BY <1>4 DEF E!Conflicts
  <2>3. v5 \in StaffSends.Targets /\ \A a \in v15 : a.to \in StaffSends.Targets /\ a.expected \in Nat
    BY DEF FormsInv, E!FormsTyped
  <2>4. \A a \in v15 : a.purpose = c.purpose => v3'[a.to] > a.expected
    BY <1>3, <1>6, <2>1, <2>2
  <2>5. c.purpose = v11 => v3'[v5] > v6
    <3>1. c.purpose = v11 => c.to = v5
      BY <1>3 DEF FormsInv, E!PurposesAreKept
    <3> QED BY <2>1, <2>2, <3>1
  <2>6. \A y \in v2 : /\ \A a \in v15 : y.purpose = a.purpose => v3'[a.to] > a.expected
                      /\ y.purpose = v11 => v3'[v5] > v6
    BY <1>4, <2>1, <2>3
  <2>7. \A y \in v2' : /\ \A a \in v15' : y.purpose = a.purpose => v3'[a.to] > a.expected
                       /\ y.purpose = v11 => v3'[v5] > v6
    BY <1>1, <1>2, <2>4, <2>5, <2>6
  <2> QED BY <1>1, <2>1, <2>7 DEF E!VersionsAreOver
<1>9. E!DoneOnce'
  <2>1. \A y \in v2 : y.purpose # x.purpose
    <3> SUFFICES ASSUME NEW y \in v2, y.purpose = c.purpose PROVE FALSE
      BY <1>2
    <3>1. y.to = c.to /\ (v1 # "role" => y.id = c.id)
      BY <1>3, <1>6
    <3>2. CASE v1 = "role"
      BY <1>4, <3>2 DEF FormsInv, E!VersionsAreOver, E!Conflicts
    <3>3. CASE v1 # "role"
      BY <3>1, <3>3 DEF E!Done
    <3> QED BY <3>2, <3>3
  <2> QED BY <1>2, <2>1 DEF FormsInv, E!DoneOnce
<1> QED BY <1>5, <1>7, <1>8, <1>9 DEF FormsInv

LEMMA FormsNext == FormsInv /\ [E!Next]_E!staffVars => FormsInv'
<1> SUFFICES ASSUME FormsInv, [E!Next]_E!staffVars PROVE FormsInv'
  OBVIOUS
<1>1. CASE E!edited \/ E!Review \/ E!Counted \/ E!Cancel \/ E!TimePasses
  <2>1. FormSame
    BY <1>1 DEF FormSame, E!edited, E!Review, E!Counted, E!Cancel, E!TimePasses, E!server, E!opened, E!written,
       E!review, E!limits
  <2> QED BY <2>1, FormsSame
<1>2. CASE E!resetCustomerMessage \/ E!ManageRole
  <2>1. v3 \in [StaffSends.Targets -> Nat]
    BY DEF FormsInv, E!FormsTyped
  <2>2. FormEmptied
    BY <1>2, <2>1 DEF FormEmptied, E!resetCustomerMessage, E!ManageRole, E!Open, E!Empty, E!server, E!review
  <2> QED BY <2>2, FormsEmptied
<1>3. CASE E!publish \/ E!sendMessage \/ E!changeRole
  <2>1. {"announcement", "message", "role"} = E!Kinds
    BY DEF E!Kinds
  <2> QED BY <1>3, <2>1, FormsSent DEF E!publish, E!sendMessage, E!changeRole
<1>4. ASSUME NEW c \in v15
      PROVE  /\ c = [id |-> c.id, to |-> c.to, draft |-> c.draft, purpose |-> c.purpose,
                     expected |-> c.expected, n |-> c.n, state |-> c.state]
             /\ v1 = "message" => ~v12 /\ c.state \notin {"verifies", "needsCode"}
             /\ v1 = "announcement" => v15 = {c} /\ c.purpose = v11 /\ c.id = v9
  <2>1. c \in E!Begun
    BY DEF E!Begun
  <2> QED BY <2>1 DEF FormsInv, E!FormsTyped, E!PurposesAreKept
<1>5. CASE E!Verified
  <2>1. PICK c \in v15 :
          /\ c.state = "verifies" /\ UNCHANGED <<v1, v2, v3, v5, v6, v9, v10, v11>>
          /\ \/ v15' = (v15 \ {c}) \cup {E!ReadLate(c)}
             \/ v15' = v15 \ {c} /\ UNCHANGED v12
    BY <1>5 DEF E!Verified, E!opened, E!written
  <2>2. v1 # "message"
    BY <1>4, <2>1
  <2>3. CASE v15' = v15 \ {c} /\ UNCHANGED v12
    <3>1. FormSame
      BY <2>1, <2>3 DEF FormSame
    <3> QED BY <3>1, FormsSame
  <2>4. CASE v15' = (v15 \ {c}) \cup {E!ReadLate(c)}
    <3> DEFINE d == E!ReadLate(c)
               text == IF v1 = "role" THEN v7 ELSE c.draft
               state == IF v9 = 0 THEN "refused" ELSE "sent"
    <3>1. d = [c EXCEPT !.id = v9, !.draft = text, !.state = state]
      BY DEF E!ReadLate
    <3> HIDE DEF d, text, state
    <3>2. c = [id |-> c.id, to |-> c.to, draft |-> c.draft, purpose |-> c.purpose,
               expected |-> c.expected, n |-> c.n, state |-> c.state]
      BY <1>4
    <3>3. d = [id |-> d.id, to |-> d.to, draft |-> d.draft, purpose |-> d.purpose,
               expected |-> d.expected, n |-> d.n, state |-> d.state]
      BY <3>1, <3>2
    <3>4. d.id = v9 /\ d.to = c.to /\ d.purpose = c.purpose /\ d.expected = c.expected /\ d.n = c.n
      BY <3>1, <3>2
    <3>5. /\ d = [id |-> d.id, to |-> c.to, draft |-> d.draft, purpose |-> c.purpose,
                  expected |-> c.expected, n |-> c.n, state |-> d.state]
          /\ d.id = v9
      BY <3>3, <3>4
    <3>6. v1 # "role" => v1 = "announcement"
      BY <2>2 DEF FormsInv, E!FormsTyped, E!Kinds
    <3>7. CallGoesOn(c, d)
      BY <1>4, <2>1, <2>2, <2>4, <3>5, <3>6 DEF CallGoesOn, d
    <3> QED BY <2>1, <3>7, FormsGoOn
  <2> QED BY <2>1, <2>3, <2>4
<1>6. CASE E!ServerActs
  <2>1. PICK c \in v15 :
          /\ c.state = "sent" /\ UNCHANGED <<v1, v5, v6, v9, v10, v11, v12>>
          /\ \/ E!Protected /\ ~v4 /\ E!At(c, "needsCode") /\ UNCHANGED <<v2, v3>>
             \/ E!At(c, "refused") /\ UNCHANGED <<v2, v3>>
             \/ E!At(c, "done") /\ E!Done(c) # {} /\ UNCHANGED <<v2, v3>>
             \/ /\ E!At(c, "done") /\ E!Done(c) = {} /\ ~E!Conflicts(c)
                /\ v2' = v2 \cup {[id |-> c.id, to |-> c.to, draft |-> c.draft, purpose |-> c.purpose]}
                /\ v3' = (IF v1 = "role" THEN [v3 EXCEPT ![c.to] = @ + 1] ELSE v3)
    BY <1>6 DEF E!ServerActs, E!opened, E!written
  <2>2. ASSUME NEW state, E!At(c, state), v1 = "message" => state \notin {"verifies", "needsCode"}
        PROVE  CallGoesOn(c, [c EXCEPT !.state = state]) /\ [c EXCEPT !.state = state].id = c.id
    <3> DEFINE d == [c EXCEPT !.state = state]
    <3>1. d = [id |-> c.id, to |-> c.to, draft |-> c.draft, purpose |-> c.purpose,
               expected |-> c.expected, n |-> c.n, state |-> state]
      BY <1>4
    <3>2. v15' = (v15 \ {c}) \cup {d}
      BY <2>2 DEF E!At
    <3> HIDE DEF d
    <3>3. CallGoesOn(c, d) /\ d.id = c.id
      BY <2>1, <2>2, <3>1, <3>2 DEF CallGoesOn
    <3> QED BY <3>3 DEF d
  <2>3. CASE E!Protected /\ E!At(c, "needsCode") /\ UNCHANGED <<v2, v3>>
    <3>1. v1 # "message"
      BY <2>3 DEF E!Protected
    <3> QED BY <2>2, <2>3, <3>1, FormsGoOn
  <2>4. CASE (E!At(c, "refused") \/ E!At(c, "done")) /\ UNCHANGED <<v2, v3>>
    BY <2>2, <2>4, FormsGoOn
  <2>5. CASE /\ E!At(c, "done") /\ E!Done(c) = {} /\ ~E!Conflicts(c)
             /\ v2' = v2 \cup {[id |-> c.id, to |-> c.to, draft |-> c.draft, purpose |-> c.purpose]}
             /\ v3' = (IF v1 = "role" THEN [v3 EXCEPT ![c.to] = @ + 1] ELSE v3)
    BY <2>2, <2>5, FormsDone
  <2> QED BY <2>1, <2>3, <2>4, <2>5
<1>7. CASE E!Published \/ E!MessageSent \/ E!RoleSaved
  <2>1. PICK c \in v15 : E!Answered(c) /\ (E!Empty \/ (v1 = "message" /\ UNCHANGED <<v7, v9, v11>>))
    BY <1>7 DEF E!Published, E!MessageSent, E!RoleSaved
  <2>2. UNCHANGED <<v1, v2, v3, v5, v6, v10, v12>> /\ v15' = v15 \ {c}
    BY <2>1 DEF E!Answered, E!server, E!opened
  <2>3. CASE E!Empty
    <3>1. FormEmptied
      BY <1>4, <2>2, <2>3 DEF FormEmptied, E!Empty, FormsInv, E!FormsTyped
    <3> QED BY <3>1, FormsEmptied
  <2>4. CASE UNCHANGED <<v7, v9, v11>>
    <3>1. FormSame
      BY <2>2, <2>4 DEF FormSame
    <3> QED BY <3>1, FormsSame
  <2> QED BY <2>1, <2>3, <2>4
<1>8. CASE E!NotAnswered
  <2>1. FormSame
    BY <1>4, <1>8 DEF FormSame, E!NotAnswered, E!server, E!opened, E!written
  <2> QED BY <2>1, FormsSame
<1>9. CASE UNCHANGED E!staffVars
  <2>1. FormSame
    BY <1>9 DEF FormSame, E!staffVars
  <2> QED BY <2>1, FormsSame
<1> QED BY <1>1, <1>2, <1>3, <1>5, <1>6, <1>7, <1>8, <1>9 DEF E!Next

-----------------------------------------------------------------------------
(* The staff console: v1 is login, v2 verified, v4 session, v5 context,    *)
(* v6 phase, v7 calls, v8 screen, v9 selected, v10 form, v12 decisions,    *)
(* v13 acted                                                               *)

DecisionsInv == C!DecidesAsConfirmed /\ C!ActsAsConfirmed

LEMMA DecisionsInit == C!Init => DecisionsInv
  BY DEF C!Init, DecisionsInv, C!DecidesAsConfirmed, C!ActsAsConfirmed, C!IsForm, C!NoForm, C!None

LEMMA DecisionsNext == DecisionsInv /\ [C!Next]_C!consoleVars => DecisionsInv'
<1> SUFFICES ASSUME DecisionsInv, [C!Next]_C!consoleVars PROVE DecisionsInv'
  OBVIOUS
<1>1. C!IsForm(v10)
  BY DEF DecisionsInv, C!DecidesAsConfirmed
\* The others touch neither forms nor decisions.
<1>2. ASSUME UNCHANGED <<v12, v13>>, v10' = v10 \/ C!IsForm(v10') PROVE DecisionsInv'
  BY <1>2, <1>1 DEF DecisionsInv, C!DecidesAsConfirmed, C!ActsAsConfirmed, C!IsForm
<1>3. CASE C!OpenForm
  <2>1. UNCHANGED <<v12, v13>>
    BY <1>3 DEF C!OpenForm, C!work
  <2>2. C!IsForm(v10')
    BY <1>3 DEF C!OpenForm, C!IsForm, C!voidForm, C!restrictionForm
  <2> QED BY <1>2, <2>1, <2>2
<1>4. CASE C!runProtected
  <2>1. PICK stage : v12' = v12 \cup {[confirmed |-> v10, done |-> v10, by |-> v1, stage |-> stage]}
    BY <1>4 DEF C!runProtected
  <2>2. v10' = v10 /\ v13' = v13
    BY <1>4 DEF C!runProtected, C!desk
  <2> QED BY <1>1, <2>1, <2>2 DEF DecisionsInv, C!DecidesAsConfirmed, C!ActsAsConfirmed, C!IsForm
<1>5. CASE C!Verified
  <2>1. PICK d \in v12 :
          /\ UNCHANGED v13 /\ v10' = v10
          /\ \/ v12' = (v12 \ {d}) \cup {[d EXCEPT !.stage = "call", !.done = C!ReadLate(@)]}
             \/ v12' = v12 \ {d}
    BY <1>5, Zenon DEF C!Verified, C!clear
  <2>2. /\ d = [confirmed |-> d.confirmed, done |-> d.done, by |-> d.by, stage |-> d.stage]
        /\ C!IsForm(d.done) /\ (d.done.kind \in {"void", "restrict"} => d.done = d.confirmed)
    BY <2>1 DEF DecisionsInv, C!DecidesAsConfirmed
  <2>3. [d EXCEPT !.stage = "call", !.done = C!ReadLate(@)]
          = [confirmed |-> d.confirmed, done |-> C!ReadLate(d.done), by |-> d.by, stage |-> "call"]
    <3> DEFINE late == C!ReadLate(d.done)
    <3>1. [d EXCEPT !.stage = "call", !.done = C!ReadLate(@)] = [d EXCEPT !.stage = "call", !.done = late]
      BY <2>2
    <3> HIDE DEF late
    <3>2. [d EXCEPT !.stage = "call", !.done = late]
            = [confirmed |-> d.confirmed, done |-> late, by |-> d.by, stage |-> "call"]
      <4>1. PICK confirmed, done, by, stage :
              d = [confirmed |-> confirmed, done |-> done, by |-> by, stage |-> stage]
        BY <2>2
      <4>2. PICK e : e = [d EXCEPT !.stage = "call", !.done = late]
        OBVIOUS
      <4>3. e = [confirmed |-> confirmed, done |-> late, by |-> by, stage |-> "call"]
        BY <4>1, <4>2
      <4> QED BY <4>1, <4>2, <4>3
    <3> QED BY <3>1, <3>2 DEF late
  <2>4. \A f : C!IsForm(f) => /\ C!IsForm(C!ReadLate(f))
                              /\ C!ReadLate(f).kind \in {"void", "restrict"} => C!ReadLate(f) = f
    <3> SUFFICES ASSUME NEW f, C!IsForm(f)
                 PROVE  /\ C!IsForm(C!ReadLate(f))
                        /\ C!ReadLate(f).kind \in {"void", "restrict"} => C!ReadLate(f) = f
      OBVIOUS
    <3>1. CASE f.kind = "rate" /\ v10.kind = "rate"
      <4>1. C!ReadLate(f) = [kind |-> "rate", item |-> v10.item, choice |-> f.choice]
        BY <3>1 DEF C!ReadLate, C!IsForm
      <4> QED BY <4>1 DEF C!IsForm
    <3>2. CASE f.kind = "role" /\ v10.kind = "role"
      <4>1. C!ReadLate(f) = [kind |-> "role", item |-> f.item, choice |-> v10.choice]
        BY <3>2 DEF C!ReadLate, C!IsForm
      <4> QED BY <4>1 DEF C!IsForm
    <3>3. CASE ~(f.kind = "rate" /\ v10.kind = "rate") /\ ~(f.kind = "role" /\ v10.kind = "role")
      BY <3>3 DEF C!ReadLate
    <3> QED BY <3>1, <3>2, <3>3
  <2>5. CASE v12' = (v12 \ {d}) \cup {[d EXCEPT !.stage = "call", !.done = C!ReadLate(@)]}
    <3> DEFINE late == C!ReadLate(d.done)
    <3>1. C!IsForm(late) /\ (late.kind \in {"void", "restrict"} => late = d.confirmed)
      BY <2>2, <2>4
    <3>2. v12' = (v12 \ {d}) \cup {[confirmed |-> d.confirmed, done |-> late, by |-> d.by, stage |-> "call"]}
      BY <2>3, <2>5
    <3> HIDE DEF late
    <3> QED BY <1>1, <2>1, <3>1, <3>2 DEF DecisionsInv, C!DecidesAsConfirmed, C!ActsAsConfirmed
  <2>6. CASE v12' = v12 \ {d}
    BY <2>1, <2>6 DEF DecisionsInv, C!DecidesAsConfirmed, C!ActsAsConfirmed
  <2> QED BY <2>1, <2>5, <2>6
<1>6. CASE C!CodeRefused
  BY <1>6 DEF C!CodeRefused, C!desk, DecisionsInv, C!DecidesAsConfirmed, C!ActsAsConfirmed
<1>7. CASE C!ServerActs
  <2>1. PICK d \in v12 : /\ v12' = v12 \ {d} /\ v10' = v10
                         /\ v13' = v13 \/ v13' = [confirmed |-> d.confirmed, done |-> d.done]
    BY <1>7 DEF C!ServerActs
  <2>2. d.done.kind \in {"void", "restrict"} => d.done = d.confirmed
    BY <2>1 DEF DecisionsInv, C!DecidesAsConfirmed
  <2> QED BY <2>1, <2>2 DEF DecisionsInv, C!DecidesAsConfirmed, C!ActsAsConfirmed
<1> USE <1>2 DEF C!work, C!desk, C!clear, C!fail, C!ClearsScreenOnly
<1>8. CASE \/ C!SessionChanges \/ C!AuthEvent \/ C!refresh \/ C!SessionRead \/ C!ContextRead \/ C!CheckFails
           \/ C!mfaVerify \/ C!TimePasses \/ C!recheck \/ C!Rechecked \/ C!SignOut \/ C!SignedOut
  BY <1>8 DEF C!SessionChanges, C!AuthEvent, C!refresh, C!SessionRead, C!ContextRead, C!CheckFails,
     C!mfaVerify, C!TimePasses, C!recheck, C!Rechecked, C!SignOut, C!SignedOut
<1>9. CASE \/ C!loadOverview \/ C!loadCustomers \/ C!loadContracts \/ C!loadEngine \/ C!loadFunding
           \/ C!loadAnnouncements \/ C!loadStaff \/ C!loadAudit \/ C!openCustomerDetail \/ C!openContract
           \/ C!closeDetail \/ C!Answered \/ C!ReadFails
  BY <1>9 DEF C!loadOverview, C!loadCustomers, C!loadContracts, C!loadEngine, C!loadFunding, C!loadAnnouncements,
     C!loadStaff, C!loadAudit, C!openCustomerDetail, C!openContract, C!closeDetail, C!Answered, C!ReadFails,
     C!Load, C!Reload, C!Open, C!Ask
<1>10. CASE UNCHANGED C!consoleVars
  BY <1>10 DEF C!consoleVars
<1> QED BY <1>3, <1>4, <1>5, <1>6, <1>7, <1>8, <1>9, <1>10 DEF C!Next

\* What the console shows is of the one it is open for.
ConsoleInv ==
    /\ C!CallsAreCalls /\ C!PanelsArePanels /\ C!ChecksWhileClosed /\ C!WantedByOwner /\ C!ShowsItsStaff

LEMMA ConsoleInit == C!Init => ConsoleInv
  BY DEF C!Init, ConsoleInv, C!CallsAreCalls, C!PanelsArePanels, C!ChecksWhileClosed, C!WantedByOwner,
     C!ShowsItsStaff, C!Nothing, C!Tabs, C!Cards, C!None

\* Of the calls left when access is dropped, none is wanted and none checks access.
LEMMA StaleCalls ==
    ASSUME NEW set, C!CallsAreCalls, set \subseteq v7, NEW c \in C!Stale(set)
    PROVE  /\ c = [kind |-> c.kind, stage |-> c.stage, item |-> c.item, by |-> c.by, wanted |-> c.wanted]
           /\ c.stage = "read" => c.kind \in C!Tabs \cup C!Cards
           /\ c.kind # "check" /\ ~c.wanted
<1>1. PICK d \in v7 : d.stage \in {"read", "leave"} /\ c = [d EXCEPT !.wanted = FALSE]
  BY DEF C!Stale
<1>2. /\ d = [kind |-> d.kind, stage |-> d.stage, item |-> d.item, by |-> d.by, wanted |-> d.wanted]
      /\ d.stage = "read" => d.kind \in C!Tabs \cup C!Cards
      /\ d.kind # "check"
  BY <1>1 DEF C!CallsAreCalls
<1>3. c = [kind |-> d.kind, stage |-> d.stage, item |-> d.item, by |-> d.by, wanted |-> FALSE]
  <2>1. PICK kind, stage, item, by, wanted :
          d = [kind |-> kind, stage |-> stage, item |-> item, by |-> by, wanted |-> wanted]
    BY <1>2
  <2>2. c = [kind |-> kind, stage |-> stage, item |-> item, by |-> by, wanted |-> FALSE]
    BY <1>1, <2>1
  <2> QED BY <2>1, <2>2
<1> QED BY <1>2, <1>3

\* Dropping the access leaves nothing on screen but the funding panel, and nobody's
\* answers wanted.
LEMMA AccessDropped ==
    ASSUME ConsoleInv, C!clear, v6' # "open",
           \A c \in v7' : \/ c \in C!Stale(v7)
                          \/ c = C!Check("session", C!None) /\ v6' = "checking"
                          \/ c = [C!Check("leave", C!None) EXCEPT !.kind = "signOut"]
    PROVE  ConsoleInv'
<1>1. /\ v5' = C!None /\ v9' = [p \in C!Cards |-> C!None]
      /\ v8' = [p \in C!Tabs \cup C!Cards |-> IF p = "funding" THEN v8[p] ELSE C!Nothing]
  BY DEF C!clear, C!Emptied
<1>2. ASSUME NEW c \in v7'
      PROVE  /\ c = [kind |-> c.kind, stage |-> c.stage, item |-> c.item, by |-> c.by, wanted |-> c.wanted]
             /\ c.stage = "read" => c.kind \in C!Tabs \cup C!Cards /\ ~c.wanted
             /\ c.kind = "check" => v6' = "checking" /\ c = C!Check("session", C!None) /\ c.stage = "session"
  <2>1. CASE c \in C!Stale(v7)
    BY <2>1, StaleCalls DEF ConsoleInv
  <2>2. CASE c = C!Check("session", C!None) /\ v6' = "checking"
    BY <2>2 DEF C!Check
  <2>3. CASE c = [C!Check("leave", C!None) EXCEPT !.kind = "signOut"]
    <3>1. c = [kind |-> "signOut", stage |-> "leave", item |-> C!None, by |-> C!None, wanted |-> TRUE]
      BY <2>3 DEF C!Check
    <3> QED BY <3>1
  <2> QED BY <1>2, <2>1, <2>2, <2>3
<1>3. C!CallsAreCalls' /\ C!ChecksWhileClosed' /\ C!WantedByOwner'
  BY <1>1, <1>2 DEF C!CallsAreCalls, C!ChecksWhileClosed, C!WantedByOwner
<1>4. C!PanelsArePanels' /\ C!ShowsItsStaff'
  BY <1>1 DEF C!PanelsArePanels, C!ShowsItsStaff, C!Cards
<1> QED BY <1>3, <1>4 DEF ConsoleInv

\* A panel is asked for by the one the console is open for, perhaps emptied first.
LEMMA PanelAsked ==
    ASSUME ConsoleInv, NEW panel \in C!Tabs \cup C!Cards, NEW item, v6 = "open", C!Ask(panel, item),
           \/ UNCHANGED <<v8, v9>>
           \/ v8' = [v8 EXCEPT ![panel] = C!Nothing] /\ panel # "customer" /\ UNCHANGED v9
           \/ v8' = [v8 EXCEPT ![panel] = C!Nothing] /\ panel \in C!Cards /\ \E i : v9' = [v9 EXCEPT ![panel] = i]
    PROVE  ConsoleInv'
<1> DEFINE call == [kind |-> panel, stage |-> "read", item |-> item, by |-> v5, wanted |-> TRUE]
<1>1. v7' = v7 \cup {call} /\ UNCHANGED <<v5, v6>> /\ v5 # C!None
  BY DEF C!Ask, C!page, ConsoleInv, C!ChecksWhileClosed
<1>2. C!CallsAreCalls' /\ C!ChecksWhileClosed' /\ C!WantedByOwner'
  <2>1. panel # "check"
    BY DEF C!Tabs, C!Cards
  <2> QED BY <1>1, <2>1 DEF ConsoleInv, C!CallsAreCalls, C!ChecksWhileClosed, C!WantedByOwner
<1>3. C!PanelsArePanels'
  BY DEF ConsoleInv, C!PanelsArePanels
<1>4. C!ShowsItsStaff'
  <2>1. /\ \A p \in C!Tabs \cup C!Cards : v8'[p] = v8[p] \/ v8'[p] = C!Nothing
        /\ v8'["customer"] # C!Nothing => v8'["customer"] = v8["customer"] /\ v9'["customer"] = v9["customer"]
        /\ DOMAIN v8' = C!Tabs \cup C!Cards /\ DOMAIN v8 = C!Tabs \cup C!Cards /\ "customer" \in C!Cards
    BY DEF ConsoleInv, C!PanelsArePanels, C!Cards
  <2> QED BY <1>1, <2>1 DEF ConsoleInv, C!ShowsItsStaff
<1> QED BY <1>2, <1>3, <1>4 DEF ConsoleInv

LEMMA ConsoleNext == ConsoleInv /\ [C!Next]_C!consoleVars => ConsoleInv'
<1> SUFFICES ASSUME ConsoleInv, [C!Next]_C!consoleVars PROVE ConsoleInv'
  OBVIOUS
\* Calls that end, with the page as it is.
<1>1. ASSUME v7' \subseteq v7, UNCHANGED <<v5, v6, v8, v9>> PROVE ConsoleInv'
  BY <1>1 DEF ConsoleInv, C!CallsAreCalls, C!PanelsArePanels, C!ChecksWhileClosed, C!WantedByOwner, C!ShowsItsStaff
<1> USE DEF C!page, C!desk
<1>2. CASE C!SessionChanges
  BY <1>1, <1>2 DEF C!SessionChanges
<1>3. CASE C!AuthEvent
  BY <1>1, <1>3, AccessDropped DEF C!AuthEvent
<1>4. CASE C!refresh
  BY <1>4, AccessDropped DEF C!refresh
<1>5. CASE C!SessionRead
  <2>1. PICK c \in v7 :
          /\ c.kind = "check" /\ UNCHANGED <<v5, v8, v9>>
          /\ \/ v7' = v7 \ {c} /\ v6' = "signedOut"
             \/ v7' = (v7 \ {c}) \cup {C!Check("context", v1)} /\ v6' = v6 /\ v1 # C!None
    BY <1>5 DEF C!SessionRead
  <2>2. /\ \A d \in v7 \ {c} : d.kind # "check"
        /\ v6 = "checking" /\ v5 = C!None
    BY <2>1 DEF ConsoleInv, C!ChecksWhileClosed
  <2>3. CASE v7' = v7 \ {c} /\ v6' = "signedOut"
    BY <2>1, <2>2, <2>3 DEF ConsoleInv, C!CallsAreCalls, C!PanelsArePanels, C!ChecksWhileClosed, C!WantedByOwner,
       C!ShowsItsStaff
  <2>4. CASE v7' = (v7 \ {c}) \cup {C!Check("context", v1)} /\ v6' = v6 /\ v1 # C!None
    <3> DEFINE call == [kind |-> "check", stage |-> "context", item |-> C!None, by |-> v1, wanted |-> TRUE]
    <3>1. v7' = (v7 \ {c}) \cup {call}
      BY <2>4 DEF C!Check
    <3>2. /\ call = [kind |-> call.kind, stage |-> call.stage, item |-> call.item, by |-> call.by, wanted |-> call.wanted]
          /\ call.kind = "check" /\ call.stage = "context" /\ call.by # C!None
      BY <2>4
    <3> HIDE DEF call
    <3>3. C!CallsAreCalls' /\ C!WantedByOwner'
      BY <2>1, <3>1, <3>2 DEF ConsoleInv, C!CallsAreCalls, C!WantedByOwner
    <3>4. C!ChecksWhileClosed'
      BY <2>1, <2>2, <2>4, <3>1, <3>2 DEF ConsoleInv, C!ChecksWhileClosed
    <3>5. C!PanelsArePanels' /\ C!ShowsItsStaff'
      BY <2>1 DEF ConsoleInv, C!PanelsArePanels, C!ShowsItsStaff
    <3> QED BY <3>3, <3>4, <3>5 DEF ConsoleInv
  <2> QED BY <2>1, <2>3, <2>4
<1>6. CASE C!ContextRead
  <2>1. PICK c \in v7 :
          /\ c.kind = "check" /\ c.stage = "context"
          /\ \/ C!fail
             \/ /\ v5' = IF v2 THEN c.by ELSE C!None
                /\ v6' = IF v2 THEN "open" ELSE "mfa"
                /\ v7' = v7 \ {c} /\ UNCHANGED <<v8, v9>>
    BY <1>6 DEF C!ContextRead
  <2>2. CASE C!fail
    BY <2>2, AccessDropped DEF C!fail
  <2>3. CASE /\ v5' = (IF v2 THEN c.by ELSE C!None)
             /\ v6' = (IF v2 THEN "open" ELSE "mfa")
             /\ v7' = v7 \ {c} /\ UNCHANGED <<v8, v9>>
    <3>1. /\ \A d \in v7 \ {c} : d.kind # "check"
          /\ v5 = C!None /\ c.by # C!None
      BY <2>1 DEF ConsoleInv, C!ChecksWhileClosed, C!CallsAreCalls
    <3>2. C!CallsAreCalls' /\ C!ChecksWhileClosed' /\ C!WantedByOwner'
      BY <2>3, <3>1 DEF ConsoleInv, C!ChecksWhileClosed, C!CallsAreCalls, C!WantedByOwner
    <3>3. C!PanelsArePanels' /\ C!ShowsItsStaff'
      BY <2>3, <3>1 DEF ConsoleInv, C!PanelsArePanels, C!ShowsItsStaff
    <3> QED BY <3>2, <3>3 DEF ConsoleInv
  <2> QED BY <2>1, <2>2, <2>3
<1>7. CASE C!CheckFails
  BY <1>7, AccessDropped DEF C!CheckFails, C!fail
<1>8. CASE C!mfaVerify
  BY <1>8, AccessDropped DEF C!mfaVerify
<1>9. CASE C!TimePasses
  BY <1>1, <1>9 DEF C!TimePasses
<1>10. CASE C!recheck
  <2>1. v7' = v7 \cup {[C!Check("recheck", v1) EXCEPT !.kind = "recheck"]} /\ UNCHANGED <<v5, v6, v8, v9>>
    BY <1>10 DEF C!recheck
  <2> DEFINE call == [kind |-> "recheck", stage |-> "recheck", item |-> C!None, by |-> v1, wanted |-> TRUE]
  <2>2. v7' = v7 \cup {call}
    <3>1. PICK c : c = [C!Check("recheck", v1) EXCEPT !.kind = "recheck"] /\ v7' = v7 \cup {c}
      BY <2>1
    <3>2. c = call
      BY <3>1 DEF C!Check
    <3> QED BY <3>1, <3>2
  <2>3. /\ call = [kind |-> call.kind, stage |-> call.stage, item |-> call.item, by |-> call.by, wanted |-> call.wanted]
        /\ call.kind = "recheck" /\ call.stage = "recheck"
    OBVIOUS
  <2> HIDE DEF call
  <2>4. C!CallsAreCalls' /\ C!ChecksWhileClosed' /\ C!WantedByOwner'
    BY <2>1, <2>2, <2>3 DEF ConsoleInv, C!CallsAreCalls, C!ChecksWhileClosed, C!WantedByOwner
  <2>5. C!PanelsArePanels' /\ C!ShowsItsStaff'
    BY <2>1 DEF ConsoleInv, C!PanelsArePanels, C!ShowsItsStaff
  <2> QED BY <2>4, <2>5 DEF ConsoleInv
<1>11. CASE C!Rechecked
  BY <1>1, <1>11, AccessDropped DEF C!Rechecked
<1>12. CASE C!SignOut
  BY <1>12, AccessDropped DEF C!SignOut
<1>13. CASE C!SignedOut
  <2>1. PICK c \in v7 : \/ C!clear /\ v6' = "due" /\ v7' = C!Stale(v7 \ {c})
                        \/ v7' = v7 \ {c} /\ UNCHANGED <<v5, v6, v8, v9>>
    BY <1>13 DEF C!SignedOut
  <2>2. C!Stale(v7 \ {c}) \subseteq C!Stale(v7)
    BY DEF C!Stale
  <2> QED BY <1>1, <2>1, <2>2, AccessDropped
<1>14. CASE \/ C!loadOverview \/ C!loadCustomers \/ C!loadContracts \/ C!loadEngine \/ C!loadFunding
            \/ C!loadAnnouncements \/ C!loadStaff \/ C!loadAudit
  <2>1. PICK tab \in C!Tabs : C!Load(tab) \/ C!Reload(tab)
    BY <1>14 DEF C!loadOverview, C!loadCustomers, C!loadContracts, C!loadEngine, C!loadFunding, C!loadAnnouncements,
       C!loadStaff, C!loadAudit, C!Tabs
  <2>2. tab # "customer"
    BY DEF C!Tabs
  <2> QED BY <2>1, <2>2, PanelAsked DEF C!Load, C!Reload, C!can
<1>15. CASE C!openCustomerDetail \/ C!openContract
  <2>1. PICK card \in C!Cards, tab \in C!Tabs : C!Open(card, tab)
    BY <1>15 DEF C!openCustomerDetail, C!openContract, C!Cards, C!Tabs
  <2>2. PICK i : v9' = [v9 EXCEPT ![card] = i] /\ C!Ask(card, i)
    BY <2>1 DEF C!Open
  <2> QED BY <2>1, <2>2, PanelAsked DEF C!Open, C!can
<1>16. CASE C!closeDetail
  <2>1. PICK card \in C!Cards : /\ v9' = [v9 EXCEPT ![card] = C!None]
                                /\ v8' = [v8 EXCEPT ![card] = C!Nothing] /\ UNCHANGED <<v5, v6, v7>>
    BY <1>16 DEF C!closeDetail
  <2>2. /\ \A p \in C!Tabs \cup C!Cards : v8'[p] = v8[p] \/ v8'[p] = C!Nothing
        /\ v8'["customer"] # C!Nothing => v8'["customer"] = v8["customer"] /\ v9'["customer"] = v9["customer"]
        /\ DOMAIN v8' = C!Tabs \cup C!Cards /\ DOMAIN v8 = C!Tabs \cup C!Cards /\ "customer" \in C!Cards
    BY <2>1 DEF ConsoleInv, C!PanelsArePanels, C!Cards
  <2>3. C!ShowsItsStaff'
    BY <2>1, <2>2 DEF ConsoleInv, C!ShowsItsStaff
  <2>4. C!PanelsArePanels'
    BY <2>1 DEF ConsoleInv, C!PanelsArePanels
  <2> QED BY <2>1, <2>3, <2>4 DEF ConsoleInv, C!CallsAreCalls, C!ChecksWhileClosed, C!WantedByOwner
<1>17. CASE C!Answered
  <2>1. PICK c \in v7 :
          /\ c.stage = "read" /\ v7' = v7 \ {c} /\ UNCHANGED <<v5, v6, v9>>
          /\ v8' = IF C!Wanted(c) THEN [v8 EXCEPT ![c.kind] = [item |-> c.item, by |-> c.by]] ELSE v8
    BY <1>17 DEF C!Answered
  <2>2. CASE ~C!Wanted(c)
    BY <1>1, <2>1, <2>2
  <2>3. CASE C!Wanted(c)
    <3> DEFINE shown == [item |-> c.item, by |-> c.by]
    <3>1. shown.by = v5 /\ v5 # C!None /\ shown.item = c.item /\ (c.kind = "customer" => shown.item = v9["customer"])
      BY <2>1, <2>3 DEF ConsoleInv, C!WantedByOwner, C!Wanted, C!Current
    <3>2. v8' = [v8 EXCEPT ![c.kind] = shown] /\ c.kind \in C!Tabs \cup C!Cards
      BY <2>1, <2>3 DEF ConsoleInv, C!CallsAreCalls
    <3> HIDE DEF shown
    <3>3. /\ \A p \in C!Tabs \cup C!Cards : v8'[p] = IF p = c.kind THEN shown ELSE v8[p]
          /\ DOMAIN v8' = C!Tabs \cup C!Cards /\ DOMAIN v8 = C!Tabs \cup C!Cards /\ "customer" \in C!Tabs \cup C!Cards
      BY <3>2 DEF ConsoleInv, C!PanelsArePanels, C!Cards
    <3>4. C!ShowsItsStaff'
      BY <2>1, <3>1, <3>3 DEF ConsoleInv, C!ShowsItsStaff
    <3>5. C!PanelsArePanels'
      BY <2>1, <3>2 DEF ConsoleInv, C!PanelsArePanels
    <3> QED BY <2>1, <3>4, <3>5 DEF ConsoleInv, C!CallsAreCalls, C!ChecksWhileClosed, C!WantedByOwner
  <2> QED BY <2>2, <2>3
<1>18. CASE C!ReadFails
  BY <1>1, <1>18, AccessDropped DEF C!ReadFails, C!fail
<1>19. CASE C!OpenForm \/ C!runProtected \/ C!CodeRefused \/ C!ServerActs
  BY <1>1, <1>19 DEF C!OpenForm, C!runProtected, C!CodeRefused, C!ServerActs
<1>20. CASE C!Verified
  BY <1>1, <1>20, AccessDropped DEF C!Verified
<1>21. CASE UNCHANGED C!consoleVars
  BY <1>1, <1>21 DEF C!consoleVars
<1> QED BY <1>2, <1>3, <1>4, <1>5, <1>6, <1>7, <1>8, <1>9, <1>10, <1>11, <1>12, <1>13, <1>14, <1>15, <1>16, <1>17,
           <1>18, <1>19, <1>20, <1>21 DEF C!Next
=============================================================================
