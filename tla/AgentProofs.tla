----------------------------- MODULE AgentProofs -----------------------------
(* What the components of MCAgent promise, for any number of callers,       *)
(* subagents, instances, machines, jobs and programs: for each component    *)
(* its inductive invariant and the steps that keep it, and at the end the   *)
(* specification.                                                           *)
EXTENDS MCAgent, FiniteSetTheorems, SequenceTheorems, FunctionTheorems,
        NaturalsInduction, WellFoundedInduction, TLAPS

-----------------------------------------------------------------------------
(* What is said in the chat.                                               *)

Sends == {"send", "record", "remember"}
Touches == {"edit", "set", "delete", "find", "forget"}
Forgets == {"find", "forget"}

\* The types, one part of the state after another.
SayEntries == Seq([text : Texts \cup Edits, ids : SUBSET Nat])
SayChat ==
    chat \in Seq([text : Texts \cup Edits, part : Nat, keyed : BOOLEAN]) /\ Len(chat) <= MaxShown
SayReplies ==
    /\ replies \in [Texts -> Seq(Nat)]
    /\ \A t \in Texts : replies[t] = NoReply \/ ToSet(replies[t]) \subseteq 1..Len(chat)
SayCallers ==
    /\ at \in [Callers -> {"idle"} \cup Sends \cup Touches]
    /\ text \in [Callers -> Texts \cup Edits \cup {NoText}]
    /\ target \in [Callers -> 0..MaxShown]
    /\ plain \in [Callers -> BOOLEAN]
    /\ sent \in [Callers -> Seq(Nat)]
    /\ tries \in [Callers -> 0..Attempts]
    /\ found \in [Callers -> [row : Nat, ids : SUBSET Nat]]
SayNoted == overlaps \in Nat /\ raced \subseteq 1..MaxShown /\ troubles \in 0..MaxTroubles

\* What a caller has where it is.
SayPlace(k) ==
    /\ at[k] \in Sends => text[k] \in Texts
    /\ at[k] \notin Sends => sent[k] = <<>>
    /\ ToSet(sent[k]) \subseteq 1..Len(chat)
    /\ at[k] \in Touches => target[k] \in 1..Len(chat)
    /\ at[k] \notin Touches => target[k] = 0
    /\ at[k] \in {"edit", "set"} => text[k] \in Edits
    /\ at[k] = "forget" => found[k].row \in 1..Len(rows) /\ target[k] \in found[k].ids
    /\ at[k] # "forget" => found[k] = NotFound
    /\ at[k] = "record" => Len(sent[k]) \in {Parts[text[k]].media, Parts[text[k]].document}

SayTypes ==
    /\ SayChat /\ rows \in SayEntries /\ SayReplies /\ SayCallers /\ SayNoted
    /\ \A k \in Callers : SayPlace(k)

\* Messages that a caller has sent and not recorded; messages that a row has or is
\* to have when what was read of it is written.
Sending(k) == at[k] \in {"send", "record"}
Held(m) == \E k \in Callers : Sending(k) /\ m \in ToSet(sent[k])
Has(i, m) ==
    \/ m \in rows[i].ids
    \/ \E k \in Callers : at[k] = "forget" /\ found[k].row = i /\ m \in found[k].ids

\* A message is of one caller or of one row.
SayApart ==
    /\ \A i \in 1..Len(rows) : \A m : Has(i, m) => m \in 1..Len(chat) /\ ~Held(m)
    /\ \A i, j \in 1..Len(rows) : \A m : Has(i, m) /\ Has(j, m) => i = j
    /\ \A k, l \in Callers : Sending(k) /\ Sending(l) /\ k # l =>
           ToSet(sent[k]) \cap ToSet(sent[l]) = {}

\* What a caller has sent is there and nobody else is at it, or they met.
SaySent ==
    \A k \in Callers : Sending(k) => \A m \in ToSet(sent[k]) \ raced :
        /\ chat[m].part # 0 /\ chat[m].text = text[k]
        /\ \A l \in Callers : target[l] # m

\* The rest holds while nothing has failed.  A message is alive while it is shown,
\* or somebody is to forget it; a caller works while its message is alive for it.
Alive(m) == chat[m].part # 0 \/ \E k \in Callers : at[k] \in Forgets /\ target[k] = m
Works(k) ==
    at[k] \in Forgets \/ (at[k] \in {"edit", "set", "delete"} /\ chat[target[k]].part # 0)

\* What is alive is in a row, and in what was read of it;
SayHome ==
    \A m \in 1..Len(chat) : ~Held(m) /\ Alive(m) =>
        \E i \in 1..Len(rows) :
            /\ m \in rows[i].ids
            /\ \A l \in Callers : at[l] = "forget" /\ found[l].row = i => m \in found[l].ids

\* ... a message is forgotten by the one that deleted it;
SayAlone ==
    \A k, l \in Callers : at[k] \in Forgets =>
        chat[target[k]].part = 0 /\ (at[l] \in Forgets /\ k # l => target[k] # target[l])

\* ... and what is not alive is in no row, unless callers met.
SayLeft ==
    \A m \in (1..Len(chat)) \ raced : ~Held(m) /\ ~Alive(m) => \A i \in 1..Len(rows) : ~Has(i, m)

\* Two that work on messages of a row have met.
SayMet ==
    \A k, l \in Callers :
        /\ k # l /\ Works(k) /\ Works(l)
        /\ target[k] = target[l] \/ \E i \in 1..Len(rows) : {target[k], target[l]} \subseteq rows[i].ids
        => {target[k], target[l]} \subseteq raced

\* An edit that the row is to follow is what the chat shows; a row of one message
\* has its text, and one of more has that of many.
SayWritten ==
    \A k \in Callers : at[k] = "set" /\ target[k] \notin raced => chat[target[k]] = Edited(k)
Single(t) == t \in Texts => Parts[t].media = 1
SayTexts ==
    \A i \in 1..Len(rows) : \A m \in rows[i].ids \ raced :
        (\A k \in Callers : at[k] = "set" => target[k] # m) /\ Single(rows[i].text) =>
            rows[i].text = chat[m].text
SayMany ==
    \A i \in 1..Len(rows) : \A m \in rows[i].ids \ raced :
        rows[i].ids # {m} => ~Single(rows[i].text)

SayQuiet == SayHome /\ SayAlone /\ SayLeft /\ SayMet /\ SayWritten /\ SayTexts /\ SayMany

\* Callers that are to say a text for the first time; and who is at it.
Saying(t) == {k \in Callers : at[k] = "send" /\ text[k] = t /\ sent[k] = <<>>}
SayOnce ==
    \A t \in Texts :
        /\ Copies(t) + Cardinality(Saying(t)) <= 1 + overlaps + troubles
        /\ replies[t] = NoReply /\ (\A k \in Callers : at[k] \in Sends => text[k] # t) =>
               Copies(t) <= overlaps + troubles

SayInv == SayTypes /\ SayApart /\ SaySent /\ (troubles = 0 => SayQuiet) /\ SayOnce

\* The members of a sequence.
LEMMA SaySets ==
    ASSUME NEW s \in Seq(Nat)
    PROVE /\ ToSet(s) \subseteq Nat
          /\ \A m : m \in ToSet(s) <=> \E j \in 1..Len(s) : s[j] = m
          /\ Len(s) = 0 <=> s = <<>>
          /\ Len(s) \in Nat
          /\ \A n \in Nat : Append(s, n) \in Seq(Nat) /\ ToSet(Append(s, n)) = ToSet(s) \cup {n}
                            /\ Len(Append(s, n)) = Len(s) + 1
<1>1. DOMAIN s = 1..Len(s) /\ Len(s) \in Nat /\ \A j \in 1..Len(s) : s[j] \in Nat
  BY LenProperties, ElementOfSeq
<1>2. ASSUME NEW n \in Nat
      PROVE Append(s, n) \in Seq(Nat) /\ ToSet(Append(s, n)) = ToSet(s) \cup {n} /\ Len(Append(s, n)) = Len(s) + 1
  <2>1. /\ Append(s, n) \in Seq(Nat) /\ Len(Append(s, n)) = Len(s) + 1
        /\ \A j \in 1..Len(s) : Append(s, n)[j] = s[j]
        /\ Append(s, n)[Len(s) + 1] = n
    BY AppendProperties
  <2>2. DOMAIN Append(s, n) = 1..(Len(s) + 1)
    BY <2>1, LenProperties
  <2>3. ToSet(Append(s, n)) \subseteq ToSet(s) \cup {n}
    BY <1>1, <2>1, <2>2 DEF ToSet
  <2>4. ToSet(s) \cup {n} \subseteq ToSet(Append(s, n))
    BY <1>1, <2>1, <2>2 DEF ToSet
  <2>5. QED
    BY <2>1, <2>3, <2>4
<1>3. Len(s) = 0 <=> s = <<>>
  BY EmptySeq
<1>4. QED
  BY <1>1, <1>2, <1>3 DEF ToSet

\* A sequence is its function.
LEMMA SaySeqs ==
    ASSUME NEW S, NEW n \in Nat, NEW f \in [1..n -> S]
    PROVE f \in Seq(S) /\ Len(f) = n
<1>1. f \in Seq(S)
  BY SeqDef
<1>2. QED
  BY <1>1, LenProperties

\* Nothing is in none.
LEMMA SayNone == ToSet(<<>>) = {} /\ <<>> \in Seq(Nat) /\ Len(<<>>) = 0
BY EmptySeq DEF ToSet

\* Only one caller moves.
SayMoves(k, p, t, g, s, f) ==
    /\ at'[k] = p /\ text'[k] = t /\ target'[k] = g /\ sent'[k] = s /\ found'[k] = f
    /\ \A l \in Callers \ {k} :
           /\ at'[l] = at[l] /\ text'[l] = text[l] /\ target'[l] = target[l]
           /\ sent'[l] = sent[l] /\ found'[l] = found[l]

\* It ends.
LEMMA SayEnds ==
    ASSUME SayCallers, NEW k \in Callers, End(k)
    PROVE SayCallers' /\ SayMoves(k, "idle", NoText, 0, <<>>, NotFound)
<1>1. SayMoves(k, "idle", NoText, 0, <<>>, NotFound)
  BY DEF SayCallers, End, Goto, SayMoves
<1>2. at' \in [Callers -> {"idle"} \cup Sends \cup Touches] /\ text' \in [Callers -> Texts \cup Edits \cup {NoText}]
  BY DEF SayCallers, End, Goto
<1>3. target' \in [Callers -> 0..MaxShown] /\ plain' \in [Callers -> BOOLEAN] /\ tries' \in [Callers -> 0..Attempts]
  BY SenderAssumption DEF SayCallers, End
<1>4. sent' \in [Callers -> Seq(Nat)] /\ found' \in [Callers -> [row : Nat, ids : SUBSET Nat]]
  BY SayNone DEF SayCallers, End, NotFound
<1>5. QED
  BY <1>1, <1>2, <1>3, <1>4 DEF SayCallers

\* A call begins.
LEMMA SayBeginsMove ==
    ASSUME SayCallers, NEW k \in Callers, NEW t \in Texts, Begin(k, t)
    PROVE SayCallers' /\ SayMoves(k, "send", t, target[k], sent[k], found[k])
BY DEF SayCallers, Begin, Goto, SayMoves, Sends

\* A part is sent.
LEMMA SayPartMoves ==
    ASSUME SayCallers, SayChat, NEW k \in Callers, SendPart(k)
    PROVE /\ SayCallers'
          /\ SayMoves(k, IF Len(sent[k]) + 1 = Wanted(k) THEN "record" ELSE "send", text[k], target[k],
                      Append(sent[k], Len(chat) + 1), found[k])
          /\ Len(chat') = Len(chat) + 1
<1>1. chat' = Append(chat, Message(text[k], Len(sent[k]) + 1, TRUE)) /\ Len(chat') = Len(chat) + 1
  BY AppendProperties DEF SendPart, Appears, SayChat
<1>2. sent' = [sent EXCEPT ![k] = Append(sent[k], Len(chat) + 1)] /\ Len(chat) + 1 \in Nat
  BY <1>1 DEF SendPart, SayChat
<1>3. sent[k] \in Seq(Nat) /\ Append(sent[k], Len(chat) + 1) \in Seq(Nat)
      /\ Len(Append(sent[k], Len(chat) + 1)) = Len(sent[k]) + 1
  BY <1>2, SaySets DEF SayCallers
<1>4. sent'[k] = Append(sent[k], Len(chat) + 1) /\ sent' \in [Callers -> Seq(Nat)]
  BY <1>2, <1>3 DEF SayCallers
<1>5. PICK p : p = (IF Len(sent[k]) + 1 = Wanted(k) THEN "record" ELSE "send")
  OBVIOUS
<1>6. at' = [at EXCEPT ![k] = p] /\ p \in Sends
  BY <1>3, <1>4, <1>5 DEF SendPart, Goto, Sends
<1>7. SayMoves(k, p, text[k], target[k], Append(sent[k], Len(chat) + 1), found[k])
  BY <1>2, <1>4, <1>6 DEF SendPart, SayMoves, SayCallers
<1>8. SayCallers'
  BY <1>4, <1>6, SenderAssumption DEF SendPart, SayCallers
<1>9. QED
  BY <1>1, <1>5, <1>7, <1>8

\* A request without a key is made.
LEMMA SayPostMoves ==
    ASSUME SayCallers, SayChat, NEW k \in Callers, NEW t \in Texts, Posts(k, t)
    PROVE LET n == Parts[t].media
              s == [i \in 1..n |-> Len(chat) + i]
          IN /\ SayCallers'
             /\ SayMoves(k, "record", t, target[k], s, found[k])
             /\ n \in Nat /\ Len(s) = n /\ ToSet(s) = (Len(chat) + 1)..(Len(chat) + n)
             /\ SayChat' /\ Len(chat') = Len(chat) + n
             /\ \A m \in 1..Len(chat) : chat'[m] = chat[m]
             /\ \A i \in 1..n : chat'[Len(chat) + i] = Message(t, i, FALSE)
<1> DEFINE n == Parts[t].media
           s == [i \in 1..n |-> Len(chat) + i]
           c == [i \in 1..n |-> Message(t, i, FALSE)]
           E == [text : Texts \cup Edits, part : Nat, keyed : BOOLEAN]
<1>1. n \in Nat /\ Len(chat) \in Nat /\ Len(chat) + n <= MaxShown
  BY SenderAssumption DEF SayChat, Posts
<1>2. DOMAIN s = 1..n /\ \A i \in 1..n : s[i] = Len(chat) + i /\ s[i] \in Nat
  BY <1>1
<1>3. s \in Seq(Nat) /\ Len(s) = n
  <2>1. s \in [1..n -> Nat]
    BY <1>1
  <2>2. s \in Seq(Nat)
    BY <1>1, <2>1, SeqDef
  <2>3. QED
    BY <1>1, <1>2, <2>2, LenProperties
<1>4. ToSet(s) = (Len(chat) + 1)..(Len(chat) + n)
  <2>1. ASSUME NEW m \in (Len(chat) + 1)..(Len(chat) + n) PROVE m \in ToSet(s)
    <3>1. m - Len(chat) \in 1..n /\ s[m - Len(chat)] = m
      BY <1>1, <1>2
    <3>2. QED
      BY <1>2, <3>1 DEF ToSet
  <2>2. ASSUME NEW m \in ToSet(s) PROVE m \in (Len(chat) + 1)..(Len(chat) + n)
    <3>1. PICK i \in 1..n : s[i] = m
      BY <1>2 DEF ToSet
    <3>2. m = Len(chat) + i
      BY <1>2, <3>1
    <3>3. QED
      BY <1>1, <3>2
  <2>3. QED
    BY <2>1, <2>2
<1>5. c \in Seq(E) /\ Len(c) = n /\ \A i \in 1..n : c[i] = Message(t, i, FALSE)
  <2>1. \A i \in 1..n : Message(t, i, FALSE) \in E
    BY <1>1 DEF Message
  <2>2. c \in [1..n -> E]
    BY <2>1
  <2>3. \A i \in 1..n : c[i] = Message(t, i, FALSE)
    OBVIOUS
  <2> HIDE DEF c, n
  <2>4. c \in Seq(E) /\ Len(c) = n
    BY Zenon, <1>1, <2>2, SaySeqs
  <2>5. QED
    BY <2>3, <2>4
<1>6. chat' = chat \o c
  BY DEF Posts, n
<1> HIDE DEF c, E, n
<1>7. chat' \in Seq(E) /\ Len(chat') = Len(chat) + n
      /\ (\A m \in 1..Len(chat) : chat'[m] = chat[m]) /\ \A i \in 1..n : chat'[Len(chat) + i] = c[i]
  <2>1. chat \in Seq(E)
    BY DEF SayChat, E
  <2>2. \A m \in 1..Len(chat') : chat'[m] = IF m <= Len(chat) THEN chat[m] ELSE c[m - Len(chat)]
    BY <1>5, <1>6, <2>1, ConcatProperties
  <2>3. chat' \in Seq(E) /\ Len(chat') = Len(chat) + n
    BY <1>5, <1>6, <2>1, ConcatProperties
  <2>4. \A m \in 1..(Len(chat) + n) : chat'[m] = IF m <= Len(chat) THEN chat[m] ELSE c[m - Len(chat)]
    BY <2>2, <2>3
  <2>5. ASSUME NEW i \in 1..n PROVE chat'[Len(chat) + i] = c[i]
    <3>1. Len(chat) + i \in 1..(Len(chat) + n) /\ ~(Len(chat) + i <= Len(chat)) /\ Len(chat) + i - Len(chat) = i
      BY <1>1
    <3>2. chat'[Len(chat) + i] = c[Len(chat) + i - Len(chat)]
      BY <2>4, <3>1
    <3>3. QED
      BY <3>1, <3>2
  <2>6. ASSUME NEW m \in 1..Len(chat) PROVE chat'[m] = chat[m]
    BY <1>1, <2>4
  <2>7. QED
    BY <2>3, <2>5, <2>6
<1>8. SayChat'
  BY <1>1, <1>7 DEF SayChat, E
<1>9. sent' = [sent EXCEPT ![k] = s] /\ at' = [at EXCEPT ![k] = "record"] /\ text' = [text EXCEPT ![k] = t]
      /\ UNCHANGED <<target, plain, tries, found>>
  BY DEF Posts, Goto, n
<1> HIDE DEF s
<1>10. SayCallers'
  BY <1>3, <1>9 DEF SayCallers, Sends
<1>11. SayMoves(k, "record", t, target[k], s, found[k])
  BY <1>9 DEF SayMoves, SayCallers
<1>12. QED
  BY <1>1, <1>3, <1>4, <1>5, <1>7, <1>8, <1>10, <1>11 DEF s, n

\* The others are where they were.
LEMMA SayStays ==
    ASSUME SayTypes, SayCallers', SayChat', rows' \in SayEntries, SayReplies', SayNoted',
           Len(chat') >= Len(chat), Len(rows') >= Len(rows),
           NEW k \in Callers, NEW p, NEW t, NEW g, NEW s, NEW f, SayMoves(k, p, t, g, s, f), SayPlace(k)'
    PROVE SayTypes'
<1>1. ASSUME NEW l \in Callers, l # k PROVE SayPlace(l)'
  <2>1. at'[l] = at[l] /\ text'[l] = text[l] /\ target'[l] = target[l] /\ sent'[l] = sent[l] /\ found'[l] = found[l]
    BY <1>1 DEF SayMoves
  <2>2. SayPlace(l)
    BY DEF SayTypes
  <2>3. Len(chat) \in Nat /\ Len(chat') \in Nat /\ Len(rows) \in Nat /\ Len(rows') \in Nat
    BY LenProperties DEF SayTypes, SayChat, SayEntries
  <2>4. ToSet(sent[l]) \subseteq 1..Len(chat') /\ (target[l] \in 1..Len(chat) => target[l] \in 1..Len(chat'))
        /\ (found[l].row \in 1..Len(rows) => found[l].row \in 1..Len(rows'))
    BY <2>2, <2>3 DEF SayPlace
  <2>5. QED
    BY <2>1, <2>2, <2>4 DEF SayPlace
<1>2. QED
  BY <1>1 DEF SayTypes

\* Answers are of messages that are there.
LEMMA SayLonger ==
    ASSUME SayReplies, SayChat, SayChat', Len(chat') >= Len(chat), UNCHANGED replies
    PROVE SayReplies'
<1>1. Len(chat) \in Nat /\ Len(chat') \in Nat
  BY LenProperties DEF SayChat
<1>2. QED
  BY <1>1 DEF SayReplies

\* A caller that ends has nothing.
LEMMA SayIdle ==
    ASSUME SayTypes, NEW k \in Callers, End(k), SayChat', SayReplies', SayNoted', rows' \in SayEntries,
           Len(chat') >= Len(chat), Len(rows') >= Len(rows)
    PROVE SayTypes'
<1>1. SayCallers' /\ SayMoves(k, "idle", NoText, 0, <<>>, NotFound)
  BY SayEnds DEF SayTypes
<1>2. SayPlace(k)'
  BY <1>1, SayNone DEF SayMoves, SayPlace, Sends, Touches
<1>3. QED
  BY <1>1, <1>2, SayStays

\* A message of the chat is changed.
LEMMA SayChanges ==
    ASSUME SayChat, NEW m \in 1..Len(chat), NEW e \in [text : Texts \cup Edits, part : Nat, keyed : BOOLEAN],
           chat' = [chat EXCEPT ![m] = e]
    PROVE /\ SayChat' /\ Len(chat') = Len(chat) /\ chat'[m] = e
          /\ \A i \in 1..Len(chat) : i # m => chat'[i] = chat[i]
<1> DEFINE E == [text : Texts \cup Edits, part : Nat, keyed : BOOLEAN]
<1>1. chat \in Seq(E) /\ Len(chat) <= MaxShown
  BY DEF SayChat
<1>2. chat \in [1..Len(chat) -> E] /\ Len(chat) \in Nat
  BY <1>1, LenProperties, ElementOfSeq
<1> HIDE DEF E
<1>3. e \in E
  BY DEF E
<1>4. chat' \in [1..Len(chat) -> E] /\ chat'[m] = e /\ \A i \in 1..Len(chat) : i # m => chat'[i] = chat[i]
  BY <1>2, <1>3
<1>5. chat' \in Seq(E) /\ Len(chat') = Len(chat)
  BY Zenon, <1>2, <1>4, SaySeqs
<1>6. QED
  BY <1>1, <1>4, <1>5 DEF SayChat, E

\* A message of a caller is one of the chat.
LEMMA SayEntry ==
    ASSUME SayChat, NEW m \in 1..Len(chat)
    PROVE chat[m].text \in Texts \cup Edits /\ chat[m].part \in Nat /\ chat[m].keyed \in BOOLEAN
          /\ chat[m] = [text |-> chat[m].text, part |-> chat[m].part, keyed |-> chat[m].keyed]
          /\ [chat[m] EXCEPT !.part = 0] = [text |-> chat[m].text, part |-> 0, keyed |-> chat[m].keyed]
<1>1. chat[m] \in [text : Texts \cup Edits, part : Nat, keyed : BOOLEAN]
  BY ElementOfSeq DEF SayChat
<1>2. QED
  BY <1>1

\* A call with a key begins.
LEMMA SayTypeBegins ==
    ASSUME SayTypes, NEW k \in Callers, NEW t \in Texts, Begin(k, t)
    PROVE SayTypes'
<1>1. SayCallers' /\ SayMoves(k, "send", t, target[k], sent[k], found[k]) /\ at[k] = "idle"
  BY SayBeginsMove DEF SayTypes, Begin
<1>2. SayNoted'
  BY DEF SayTypes, SayNoted, Begin
<1>3. SayPlace(k)
  BY DEF SayTypes
<1>4. SayPlace(k)'
  BY <1>1, <1>3 DEF SayMoves, SayPlace, Begin, chatVars, Sends, Touches
<1>5. SayChat' /\ rows' \in SayEntries /\ SayReplies' /\ UNCHANGED <<chat, rows>>
  BY DEF SayTypes, Begin, chatVars, SayChat, SayReplies
<1>6. Len(chat) \in Nat /\ Len(rows) \in Nat
  BY LenProperties DEF SayTypes, SayChat, SayEntries
<1>7. QED
  BY <1>1, <1>2, <1>4, <1>5, <1>6, SayStays

\* A message more.
LEMMA SayAppears ==
    ASSUME SayTypes, NEW k \in Callers, at[k] = "send", Appears(k)
    PROVE SayChat' /\ Len(chat') = Len(chat) + 1 /\ Len(chat) \in Nat
          /\ (\A m \in 1..Len(chat) : chat'[m] = chat[m])
          /\ chat'[Len(chat) + 1] = Message(text[k], Len(sent[k]) + 1, TRUE)
<1>1. text[k] \in Texts /\ Len(sent[k]) + 1 \in Nat
  BY SaySets DEF SayTypes, SayPlace, SayCallers, Sends
<1>2. Message(text[k], Len(sent[k]) + 1, TRUE) \in [text : Texts \cup Edits, part : Nat, keyed : BOOLEAN]
  BY <1>1 DEF Message
<1>3. chat' = Append(chat, Message(text[k], Len(sent[k]) + 1, TRUE)) /\ Len(chat) < MaxShown /\ Len(chat) \in Nat
  BY LenProperties DEF SayTypes, SayChat, Appears
<1> DEFINE E == [text : Texts \cup Edits, part : Nat, keyed : BOOLEAN]
           e == Message(text[k], Len(sent[k]) + 1, TRUE)
<1>4. e \in E /\ chat \in Seq(E) /\ chat' = Append(chat, e)
  BY <1>2, <1>3 DEF SayTypes, SayChat
<1> HIDE DEF E, e
<1>5. chat' \in Seq(E) /\ Len(chat') = Len(chat) + 1 /\ (\A m \in 1..Len(chat) : chat'[m] = chat[m])
      /\ chat'[Len(chat) + 1] = e
  <2>1. PICK c : c = chat
    OBVIOUS
  <2>2. /\ c \in Seq(E) /\ Append(c, e) \in Seq(E) /\ Len(Append(c, e)) = Len(c) + 1
        /\ (\A m \in 1..Len(c) : Append(c, e)[m] = c[m]) /\ Append(c, e)[Len(c) + 1] = e
    BY <1>4, <2>1, AppendProperties
  <2>3. chat' = Append(c, e)
    BY <1>4, <2>1
  <2>4. QED
    BY <2>1, <2>2, <2>3
<1>6. Len(chat') <= MaxShown
  BY <1>3, <1>5, SenderAssumption
<1>7. QED
  BY <1>3, <1>5, <1>6 DEF SayChat, E, e

\* A part is sent.
LEMMA SayTypeParts ==
    ASSUME SayTypes, NEW k \in Callers, SendPart(k)
    PROVE SayTypes'
<1>1. SayChat' /\ Len(chat') = Len(chat) + 1 /\ Len(chat) \in Nat
  BY SayAppears DEF SendPart
<1>2. PICK p : p = (IF Len(sent[k]) + 1 = Wanted(k) THEN "record" ELSE "send")
  OBVIOUS
<1>3. SayCallers' /\ SayMoves(k, p, text[k], target[k], Append(sent[k], Len(chat) + 1), found[k])
  BY <1>2, SayPartMoves DEF SayTypes
<1>4. /\ ToSet(Append(sent[k], Len(chat) + 1)) = ToSet(sent[k]) \cup {Len(chat) + 1}
      /\ Len(Append(sent[k], Len(chat) + 1)) = Len(sent[k]) + 1
  BY <1>1, SaySets DEF SayTypes, SayCallers
<1>5. SayPlace(k) /\ at[k] = "send"
  BY DEF SayTypes, SendPart
<1>6. p = "record" => Len(sent[k]) + 1 \in {Parts[text[k]].media, Parts[text[k]].document}
  BY <1>2 DEF Wanted
<1>7. p \in {"send", "record"}
  BY <1>2
<1>8. SayPlace(k)'
  BY <1>1, <1>3, <1>4, <1>5, <1>6, <1>7 DEF SayMoves, SayPlace, Sends, Touches
<1>9. rows' = rows /\ SayNoted' /\ rows \in SayEntries /\ UNCHANGED replies /\ Len(rows) \in Nat
  BY LenProperties DEF SendPart, SayTypes, SayNoted, noted, SayEntries
<1>10. SayReplies'
  BY <1>1, <1>9, SayLonger DEF SayTypes
<1>11. QED
  BY <1>1, <1>3, <1>8, <1>9, <1>10, SayStays

\* A request without a key.
LEMMA SayTypePosts ==
    ASSUME SayTypes, NEW k \in Callers, NEW t \in Texts, Posts(k, t)
    PROVE SayTypes'
<1>1. PICK s : s = [i \in 1..Parts[t].media |-> Len(chat) + i]
  OBVIOUS
<1>2. PICK n : n = Parts[t].media
  OBVIOUS
<1>3. /\ SayCallers' /\ SayMoves(k, "record", t, target[k], s, found[k])
      /\ n \in Nat /\ Len(s) = n /\ ToSet(s) = (Len(chat) + 1)..(Len(chat) + n)
      /\ SayChat' /\ Len(chat') = Len(chat) + n
  BY <1>1, <1>2, SayPostMoves DEF SayTypes
<1>4. SayPlace(k) /\ at[k] = "idle" /\ Len(chat) \in Nat
  BY LenProperties DEF SayTypes, Posts, SayChat
<1>5. SayPlace(k)'
  BY <1>2, <1>3, <1>4 DEF SayMoves, SayPlace, Sends, Touches
<1>6. rows' = rows /\ SayNoted' /\ rows \in SayEntries /\ UNCHANGED replies /\ Len(rows) \in Nat
  BY LenProperties DEF Posts, SayTypes, SayNoted, noted, SayEntries
<1>7. SayReplies'
  BY <1>3, <1>4, <1>6, SayLonger DEF SayTypes
<1>8. QED
  BY <1>3, <1>4, <1>5, <1>6, <1>7, SayStays


\* Some rows have a last one.
LEMMA SayGreatest ==
    ASSUME NEW n \in Nat, NEW S, S \subseteq 1..n, S # {}
    PROVE \E i \in S : \A j \in S : j <= i
<1> DEFINE R == {r \in Nat : n - r \in S}
<1>1. R \subseteq Nat /\ \A j \in S : j \in Nat /\ j <= n /\ n - j \in Nat /\ n - (n - j) = j
  OBVIOUS
<1>2. \A j \in S : n - j \in R
  BY <1>1
<1>3. R # {}
  BY <1>2
<1> HIDE DEF R
<1>4. R \subseteq Nat
  BY <1>1
<1>5. PICK b \in R : \A u \in R : ~(<<u, b>> \in OpToRel(<, Nat))
  BY <1>3, <1>4, NatLessThanWellFounded, WFMin
<1>6. n - b \in S /\ b \in Nat
  BY DEF R
<1>7. ASSUME NEW j \in S PROVE j <= n - b
  <2>1. n - j \in R /\ n - j \in Nat /\ j \in Nat
    BY <1>1, <1>2
  <2>2. <<n - j, b>> \notin OpToRel(<, Nat)
    BY <1>5, <2>1
  <2>3. ~(n - j < b)
    BY <1>6, <2>1, <2>2 DEF OpToRel
  <2>4. QED
    BY <1>6, <2>1, <2>3
<1>8. QED
  BY <1>6, <1>7

\* Attempts are counted.
LEMMA SayTries ==
    ASSUME tries \in [Callers -> 0..Attempts], NEW k \in Callers,
           \/ tries' = tries
           \/ tries' = [tries EXCEPT ![k] = 0]
           \/ tries[k] + 1 < Attempts /\ tries' = [tries EXCEPT ![k] = tries[k] + 1]
    PROVE tries' \in [Callers -> 0..Attempts]
<1>1. CASE tries' = [tries EXCEPT ![k] = 0]
  BY <1>1, SenderAssumption
<1>2. CASE tries[k] + 1 < Attempts /\ tries' = [tries EXCEPT ![k] = tries[k] + 1]
  <2>1. tries[k] + 1 \in 0..Attempts
    BY <1>2, SenderAssumption
  <2>2. QED
    BY <1>2, <2>1
<1>3. QED
  BY <1>1, <1>2

\* Media that is refused is to be sent as a document, and an attempt is made again.
LEMMA SayTypeWaits ==
    ASSUME SayTypes, NEW k \in Callers, Fallback(k) \/ Wait(k)
    PROVE SayTypes'
<1>1. /\ SayMoves(k, at[k], text[k], target[k], sent[k], found[k])
      /\ UNCHANGED <<at, text, target, sent, found, chat, rows, replies, overlaps, raced, troubles>>
  BY DEF Fallback, Wait, SayMoves, chatVars, noted
<1>2. SayCallers'
  <2>1. plain' \in [Callers -> BOOLEAN]
    BY DEF SayTypes, SayCallers, Fallback, Wait
  <2>2. tries' \in [Callers -> 0..Attempts]
    BY SayTries DEF SayTypes, SayCallers, Fallback, Wait
  <2>3. QED
    BY <1>1, <2>1, <2>2 DEF SayTypes, SayCallers
<1>3. SayPlace(k)' /\ SayChat' /\ SayReplies' /\ SayNoted' /\ rows' \in SayEntries
  BY <1>1 DEF SayTypes, SayPlace, SayChat, SayReplies, SayNoted
<1>4. Len(chat) \in Nat /\ Len(rows) \in Nat
  BY LenProperties DEF SayTypes, SayChat, SayEntries
<1>5. QED
  BY <1>1, <1>2, <1>3, <1>4, SayStays

\* A part is sent, unheard.
LEMMA SayTypeUnheard ==
    ASSUME SayTypes, NEW k \in Callers, SentUnheard(k)
    PROVE SayTypes'
<1>1. SayChat' /\ Len(chat') = Len(chat) + 1 /\ Len(chat) \in Nat
  BY SayAppears DEF SentUnheard
<1>2. /\ SayMoves(k, at[k], text[k], target[k], sent[k], found[k])
      /\ UNCHANGED <<at, text, target, sent, found, plain, rows, replies, overlaps, raced>>
  BY DEF SentUnheard, SayMoves, noted
<1>3. SayCallers'
  <2>1. tries' \in [Callers -> 0..Attempts]
    BY SenderAssumption DEF SayTypes, SayCallers, SentUnheard
  <2>2. QED
    BY <1>2, <2>1 DEF SayTypes, SayCallers
<1>4. SayNoted' /\ SayReplies' /\ rows' \in SayEntries /\ Len(rows) \in Nat
  <2>1. SayNoted'
    BY <1>2, SenderAssumption DEF SayTypes, SayNoted, SentUnheard, Trouble
  <2>2. QED
    BY <1>1, <1>2, <2>1, SayLonger, LenProperties DEF SayTypes, SayEntries
<1>5. SayPlace(k)'
  BY <1>1, <1>2 DEF SayTypes, SayPlace, SentUnheard, Touches, Sends
<1>6. QED
  BY <1>1, <1>2, <1>3, <1>4, <1>5, SayStays

\* What is recorded.
LEMMA SayTypeRecords ==
    ASSUME SayTypes, NEW k \in Callers, Record(k)
    PROVE /\ SayTypes'
          /\ Len(rows) \in Nat /\ Len(rows') = Len(rows) + 1 /\ \A i \in 1..Len(rows) : rows'[i] = rows[i]
          /\ rows'[Len(rows) + 1] = [text |-> text[k], ids |-> ToSet(sent[k])]
          /\ SayMoves(k, "remember", text[k], target[k], sent[k], found[k])
<1> DEFINE E == [text : Texts \cup Edits, ids : SUBSET Nat]
<1>1. SayPlace(k) /\ at[k] = "record" /\ sent[k] \in Seq(Nat) /\ text[k] \in Texts
  BY DEF SayTypes, Record, SayPlace, Sends, SayCallers
<1>2. [text |-> text[k], ids |-> ToSet(sent[k])] \in E
  BY <1>1, SaySets
<1>3. rows \in Seq(E) /\ rows' = Append(rows, [text |-> text[k], ids |-> ToSet(sent[k])])
  BY DEF SayTypes, SayEntries, Record, Add
<1> HIDE DEF E
<1>4. /\ rows' \in Seq(E) /\ Len(rows) \in Nat /\ Len(rows') = Len(rows) + 1
      /\ \A i \in 1..Len(rows) : rows'[i] = rows[i]
      /\ rows'[Len(rows) + 1] = [text |-> text[k], ids |-> ToSet(sent[k])]
  BY <1>2, <1>3, AppendProperties, LenProperties
<1>5. SayMoves(k, "remember", text[k], target[k], sent[k], found[k])
      /\ UNCHANGED <<text, target, plain, sent, tries, found, chat, replies, overlaps, raced, troubles>>
  BY DEF SayTypes, SayCallers, Record, Goto, SayMoves, noted
<1>6. SayCallers'
  BY <1>5 DEF SayTypes, SayCallers, Record, Goto, Sends
<1>7. SayPlace(k)'
  BY <1>1, <1>5 DEF SayPlace, SayMoves, Sends, Touches
<1>8. SayChat' /\ SayReplies' /\ SayNoted' /\ rows' \in SayEntries
  BY <1>4, <1>5 DEF SayTypes, SayChat, SayReplies, SayNoted, SayEntries, E
<1>9. Len(chat) \in Nat
  BY LenProperties DEF SayTypes, SayChat
<1>10. SayTypes'
  BY <1>4, <1>5, <1>6, <1>7, <1>8, <1>9, SayStays
<1>11. QED
  BY <1>4, <1>5, <1>10

\* The answer is remembered.
LEMMA SayTypeRemembers ==
    ASSUME SayTypes, NEW k \in Callers, Remember(k)
    PROVE SayTypes'
<1>1. SayPlace(k) /\ text[k] \in Texts /\ sent[k] \in Seq(Nat) /\ at[k] = "remember"
  BY DEF SayTypes, Remember, SayPlace, Sends, SayCallers
<1>2. End(k) /\ UNCHANGED <<chat, rows, overlaps, raced>>
  BY DEF Remember, noted
<1>3. SayReplies'
  <2>1. replies' = replies \/ replies' = [replies EXCEPT ![text[k]] = sent[k]]
    BY DEF Remember
  <2>2. QED
    BY <1>1, <1>2, <2>1 DEF SayTypes, SayReplies, SayPlace
<1>4. SayNoted'
  BY <1>2, SenderAssumption DEF SayTypes, SayNoted, Remember, Trouble
<1>5. SayChat' /\ rows' \in SayEntries /\ Len(chat) \in Nat /\ Len(rows) \in Nat
  BY <1>2, LenProperties DEF SayTypes, SayChat, SayEntries
<1>6. QED
  BY <1>2, <1>3, <1>4, <1>5, SayIdle

\* The ends that leave the chat and the rows alone.
LEMMA SayTypeEnds ==
    ASSUME SayTypes, NEW k \in Callers, NotModified(k) \/ Refused(k) \/ Gone(k) \/ Crash(k)
    PROVE SayTypes'
<1>1. End(k) /\ UNCHANGED <<chat, rows, replies, overlaps, raced>>
  BY DEF NotModified, Refused, Gone, Crash, noted, chatVars
<1>2. SayNoted'
  BY <1>1, SenderAssumption DEF SayTypes, SayNoted, NotModified, Refused, Gone, Crash, Trouble, noted
<1>3. SayReplies' /\ SayChat' /\ rows' \in SayEntries /\ Len(chat) \in Nat /\ Len(rows) \in Nat
  BY <1>1, LenProperties DEF SayTypes, SayChat, SayEntries, SayReplies
<1>4. QED
  BY <1>1, <1>2, <1>3, SayIdle

\* The row of a message.
LEMMA SayRowOf ==
    ASSUME rows \in SayEntries, NEW m
    PROVE /\ RowOf(m) \in 0..Len(rows) /\ Len(rows) \in Nat
          /\ RowOf(m) # 0 => m \in rows[RowOf(m)].ids
          /\ RowOf(m) = 0 => \A i \in 1..Len(rows) : m \notin rows[i].ids
<1>1. Len(rows) \in Nat /\ RowsOf(m) \subseteq 1..Len(rows)
  BY LenProperties DEF SayEntries, RowsOf
<1>2. CASE RowsOf(m) = {}
  BY <1>1, <1>2 DEF RowOf, RowsOf
<1>3. CASE RowsOf(m) # {}
  <2>1. \E i \in RowsOf(m) : \A j \in RowsOf(m) : j <= i
    BY <1>1, <1>3, SayGreatest
  <2>2. RowOf(m) \in RowsOf(m)
    BY <1>3, <2>1 DEF RowOf
  <2>3. QED
    BY <1>1, <2>2 DEF RowsOf
<1>4. QED
  BY <1>2, <1>3

\* A message is to be edited, or to be deleted.
LEMMA SayTypeStarts ==
    ASSUME SayTypes, NEW k \in Callers, NEW m \in 1..MaxShown, NEW t \in Texts \cup Edits \cup {NoText}, NEW p,
           (p = "edit" /\ t \in Edits) \/ (p = "delete" /\ t = text[k]),
           SayApart, at[k] = "idle", m \in 1..Len(chat), Goto(k, p), target' = [target EXCEPT ![k] = m],
           text' = [text EXCEPT ![k] = t], Meet(k, m),
           UNCHANGED <<chat, rows, replies, plain, sent, tries, found, overlaps, troubles>>
    PROVE SayTypes' /\ SayMoves(k, p, t, m, sent[k], found[k])
<1>1. SayMoves(k, p, t, m, sent[k], found[k])
  BY DEF SayTypes, SayCallers, SayMoves, Goto
<1>2. SayCallers'
  BY DEF SayTypes, SayCallers, Goto, Touches
<1>3. SayPlace(k)
  BY DEF SayTypes
<1>4. SayPlace(k)'
  BY <1>1, <1>3 DEF SayPlace, SayMoves, Sends, Touches
<1>5. SayNoted'
  <2>1. Company(m) \subseteq 1..Len(chat)
    BY SayRowOf DEF Company, SayTypes, SayEntries, SayApart, Has
  <2>2. Len(chat) \in Nat /\ Len(chat) <= MaxShown
    BY LenProperties DEF SayTypes, SayChat
  <2>3. raced' = raced \/ raced' = raced \cup Company(m)
    BY DEF Meet
  <2>4. raced \subseteq 1..MaxShown /\ 1..Len(chat) \subseteq 1..MaxShown
    BY <2>2, SenderAssumption DEF SayTypes, SayNoted
  <2>5. raced' \subseteq 1..MaxShown
    BY <2>1, <2>3, <2>4
  <2>6. QED
    BY <2>5 DEF SayTypes, SayNoted
<1>6. SayReplies' /\ SayChat' /\ rows' \in SayEntries /\ Len(chat) \in Nat /\ Len(rows) \in Nat
  BY LenProperties DEF SayTypes, SayChat, SayEntries, SayReplies
<1>7. QED
  BY <1>1, <1>2, <1>4, <1>5, <1>6, SayStays

\* An edit or a deletion that Telegram did.
LEMMA SayTypeDoes ==
    ASSUME SayTypes, NEW k \in Callers, Edit(k) \/ EditUnheard(k) \/ Delete(k) \/ DeleteUnheard(k)
    PROVE /\ SayTypes' /\ Len(chat') = Len(chat) /\ target[k] \in 1..Len(chat)
          /\ \A i \in 1..Len(chat) : i # target[k] => chat'[i] = chat[i]
          /\ Edit(k) => chat'[target[k]] = Edited(k)
          /\ Delete(k) => chat'[target[k]].part = 0 /\ chat'[target[k]].text = chat[target[k]].text
          /\ \/ chat'[target[k]] = Edited(k) \/ chat'[target[k]].part = 0
          /\ \E p \in {at[k], "set", "find"} : SayMoves(k, p, text[k], target[k], sent[k], found[k])
          /\ Edit(k) => SayMoves(k, "set", text[k], target[k], sent[k], found[k])
          /\ Delete(k) => SayMoves(k, "find", text[k], target[k], sent[k], found[k])
<1> DEFINE E == [text : Texts \cup Edits, part : Nat, keyed : BOOLEAN]
           m == target[k]
<1>1. /\ at[k] \in {"edit", "delete"} /\ SayPlace(k) /\ SayChat
      /\ UNCHANGED <<rows, replies, text, target, plain, sent, found, overlaps, raced>>
  BY DEF Edit, EditUnheard, Delete, DeleteUnheard, SayTypes, noted, callerVars
<1>2. m \in 1..Len(chat) /\ (at[k] = "edit" => text[k] \in Edits)
  BY <1>1 DEF SayPlace, Touches
<1>3. PICK e : e = IF Edit(k) \/ EditUnheard(k) THEN Edited(k) ELSE [chat[m] EXCEPT !.part = 0]
  OBVIOUS
<1>4. (Edit(k) \/ EditUnheard(k) => at[k] = "edit") /\ (Delete(k) \/ DeleteUnheard(k) => at[k] = "delete")
  BY DEF Edit, EditUnheard, Delete, DeleteUnheard
<1>5. e \in E /\ (e = Edited(k) \/ e.part = 0) /\ (Delete(k) => e.part = 0 /\ e.text = chat[m].text)
  <2>1. CASE Edit(k) \/ EditUnheard(k)
    BY <1>2, <1>3, <1>4, <2>1 DEF Edited, Message
  <2>2. CASE ~(Edit(k) \/ EditUnheard(k))
    BY <1>1, <1>2, <1>3, <2>2, SayEntry
  <2>3. QED
    BY <2>1, <2>2
<1>6. chat' = [chat EXCEPT ![m] = e]
  BY <1>3 DEF Edit, EditUnheard, Delete, DeleteUnheard
<1>7. SayChat' /\ Len(chat') = Len(chat) /\ chat'[m] = e /\ \A i \in 1..Len(chat) : i # m => chat'[i] = chat[i]
  BY <1>1, <1>2, <1>5, <1>6, SayChanges
<1>8. PICK p : p = (IF Edit(k) THEN "set" ELSE IF Delete(k) THEN "find" ELSE at[k])
  OBVIOUS
<1>9. at' = [at EXCEPT ![k] = p]
  <2>1. Edit(k) => at' = [at EXCEPT ![k] = "set"]
    BY DEF Edit, Goto
  <2>2. Delete(k) => at' = [at EXCEPT ![k] = "find"]
    BY DEF Delete, Goto
  <2>3. EditUnheard(k) \/ DeleteUnheard(k) => at' = at
    BY DEF EditUnheard, DeleteUnheard, callerVars
  <2>4. ~Edit(k) /\ ~Delete(k) => at' = [at EXCEPT ![k] = at[k]]
    BY <2>3 DEF SayTypes, SayCallers
  <2>5. QED
    BY <1>4, <1>8, <2>1, <2>2, <2>4
<1>10. SayMoves(k, p, text[k], m, sent[k], found[k])
  BY <1>1, <1>9 DEF SayTypes, SayCallers, SayMoves
<1>11. p \in {"edit", "delete", "set", "find"} /\ (p \in {"edit", "set"} => at[k] = "edit")
       /\ p \in {at[k], "set", "find"}
  BY <1>1, <1>4, <1>8
<1>12. SayCallers'
  <2>1. tries' \in [Callers -> 0..Attempts]
    BY SayTries DEF SayTypes, SayCallers, Edit, EditUnheard, Delete, DeleteUnheard, callerVars
  <2>2. QED
    BY <1>1, <1>9, <1>11, <2>1 DEF SayTypes, SayCallers, Touches
<1>13. SayPlace(k)'
  BY <1>1, <1>2, <1>7, <1>10, <1>11 DEF SayPlace, SayMoves, Sends, Touches
<1>14. SayNoted'
  BY <1>1, SenderAssumption
     DEF SayTypes, SayNoted, Edit, EditUnheard, Delete, DeleteUnheard, Trouble
<1>15. SayReplies' /\ rows' \in SayEntries /\ Len(rows) \in Nat /\ Len(chat) \in Nat
  BY <1>1, <1>7, SayLonger, LenProperties DEF SayTypes, SayChat, SayEntries
<1>16. SayTypes'
  BY <1>1, <1>7, <1>10, <1>12, <1>13, <1>14, <1>15, SayStays
<1>17. (Edit(k) => p = "set" /\ e = Edited(k)) /\ (Delete(k) => p = "find")
  BY <1>3, <1>4, <1>8
<1> HIDE DEF E
<1>18. QED
  BY <1>2, <1>5, <1>7, <1>10, <1>11, <1>16, <1>17

\* A row is written.
LEMMA SayWritesRow ==
    ASSUME rows \in SayEntries, NEW i \in 1..Len(rows), NEW x \in Texts \cup Edits, NEW S \in SUBSET Nat,
           rows' = [rows EXCEPT ![i] = [text |-> x, ids |-> S]]
    PROVE /\ rows' \in SayEntries /\ Len(rows') = Len(rows) /\ rows'[i] = [text |-> x, ids |-> S]
          /\ \A j \in 1..Len(rows) : j # i => rows'[j] = rows[j]
<1> DEFINE E == [text : Texts \cup Edits, ids : SUBSET Nat]
           e == [text |-> x, ids |-> S]
<1>1. rows \in Seq(E) /\ e \in E /\ rows' = [rows EXCEPT ![i] = e]
  BY DEF SayEntries
<1> HIDE DEF E, e
<1>2. rows \in [1..Len(rows) -> E] /\ Len(rows) \in Nat
  BY <1>1, LenProperties
<1>3. rows' \in [1..Len(rows) -> E] /\ rows'[i] = e /\ \A j \in 1..Len(rows) : j # i => rows'[j] = rows[j]
  BY <1>1, <1>2
<1>4. rows' \in Seq(E) /\ Len(rows') = Len(rows)
  BY Zenon, <1>2, <1>3, SaySeqs
<1>5. QED
  BY <1>3, <1>4 DEF SayEntries, E, e

\* A row is one of the table.
LEMMA SayRow ==
    ASSUME rows \in SayEntries, NEW i \in 1..Len(rows)
    PROVE /\ rows[i].text \in Texts \cup Edits /\ rows[i].ids \in SUBSET Nat
          /\ \A x, S : [rows[i] EXCEPT !.text = x] = [text |-> x, ids |-> rows[i].ids]
                       /\ [rows[i] EXCEPT !.ids = S] = [text |-> rows[i].text, ids |-> S]
<1>1. rows[i] \in [text : Texts \cup Edits, ids : SUBSET Nat]
  BY ElementOfSeq DEF SayEntries
<1>2. QED
  BY <1>1

\* The content of a row follows an edit.
LEMMA SayTypeSets ==
    ASSUME SayTypes, SayApart, NEW k \in Callers, SetContent(k)
    PROVE /\ SayTypes' /\ Len(rows') = Len(rows) /\ Len(rows) \in Nat
          /\ at[k] = "set" /\ SayMoves(k, "idle", NoText, 0, <<>>, NotFound)
          /\ UNCHANGED <<chat, replies, overlaps, raced, troubles>>
          /\ \A j \in 1..Len(rows) :
                 /\ rows'[j].ids = rows[j].ids
                 /\ rows'[j].text = IF rows[j].ids = {target[k]} THEN text[k] ELSE rows[j].text
<1> DEFINE m == target[k]
           i == RowOf(m)
<1>1. at[k] = "set" /\ End(k) /\ UNCHANGED <<chat, replies, overlaps, raced, troubles>> /\ text[k] \in Edits
  BY DEF SetContent, noted, SayTypes, SayPlace
<1>2. rows \in SayEntries /\ SayCallers
  BY DEF SayTypes
<1>3. /\ i \in 0..Len(rows) /\ Len(rows) \in Nat
      /\ i # 0 => m \in rows[i].ids
      /\ i = 0 => \A j \in 1..Len(rows) : m \notin rows[j].ids
  BY <1>2, SayRowOf
<1>4. ASSUME NEW j \in 1..Len(rows), m \in rows[j].ids PROVE i = j /\ i # 0
  <2>1. i # 0 /\ i \in 1..Len(rows)
    BY <1>3, <1>4
  <2>2. QED
    BY <1>3, <1>4, <2>1 DEF SayApart, Has
<1> HIDE DEF i
<1>5. rows' = IF i # 0 /\ rows[i].ids = {m} THEN [rows EXCEPT ![i].text = text[k]] ELSE rows
  BY DEF SetContent, i
<1>6. ASSUME i # 0, rows[i].ids = {m}
      PROVE /\ rows' \in SayEntries /\ Len(rows') = Len(rows)
            /\ \A j \in 1..Len(rows) : /\ rows'[j].ids = rows[j].ids
                                       /\ rows'[j].text = IF rows[j].ids = {m} THEN text[k] ELSE rows[j].text
  <2>1. i \in 1..Len(rows) /\ rows' = [rows EXCEPT ![i].text = text[k]]
    BY <1>3, <1>5, <1>6
  <2>2. rows' = [rows EXCEPT ![i] = [text |-> text[k], ids |-> rows[i].ids]]
    BY <1>2, <2>1, SayRow
  <2>3. /\ rows' \in SayEntries /\ Len(rows') = Len(rows) /\ rows'[i] = [text |-> text[k], ids |-> rows[i].ids]
        /\ \A j \in 1..Len(rows) : j # i => rows'[j] = rows[j]
    <3>1. rows[i].ids \in SUBSET Nat /\ text[k] \in Texts \cup Edits
      BY <1>1, <1>2, <2>1, SayRow
    <3>2. QED
      BY Zenon, <1>2, <2>1, <2>2, <3>1, SayWritesRow
  <2>4. ASSUME NEW j \in 1..Len(rows)
        PROVE /\ rows'[j].ids = rows[j].ids
              /\ rows'[j].text = IF rows[j].ids = {m} THEN text[k] ELSE rows[j].text
    <3>1. rows[j].ids = {m} <=> j = i
      BY <1>4, <1>6
    <3>2. QED
      BY <2>3, <3>1
  <2>5. QED
    BY <2>3, <2>4
<1>7. ASSUME ~(i # 0 /\ rows[i].ids = {m})
      PROVE rows' = rows /\ \A j \in 1..Len(rows) : rows[j].ids # {m}
  BY <1>4, <1>5, <1>7
<1>8. /\ rows' \in SayEntries /\ Len(rows') = Len(rows)
      /\ \A j \in 1..Len(rows) : /\ rows'[j].ids = rows[j].ids
                                 /\ rows'[j].text = IF rows[j].ids = {m} THEN text[k] ELSE rows[j].text
  BY <1>2, <1>6, <1>7
<1>9. SayChat' /\ SayReplies' /\ SayNoted' /\ Len(chat) \in Nat
  BY <1>1, LenProperties DEF SayTypes, SayChat, SayReplies, SayNoted
<1>10. SayTypes'
  BY <1>1, <1>3, <1>8, <1>9, SayIdle
<1>11. QED
  BY <1>1, <1>2, <1>3, <1>8, <1>10, SayEnds

\* What was read of a row is written.
LEMMA SayTypeForgets ==
    ASSUME SayTypes, NEW k \in Callers, Forget(k)
    PROVE /\ SayTypes' /\ Len(rows') = Len(rows) /\ Len(rows) \in Nat
          /\ at[k] = "forget" /\ SayMoves(k, "idle", NoText, 0, <<>>, NotFound)
          /\ UNCHANGED <<chat, replies, overlaps, raced, troubles>>
          /\ found[k].row \in 1..Len(rows) /\ target[k] \in found[k].ids /\ target[k] \in 1..Len(chat)
          /\ rows'[found[k].row].text = rows[found[k].row].text
          /\ rows'[found[k].row].ids = found[k].ids \ {target[k]}
          /\ \A j \in 1..Len(rows) : j # found[k].row => rows'[j] = rows[j]
<1> DEFINE i == found[k].row
           S == found[k].ids \ {target[k]}
<1>1. at[k] = "forget" /\ End(k) /\ UNCHANGED <<chat, replies, overlaps, raced, troubles>>
  BY DEF Forget, noted
<1>2. rows \in SayEntries /\ SayCallers /\ i \in 1..Len(rows) /\ target[k] \in found[k].ids
      /\ S \in SUBSET Nat /\ Len(rows) \in Nat /\ target[k] \in 1..Len(chat)
  BY <1>1, LenProperties DEF SayTypes, SayPlace, SayCallers, SayEntries, Touches
<1>3. rows' = [rows EXCEPT ![i].ids = S]
  BY DEF Forget
<1> HIDE DEF i, S
<1>4. rows' = [rows EXCEPT ![i] = [text |-> rows[i].text, ids |-> S]]
  BY <1>2, <1>3, SayRow
<1>5. /\ rows' \in SayEntries /\ Len(rows') = Len(rows) /\ rows'[i] = [text |-> rows[i].text, ids |-> S]
      /\ \A j \in 1..Len(rows) : j # i => rows'[j] = rows[j]
  BY <1>2, <1>4, SayRow, SayWritesRow
<1>6. SayChat' /\ SayReplies' /\ SayNoted' /\ Len(chat) \in Nat
  BY <1>1, LenProperties DEF SayTypes, SayChat, SayReplies, SayNoted
<1>7. SayTypes'
  BY <1>1, <1>2, <1>5, <1>6, SayIdle
<1>8. QED
  BY <1>1, <1>2, <1>5, <1>7, SayEnds DEF i, S

\* The row is read.
LEMMA SayTypeFinds ==
    ASSUME SayTypes, NEW k \in Callers, Find(k)
    PROVE /\ SayTypes' /\ at[k] = "find" /\ UNCHANGED <<chat, rows, replies, overlaps, raced, troubles>>
          /\ \/ SayMoves(k, "idle", NoText, 0, <<>>, NotFound) /\ \A j \in 1..Len(rows) : target[k] \notin rows[j].ids
             \/ \E i \in 1..Len(rows) :
                   SayMoves(k, "forget", text[k], target[k], sent[k], [row |-> i, ids |-> rows[i].ids])
<1> DEFINE i == RowOf(target[k])
<1>1. at[k] = "find" /\ UNCHANGED <<chat, rows, replies, overlaps, raced, troubles>>
  BY DEF Find, noted, chatVars
<1>2. /\ i \in 0..Len(rows) /\ Len(rows) \in Nat
      /\ i # 0 => target[k] \in rows[i].ids
      /\ i = 0 => \A j \in 1..Len(rows) : target[k] \notin rows[j].ids
  BY SayRowOf DEF SayTypes
<1> HIDE DEF i
<1>3. SayChat' /\ SayReplies' /\ SayNoted' /\ Len(chat) \in Nat /\ rows' \in SayEntries /\ SayCallers
  BY <1>1, LenProperties DEF SayTypes, SayChat, SayReplies, SayNoted
<1>4. CASE i = 0
  <2>1. End(k)
    BY <1>4 DEF Find, i
  <2>2. SayTypes'
    BY <1>1, <1>2, <1>3, <2>1, SayIdle
  <2>3. QED
    BY <1>1, <1>2, <1>3, <1>4, <2>1, <2>2, SayEnds
<1>5. CASE i # 0
  <2>1. PICK f : f = [row |-> i, ids |-> rows[i].ids]
    OBVIOUS
  <2>2. i \in 1..Len(rows) /\ f \in [row : Nat, ids : SUBSET Nat] /\ f.row = i /\ f.ids = rows[i].ids
    BY <1>2, <1>5, <2>1, SayRow DEF SayTypes
  <2>3. /\ found' = [found EXCEPT ![k] = f] /\ at' = [at EXCEPT ![k] = "forget"]
        /\ UNCHANGED <<text, target, plain, sent, tries>>
    BY <1>5, <2>1 DEF Find, Goto, i
  <2>4. SayMoves(k, "forget", text[k], target[k], sent[k], f) /\ SayCallers'
    BY <1>3, <2>2, <2>3 DEF SayCallers, SayMoves, Touches
  <2>5. SayPlace(k)'
    BY <1>1, <1>2, <1>5, <2>2, <2>4 DEF SayTypes, SayPlace, SayMoves, Sends, Touches
  <2>6. SayTypes'
    BY <1>1, <1>2, <1>3, <2>4, <2>5, SayStays
  <2>7. QED
    BY <1>1, <2>1, <2>2, <2>4, <2>6
<1>6. QED
  BY <1>4, <1>5

\* Where the messages and the targets are.
LEMMA SayRanges ==
    ASSUME SayTypes, NEW k \in Callers
    PROVE /\ Len(chat) \in Nat /\ Len(rows) \in Nat /\ target[k] \in 0..Len(chat)
          /\ ToSet(sent[k]) \subseteq 1..Len(chat)
          /\ at[k] \in {"idle"} \cup Sends \cup Touches
          /\ (Sending(k) => target[k] = 0)
          /\ sent[k] \in Seq(Nat)
<1>1. Len(chat) \in Nat /\ Len(rows) \in Nat
  BY LenProperties DEF SayTypes, SayChat, SayEntries
<1>2. SayPlace(k) /\ at[k] \in {"idle"} \cup Sends \cup Touches /\ sent[k] \in Seq(Nat)
  BY DEF SayTypes, SayCallers
<1>3. QED
  BY <1>1, <1>2 DEF SayPlace, Sending, Touches

\* Rows that are not written have what they had.
LEMMA SayHas ==
    ASSUME UNCHANGED rows, NEW k \in Callers, NEW p, NEW t, NEW g, NEW s, NEW f, SayMoves(k, p, t, g, s, f),
           p # "forget"
    PROVE \A i \in 1..Len(rows) : \A m : Has(i, m)' => Has(i, m)
BY DEF Has, SayMoves

\* A step that records nothing keeps messages apart.
LEMMA SayStaysApart ==
    ASSUME SayTypes, SayApart, Len(rows') = Len(rows), Len(chat') >= Len(chat), Len(chat') \in Nat,
           NEW k \in Callers, NEW p, NEW t, NEW g, NEW s, NEW f, SayMoves(k, p, t, g, s, f),
           \A i \in 1..Len(rows) : \A m : Has(i, m)' => Has(i, m),
           p \in {"send", "record"} =>
               \A m \in ToSet(s) : (Sending(k) /\ m \in ToSet(sent[k])) \/ m \notin 1..Len(chat)
    PROVE SayApart'
<1>1. ASSUME NEW l \in Callers, Sending(l)'
      PROVE /\ \A m \in ToSet(sent'[l]) \cap (1..Len(chat)) : Sending(l) /\ m \in ToSet(sent[l])
            /\ l # k => Sending(l) /\ sent'[l] = sent[l]
  BY <1>1 DEF SayMoves, Sending
<1>2. ASSUME NEW m \in 1..Len(chat), Held(m)' PROVE Held(m)
  BY <1>1, <1>2 DEF Held
<1>3. \A i \in 1..Len(rows') : \A m : Has(i, m)' => m \in 1..Len(chat') /\ ~Held(m)'
  <2>1. ASSUME NEW i \in 1..Len(rows), NEW m, Has(i, m)' PROVE m \in 1..Len(chat') /\ ~Held(m)'
    <3>1. Has(i, m)
      BY <2>1
    <3>2. m \in 1..Len(chat) /\ ~Held(m)
      BY <3>1 DEF SayApart
    <3>3. QED
      BY <1>2, <3>2, SayRanges
  <2>2. QED
    BY <2>1
<1>4. \A i, j \in 1..Len(rows') : \A m : Has(i, m)' /\ Has(j, m)' => i = j
  BY DEF SayApart
<1>5. ASSUME NEW l \in Callers, NEW n \in Callers, Sending(l)', Sending(n)', l # n
      PROVE ToSet(sent'[l]) \cap ToSet(sent'[n]) = {}
  <2>1. ToSet(sent[l]) \subseteq 1..Len(chat) /\ ToSet(sent[n]) \subseteq 1..Len(chat)
    BY SayRanges
  <2>2. Sending(l) /\ Sending(n) => ToSet(sent[l]) \cap ToSet(sent[n]) = {}
    BY <1>5 DEF SayApart
  <2>3. QED
    BY <1>1, <1>5, <2>1, <2>2
<1>6. QED
  BY <1>3, <1>4, <1>5 DEF SayApart

\* A step keeps what is sent, unless callers meet.
LEMMA SayStaysSent ==
    ASSUME SayTypes, SaySent,
           NEW k \in Callers, NEW p, NEW t, NEW g, NEW s, NEW f, SayMoves(k, p, t, g, s, f),
           raced \subseteq raced',
           \A m \in 1..Len(chat) : chat'[m] = chat[m] \/ m = target[k],
           p \in {"send", "record"} =>
               \A m \in ToSet(s) : \/ Sending(k) /\ m \in ToSet(sent[k]) /\ t = text[k]
                                   \/ m \notin 0..Len(chat) /\ chat'[m].part # 0 /\ chat'[m].text = t,
           \/ g = target[k] \/ g = 0
           \/ p \notin {"send", "record"} /\ \A l \in Callers \ {k} : g \in ToSet(sent[l]) => g \in raced'
    PROVE SaySent'
<1>1. SUFFICES ASSUME NEW l \in Callers, Sending(l)', NEW m \in ToSet(sent'[l]) \ raced'
               PROVE /\ chat'[m].part # 0 /\ chat'[m].text = text'[l]
                     /\ \A n \in Callers : target'[n] # m
  BY DEF SaySent
<1>2. CASE Sending(l) /\ m \in ToSet(sent[l]) /\ text'[l] = text[l]
  <2>1. m \in 1..Len(chat) /\ Len(chat) \in Nat
    BY <1>2, SayRanges
  <2>2. chat[m].part # 0 /\ chat[m].text = text[l] /\ \A n \in Callers : target[n] # m
    BY <1>1, <1>2 DEF SaySent
  <2>3. chat'[m] = chat[m]
    BY <2>1, <2>2
  <2>4. ASSUME NEW n \in Callers PROVE target'[n] # m
    <3>1. CASE n # k
      BY <2>2, <3>1 DEF SayMoves
    <3>2. CASE n = k
      <4>1. target'[n] = g /\ m # 0
        BY <2>1, <3>2 DEF SayMoves
      <4>2. CASE l = k
        <5>1. p \in {"send", "record"}
          BY <1>1, <4>2 DEF SayMoves, Sending
        <5>2. QED
          BY <2>2, <4>1, <5>1
      <4>3. CASE l # k
        BY <1>1, <1>2, <2>2, <4>1, <4>3
      <4>4. QED
        BY <4>2, <4>3
    <3>3. QED
      BY <3>1, <3>2
  <2>5. QED
    BY <1>2, <2>2, <2>3, <2>4
<1>3. CASE ~(Sending(l) /\ m \in ToSet(sent[l]) /\ text'[l] = text[l])
  <2>1. l = k
    BY <1>1, <1>3 DEF SayMoves, Sending
  <2>2. p \in {"send", "record"} /\ m \in ToSet(s) /\ text'[l] = t
    BY <1>1, <2>1 DEF SayMoves, Sending
  <2>3. m \notin 0..Len(chat) /\ chat'[m].part # 0 /\ chat'[m].text = t
    BY <1>3, <2>1, <2>2
  <2>4. ASSUME NEW n \in Callers PROVE target'[n] # m
    <3>1. target[n] \in 0..Len(chat) /\ Len(chat) \in Nat
      BY SayRanges
    <3>2. target'[n] = target[n] \/ target'[n] = 0
      BY <2>2 DEF SayMoves
    <3>3. QED
      BY <2>3, <3>1, <3>2
  <2>5. QED
    BY <2>2, <2>3, <2>4
<1>4. QED
  BY <1>2, <1>3

\* What is held is what was.
LEMMA SayHolds ==
    ASSUME NEW k \in Callers, NEW p, NEW t, NEW g, NEW s, NEW f, SayMoves(k, p, t, g, s, f),
           NEW m, (p \in {"send", "record"} /\ m \in ToSet(s)) <=> (Sending(k) /\ m \in ToSet(sent[k]))
    PROVE Held(m)' <=> Held(m)
BY DEF Held, Sending, SayMoves

\* What calls do that change no message and no row keeps what the rows are about.
LEMMA SayStaysQuiet ==
    ASSUME SayTypes, SayTypes', SayApart, SayQuiet, UNCHANGED <<rows, raced>>,
           NEW k \in Callers, NEW p, NEW t, NEW g, NEW s, NEW f, SayMoves(k, p, t, g, s, f),
           Len(chat') >= Len(chat), \A m \in 1..Len(chat) : chat'[m] = chat[m],
           \A m \in 1..Len(chat) :
               (p \in {"send", "record"} /\ m \in ToSet(s)) <=> (Sending(k) /\ m \in ToSet(sent[k])),
           \A m \in 1..Len(chat') : m \notin 1..Len(chat) => p \in {"send", "record"} /\ m \in ToSet(s),
           at[k] \notin {"set", "find", "forget"},
           p \in Touches => p = at[k] /\ g = target[k] /\ t = text[k] /\ f = found[k]
    PROVE SayQuiet'
<1>1. Len(chat) \in Nat /\ Len(chat') \in Nat /\ Len(rows) \in Nat
  BY LenProperties DEF SayTypes, SayChat, SayEntries
<1>2. \A m \in 1..Len(chat) : Held(m)' <=> Held(m)
  BY SayHolds
<1>3. ASSUME NEW m \in 1..Len(chat'), ~Held(m)' PROVE m \in 1..Len(chat) /\ ~Held(m)
  <2>1. m \notin 1..Len(chat) => Held(m)'
    BY DEF SayMoves, Held, Sending
  <2>2. QED
    BY <1>2, <1>3, <2>1
<1>4. ASSUME NEW l \in Callers
      PROVE /\ \A q \in {"set", "find", "forget"} : at'[l] = q <=> at[l] = q
            /\ at'[l] \in Touches =>
                   at'[l] = at[l] /\ target'[l] = target[l] /\ text'[l] = text[l] /\ found'[l] = found[l]
            /\ at[l] \in {"set", "find", "forget"} => at'[l] = at[l]
  BY DEF SayMoves, Touches
<1>5. \A m \in 1..Len(chat) : Alive(m)' <=> Alive(m)
  BY <1>4 DEF Alive, Forgets, Touches
<1>6. ASSUME NEW l \in Callers, Works(l)' PROVE Works(l) /\ target'[l] = target[l]
  <2>1. at'[l] = at[l] /\ target'[l] = target[l] /\ at[l] \in Touches
    BY <1>4, <1>6 DEF Works, Forgets, Touches
  <2>2. target[l] \in 1..Len(chat)
    BY <2>1 DEF SayTypes, SayPlace
  <2>3. QED
    BY <1>6, <2>1, <2>2 DEF Works
<1>7. \A i \in 1..Len(rows) : \A m : Has(i, m)' <=> Has(i, m)
  <2>1. \A l \in Callers : (at'[l] = "forget" <=> at[l] = "forget") /\ (at[l] = "forget" => found'[l] = found[l])
    BY <1>4 DEF Touches
  <2>2. QED
    BY <2>1 DEF Has
<1>8. SayHome'
  BY <1>3, <1>4, <1>5 DEF SayQuiet, SayHome, Touches
<1>9. SayAlone'
  <2>1. ASSUME NEW l \in Callers, at'[l] \in Forgets
        PROVE at[l] \in Forgets /\ target'[l] = target[l] /\ chat'[target[l]].part = 0
    <3>1. at[l] \in Forgets /\ target'[l] = target[l]
      BY <1>4, <2>1 DEF Forgets, Touches
    <3>2. target[l] \in 1..Len(chat) /\ chat[target[l]].part = 0
      BY <3>1 DEF SayTypes, SayPlace, Forgets, Touches, SayQuiet, SayAlone
    <3>3. QED
      BY <3>1, <3>2
  <2>2. QED
    BY <2>1 DEF SayQuiet, SayAlone
<1>10. SayLeft'
  BY <1>3, <1>5, <1>7 DEF SayQuiet, SayLeft
<1>11. SayMet'
  BY <1>6 DEF SayQuiet, SayMet
<1>12. SayWritten'
  <2>1. ASSUME NEW l \in Callers, at'[l] = "set", target'[l] \notin raced
        PROVE chat'[target'[l]] = Edited(l)'
    <3>1. at[l] = "set" /\ target'[l] = target[l] /\ text'[l] = text[l]
      BY <1>4, <2>1 DEF Touches
    <3>2. target[l] \in 1..Len(chat)
      BY <3>1 DEF SayTypes, SayPlace, Touches
    <3>3. chat[target[l]] = Edited(l)
      BY <2>1, <3>1 DEF SayQuiet, SayWritten
    <3>4. QED
      BY <3>1, <3>2, <3>3 DEF Edited
  <2>2. QED
    BY <2>1 DEF SayWritten
<1>13. SayTexts'
  <2>1. ASSUME NEW i \in 1..Len(rows), NEW m \in rows[i].ids \ raced,
               \A l \in Callers : at'[l] = "set" => target'[l] # m, Single(rows[i].text)
        PROVE rows[i].text = chat'[m].text
    <3>1. m \in 1..Len(chat)
      BY DEF SayApart, Has
    <3>2. \A l \in Callers : at[l] = "set" => target[l] # m
      BY <1>4, <2>1 DEF Touches
    <3>3. QED
      BY <2>1, <3>1, <3>2 DEF SayQuiet, SayTexts
  <2>2. QED
    BY <2>1 DEF SayTexts, Single
<1>14. SayMany'
  BY DEF SayQuiet, SayMany, Single
<1>15. QED
  BY <1>8, <1>9, <1>10, <1>11, <1>12, <1>13, <1>14 DEF SayQuiet

\* Copies of a text, and nobody is to say it.
SayCopied(t) == {i \in 1..Len(chat) : chat[i] = Message(t, 1, TRUE)}
SayFree(t) == replies[t] = NoReply /\ \A k \in Callers : at[k] \in Sends => text[k] # t

\* There are finitely many copies and callers.
LEMMA SayCounts ==
    ASSUME Len(chat) \in Nat, NEW t
    PROVE /\ IsFiniteSet(SayCopied(t)) /\ Copies(t) = Cardinality(SayCopied(t)) /\ Copies(t) \in Nat
          /\ IsFiniteSet(Saying(t)) /\ Cardinality(Saying(t)) \in Nat
<1>1. IsFiniteSet(1..Len(chat)) /\ SayCopied(t) \subseteq 1..Len(chat)
  <2>1. 1 \in Int /\ Len(chat) \in Int
    OBVIOUS
  <2>2. IsFiniteSet(1..Len(chat))
    BY <2>1, FS_Interval
  <2>3. QED
    BY <2>2 DEF SayCopied
<1>2. IsFiniteSet(SayCopied(t)) /\ Cardinality(SayCopied(t)) \in Nat
  BY <1>1, FS_Subset, FS_CardinalityType
<1>3. IsFiniteSet(Callers) /\ Saying(t) \subseteq Callers
  BY SenderAssumption DEF Saying
<1>4. IsFiniteSet(Saying(t)) /\ Cardinality(Saying(t)) \in Nat
  BY <1>3, FS_Subset, FS_CardinalityType
<1>5. QED
  BY <1>2, <1>4 DEF Copies, SayCopied

\* No more copies and no more callers of a text.
LEMMA SayFewer ==
    ASSUME Len(chat) \in Nat, Len(chat') \in Nat, NEW t, SayCopied(t)' \subseteq SayCopied(t),
           Saying(t)' \subseteq Saying(t)
    PROVE /\ Copies(t)' <= Copies(t) /\ Copies(t)' \in Nat /\ Copies(t) \in Nat
          /\ Cardinality(Saying(t)') <= Cardinality(Saying(t))
          /\ Cardinality(Saying(t)') \in Nat /\ Cardinality(Saying(t)) \in Nat
<1>1. IsFiniteSet(SayCopied(t)) /\ Copies(t) = Cardinality(SayCopied(t)) /\ Copies(t) \in Nat
      /\ IsFiniteSet(Saying(t)) /\ Cardinality(Saying(t)) \in Nat
  BY SayCounts
<1>2. Copies(t)' = Cardinality(SayCopied(t)')
  BY DEF Copies, SayCopied
<1>3. Cardinality(SayCopied(t)') <= Cardinality(SayCopied(t)) /\ IsFiniteSet(SayCopied(t)')
  BY <1>1, FS_Subset
<1>4. Cardinality(Saying(t)') <= Cardinality(Saying(t)) /\ IsFiniteSet(Saying(t)')
  BY <1>1, FS_Subset
<1>5. Cardinality(SayCopied(t)') \in Nat /\ Cardinality(Saying(t)') \in Nat
  BY <1>3, <1>4, FS_CardinalityType
<1>6. QED
  BY <1>1, <1>2, <1>3, <1>4, <1>5

\* A step that says no text for the first time.
LEMMA SayStaysOnce ==
    ASSUME SayTypes, SayTypes', SayOnce, NEW k \in Callers, NEW p, NEW t, NEW g, NEW s, NEW f,
           SayMoves(k, p, t, g, s, f), overlaps' = overlaps, troubles' >= troubles,
           \A i \in 1..Len(chat') : \/ i \in 1..Len(chat) /\ chat'[i] = chat[i]
                                    \/ chat'[i].keyed = FALSE
                                    \/ chat'[i].part # 1,
           p = "send" /\ s = <<>> => at[k] = "send" /\ sent[k] = <<>> /\ t = text[k],
           \/ troubles' >= troubles + 1
           \/ UNCHANGED replies /\ (at[k] \in Sends => p \in Sends /\ t = text[k])
           \/ replies'[text[k]] # NoReply /\ \A x \in Texts \ {text[k]} : replies'[x] = replies[x]
    PROVE SayOnce'
<1>1. Len(chat) \in Nat /\ Len(chat') \in Nat /\ overlaps \in Nat /\ troubles \in Nat /\ troubles' \in Nat
  BY LenProperties, SenderAssumption DEF SayTypes, SayChat, SayNoted
<1>2. ASSUME NEW x \in Texts
      PROVE /\ Copies(x)' + Cardinality(Saying(x)') <= 1 + overlaps' + troubles'
            /\ SayFree(x)' => Copies(x)' <= overlaps' + troubles'
  <2>1. SayCopied(x)' \subseteq SayCopied(x)
    BY DEF SayCopied, Message
  <2>2. Saying(x)' \subseteq Saying(x)
    BY DEF Saying, SayMoves
  <2>3. /\ Copies(x)' <= Copies(x) /\ Copies(x)' \in Nat /\ Copies(x) \in Nat
        /\ Cardinality(Saying(x)') <= Cardinality(Saying(x))
        /\ Cardinality(Saying(x)') \in Nat /\ Cardinality(Saying(x)) \in Nat
    BY <1>1, <2>1, <2>2, SayFewer
  <2>4. /\ Copies(x) + Cardinality(Saying(x)) <= 1 + overlaps + troubles
        /\ SayFree(x) => Copies(x) <= overlaps + troubles
    BY DEF SayOnce, SayFree
  <2>5. SayFree(x)' => troubles' >= troubles + 1 \/ SayFree(x)
    BY DEF SayFree, SayMoves
  <2>6. QED
    BY <1>1, <2>3, <2>4, <2>5
<1>3. QED
  BY <1>2 DEF SayOnce, SayFree

\* A call begins to say a text.
LEMMA SayOnceBegins ==
    ASSUME SayTypes, SayTypes', SayOnce, NEW k \in Callers, NEW t \in Texts, Begin(k, t), replies[t] = NoReply
    PROVE SayOnce'
<1>1. /\ SayMoves(k, "send", t, target[k], sent[k], found[k]) /\ at[k] = "idle"
      /\ UNCHANGED <<chat, rows, replies, troubles>>
      /\ overlaps' = overlaps + (IF \E l \in Callers : text[l] = t THEN 1 ELSE 0)
  BY SayBeginsMove DEF SayTypes, Begin, chatVars
<1>2. Len(chat) \in Nat /\ overlaps \in Nat /\ troubles \in Nat
  BY LenProperties, SenderAssumption DEF SayTypes, SayChat, SayNoted
<1>3. ASSUME NEW x \in Texts
      PROVE /\ Copies(x)' + Cardinality(Saying(x)') <= 1 + overlaps' + troubles'
            /\ SayFree(x)' => Copies(x)' <= overlaps' + troubles'
  <2>1. /\ Copies(x) \in Nat /\ IsFiniteSet(Saying(x)) /\ Cardinality(Saying(x)) \in Nat
    BY <1>2, SayCounts
  <2>2. /\ Copies(x) + Cardinality(Saying(x)) <= 1 + overlaps + troubles
        /\ SayFree(x) => Copies(x) <= overlaps + troubles
    BY DEF SayOnce, SayFree
  <2>3. Copies(x)' = Copies(x)
    BY <1>1 DEF Copies
  <2>4. CASE x # t
    <3>1. Saying(x)' = Saying(x)
      BY <1>1, <2>4 DEF Saying, SayMoves
    <3>2. SayFree(x)' => SayFree(x)
      BY <1>1, <2>4 DEF SayFree, SayMoves, Sends
    <3>3. QED
      BY <1>1, <1>2, <2>1, <2>2, <2>3, <3>1, <3>2
  <2>5. CASE x = t
    <3>1. Saying(t)' \subseteq Saying(t) \cup {k} /\ ~SayFree(t)'
      BY <1>1 DEF Saying, SayFree, SayMoves, Sends
    <3>2. Saying(t)' = Saying(t) \cup {k} \/ Saying(t)' = Saying(t)
      BY <1>1, <3>1 DEF Saying, SayMoves
    <3>3. k \notin Saying(t)
      BY <1>1 DEF Saying
    <3>4. Cardinality(Saying(t)') <= Cardinality(Saying(t)) + 1 /\ Cardinality(Saying(t)') \in Nat
      <4>1. Cardinality(Saying(t) \cup {k}) = Cardinality(Saying(t)) + 1
        BY <2>1, <2>5, <3>3, FS_AddElement
      <4>2. Cardinality(Saying(t)') \in {Cardinality(Saying(t)), Cardinality(Saying(t)) + 1}
        BY <3>2, <4>1
      <4>3. QED
        BY <2>1, <2>5, <4>2
    <3>5. CASE \E l \in Callers : text[l] = t
      <4>1. overlaps' = overlaps + 1 /\ troubles' = troubles
        BY <1>1, <3>5
      <4>2. Copies(t)' + Cardinality(Saying(t)') <= 1 + overlaps' + troubles'
        BY <1>2, <2>1, <2>2, <2>3, <2>5, <3>4, <4>1
      <4>3. QED
        BY <2>5, <3>1, <4>2
    <3>6. CASE ~\E l \in Callers : text[l] = t
      <4>1. SayFree(t) /\ Saying(t) = {}
        BY <3>6 DEF SayFree, Saying
      <4>2. Cardinality(Saying(t)) = 0
        BY <4>1, FS_EmptySet
      <4>3. QED
        BY <1>1, <1>2, <2>1, <2>2, <2>3, <2>5, <3>1, <3>4, <3>6, <4>1, <4>2
    <3>7. QED
      BY <3>5, <3>6
  <2>6. QED
    BY <2>4, <2>5
<1>4. QED
  BY <1>3 DEF SayOnce, SayFree

\* A message more is at most a copy more.
LEMMA SayCopiesMore ==
    ASSUME SayTypes, NEW k \in Callers, at[k] = "send", Appears(k), NEW x \in Texts
    PROVE /\ Copies(x)' \in Nat /\ Copies(x) \in Nat /\ Copies(x)' <= Copies(x) + 1
          /\ ~(x = text[k] /\ sent[k] = <<>>) => Copies(x)' = Copies(x)
<1>1. /\ Len(chat') = Len(chat) + 1 /\ Len(chat) \in Nat
      /\ (\A m \in 1..Len(chat) : chat'[m] = chat[m])
      /\ chat'[Len(chat) + 1] = Message(text[k], Len(sent[k]) + 1, TRUE)
  BY SayAppears
<1>2. Len(sent[k]) \in Nat /\ (Len(sent[k]) = 0 <=> sent[k] = <<>>)
  BY SaySets DEF SayTypes, SayCallers
<1>3. SayCopied(x)' \subseteq SayCopied(x) \cup {Len(chat) + 1} /\ SayCopied(x) \subseteq SayCopied(x)'
      /\ Len(chat) + 1 \notin SayCopied(x)
  <2>1. \A i \in 1..(Len(chat) + 1) : i \in 1..Len(chat) \/ i = Len(chat) + 1
    BY <1>1
  <2>2. ASSUME NEW i \in SayCopied(x)' PROVE i \in SayCopied(x) \cup {Len(chat) + 1}
    BY <1>1, <2>1, <2>2 DEF SayCopied
  <2>3. ASSUME NEW i \in SayCopied(x) PROVE i \in SayCopied(x)'
    BY <1>1, <2>3 DEF SayCopied, Message
  <2>4. Len(chat) + 1 \notin SayCopied(x)
    <3>1. Len(chat) + 1 \notin 1..Len(chat)
      BY <1>1
    <3>2. QED
      BY <3>1 DEF SayCopied
  <2>5. QED
    BY <2>2, <2>3, <2>4
<1>4. SayCopied(x)' = SayCopied(x) \/ SayCopied(x)' = SayCopied(x) \cup {Len(chat) + 1}
  BY <1>3
<1>5. ASSUME ~(x = text[k] /\ sent[k] = <<>>) PROVE SayCopied(x)' = SayCopied(x)
  BY <1>1, <1>2, <1>3, <1>5 DEF SayCopied, Message
<1>6. IsFiniteSet(SayCopied(x)) /\ Copies(x) = Cardinality(SayCopied(x)) /\ Copies(x) \in Nat
  BY <1>1, SayCounts
<1>7. Copies(x)' = Cardinality(SayCopied(x)')
  BY DEF Copies, SayCopied
<1>8. Cardinality(SayCopied(x) \cup {Len(chat) + 1}) = Cardinality(SayCopied(x)) + 1
  BY <1>3, <1>6, FS_AddElement
<1>9. Copies(x)' \in {Copies(x), Copies(x) + 1}
  BY <1>4, <1>6, <1>7, <1>8
<1>10. ~(x = text[k] /\ sent[k] = <<>>) => Copies(x)' = Copies(x)
  BY <1>5, <1>6, <1>7
<1>11. QED
  BY <1>6, <1>9, <1>10

\* A part is said.
LEMMA SayOnceParts ==
    ASSUME SayTypes, SayTypes', SayOnce, NEW k \in Callers, SendPart(k)
    PROVE SayOnce'
<1>1. PICK p : p = (IF Len(sent[k]) + 1 = Wanted(k) THEN "record" ELSE "send")
  OBVIOUS
<1>2. /\ SayMoves(k, p, text[k], target[k], Append(sent[k], Len(chat) + 1), found[k]) /\ at[k] = "send"
      /\ Appears(k) /\ UNCHANGED <<rows, replies, overlaps, troubles>> /\ p \in Sends
  BY <1>1, SayPartMoves DEF SayTypes, SendPart, noted, Sends
<1>3. Len(chat) \in Nat /\ overlaps \in Nat /\ troubles \in Nat
  BY LenProperties, SenderAssumption DEF SayTypes, SayChat, SayNoted
<1>4. Append(sent[k], Len(chat) + 1) # <<>>
  <2>1. Len(Append(sent[k], Len(chat) + 1)) = Len(sent[k]) + 1 /\ Len(sent[k]) \in Nat
    BY <1>3, SaySets DEF SayTypes, SayCallers
  <2>2. QED
    BY <2>1, SayNone
<1>5. ASSUME NEW x \in Texts
      PROVE /\ Copies(x)' + Cardinality(Saying(x)') <= 1 + overlaps' + troubles'
            /\ SayFree(x)' => Copies(x)' <= overlaps' + troubles'
  <2>1. IsFiniteSet(Saying(x)) /\ Cardinality(Saying(x)) \in Nat
    BY <1>3, SayCounts
  <2>2. /\ Copies(x) + Cardinality(Saying(x)) <= 1 + overlaps + troubles
        /\ SayFree(x) => Copies(x) <= overlaps + troubles
    BY DEF SayOnce, SayFree
  <2>3. /\ Copies(x)' \in Nat /\ Copies(x) \in Nat /\ Copies(x)' <= Copies(x) + 1
        /\ ~(x = text[k] /\ sent[k] = <<>>) => Copies(x)' = Copies(x)
    BY <1>2, SayCopiesMore
  <2>4. Saying(x)' = Saying(x) \ {k}
    BY <1>2, <1>4 DEF Saying, SayMoves
  <2>5. SayFree(x)' => x # text[k] /\ SayFree(x)
    BY <1>2 DEF SayFree, SayMoves, Sends
  <2>6. k \in Saying(x) <=> x = text[k] /\ sent[k] = <<>>
    BY <1>2 DEF Saying
  <2>7. Cardinality(Saying(x)') = IF k \in Saying(x) THEN Cardinality(Saying(x)) - 1 ELSE Cardinality(Saying(x))
    BY <2>1, <2>4, FS_RemoveElement
  <2>8. CASE k \in Saying(x)
    <3>1. Cardinality(Saying(x)') = Cardinality(Saying(x)) - 1
      BY <2>7, <2>8
    <3>2. ~SayFree(x)'
      BY <2>5, <2>6, <2>8
    <3>3. Copies(x)' + Cardinality(Saying(x)') <= 1 + overlaps + troubles
      BY <1>3, <2>1, <2>2, <2>3, <3>1
    <3>4. QED
      BY <1>2, <3>2, <3>3
  <2>9. CASE k \notin Saying(x)
    <3>1. Cardinality(Saying(x)') = Cardinality(Saying(x)) /\ Copies(x)' = Copies(x)
      BY <2>3, <2>6, <2>7, <2>9
    <3>2. QED
      BY <1>2, <1>3, <2>1, <2>2, <2>3, <2>5, <3>1
  <2>10. QED
    BY <2>8, <2>9
<1>6. QED
  BY <1>5 DEF SayOnce, SayFree

\* A part is said, unheard.
LEMMA SayOnceUnheard ==
    ASSUME SayTypes, SayTypes', SayOnce, NEW k \in Callers, SentUnheard(k)
    PROVE SayOnce'
<1>1. /\ at[k] = "send" /\ Appears(k) /\ UNCHANGED <<at, text, sent, replies, overlaps>> /\ troubles' = troubles + 1
  BY DEF SentUnheard, noted, Trouble
<1>2. Len(chat) \in Nat /\ overlaps \in Nat /\ troubles \in Nat
  BY LenProperties, SenderAssumption DEF SayTypes, SayChat, SayNoted
<1>3. ASSUME NEW x \in Texts
      PROVE /\ Copies(x)' + Cardinality(Saying(x)') <= 1 + overlaps' + troubles'
            /\ SayFree(x)' => Copies(x)' <= overlaps' + troubles'
  <2>1. Cardinality(Saying(x)) \in Nat
    BY <1>2, SayCounts
  <2>2. /\ Copies(x) + Cardinality(Saying(x)) <= 1 + overlaps + troubles
        /\ SayFree(x) => Copies(x) <= overlaps + troubles
    BY DEF SayOnce, SayFree
  <2>3. Copies(x)' \in Nat /\ Copies(x) \in Nat /\ Copies(x)' <= Copies(x) + 1
    BY <1>1, SayCopiesMore
  <2>4. Saying(x)' = Saying(x) /\ (SayFree(x)' <=> SayFree(x))
    BY <1>1 DEF Saying, SayFree
  <2>5. QED
    BY <1>1, <1>2, <2>1, <2>2, <2>3, <2>4
<1>4. QED
  BY <1>3 DEF SayOnce, SayFree

\* Parts of the invariant.
LEMMA SayParts ==
    ASSUME SayInv
    PROVE SayTypes /\ SayApart /\ SaySent /\ (troubles = 0 => SayQuiet) /\ SayOnce
          /\ SayCallers /\ Len(chat) \in Nat /\ Len(rows) \in Nat /\ troubles \in Nat
BY LenProperties, SenderAssumption DEF SayInv, SayTypes, SayChat, SayEntries, SayNoted

\* What follows a caller that was not at a message and that changes none.
LEMMA SayStepBegins ==
    ASSUME SayInv, NEW k \in Callers, NEW t \in Texts, Begin(k, t), replies[t] = NoReply
    PROVE SayInv'
<1>1. SayTypes /\ SayApart /\ SaySent /\ (troubles = 0 => SayQuiet) /\ SayOnce
      /\ SayCallers /\ Len(chat) \in Nat /\ Len(rows) \in Nat
  BY SayParts
<1>2. /\ SayMoves(k, "send", t, target[k], sent[k], found[k]) /\ at[k] = "idle" /\ sent[k] = <<>>
      /\ UNCHANGED <<chat, rows, replies, raced, troubles>> /\ ToSet(sent[k]) = {}
  BY <1>1, SayBeginsMove, SayNone DEF Begin, chatVars, SayTypes, SayPlace, Sends
<1>3. SayTypes'
  BY <1>1, SayTypeBegins
<1>4. SayApart'
  BY <1>1, <1>2, SayHas, SayStaysApart
<1>5. SaySent'
  BY <1>1, <1>2, SayStaysSent
<1>6. troubles' = 0 => SayQuiet'
  BY <1>1, <1>2, <1>3, SayStaysQuiet DEF Sending, Touches
<1>7. SayOnce'
  BY <1>1, <1>3, SayOnceBegins
<1>8. QED
  BY <1>3, <1>4, <1>5, <1>6, <1>7 DEF SayInv

\* A part is sent.
LEMMA SayStepParts ==
    ASSUME SayInv, NEW k \in Callers, SendPart(k)
    PROVE SayInv'
<1>1. SayTypes /\ SayApart /\ SaySent /\ (troubles = 0 => SayQuiet) /\ SayOnce
      /\ SayCallers /\ Len(chat) \in Nat /\ Len(rows) \in Nat
  BY SayParts
<1>2. PICK p : p = (IF Len(sent[k]) + 1 = Wanted(k) THEN "record" ELSE "send")
  OBVIOUS
<1>3. PICK s : s = Append(sent[k], Len(chat) + 1)
  OBVIOUS
<1>4. /\ SayMoves(k, p, text[k], target[k], s, found[k]) /\ at[k] = "send" /\ p \in {"send", "record"}
      /\ UNCHANGED <<rows, replies, raced, troubles>> /\ Appears(k)
  BY <1>1, <1>2, <1>3, SayPartMoves DEF SayTypes, SendPart, noted
<1>5. /\ SayChat' /\ Len(chat') = Len(chat) + 1 /\ (\A m \in 1..Len(chat) : chat'[m] = chat[m])
      /\ chat'[Len(chat) + 1] = Message(text[k], Len(sent[k]) + 1, TRUE)
  BY <1>1, <1>4, SayAppears
<1>6. ToSet(s) = ToSet(sent[k]) \cup {Len(chat) + 1} /\ Len(sent[k]) \in Nat
  BY <1>1, <1>3, SaySets DEF SayCallers
<1>7. Len(chat) + 1 \notin 0..Len(chat) /\ Len(chat) + 1 \notin 1..Len(chat)
      /\ \A m \in 1..Len(chat') : m \notin 1..Len(chat) => m = Len(chat) + 1
  BY <1>1, <1>5
<1>8. SayTypes'
  BY <1>1, SayTypeParts
<1>9. SayApart'
  BY <1>1, <1>4, <1>5, <1>6, <1>7, SayHas, SayStaysApart DEF Sending
<1>10. SaySent'
  <2>1. chat'[Len(chat) + 1].part # 0 /\ chat'[Len(chat) + 1].text = text[k]
    BY <1>5, <1>6 DEF Message
  <2>2. \A m \in ToSet(s) : \/ Sending(k) /\ m \in ToSet(sent[k])
                            \/ m \notin 0..Len(chat) /\ chat'[m].part # 0 /\ chat'[m].text = text[k]
    BY <1>4, <1>6, <1>7, <2>1 DEF Sending
  <2>3. raced \subseteq raced' /\ \A m \in 1..Len(chat) : chat'[m] = chat[m]
    BY <1>4, <1>5
  <2>4. QED
    BY <1>1, <1>4, <2>2, <2>3, SayStaysSent
<1>11. troubles' = 0 => SayQuiet'
  BY <1>1, <1>4, <1>5, <1>6, <1>7, <1>8, SayStaysQuiet DEF Sending, Touches
<1>12. SayOnce'
  BY <1>1, <1>8, SayOnceParts
<1>13. QED
  BY <1>8, <1>9, <1>10, <1>11, <1>12 DEF SayInv

\* A request without a key.
LEMMA SayStepPosts ==
    ASSUME SayInv, NEW k \in Callers, NEW t \in Texts, Posts(k, t)
    PROVE SayInv'
<1>1. SayTypes /\ SayApart /\ SaySent /\ (troubles = 0 => SayQuiet) /\ SayOnce
      /\ SayCallers /\ Len(chat) \in Nat /\ Len(rows) \in Nat /\ SayChat /\ troubles \in Nat
  BY SayParts DEF SayTypes
<1>2. PICK s : s = [i \in 1..Parts[t].media |-> Len(chat) + i]
  OBVIOUS
<1>3. PICK n : n = Parts[t].media
  OBVIOUS
<1>4. /\ SayMoves(k, "record", t, target[k], s, found[k])
      /\ n \in Nat /\ Len(s) = n /\ ToSet(s) = (Len(chat) + 1)..(Len(chat) + n)
      /\ Len(chat') = Len(chat) + n
      /\ \A m \in 1..Len(chat) : chat'[m] = chat[m]
      /\ \A i \in 1..n : chat'[Len(chat) + i] = Message(t, i, FALSE)
  BY <1>1, <1>2, <1>3, SayPostMoves
<1>5. /\ UNCHANGED <<rows, replies, raced, troubles, overlaps>> /\ at[k] = "idle"
  BY DEF Posts, noted
<1>6. ASSUME NEW m, m \in ToSet(s)
      PROVE /\ m \notin 0..Len(chat) /\ m \notin 1..Len(chat)
            /\ chat'[m].part # 0 /\ chat'[m].text = t /\ chat'[m].keyed = FALSE
  <2>1. m \in (Len(chat) + 1)..(Len(chat) + n)
    BY <1>4, <1>6
  <2>2. m - Len(chat) \in 1..n /\ Len(chat) + (m - Len(chat)) = m /\ m \notin 0..Len(chat) /\ m \notin 1..Len(chat)
    BY <1>1, <1>4, <2>1
  <2>3. chat'[m] = Message(t, m - Len(chat), FALSE)
    BY <1>4, <2>2
  <2>4. QED
    BY <1>4, <2>2, <2>3 DEF Message
<1>7. \A m \in 1..Len(chat') : m \notin 1..Len(chat) => m \in ToSet(s)
  BY <1>1, <1>4
<1>8. SayTypes'
  BY <1>1, SayTypePosts
<1>9. Len(chat') >= Len(chat) /\ Len(chat') \in Nat
  BY <1>1, <1>4
<1>10. SayApart'
  BY <1>1, <1>4, <1>5, <1>6, <1>9, SayHas, SayStaysApart
<1>11. SaySent'
  BY <1>1, <1>4, <1>5, <1>6, SayStaysSent
<1>12. troubles' = 0 => SayQuiet'
  BY <1>1, <1>4, <1>5, <1>6, <1>7, <1>8, <1>9, SayStaysQuiet DEF Sending, Touches
<1>13. SayOnce'
  <2>1. \A i \in 1..Len(chat') : \/ i \in 1..Len(chat) /\ chat'[i] = chat[i]
                                 \/ chat'[i].keyed = FALSE
    BY <1>4, <1>6, <1>7
  <2>2. at[k] \notin Sends /\ overlaps' = overlaps /\ troubles' >= troubles
    BY <1>1, <1>5 DEF Sends
  <2>3. QED
    BY <1>1, <1>4, <1>5, <1>8, <2>1, <2>2, SayStaysOnce
<1>14. QED
  BY <1>8, <1>10, <1>11, <1>12, <1>13 DEF SayInv

\* Another attempt, or as a document.
LEMMA SayStepWaits ==
    ASSUME SayInv, NEW k \in Callers, Fallback(k) \/ Wait(k)
    PROVE SayInv'
<1>1. SayTypes /\ SayApart /\ SaySent /\ (troubles = 0 => SayQuiet) /\ SayOnce
      /\ SayCallers /\ Len(chat) \in Nat /\ Len(rows) \in Nat /\ troubles \in Nat
  BY SayParts
<1>2. /\ SayMoves(k, at[k], text[k], target[k], sent[k], found[k]) /\ at[k] \in {"send", "edit", "delete"}
      /\ UNCHANGED <<at, text, target, sent, found, chat, rows, replies, overlaps, raced, troubles>>
  BY DEF Fallback, Wait, SayMoves, chatVars, noted
<1>3. SayTypes'
  BY <1>1, SayTypeWaits
<1>4. SayApart'
  BY <1>1, <1>2, SayHas, SayStaysApart DEF Sending
<1>5. SaySent'
  BY <1>1, <1>2 DEF SaySent, Sending
<1>6. troubles' = 0 => SayQuiet'
  BY <1>1, <1>2, <1>3, SayStaysQuiet DEF Sending, Touches
<1>7. SayOnce'
  <2>1. overlaps' = overlaps /\ troubles' >= troubles
        /\ \A i \in 1..Len(chat') : i \in 1..Len(chat) /\ chat'[i] = chat[i]
    BY <1>1, <1>2
  <2>2. QED
    BY <1>1, <1>2, <1>3, <2>1, SayStaysOnce
<1>8. QED
  BY <1>3, <1>4, <1>5, <1>6, <1>7 DEF SayInv

\* A part is sent, unheard.
LEMMA SayStepUnheard ==
    ASSUME SayInv, NEW k \in Callers, SentUnheard(k)
    PROVE SayInv'
<1>1. SayTypes /\ SayApart /\ SaySent /\ SayOnce
      /\ SayCallers /\ Len(chat) \in Nat /\ Len(rows) \in Nat /\ troubles \in Nat
  BY SayParts
<1>2. /\ SayMoves(k, at[k], text[k], target[k], sent[k], found[k]) /\ at[k] = "send" /\ Appears(k)
      /\ UNCHANGED <<at, text, target, sent, found, rows, replies, overlaps, raced>> /\ troubles' = troubles + 1
  BY DEF SentUnheard, SayMoves, noted, Trouble
<1>3. Len(chat') = Len(chat) + 1 /\ (\A m \in 1..Len(chat) : chat'[m] = chat[m])
  BY <1>1, <1>2, SayAppears
<1>4. SayTypes'
  BY <1>1, SayTypeUnheard
<1>5. SayApart'
  BY <1>1, <1>2, <1>3, SayHas, SayStaysApart DEF Sending
<1>6. SaySent'
  BY <1>1, <1>2, <1>3, SayStaysSent DEF Sending
<1>7. SayOnce'
  BY <1>1, <1>4, SayOnceUnheard
<1>8. troubles' # 0
  BY <1>1, <1>2
<1>9. QED
  BY <1>4, <1>5, <1>6, <1>7, <1>8 DEF SayInv

\* The answer is remembered, and calls end.
LEMMA SayStepEnds ==
    ASSUME SayInv, NEW k \in Callers, Remember(k) \/ NotModified(k) \/ Refused(k) \/ Gone(k) \/ Crash(k)
    PROVE SayInv'
<1>1. SayTypes /\ SayApart /\ SaySent /\ (troubles = 0 => SayQuiet) /\ SayOnce
      /\ SayCallers /\ Len(chat) \in Nat /\ Len(rows) \in Nat /\ troubles \in Nat
  BY SayParts
<1>2. End(k) /\ UNCHANGED <<chat, rows, overlaps, raced>>
  BY DEF Remember, NotModified, Refused, Gone, Crash, noted, chatVars
<1>3. SayMoves(k, "idle", NoText, 0, <<>>, NotFound)
  BY <1>1, <1>2, SayEnds
<1>4. SayTypes'
  BY <1>1, SayTypeRemembers, SayTypeEnds
<1>5. SayApart'
  BY <1>1, <1>2, <1>3, SayHas, SayStaysApart
<1>6. SaySent'
  BY <1>1, <1>2, <1>3, SayStaysSent
<1>7. troubles' = troubles + 1 \/ (troubles' = troubles /\ at[k] \in {"remember", "edit", "delete"})
  <2>1. CASE Remember(k)
    BY <2>1 DEF Remember, Trouble
  <2>2. CASE NotModified(k)
    BY <2>2 DEF NotModified
  <2>3. CASE Gone(k)
    BY <2>3 DEF Gone
  <2>4. CASE Refused(k)
    BY <2>4 DEF Refused, Trouble
  <2>5. CASE Crash(k)
    BY <2>5 DEF Crash, Trouble
  <2>6. QED
    BY Zenon, <2>1, <2>2, <2>3, <2>4, <2>5
<1>8. troubles' = 0 => SayQuiet'
  <2>1. ASSUME troubles' = 0 PROVE SayQuiet /\ at[k] \in {"remember", "edit", "delete"}
    BY <1>1, <1>7, <2>1
  <2>2. QED
    BY <1>1, <1>2, <1>3, <1>4, <2>1, SayStaysQuiet DEF Sending, Touches
<1>9. SayOnce'
  <2>a. overlaps' = overlaps /\ troubles' >= troubles
        /\ \A i \in 1..Len(chat') : i \in 1..Len(chat) /\ chat'[i] = chat[i]
    BY <1>1, <1>2, <1>7
  <2>1. CASE troubles' = troubles + 1
    <3>1. troubles' >= troubles + 1
      BY <1>1, <2>1
    <3>2. QED
      BY <1>1, <1>3, <1>4, <2>a, <3>1, SayStaysOnce
  <2>2. CASE troubles' = troubles /\ at[k] \in {"edit", "delete"}
    <3>1. UNCHANGED replies /\ at[k] \notin Sends
      BY <2>2 DEF Remember, NotModified, Refused, Gone, Crash, chatVars, Sends
    <3>2. QED
      BY <1>1, <1>3, <1>4, <2>a, <3>1, SayStaysOnce
  <2>3. CASE troubles' = troubles /\ at[k] = "remember"
    <3>1. replies' = [replies EXCEPT ![text[k]] = sent[k]]
      BY <1>1, <2>3 DEF Remember, NotModified, Refused, Gone, Crash, Trouble
    <3>2. text[k] \in Texts /\ ToSet(sent[k]) \subseteq 1..Len(chat) /\ replies \in [Texts -> Seq(Nat)]
      BY <1>1, <2>3 DEF SayTypes, SayPlace, Sends, SayReplies
    <3>3. sent[k] # NoReply
      <4>1. ToSet(NoReply) = {0}
        BY DEF NoReply, ToSet
      <4>2. ASSUME sent[k] = NoReply PROVE FALSE
        <5>1. 0 \in ToSet(sent[k])
          BY Zenon, <4>1, <4>2
        <5>2. QED
          BY <1>1, <3>2, <5>1
      <4>3. QED
        BY <4>2
    <3>4. replies'[text[k]] # NoReply /\ \A x \in Texts \ {text[k]} : replies'[x] = replies[x]
      BY <3>1, <3>2, <3>3
    <3>5. QED
      BY <1>1, <1>3, <1>4, <2>a, <3>4, SayStaysOnce
  <2>4. QED
    BY <1>7, <2>1, <2>2, <2>3
<1>10. QED
  BY <1>4, <1>5, <1>6, <1>8, <1>9 DEF SayInv

\* A message is to be edited or deleted: those at it, or at its company, meet.
LEMMA SayStepStarts ==
    ASSUME SayInv, NEW k \in Callers, NEW m \in 1..MaxShown, NEW t \in Texts \cup Edits \cup {NoText}, NEW p,
           (p = "edit" /\ t \in Edits) \/ (p = "delete" /\ t = text[k]),
           at[k] = "idle", m \in 1..Len(chat), Goto(k, p), target' = [target EXCEPT ![k] = m],
           text' = [text EXCEPT ![k] = t], Meet(k, m),
           UNCHANGED <<chat, rows, replies, plain, sent, tries, found, overlaps, troubles>>
    PROVE SayInv'
<1>1. SayTypes /\ SayApart /\ SaySent /\ (troubles = 0 => SayQuiet) /\ SayOnce
      /\ SayCallers /\ Len(chat) \in Nat /\ Len(rows) \in Nat /\ troubles \in Nat
  BY SayParts
<1>2. SayTypes' /\ SayMoves(k, p, t, m, sent[k], found[k]) /\ p \in {"edit", "delete"}
  BY <1>1, SayTypeStarts
<1>3. raced \subseteq raced'
  BY DEF Meet
<1>4. ASSUME NEW l \in Callers, l # k, m \in ToSet(sent[l]) \/ target[l] \in Company(m)
      PROVE Company(m) \subseteq raced' /\ m \in raced'
  <2>1. m \in Company(m)
    BY DEF Company
  <2>2. (ToSet(sent[l]) \cup {target[l]}) \cap Company(m) # {}
    BY <1>4, <2>1
  <2>3. raced' = raced \cup Company(m)
    BY <1>4, <2>2 DEF Meet
  <2>4. QED
    BY <2>1, <2>3
<1>5. ASSUME NEW i \in 1..Len(rows), m \in rows[i].ids PROVE rows[i].ids \subseteq Company(m)
  <2>1. RowOf(m) \in 1..Len(rows) /\ m \in rows[RowOf(m)].ids /\ RowOf(m) # 0
    BY <1>1, <1>5, SayRowOf DEF SayTypes
  <2>2. RowOf(m) = i
    BY <1>1, <1>5, <2>1 DEF SayApart, Has
  <2>3. QED
    BY <2>1, <2>2 DEF Company
<1>6. SayApart'
  BY <1>1, <1>2, SayHas, SayStaysApart
<1>7. SaySent'
  <2>1. \A l \in Callers \ {k} : m \in ToSet(sent[l]) => m \in raced'
    BY <1>4
  <2>2. \A x \in 1..Len(chat) : chat'[x] = chat[x]
    OBVIOUS
  <2>3. QED
    BY <1>1, <1>2, <1>3, <2>1, <2>2, SayStaysSent
<1>8. SayOnce'
  <2>1. overlaps' = overlaps /\ troubles' >= troubles /\ at[k] \notin Sends
        /\ \A i \in 1..Len(chat') : i \in 1..Len(chat) /\ chat'[i] = chat[i]
    BY <1>1 DEF Sends
  <2>2. QED
    BY <1>1, <1>2, <2>1, SayStaysOnce
<1>9. ASSUME troubles = 0 PROVE SayQuiet'
  <2>1. SayHome /\ SayAlone /\ SayLeft /\ SayMet /\ SayWritten /\ SayTexts /\ SayMany
    BY <1>1, <1>9 DEF SayQuiet
  <2>2. ASSUME NEW l \in Callers
        PROVE /\ \A q \in {"set", "find", "forget"} : at'[l] = q <=> at[l] = q
              /\ at[l] \in Touches => target'[l] = target[l] /\ text'[l] = text[l] /\ found'[l] = found[l]
              /\ l # k => at'[l] = at[l] /\ target'[l] = target[l]
    BY <1>2 DEF SayMoves, Touches
  <2>3. \A x : (Held(x)' <=> Held(x)) /\ (Alive(x)' <=> Alive(x))
    BY <1>2, <2>2 DEF Held, Sending, Alive, Forgets, Touches, SayMoves
  <2>4. \A i \in 1..Len(rows) : \A x : Has(i, x)' <=> Has(i, x)
    BY <2>2 DEF Has, Touches
  <2>5. SayHome'
    BY <2>1, <2>2, <2>3 DEF SayHome, Touches
  <2>6. SayAlone'
    BY <2>1, <2>2 DEF SayAlone, Forgets, Touches
  <2>7. SayLeft'
    BY <1>3, <2>1, <2>3, <2>4 DEF SayLeft
  <2>8. SayMet'
    <3>1. ASSUME NEW l \in Callers, l # k, Works(l)',
                 \/ target[l] = m
                 \/ \E i \in 1..Len(rows) : {m, target[l]} \subseteq rows[i].ids
          PROVE {m, target[l]} \subseteq raced'
      <4>1. target[l] \in Company(m)
        BY <1>5, <3>1 DEF Company
      <4>2. QED
        BY <1>4, <3>1, <4>1
    <3>2. ASSUME NEW l \in Callers, NEW n \in Callers, l # n, Works(l)', Works(n)',
                 \/ target'[l] = target'[n]
                 \/ \E i \in 1..Len(rows) : {target'[l], target'[n]} \subseteq rows[i].ids
          PROVE {target'[l], target'[n]} \subseteq raced'
      <4>1. target'[k] = m
        BY <1>2 DEF SayMoves
      <4>2. CASE l = k
        BY <2>2, <3>1, <3>2, <4>1, <4>2
      <4>3. CASE n = k
        BY <2>2, <3>1, <3>2, <4>1, <4>3
      <4>4. CASE l # k /\ n # k
        <5>1. /\ Works(l) /\ Works(n) /\ target'[l] = target[l] /\ target'[n] = target[n]
          BY <2>2, <3>2, <4>4 DEF Works
        <5>2. QED
          BY <1>3, <2>1, <3>2, <5>1 DEF SayMet
      <4>5. QED
        BY <4>2, <4>3, <4>4
    <3>3. QED
      BY <3>2 DEF SayMet
  <2>9. SayWritten'
    <3>1. ASSUME NEW l \in Callers, at'[l] = "set", target'[l] \notin raced'
          PROVE chat'[target'[l]] = Edited(l)'
      <4>1. at[l] = "set" /\ target'[l] = target[l] /\ text'[l] = text[l] /\ target[l] \notin raced
        BY <1>3, <2>2, <3>1 DEF Touches
      <4>2. chat[target[l]] = Edited(l)
        BY <2>1, <4>1 DEF SayWritten
      <4>3. QED
        BY <4>1, <4>2 DEF Edited
    <3>2. QED
      BY <3>1 DEF SayWritten
  <2>10. SayTexts'
    BY <1>3, <2>1, <2>2 DEF SayTexts, Single, Touches
  <2>11. SayMany'
    BY <1>3, <2>1 DEF SayMany, Single
  <2>12. QED
    BY <2>5, <2>6, <2>7, <2>8, <2>9, <2>10, <2>11 DEF SayQuiet
<1>10. QED
  BY <1>2, <1>6, <1>7, <1>8, <1>9 DEF SayInv

\* Telegram edits or deletes.
LEMMA SayStepDoes ==
    ASSUME SayInv, NEW k \in Callers, Edit(k) \/ EditUnheard(k) \/ Delete(k) \/ DeleteUnheard(k)
    PROVE SayInv'
<1> DEFINE m == target[k]
<1>1. SayTypes /\ SayApart /\ SaySent /\ (troubles = 0 => SayQuiet) /\ SayOnce
      /\ SayCallers /\ Len(chat) \in Nat /\ Len(rows) \in Nat /\ troubles \in Nat
  BY SayParts
<1>2. /\ SayTypes' /\ Len(chat') = Len(chat) /\ m \in 1..Len(chat)
      /\ \A i \in 1..Len(chat) : i # m => chat'[i] = chat[i]
      /\ Edit(k) => chat'[m] = Edited(k)
      /\ Delete(k) => chat'[m].part = 0 /\ chat'[m].text = chat[m].text
      /\ chat'[m] = Edited(k) \/ chat'[m].part = 0
      /\ Edit(k) => SayMoves(k, "set", text[k], m, sent[k], found[k])
      /\ Delete(k) => SayMoves(k, "find", text[k], m, sent[k], found[k])
  BY <1>1, SayTypeDoes
<1>3. PICK p \in {at[k], "set", "find"} : SayMoves(k, p, text[k], m, sent[k], found[k])
  BY <1>1, SayTypeDoes
<1>4. /\ at[k] \in {"edit", "delete"} /\ chat[m].part # 0
      /\ UNCHANGED <<rows, replies, text, target, sent, found, overlaps, raced>>
  BY DEF Edit, EditUnheard, Delete, DeleteUnheard, noted, callerVars
<1>5. p \in {"edit", "delete", "set", "find"} /\ sent[k] = <<>> /\ at[k] \notin Sends
  BY <1>1, <1>3, <1>4 DEF SayTypes, SayPlace, Sends
<1>6. SayApart'
  BY <1>1, <1>2, <1>3, <1>4, <1>5, SayHas, SayStaysApart
<1>7. SaySent'
  <2>1. raced \subseteq raced' /\ \A x \in 1..Len(chat) : chat'[x] = chat[x] \/ x = target[k]
    BY <1>2, <1>4
  <2>2. QED
    BY <1>1, <1>3, <1>5, <2>1, SayStaysSent
<1>8. troubles' = troubles + 1 \/ (troubles' = troubles /\ (Edit(k) \/ Delete(k)))
  <2>1. CASE EditUnheard(k)
    BY <2>1 DEF EditUnheard, Trouble
  <2>2. CASE DeleteUnheard(k)
    BY <2>2 DEF DeleteUnheard, Trouble
  <2>3. CASE Edit(k)
    BY <2>3 DEF Edit
  <2>4. CASE Delete(k)
    BY <2>4 DEF Delete
  <2>5. QED
    BY Zenon, <2>1, <2>2, <2>3, <2>4
<1>9. SayOnce'
  <2>1. overlaps' = overlaps /\ troubles' >= troubles
    BY <1>1, <1>4, <1>8
  <2>2. \A i \in 1..Len(chat') : \/ i \in 1..Len(chat) /\ chat'[i] = chat[i]
                                 \/ chat'[i].keyed = FALSE
                                 \/ chat'[i].part # 1
    BY <1>2 DEF Edited, Message
  <2>3. QED
    BY <1>1, <1>2, <1>3, <1>4, <1>5, <2>1, <2>2, SayStaysOnce
<1>10. ASSUME troubles' = 0 PROVE SayQuiet'
  <2>1. SayHome /\ SayAlone /\ SayLeft /\ SayMet /\ SayWritten /\ SayTexts /\ SayMany
    BY <1>1, <1>8, <1>10 DEF SayQuiet
  <2>2. Edit(k) \/ Delete(k)
    BY <1>1, <1>8, <1>10
  <2>3. /\ (Edit(k) => at[k] = "edit") /\ (Delete(k) => at[k] = "delete") /\ at'[k] \in {"set", "find"}
        /\ (at'[k] = "set" => chat'[m] = Edited(k)) /\ (at'[k] = "find" => chat'[m].part = 0)
        /\ (at'[k] = "find" => chat'[m].text = chat[m].text)
    BY <1>2, <2>2 DEF Edit, Delete, SayMoves
  <2>4. /\ chat'[m].part # 0 \/ at'[k] = "find"
        /\ \A l \in Callers \ {k} : at'[l] = at[l]
    BY <1>2, <1>3, <2>3 DEF Edited, Message, SayMoves
  <2>5. \A l \in Callers : at[l] \in Forgets => at'[l] = at[l]
    BY <1>4, <2>4 DEF Forgets
  <2>6. ASSUME NEW l \in Callers, at[l] \in Forgets PROVE target[l] # m
    BY <1>4, <2>1, <2>6 DEF SayAlone
  <2>7. \A x \in 1..Len(chat) : (Held(x)' <=> Held(x)) /\ (Alive(x)' <=> Alive(x))
    <3>1. ASSUME NEW x \in 1..Len(chat) PROVE Held(x)' <=> Held(x)
      BY <1>3, <1>4, <1>5, SayHolds DEF Sending
    <3>2. ASSUME NEW x \in 1..Len(chat) PROVE Alive(x)' <=> Alive(x)
      <4>1. CASE x = m
        BY <1>4, <2>4, <4>1 DEF Alive, Forgets
      <4>2. CASE x # m
        <5>1. chat'[x] = chat[x]
          BY <1>2, <4>2
        <5>2. \A l \in Callers : (at'[l] \in Forgets /\ target[l] = x) <=> (at[l] \in Forgets /\ target[l] = x)
          BY <2>4, <2>5, <4>2 DEF Forgets
        <5>3. QED
          BY <1>4, <5>1, <5>2 DEF Alive
      <4>3. QED
        BY <4>1, <4>2
    <3>3. QED
      BY <3>1, <3>2
  <2>8. \A i \in 1..Len(rows) : \A x : Has(i, x)' <=> Has(i, x)
    BY <1>4, <2>3, <2>4 DEF Has
  <2>9. \A l \in Callers : at'[l] = "forget" <=> at[l] = "forget"
    BY <1>4, <2>3, <2>4
  <2>10. SayHome'
    BY <1>2, <1>4, <2>1, <2>7, <2>9 DEF SayHome
  <2>11. SayAlone'
    <3>1. ASSUME NEW l \in Callers, at'[l] \in Forgets PROVE chat'[target[l]].part = 0 /\ (l # k => target[l] # m)
      <4>1. CASE l = k
        BY <2>3, <3>1, <4>1 DEF Forgets
      <4>2. CASE l # k
        <5>1. at[l] \in Forgets /\ target[l] # m /\ chat[target[l]].part = 0
          BY <2>1, <2>4, <2>6, <3>1, <4>2 DEF SayAlone
        <5>2. target[l] \in 1..Len(chat)
          BY <1>1, <5>1 DEF SayTypes, SayPlace, Forgets, Touches
        <5>3. QED
          BY <1>2, <5>1, <5>2
      <4>3. QED
        BY <4>1, <4>2
    <3>2. ASSUME NEW l \in Callers, NEW n \in Callers, at'[l] \in Forgets, at'[n] \in Forgets, l # n
          PROVE target[l] # target[n]
      <4>1. CASE l = k \/ n = k
        BY <3>1, <3>2, <4>1
      <4>2. CASE l # k /\ n # k
        BY <2>1, <2>4, <3>2, <4>2 DEF SayAlone
      <4>3. QED
        BY <4>1, <4>2
    <3>3. QED
      BY <1>4, <3>1, <3>2 DEF SayAlone
  <2>12. SayLeft'
    BY <1>2, <1>4, <2>1, <2>7, <2>8 DEF SayLeft
  <2>13. ASSUME NEW l \in Callers, Works(l)' PROVE Works(l)
    <3>1. CASE l = k
      BY <1>4, <3>1 DEF Works
    <3>2. CASE l # k
      <4>1. at'[l] = at[l] /\ target'[l] = target[l]
        BY <1>4, <2>4, <3>2
      <4>2. at[l] \in Touches => target[l] \in 1..Len(chat)
        BY <1>1 DEF SayTypes, SayPlace
      <4>3. QED
        BY <1>2, <1>4, <2>13, <4>1, <4>2 DEF Works, Touches
    <3>3. QED
      BY <3>1, <3>2
  <2>14. SayMet'
    BY <1>4, <2>1, <2>13 DEF SayMet
  <2>15. SayWritten'
    <3>1. ASSUME NEW l \in Callers, at'[l] = "set", target[l] \notin raced PROVE chat'[target[l]] = Edited(l)
      <4>1. CASE l = k
        BY <2>3, <3>1, <4>1
      <4>2. CASE l # k
        <5>1. at[l] = "set" /\ chat[target[l]] = Edited(l) /\ target[l] \in 1..Len(chat)
          BY <1>1, <2>1, <2>4, <3>1, <4>2 DEF SayWritten, SayTypes, SayPlace, Touches
        <5>2. Works(k) /\ Works(l)
          BY <1>4, <5>1 DEF Works, Edited, Message
        <5>3. target[l] # m
          BY <2>1, <3>1, <4>2, <5>2 DEF SayMet
        <5>4. QED
          BY <1>2, <5>1, <5>3
      <4>3. QED
        BY <4>1, <4>2
    <3>2. QED
      BY <1>4, <3>1 DEF SayWritten, Edited
  <2>16. SayTexts'
    <3>1. ASSUME NEW i \in 1..Len(rows), NEW x \in rows[i].ids \ raced,
                 \A l \in Callers : at'[l] = "set" => target[l] # x, Single(rows[i].text)
          PROVE rows[i].text = chat'[x].text
      <4>1. x \in 1..Len(chat)
        BY <1>1 DEF SayApart, Has
      <4>2. x = m => at'[k] = "find"
        BY <2>3, <3>1
      <4>3. chat'[x].text = chat[x].text
        BY <1>2, <2>3, <4>1, <4>2
      <4>4. \A l \in Callers : at[l] = "set" => target[l] # x
        BY <1>4, <2>4, <3>1
      <4>5. QED
        BY <2>1, <3>1, <4>3, <4>4 DEF SayTexts
    <3>2. QED
      BY <1>4, <3>1 DEF SayTexts, Single
  <2>17. SayMany'
    BY <1>4, <2>1 DEF SayMany, Single
  <2>18. QED
    BY <2>10, <2>11, <2>12, <2>14, <2>15, <2>16, <2>17 DEF SayQuiet
<1>11. QED
  BY <1>2, <1>6, <1>7, <1>9, <1>10 DEF SayInv

\* A call that touched a message ends: nothing is said, and what is held stays.
LEMMA SayLeaves ==
    ASSUME SayInv, SayTypes', NEW k \in Callers, at[k] \in Touches, UNCHANGED <<chat, replies, overlaps, raced, troubles>>,
           NEW p, NEW t, NEW g, NEW s, NEW f, SayMoves(k, p, t, g, s, f), p \in {"idle", "forget"}, s = sent[k],
           g \in {0, target[k]}, Len(rows') = Len(rows), \A i \in 1..Len(rows) : \A m : Has(i, m)' => Has(i, m)
    PROVE SayApart' /\ SaySent' /\ SayOnce' /\ \A m : Held(m)' <=> Held(m)
<1>1. SayTypes /\ SayApart /\ SaySent /\ SayOnce /\ Len(chat) \in Nat /\ Len(rows) \in Nat /\ troubles \in Nat
  BY SayParts
<1>2. ~Sending(k) /\ p \notin {"send", "record"} /\ at[k] \notin Sends
  BY DEF Touches, Sending, Sends
<1>3. SayApart'
  BY <1>1, <1>2, SayStaysApart
<1>4. SaySent'
  <2>1. raced \subseteq raced' /\ \A x \in 1..Len(chat) : chat'[x] = chat[x]
    OBVIOUS
  <2>2. QED
    BY <1>1, <1>2, <2>1, SayStaysSent
<1>5. SayOnce'
  <2>1. overlaps' = overlaps /\ troubles' >= troubles
        /\ \A i \in 1..Len(chat') : i \in 1..Len(chat) /\ chat'[i] = chat[i]
    BY <1>1
  <2>2. QED
    BY <1>1, <1>2, <2>1, SayStaysOnce
<1>6. \A m : Held(m)' <=> Held(m)
  BY <1>2, SayHolds
<1>7. QED
  BY <1>3, <1>4, <1>5, <1>6

\* The content follows.
LEMMA SayStepSets ==
    ASSUME SayInv, NEW k \in Callers, SetContent(k)
    PROVE SayInv'
<1> DEFINE m == target[k]
<1>1. SayTypes /\ SayApart /\ SaySent /\ (troubles = 0 => SayQuiet) /\ SayOnce
      /\ SayCallers /\ Len(chat) \in Nat /\ Len(rows) \in Nat /\ troubles \in Nat
  BY SayParts
<1>2. /\ SayTypes' /\ Len(rows') = Len(rows)
      /\ at[k] = "set" /\ SayMoves(k, "idle", NoText, 0, <<>>, NotFound)
      /\ UNCHANGED <<chat, replies, overlaps, raced, troubles>>
      /\ \A j \in 1..Len(rows) :
             /\ rows'[j].ids = rows[j].ids
             /\ rows'[j].text = IF rows[j].ids = {m} THEN text[k] ELSE rows[j].text
  BY <1>1, SayTypeSets
<1>3. \A i \in 1..Len(rows) : \A x : Has(i, x)' <=> Has(i, x)
  BY <1>2 DEF Has, SayMoves
<1>4. sent[k] = <<>> /\ at[k] \in Touches /\ m \in 1..Len(chat)
  BY <1>1, <1>2 DEF SayTypes, SayPlace, Sends, Touches
<1>5. SayApart' /\ SaySent' /\ SayOnce' /\ \A x : Held(x)' <=> Held(x)
  BY <1>2, <1>3, <1>4, SayLeaves
<1>6. ASSUME troubles = 0 PROVE SayQuiet'
  <2>1. SayHome /\ SayAlone /\ SayLeft /\ SayMet /\ SayWritten /\ SayTexts /\ SayMany
    BY <1>1, <1>6 DEF SayQuiet
  <2>2. ASSUME NEW l \in Callers
        PROVE /\ at'[l] # "idle" => l # k
              /\ l # k => at'[l] = at[l] /\ target'[l] = target[l] /\ text'[l] = text[l] /\ found'[l] = found[l]
    BY <1>2 DEF SayMoves
  <2>3. \A l \in Callers : (at'[l] \in Forgets <=> at[l] \in Forgets) /\ (at'[l] = "forget" <=> at[l] = "forget")
                           /\ (at'[l] \in Forgets => target'[l] = target[l] /\ found'[l] = found[l])
    BY <1>2 DEF Forgets, SayMoves
  <2>4. \A x : Alive(x)' <=> Alive(x)
    BY <1>2, <2>3 DEF Alive
  <2>5. SayHome'
    BY <1>2, <1>5, <2>1, <2>3, <2>4 DEF SayHome, Forgets
  <2>6. SayAlone'
    BY <1>2, <2>1, <2>3 DEF SayAlone
  <2>7. SayLeft'
    BY <1>2, <1>3, <1>5, <2>1, <2>4 DEF SayLeft
  <2>8. \A l \in Callers : Works(l)' => Works(l) /\ target'[l] = target[l]
    BY <1>2, <2>2 DEF Works, Forgets
  <2>9. SayMet'
    BY <1>2, <2>1, <2>8 DEF SayMet
  <2>10. SayWritten'
    BY <1>2, <2>1, <2>2 DEF SayWritten, Edited
  <2>11. SayTexts'
    <3>1. ASSUME NEW i \in 1..Len(rows), NEW x \in rows[i].ids \ raced,
                 \A l \in Callers : at'[l] = "set" => target'[l] # x, Single(rows'[i].text)
          PROVE rows'[i].text = chat[x].text
      <4>1. \A l \in Callers : at[l] = "set" /\ l # k => target[l] # x
        BY <2>2, <3>1
      <4>2. CASE rows[i].ids = {m}
        <5>1. x = m /\ rows'[i].text = text[k] /\ chat[m] = Edited(k)
          BY <1>2, <2>1, <4>2 DEF SayWritten
        <5>2. QED
          BY <5>1 DEF Edited, Message
      <4>3. CASE rows[i].ids # {m} /\ x = m
        BY <1>2, <2>1, <3>1, <4>3 DEF SayMany
      <4>4. CASE rows[i].ids # {m} /\ x # m
        BY <1>2, <2>1, <3>1, <4>1, <4>4 DEF SayTexts
      <4>5. QED
        BY <4>2, <4>3, <4>4
    <3>2. QED
      BY <1>2, <3>1 DEF SayTexts, Single
  <2>12. SayMany'
    <3>1. ASSUME NEW i \in 1..Len(rows), NEW x \in rows[i].ids \ raced, rows[i].ids # {x}
          PROVE ~Single(rows'[i].text)
      <4>1. rows[i].ids # {m}
        BY <3>1
      <4>2. QED
        BY <1>2, <2>1, <3>1, <4>1 DEF SayMany
    <3>2. QED
      BY <1>2, <3>1 DEF SayMany, Single
  <2>13. QED
    BY <2>5, <2>6, <2>7, <2>9, <2>10, <2>11, <2>12 DEF SayQuiet
<1>7. QED
  BY <1>2, <1>5, <1>6 DEF SayInv

\* The row is read, or there is none.
LEMMA SayStepFinds ==
    ASSUME SayInv, NEW k \in Callers, Find(k)
    PROVE SayInv'
<1> DEFINE m == target[k]
<1>1. SayTypes /\ SayApart /\ SaySent /\ (troubles = 0 => SayQuiet) /\ SayOnce
      /\ SayCallers /\ Len(chat) \in Nat /\ Len(rows) \in Nat /\ troubles \in Nat
  BY SayParts
<1>2. /\ SayTypes' /\ at[k] = "find" /\ UNCHANGED <<chat, rows, replies, overlaps, raced, troubles>>
      /\ \/ SayMoves(k, "idle", NoText, 0, <<>>, NotFound) /\ \A j \in 1..Len(rows) : m \notin rows[j].ids
         \/ \E i \in 1..Len(rows) :
               SayMoves(k, "forget", text[k], m, sent[k], [row |-> i, ids |-> rows[i].ids])
  BY <1>1, SayTypeFinds
<1>3. sent[k] = <<>> /\ at[k] \in Touches /\ m \in 1..Len(chat)
  BY <1>1, <1>2 DEF SayTypes, SayPlace, Sends, Touches
<1>a. /\ at'[k] = "forget" => found'[k].row \in 1..Len(rows) /\ found'[k].ids = rows[found'[k].row].ids
      /\ \A l \in Callers \ {k} : at'[l] = at[l] /\ found'[l] = found[l]
  <2>1. CASE SayMoves(k, "idle", NoText, 0, <<>>, NotFound)
    BY <2>1 DEF SayMoves
  <2>2. CASE \E i \in 1..Len(rows) :
               SayMoves(k, "forget", text[k], m, sent[k], [row |-> i, ids |-> rows[i].ids])
    <3>1. PICK i \in 1..Len(rows) :
               SayMoves(k, "forget", text[k], m, sent[k], [row |-> i, ids |-> rows[i].ids])
      BY <2>2
    <3>2. found'[k] = [row |-> i, ids |-> rows[i].ids]
      BY <3>1 DEF SayMoves
    <3>3. QED
      BY <3>1, <3>2 DEF SayMoves
  <2>3. QED
    BY <1>2, <2>1, <2>2
<1>4. \A i \in 1..Len(rows) : \A x : Has(i, x)' <=> Has(i, x)
  <2>1. ASSUME NEW i \in 1..Len(rows), NEW x, Has(i, x)' PROVE Has(i, x)
    BY <1>2, <1>a, <2>1 DEF Has
  <2>2. ASSUME NEW i \in 1..Len(rows), NEW x, Has(i, x) PROVE Has(i, x)'
    BY <1>2, <1>a, <2>2 DEF Has
  <2>3. QED
    BY <2>1, <2>2
<1>5. SayApart' /\ SaySent' /\ SayOnce' /\ \A x : Held(x)' <=> Held(x)
  <2>1. CASE SayMoves(k, "idle", NoText, 0, <<>>, NotFound)
    BY <1>2, <1>3, <1>4, <2>1, SayLeaves
  <2>2. CASE \E i \in 1..Len(rows) :
               SayMoves(k, "forget", text[k], m, sent[k], [row |-> i, ids |-> rows[i].ids])
    BY <1>2, <1>3, <1>4, <2>2, SayLeaves
  <2>3. QED
    BY <1>2, <2>1, <2>2
<1>6. ASSUME troubles = 0 PROVE SayQuiet'
  <2>1. SayHome /\ SayAlone /\ SayLeft /\ SayMet /\ SayWritten /\ SayTexts /\ SayMany
    BY <1>1, <1>6 DEF SayQuiet
  <2>2. ASSUME NEW l \in Callers
        PROVE /\ at'[l] \in Forgets => at[l] \in Forgets /\ target'[l] = target[l]
              /\ l # k => at'[l] = at[l] /\ target'[l] = target[l] /\ text'[l] = text[l] /\ found'[l] = found[l]
              /\ at'[l] \in {"edit", "set", "delete"} => l # k
              /\ at'[l] = "set" <=> at[l] = "set"
    BY <1>2 DEF SayMoves, Forgets
  <2>3. \A x : Alive(x)' => Alive(x)
    BY <1>2, <2>2 DEF Alive
  <2>4. ASSUME NEW x \in 1..Len(chat), Alive(x), ~Held(x) PROVE Alive(x)'
    <3>1. PICK j \in 1..Len(rows) : x \in rows[j].ids
      BY <2>1, <2>4 DEF SayHome
    <3>2. CASE x = m
      <4>1. at'[k] = "forget" /\ target'[k] = x
        BY <1>2, <3>1, <3>2 DEF SayMoves
      <4>2. QED
        BY <4>1 DEF Alive, Forgets
    <3>3. CASE x # m
      BY <1>2, <2>2, <2>4, <3>3 DEF Alive
    <3>4. QED
      BY <3>2, <3>3
  <2>5. SayHome'
    <3>1. ASSUME NEW x \in 1..Len(chat), ~Held(x), Alive(x)
          PROVE \E i \in 1..Len(rows) :
                    x \in rows[i].ids /\ \A l \in Callers : at'[l] = "forget" /\ found'[l].row = i => x \in found'[l].ids
      <4>1. PICK i \in 1..Len(rows) :
                    x \in rows[i].ids /\ \A l \in Callers : at[l] = "forget" /\ found[l].row = i => x \in found[l].ids
        BY <2>1, <3>1 DEF SayHome
      <4>2. ASSUME NEW l \in Callers, at'[l] = "forget", found'[l].row = i PROVE x \in found'[l].ids
        <5>1. CASE l = k
          BY <1>a, <4>1, <4>2, <5>1
        <5>2. CASE l # k
          BY <2>2, <4>1, <4>2, <5>2
        <5>3. QED
          BY <5>1, <5>2
      <4>3. QED
        BY <4>1, <4>2
    <3>2. QED
      BY <1>2, <1>5, <2>3, <3>1 DEF SayHome
  <2>6. SayAlone'
    BY <1>2, <2>1, <2>2 DEF SayAlone
  <2>7. SayLeft'
    BY <1>2, <1>4, <1>5, <2>1, <2>4 DEF SayLeft
  <2>8. \A l \in Callers : Works(l)' => Works(l) /\ target'[l] = target[l]
    BY <1>2, <2>2 DEF Works, Forgets
  <2>9. SayMet'
    BY <1>2, <2>1, <2>8 DEF SayMet
  <2>10. ASSUME NEW l \in Callers, at'[l] = "set"
         PROVE at[l] = "set" /\ target'[l] = target[l] /\ text'[l] = text[l]
    BY <2>2, <2>10
  <2>11. SayWritten'
    BY <1>2, <2>1, <2>10 DEF SayWritten, Edited
  <2>12. SayTexts'
    <3>1. \A l \in Callers : at[l] = "set" => at'[l] = "set" /\ target'[l] = target[l]
      BY <2>2, <2>10
    <3>2. QED
      BY <1>2, <2>1, <3>1 DEF SayTexts, Single
  <2>13. SayMany'
    BY <1>2, <2>1 DEF SayMany, Single
  <2>14. QED
    BY <2>5, <2>6, <2>7, <2>9, <2>11, <2>12, <2>13 DEF SayQuiet
<1>7. QED
  BY <1>2, <1>5, <1>6 DEF SayInv

\* The row is written without the message.
LEMMA SayStepForgets ==
    ASSUME SayInv, NEW k \in Callers, Forget(k)
    PROVE SayInv'
<1> DEFINE m == target[k]
           i == found[k].row
           F == found[k].ids
<1>1. SayTypes /\ SayApart /\ SaySent /\ (troubles = 0 => SayQuiet) /\ SayOnce
      /\ SayCallers /\ Len(chat) \in Nat /\ Len(rows) \in Nat /\ troubles \in Nat
  BY SayParts
<1>2. /\ SayTypes' /\ Len(rows') = Len(rows)
      /\ at[k] = "forget" /\ SayMoves(k, "idle", NoText, 0, <<>>, NotFound)
      /\ UNCHANGED <<chat, replies, overlaps, raced, troubles>>
      /\ i \in 1..Len(rows) /\ m \in F /\ m \in 1..Len(chat)
      /\ rows'[i].text = rows[i].text /\ rows'[i].ids = F \ {m}
      /\ \A j \in 1..Len(rows) : j # i => rows'[j] = rows[j]
  BY <1>1, SayTypeForgets
<1> HIDE DEF m, i, F
<1>a. i = found[k].row /\ F = found[k].ids /\ m = target[k]
  BY DEF m, i, F
<1>3. sent[k] = <<>> /\ at[k] \in Touches
  BY <1>1, <1>2 DEF SayTypes, SayPlace, Sends, Touches
<1>4. ASSUME NEW l \in Callers
      PROVE /\ at'[l] # "idle" => l # k
            /\ l # k => at'[l] = at[l] /\ target'[l] = target[l] /\ text'[l] = text[l] /\ found'[l] = found[l]
  BY <1>2 DEF SayMoves
<1>5. \A j \in 1..Len(rows) : \A x : Has(j, x)' => Has(j, x)
  <2>1. ASSUME NEW j \in 1..Len(rows), NEW x, x \in rows'[j].ids PROVE Has(j, x)
    BY <1>2, <1>a, <2>1 DEF Has
  <2>2. ASSUME NEW j \in 1..Len(rows), NEW x, NEW l \in Callers, at'[l] = "forget", found'[l].row = j, x \in found'[l].ids
        PROVE Has(j, x)
    BY <1>4, <2>2 DEF Has
  <2>3. QED
    BY <1>2, <2>1, <2>2 DEF Has
<1>6. SayApart' /\ SaySent' /\ SayOnce' /\ \A x : Held(x)' <=> Held(x)
  BY <1>2, <1>3, <1>5, SayLeaves
<1>7. ASSUME troubles = 0 PROVE SayQuiet'
  <2>1. SayHome /\ SayAlone /\ SayLeft /\ SayMet /\ SayWritten /\ SayTexts /\ SayMany
    BY <1>1, <1>7 DEF SayQuiet
  <2>2. ASSUME NEW j \in 1..Len(rows), NEW x, Has(j, x), Alive(x)
        PROVE /\ x \in rows[j].ids /\ x \in 1..Len(chat)
              /\ \A l \in Callers : at[l] = "forget" /\ found[l].row = j => x \in found[l].ids
    <3>1. x \in 1..Len(chat) /\ ~Held(x)
      BY <1>1, <2>2 DEF SayApart
    <3>2. PICK n \in 1..Len(rows) :
              x \in rows[n].ids /\ \A l \in Callers : at[l] = "forget" /\ found[l].row = n => x \in found[l].ids
      BY <2>1, <2>2, <3>1 DEF SayHome
    <3>3. n = j
      BY <1>1, <2>2, <3>2 DEF SayApart, Has
    <3>4. QED
      BY <3>1, <3>2, <3>3
  <2>3. Has(i, m) /\ Alive(m) /\ chat[m].part = 0
    BY <1>2, <1>a, <2>1 DEF Has, Alive, Forgets, SayAlone
  <2>4. ASSUME NEW x, Alive(x)' PROVE Alive(x) /\ x # m
    <3>1. \A l \in Callers : at'[l] \in Forgets => at[l] \in Forgets /\ target'[l] = target[l] /\ l # k
      BY <1>4 DEF Forgets
    <3>2. Alive(x)
      BY <1>2, <2>4, <3>1 DEF Alive
    <3>3. \A l \in Callers : l # k /\ at[l] \in Forgets => target[l] # m
      BY <1>2, <1>a, <2>1 DEF SayAlone, Forgets
    <3>4. QED
      BY <1>2, <2>3, <2>4, <3>1, <3>2, <3>3 DEF Alive
  <2>5. SayHome'
    <3>1. ASSUME NEW x \in 1..Len(chat), ~Held(x), Alive(x)'
          PROVE \E j \in 1..Len(rows) :
                    x \in rows'[j].ids /\ \A l \in Callers : at'[l] = "forget" /\ found'[l].row = j => x \in found'[l].ids
      <4>1. PICK j \in 1..Len(rows) :
                    x \in rows[j].ids /\ \A l \in Callers : at[l] = "forget" /\ found[l].row = j => x \in found[l].ids
        BY <2>1, <2>4, <3>1 DEF SayHome
      <4>2. x \in rows'[j].ids
        BY <1>2, <1>a, <2>4, <3>1, <4>1
      <4>3. QED
        BY <1>4, <4>1, <4>2
    <3>2. QED
      BY <1>2, <1>6, <3>1 DEF SayHome
  <2>6. SayAlone'
    BY <1>2, <1>4, <2>1 DEF SayAlone, Forgets
  <2>7. SayLeft'
    <3>1. ASSUME NEW x \in (1..Len(chat)) \ raced, ~Held(x), ~Alive(x)', NEW j \in 1..Len(rows), Has(j, x)' PROVE FALSE
      <4>1. Has(j, x)
        BY <1>5, <3>1
      <4>2. Alive(x)
        BY <2>1, <3>1, <4>1 DEF SayLeft
      <4>3. x = m
        <5>1. chat[x].part = 0
          BY <1>2, <3>1 DEF Alive
        <5>2. PICK l \in Callers : at[l] \in Forgets /\ target[l] = x
          BY <4>2, <5>1 DEF Alive
        <5>3. l = k
          BY <1>4, <3>1, <5>2 DEF Alive
        <5>4. QED
          BY <1>a, <5>2, <5>3
      <4>4. j = i
        BY <1>1, <1>2, <2>3, <4>1, <4>3 DEF SayApart
      <4>5. PICK l \in Callers : at'[l] = "forget" /\ found'[l].row = i /\ m \in found'[l].ids
        BY <1>2, <3>1, <4>3, <4>4 DEF Has
      <4>6. l # k /\ at[l] = "forget" /\ found[l].row = i
        BY <1>4, <4>5
      <4>7. target[l] \in found[l].ids /\ Alive(target[l]) /\ Has(i, target[l])
        BY <1>1, <4>6 DEF SayTypes, SayPlace, Alive, Forgets, Has
      <4>8. {target[k], target[l]} \subseteq rows[i].ids
        BY <1>2, <1>a, <2>2, <2>3, <4>7
      <4>9. Works(k) /\ Works(l)
        BY <1>2, <4>6 DEF Works, Forgets
      <4>10. m \in raced
        BY <1>2, <1>a, <2>1, <4>6, <4>8, <4>9 DEF SayMet
      <4>11. QED
        BY <3>1, <4>3, <4>10
    <3>2. QED
      BY <1>2, <1>6, <3>1 DEF SayLeft
  <2>8. ASSUME NEW l \in Callers, Works(l)' PROVE Works(l) /\ target'[l] = target[l] /\ Alive(target[l])
    <3>1. at'[l] = at[l] /\ target'[l] = target[l] /\ at'[l] # "idle"
      BY <1>4, <2>8 DEF Works, Forgets
    <3>2. Works(l)
      BY <1>2, <2>8, <3>1 DEF Works
    <3>3. QED
      BY <3>1, <3>2 DEF Works, Alive
  <2>9. SayMet'
    <3>1. ASSUME NEW l \in Callers, NEW n \in Callers, l # n, Works(l)', Works(n)',
                 \/ target[l] = target[n]
                 \/ \E j \in 1..Len(rows) : {target[l], target[n]} \subseteq rows'[j].ids
          PROVE {target[l], target[n]} \subseteq raced
      <4>1. ASSUME NEW j \in 1..Len(rows), {target[l], target[n]} \subseteq rows'[j].ids
            PROVE {target[l], target[n]} \subseteq rows[j].ids
        <5>1. ASSUME NEW x \in rows'[j].ids PROVE Has(j, x)
          <6>1. Has(j, x)'
            BY DEF Has
          <6>2. QED
            BY <1>5, <6>1
        <5>2. Has(j, target[l]) /\ Has(j, target[n]) /\ Alive(target[l]) /\ Alive(target[n])
          BY <2>8, <3>1, <4>1, <5>1
        <5>3. QED
          BY <2>2, <5>2
      <4>2. QED
        BY <2>1, <2>8, <3>1, <4>1 DEF SayMet
    <3>2. QED
      BY <1>2, <2>8, <3>1 DEF SayMet
  <2>10. SayWritten'
    BY <1>2, <1>4, <2>1 DEF SayWritten, Edited
  <2>11. ASSUME NEW j \in 1..Len(rows), NEW x \in rows'[j].ids \ raced PROVE x \in rows[j].ids /\ Alive(x)
    <3>1. Has(j, x)
      BY <1>2, <1>5, <2>11 DEF Has
    <3>2. x \in 1..Len(chat) /\ ~Held(x)
      BY <1>1, <3>1 DEF SayApart
    <3>3. Alive(x)
      BY <2>1, <2>11, <3>1, <3>2 DEF SayLeft
    <3>4. QED
      BY <2>2, <3>1, <3>3
  <2>12. \A j \in 1..Len(rows) : rows'[j].text = rows[j].text
    BY <1>2
  <2>13. SayTexts'
    <3>1. \A l \in Callers : at[l] = "set" => at'[l] = "set" /\ target'[l] = target[l]
      BY <1>2, <1>4
    <3>2. QED
      BY <1>2, <2>1, <2>11, <2>12, <3>1 DEF SayTexts, Single
  <2>14. SayMany'
    <3>1. ASSUME NEW j \in 1..Len(rows), NEW x \in rows'[j].ids \ raced, rows'[j].ids # {x}
          PROVE ~Single(rows[j].text)
      <4>1. x \in rows[j].ids /\ Alive(x)
        BY <2>11
      <4>2. rows[j].ids # {x}
        <5>1. CASE j = i
          <6>1. m \in rows[i].ids
            BY <1>2, <2>2, <2>3
          <6>2. x # m
            BY <1>2, <5>1
          <6>3. QED
            BY <5>1, <6>1, <6>2
        <5>2. CASE j # i
          BY <1>2, <3>1, <5>2
        <5>3. QED
          BY <5>1, <5>2
      <4>3. QED
        BY <2>1, <3>1, <4>1, <4>2 DEF SayMany
    <3>2. QED
      BY <1>2, <2>12, <3>1 DEF SayMany, Single
  <2>15. QED
    BY <2>5, <2>6, <2>7, <2>9, <2>10, <2>13, <2>14 DEF SayQuiet
<1>8. QED
  BY <1>2, <1>6, <1>7 DEF SayInv

\* What was sent is a row.
LEMMA SayStepRecords ==
    ASSUME SayInv, NEW k \in Callers, Record(k)
    PROVE SayInv'
<1>n. PICK n : n = Len(rows) + 1
  OBVIOUS
<1>s. PICK S : S = ToSet(sent[k])
  OBVIOUS
<1>1. SayTypes /\ SayApart /\ SaySent /\ (troubles = 0 => SayQuiet) /\ SayOnce
      /\ SayCallers /\ Len(chat) \in Nat /\ Len(rows) \in Nat /\ troubles \in Nat
  BY SayParts
<1>2. /\ SayTypes' /\ Len(rows') = n /\ \A i \in 1..Len(rows) : rows'[i] = rows[i]
      /\ rows'[n] = [text |-> text[k], ids |-> S]
      /\ SayMoves(k, "remember", text[k], target[k], sent[k], found[k])
  BY <1>1, <1>n, <1>s, SayTypeRecords
<1>3. /\ at[k] = "record" /\ Sending(k) /\ UNCHANGED <<chat, replies, text, target, sent, found, overlaps, raced, troubles>>
      /\ text[k] \in Texts /\ Len(sent[k]) \in {Parts[text[k]].media, Parts[text[k]].document}
      /\ sent[k] \in Seq(Nat)
  BY <1>1 DEF Record, Sending, noted, SayTypes, SayPlace, Sends, SayCallers
<1>a. n = Len(rows) + 1 /\ n \notin 1..Len(rows) /\ S = ToSet(sent[k]) /\ \A i \in 1..n : i \in 1..Len(rows) \/ i = n
  BY <1>1, <1>n, <1>s
<1>4. ASSUME NEW l \in Callers
      PROVE /\ at'[l] = IF l = k THEN "remember" ELSE at[l]
            /\ Sending(l)' <=> Sending(l) /\ l # k
            /\ at[l] = "forget" => found[l].row \in 1..Len(rows)
            /\ \A q \in Touches : at'[l] = q <=> at[l] = q
  BY <1>1, <1>2, <1>3 DEF SayMoves, Sending, SayTypes, SayPlace, Touches
<1>5. \A x : Held(x) <=> Held(x)' \/ x \in S
  BY <1>3, <1>4, <1>a DEF Held
<1>6. \A x \in S : ~Held(x)' /\ x \in 1..Len(chat)
  <2>1. ASSUME NEW x \in S, NEW l \in Callers, Sending(l), l # k PROVE x \notin ToSet(sent[l])
    BY <1>1, <1>3, <1>a, <2>1 DEF SayApart
  <2>2. S \subseteq 1..Len(chat)
    BY <1>1, <1>a, SayRanges
  <2>3. QED
    BY <1>3, <1>4, <2>1, <2>2 DEF Held
<1>7. /\ \A i \in 1..Len(rows) : \A x : Has(i, x)' <=> Has(i, x)
      /\ \A x : Has(n, x)' <=> x \in S
  <2>1. \A l \in Callers : (at'[l] = "forget" <=> at[l] = "forget") /\ (at[l] = "forget" => found[l].row # n)
    BY <1>4, <1>a DEF Touches
  <2>2. \A i \in 1..Len(rows) : \A x : Has(i, x)' <=> Has(i, x)
    BY <1>2, <1>3, <2>1 DEF Has
  <2>3. \A x : Has(n, x)' <=> x \in S
    BY <1>2, <1>3, <2>1 DEF Has
  <2>4. QED
    BY <2>2, <2>3
<1>8. SayApart'
  <2>1. ASSUME NEW i \in 1..n, NEW x, Has(i, x)' PROVE x \in 1..Len(chat) /\ ~Held(x)'
    <3>1. CASE i = n
      BY <1>6, <1>7, <2>1, <3>1
    <3>2. CASE i \in 1..Len(rows)
      BY <1>1, <1>5, <1>7, <2>1, <3>2 DEF SayApart
    <3>3. QED
      BY <1>a, <3>1, <3>2
  <2>2. ASSUME NEW i \in 1..n, NEW j \in 1..n, NEW x, Has(i, x)', Has(j, x)' PROVE i = j
    <3>1. ASSUME NEW y \in 1..Len(rows), Has(y, x) PROVE x \notin S
      BY <1>1, <1>5, <3>1 DEF SayApart
    <3>2. CASE i \in 1..Len(rows) /\ j \in 1..Len(rows)
      BY <1>1, <1>7, <2>2, <3>2 DEF SayApart
    <3>3. QED
      BY <1>7, <1>a, <2>2, <3>1, <3>2
  <2>3. \A l, q \in Callers : Sending(l)' /\ Sending(q)' /\ l # q => ToSet(sent[l]) \cap ToSet(sent[q]) = {}
    BY <1>1, <1>4 DEF SayApart
  <2>4. QED
    BY <1>2, <1>3, <2>1, <2>2, <2>3 DEF SayApart
<1>9. SaySent'
  BY <1>1, <1>3, <1>4 DEF SaySent
<1>10. SayOnce'
  <2>1. overlaps' = overlaps /\ troubles' >= troubles
        /\ \A i \in 1..Len(chat') : i \in 1..Len(chat) /\ chat'[i] = chat[i]
    BY <1>1, <1>3
  <2>2. "remember" \in Sends
    BY DEF Sends
  <2>3. QED
    BY <1>1, <1>2, <1>3, <2>1, <2>2, SayStaysOnce
<1>11. \A x \in S \ raced : /\ chat[x].part # 0 /\ chat[x].text = text[k] /\ Alive(x)
                            /\ \A l \in Callers : target[l] # x
  BY <1>1, <1>3, <1>a DEF SaySent, Alive
<1>12. ASSUME troubles = 0 PROVE SayQuiet'
  <2>1. SayHome /\ SayAlone /\ SayLeft /\ SayMet /\ SayWritten /\ SayTexts /\ SayMany
    BY <1>1, <1>12 DEF SayQuiet
  <2>2. \A l \in Callers : /\ at'[l] \in Forgets <=> at[l] \in Forgets
                           /\ (at'[l] = "forget" <=> at[l] = "forget") /\ (at'[l] = "set" <=> at[l] = "set")
                           /\ at'[l] \in {"edit", "set", "delete"} <=> at[l] \in {"edit", "set", "delete"}
    BY <1>4 DEF Forgets, Touches
  <2>3. (\A x : Alive(x)' <=> Alive(x)) /\ \A l \in Callers : Works(l)' <=> Works(l)
    BY <1>3, <2>2 DEF Alive, Works
  <2>4. SayHome'
    <3>1. ASSUME NEW x \in 1..Len(chat), ~Held(x)', Alive(x)
          PROVE \E i \in 1..n : /\ x \in rows'[i].ids
                                /\ \A l \in Callers : at[l] = "forget" /\ found[l].row = i => x \in found[l].ids
      <4>1. CASE x \in S
        BY <1>2, <1>4, <1>a, <4>1
      <4>2. CASE x \notin S
        <5>1. PICK i \in 1..Len(rows) :
                  x \in rows[i].ids /\ \A l \in Callers : at[l] = "forget" /\ found[l].row = i => x \in found[l].ids
          BY <1>5, <2>1, <3>1, <4>2 DEF SayHome
        <5>2. i \in 1..n /\ rows'[i] = rows[i]
          BY <1>1, <1>2, <1>a
        <5>3. QED
          BY <5>1, <5>2
      <4>3. QED
        BY <4>1, <4>2
    <3>2. QED
      BY <1>2, <1>3, <2>2, <2>3, <3>1 DEF SayHome
  <2>5. SayAlone'
    BY <1>3, <2>1, <2>2 DEF SayAlone
  <2>6. SayLeft'
    <3>1. ASSUME NEW x \in (1..Len(chat)) \ raced, ~Held(x)', ~Alive(x), NEW i \in 1..n, Has(i, x)' PROVE FALSE
      <4>1. x \notin S
        BY <1>11, <3>1
      <4>2. i \in 1..Len(rows) /\ Has(i, x)
        BY <1>7, <1>a, <3>1, <4>1
      <4>3. QED
        BY <1>5, <2>1, <3>1, <4>1, <4>2 DEF SayLeft
    <3>2. QED
      BY <1>2, <1>3, <2>3, <3>1 DEF SayLeft
  <2>7. SayMet'
    <3>1. ASSUME NEW l \in Callers, NEW q \in Callers, l # q, Works(l), Works(q),
                 \/ target[l] = target[q]
                 \/ \E i \in 1..n : {target[l], target[q]} \subseteq rows'[i].ids
          PROVE {target[l], target[q]} \subseteq raced
      <4>1. CASE {target[l], target[q]} \subseteq S
        BY <1>11, <4>1
      <4>2. CASE ~({target[l], target[q]} \subseteq S)
        BY <1>2, <1>a, <2>1, <3>1, <4>2 DEF SayMet
      <4>3. QED
        BY <4>1, <4>2
    <3>2. QED
      BY <1>2, <1>3, <2>3, <3>1 DEF SayMet
  <2>8. SayWritten'
    BY <1>3, <2>1, <2>2 DEF SayWritten, Edited
  <2>9. SayTexts'
    <3>1. ASSUME NEW i \in 1..n, NEW x \in rows'[i].ids \ raced,
                 \A l \in Callers : at[l] = "set" => target[l] # x, Single(rows'[i].text)
          PROVE rows'[i].text = chat[x].text
      <4>1. CASE i = n
        BY <1>2, <1>11, <3>1, <4>1
      <4>2. CASE i \in 1..Len(rows)
        BY <1>2, <2>1, <3>1, <4>2 DEF SayTexts
      <4>3. QED
        BY <1>a, <4>1, <4>2
    <3>2. QED
      BY <1>2, <1>3, <2>2, <3>1 DEF SayTexts, Single
  <2>10. SayMany'
    <3>1. ASSUME NEW i \in 1..n, NEW x \in rows'[i].ids \ raced, rows'[i].ids # {x}
          PROVE ~Single(rows'[i].text)
      <4>1. CASE i = n
        <5>1. x \in S /\ S # {x} /\ rows'[i].text = text[k]
          BY <1>2, <3>1, <4>1
        <5>2. Len(sent[k]) >= 2 /\ Len(sent[k]) \in Nat
          <6>1. Len(sent[k]) \in Nat /\ \A y : y \in S <=> \E j \in 1..Len(sent[k]) : sent[k][j] = y
            BY <1>3, <1>a, SaySets
          <6>2. PICK y \in S : y # x
            BY <5>1
          <6>3. PICK j \in 1..Len(sent[k]), z \in 1..Len(sent[k]) : sent[k][j] = x /\ sent[k][z] = y
            BY <5>1, <6>1, <6>2
          <6>4. j # z
            BY <6>2, <6>3
          <6>5. QED
            BY <6>1, <6>4
        <5>3. Parts[text[k]].media >= 2
          BY <1>3, <5>2, SenderAssumption
        <5>4. QED
          BY <1>3, <5>1, <5>3 DEF Single
      <4>2. CASE i \in 1..Len(rows)
        BY <1>2, <2>1, <3>1, <4>2 DEF SayMany
      <4>3. QED
        BY <1>a, <4>1, <4>2
    <3>2. QED
      BY <1>2, <1>3, <3>1 DEF SayMany, Single
  <2>11. QED
    BY <2>4, <2>5, <2>6, <2>7, <2>8, <2>9, <2>10 DEF SayQuiet
<1>13. QED
  BY <1>2, <1>3, <1>8, <1>9, <1>10, <1>12 DEF SayInv

\* Nothing is said at first.
LEMMA SayBegins == Init => SayInv
<1> SUFFICES ASSUME Init PROVE SayInv
  OBVIOUS
<1>1. /\ chat = <<>> /\ rows = <<>> /\ overlaps = 0 /\ raced = {} /\ troubles = 0
      /\ Len(chat) = 0 /\ Len(rows) = 0
      /\ \A k \in Callers : /\ at[k] = "idle" /\ text[k] = NoText /\ target[k] = 0 /\ sent[k] = <<>>
                            /\ found[k] = NotFound
      /\ \A t \in Texts : replies[t] = NoReply
  BY DEF Init
<1>2. SayChat /\ rows \in SayEntries
  BY <1>1, SenderAssumption DEF SayChat, SayEntries
<1>3. SayReplies
  <2>1. NoReply \in Seq(Nat)
    BY DEF NoReply
  <2>2. QED
    BY <1>1, <2>1 DEF Init, SayReplies
<1>4. SayCallers
  <2>1. at \in [Callers -> {"idle"} \cup Sends \cup Touches] /\ text \in [Callers -> Texts \cup Edits \cup {NoText}]
        /\ target \in [Callers -> 0..MaxShown] /\ plain \in [Callers -> BOOLEAN] /\ tries \in [Callers -> 0..Attempts]
    BY SenderAssumption DEF Init
  <2>2. sent \in [Callers -> Seq(Nat)] /\ found \in [Callers -> [row : Nat, ids : SUBSET Nat]]
    BY SayNone DEF Init, NotFound
  <2>3. QED
    BY <2>1, <2>2 DEF SayCallers
<1>5. SayNoted
  BY <1>1, SenderAssumption DEF SayNoted
<1>6. \A k \in Callers : SayPlace(k)
  BY <1>1, SayNone DEF SayPlace, Sends, Touches
<1>7. SayTypes
  BY <1>2, <1>3, <1>4, <1>5, <1>6 DEF SayTypes
<1>8. SayApart /\ SaySent
  BY <1>1 DEF SayApart, SaySent, Sending
<1>9. SayQuiet
  BY <1>1 DEF SayQuiet, SayHome, SayAlone, SayLeft, SayMet, SayWritten, SayTexts, SayMany, Works, Forgets
<1>10. SayOnce
  <2>1. ASSUME NEW t \in Texts PROVE Copies(t) = 0 /\ Cardinality(Saying(t)) = 0
    <3>1. SayCopied(t) = {} /\ Saying(t) = {}
      BY <1>1 DEF SayCopied, Saying
    <3>2. Copies(t) = Cardinality(SayCopied(t))
      BY DEF Copies, SayCopied
    <3>3. QED
      BY <3>1, <3>2, FS_EmptySet
  <2>2. QED
    BY <1>1, <2>1 DEF SayOnce
<1>11. QED
  BY <1>7, <1>8, <1>9, <1>10 DEF SayInv

\* Every step keeps it.
LEMMA SayKeeps ==
    ASSUME SayInv, Next
    PROVE SayInv'
<1>1. PICK k \in Callers :
        \/ Work(k)
        \/ \E t \in Texts : Say(k, t) \/ Upload(k, t) \/ Once(k, t) \/ Album(k, t)
        \/ \E m \in 1..MaxShown : StartDelete(k, m) \/ \E t \in Edits : StartEdit(k, m, t)
  BY DEF Next
<1>2. ASSUME Work(k) PROVE SayInv'
  <2>1. SendPart(k) => SayInv'
    BY SayStepParts
  <2>2. Fallback(k) \/ Wait(k) => SayInv'
    BY SayStepWaits
  <2>3. SentUnheard(k) => SayInv'
    BY SayStepUnheard
  <2>4. Record(k) => SayInv'
    BY SayStepRecords
  <2>5. Remember(k) \/ NotModified(k) \/ Refused(k) \/ Gone(k) \/ Crash(k) => SayInv'
    BY SayStepEnds
  <2>6. Edit(k) \/ EditUnheard(k) \/ Delete(k) \/ DeleteUnheard(k) => SayInv'
    BY SayStepDoes
  <2>7. SetContent(k) => SayInv'
    BY SayStepSets
  <2>8. Find(k) => SayInv'
    BY SayStepFinds
  <2>9. Forget(k) => SayInv'
    BY SayStepForgets
  <2>10. QED
    BY <1>2, <2>1, <2>2, <2>3, <2>4, <2>5, <2>6, <2>7, <2>8, <2>9 DEF Work
<1>3. ASSUME NEW t \in Texts, Say(k, t) \/ Upload(k, t) PROVE SayInv'
  <2>1. Begin(k, t) /\ replies[t] = NoReply
    BY <1>3 DEF Say, Upload
  <2>2. QED
    BY <2>1, SayStepBegins
<1>4. ASSUME NEW t \in Texts, Once(k, t) \/ Album(k, t) PROVE SayInv'
  <2>1. Posts(k, t)
    BY <1>4 DEF Once, Album
  <2>2. QED
    BY <2>1, SayStepPosts
<1>5. ASSUME NEW m \in 1..MaxShown, NEW t \in Edits, StartEdit(k, m, t) PROVE SayInv'
  <2>1. /\ at[k] = "idle" /\ m \in 1..Len(chat) /\ Goto(k, "edit") /\ target' = [target EXCEPT ![k] = m]
        /\ text' = [text EXCEPT ![k] = t] /\ Meet(k, m)
        /\ UNCHANGED <<chat, rows, replies, plain, sent, tries, found, overlaps, troubles>>
    BY <1>5 DEF StartEdit, chatVars
  <2>2. QED
    BY <2>1, SayStepStarts
<1>6. ASSUME NEW m \in 1..MaxShown, StartDelete(k, m) PROVE SayInv'
  <2>1. /\ at[k] = "idle" /\ m \in 1..Len(chat) /\ Goto(k, "delete") /\ target' = [target EXCEPT ![k] = m]
        /\ UNCHANGED text /\ Meet(k, m)
        /\ UNCHANGED <<chat, rows, replies, plain, sent, tries, found, overlaps, troubles>>
    BY <1>6 DEF StartDelete, chatVars
  <2>2. text' = [text EXCEPT ![k] = text[k]] /\ text[k] \in Texts \cup Edits \cup {NoText}
    BY <2>1, SayParts DEF SayCallers
  <2>3. QED
    BY <2>1, <2>2, SayStepStarts
<1>7. QED
  BY <1>1, <1>2, <1>3, <1>4, <1>5, <1>6

\* What it means.
LEMMA SayTruth ==
    ASSUME SayInv
    PROVE TypeOK /\ SaidOnce /\ RowsAreTrue
<1>1. SayTypes /\ SayApart /\ SaySent /\ (troubles = 0 => SayQuiet) /\ SayOnce
      /\ SayCallers /\ Len(chat) \in Nat /\ Len(rows) \in Nat /\ troubles \in Nat /\ SayChat /\ rows \in SayEntries
  BY SayParts DEF SayTypes
<1>2. TypeOK
  <2>1. \A i \in 1..Len(chat) : chat[i] \in [text : Texts \cup Edits, part : Nat, keyed : BOOLEAN]
    BY <1>1, ElementOfSeq DEF SayChat
  <2>2. \A i \in 1..Len(rows) : rows[i].text \in Texts \cup Edits /\ rows[i].ids \subseteq 1..Len(chat)
    BY <1>1, SayRow DEF SayApart, Has
  <2>3. \A t \in Texts : replies[t] = NoReply \/ ToSet(replies[t]) \subseteq 1..Len(chat)
    BY <1>1 DEF SayTypes, SayReplies
  <2>4. \A k \in Callers : ToSet(sent[k]) \subseteq 1..Len(chat)
    BY <1>1, SayRanges
  <2>5. \A k \in Callers : found[k].row \in 0..Len(rows)
    <3>1. ASSUME NEW k \in Callers PROVE found[k].row \in 0..Len(rows)
      <4>1. SayPlace(k)
        BY <1>1 DEF SayTypes
      <4>2. CASE at[k] = "forget"
        BY <1>1, <4>1, <4>2 DEF SayPlace
      <4>3. CASE at[k] # "forget"
        BY <1>1, <4>1, <4>3 DEF SayPlace, NotFound
      <4>4. QED
        BY <4>2, <4>3
    <3>2. QED
      BY <3>1
  <2>6. at \in [Callers -> {"idle", "send", "record", "remember", "edit", "set", "delete", "find", "forget"}]
    <3>1. {"idle"} \cup Sends \cup Touches
          = {"idle", "send", "record", "remember", "edit", "set", "delete", "find", "forget"}
      BY DEF Sends, Touches
    <3>2. QED
      BY <1>1, <3>1 DEF SayCallers
  <2>7. /\ text \in [Callers -> Texts \cup Edits \cup {NoText}] /\ target \in [Callers -> 0..MaxShown]
        /\ plain \in [Callers -> BOOLEAN] /\ tries \in [Callers -> 0..Attempts]
        /\ overlaps \in Nat /\ raced \subseteq 1..MaxShown /\ troubles \in 0..MaxTroubles
    BY <1>1 DEF SayCallers, SayTypes, SayNoted
  <2>8. QED
    BY <2>1, <2>2, <2>3, <2>4, <2>5, <2>6, <2>7 DEF TypeOK
<1>3. SaidOnce
  <2>1. ASSUME NEW t \in Texts PROVE Copies(t) <= 1 + overlaps + troubles
    <3>1. Copies(t) \in Nat /\ Cardinality(Saying(t)) \in Nat /\ overlaps \in Nat
          /\ Copies(t) + Cardinality(Saying(t)) <= 1 + overlaps + troubles
      BY <1>1, SayCounts DEF SayTypes, SayNoted, SayOnce
    <3>2. QED
      BY <1>1, <3>1
  <2>2. QED
    BY <2>1 DEF SaidOnce
<1>4. RowsAreTrue
  <2>1. SUFFICES ASSUME troubles = 0, \A k \in Callers : at[k] = "idle", NEW m \in (1..Len(chat)) \ raced
                 PROVE /\ chat[m].part # 0 <=> RowOf(m) # 0
                       /\ RowOf(m) # 0 /\ (rows[RowOf(m)].text \in Texts => Parts[rows[RowOf(m)].text].media = 1) =>
                              rows[RowOf(m)].text = chat[m].text
    BY DEF RowsAreTrue
  <2>2. SayHome /\ SayLeft /\ SayTexts
    BY <1>1, <2>1 DEF SayQuiet
  <2>3. ~Held(m) /\ (Alive(m) <=> chat[m].part # 0)
    BY <2>1 DEF Held, Sending, Alive, Forgets
  <2>4. /\ RowOf(m) \in 0..Len(rows)
        /\ RowOf(m) # 0 => m \in rows[RowOf(m)].ids
        /\ RowOf(m) = 0 => \A i \in 1..Len(rows) : m \notin rows[i].ids
    BY <1>1, SayRowOf
  <2>5. chat[m].part # 0 => RowOf(m) # 0
    BY <2>2, <2>3, <2>4 DEF SayHome
  <2>6. ASSUME RowOf(m) # 0 PROVE RowOf(m) \in 1..Len(rows) /\ chat[m].part # 0
    <3>1. RowOf(m) \in 1..Len(rows)
      BY <1>1, <2>4, <2>6
    <3>2. QED
      BY <2>2, <2>3, <2>4, <2>6, <3>1 DEF SayLeft, Has
  <2>7. ASSUME RowOf(m) # 0, rows[RowOf(m)].text \in Texts => Parts[rows[RowOf(m)].text].media = 1
        PROVE rows[RowOf(m)].text = chat[m].text
    BY <2>1, <2>2, <2>4, <2>6, <2>7 DEF SayTexts, Single
  <2>8. QED
    BY <2>5, <2>6, <2>7
<1>5. QED
  BY <1>2, <1>3, <1>4

-----------------------------------------------------------------------------
(* The subagents.                                                          *)

\* It is over, or it was paused and its task is gone: what a wait may be told of.
Settled(c) == child[c].row = "over" \/ (child[c].left = "paused" /\ Sub!At(c) = "gone")

\* Of each subagent: the row goes with the task, and who left a row RUNNING has
\* a reason.
SubChildren ==
    \A c \in Children :
        /\ Sub!At(c) = "none" <=> child[c].row = "none"
        /\ Sub!At(c) # "none" => child[c].inst \in Instances
        /\ Sub!At(c) = "notify" => child[c].row = "over" \/ child[c].left = "paused"
        /\ Sub!At(c) = "gone" /\ child[c].row = "running" => child[c].left # "no"
        /\ child[c].asked /\ Sub!At(c) = "run" => child[c].flag \/ child[c].cancel \/ child[c].late

\* An event that is set is of a subagent that is settled.
SubEvents == \A i \in Instances, c \in Children : slot[i][c] = "set" => Settled(c)

\* A wait has passed over none that is not settled, unless its time was over.
WaitsWell(w) ==
    /\ waiter[w].at \in {"next", "loop", "wait"} =>
           /\ waiter[w].inst \in Instances
           /\ \A c \in Children : Settled(c) \/ waiter[w].timedOut
                                    \/ \E k \in 1..Len(waiter[w].left) : waiter[w].left[k] = c
    /\ waiter[w].at \in {"loop", "wait"} =>
           /\ waiter[w].left # <<>>
           /\ waiter[w].holds = "slot" => slot[waiter[w].inst][Head(waiter[w].left)] # "none"
           /\ waiter[w].holds = "set" => Settled(Head(waiter[w].left))
    /\ waiter[w].at = "done" /\ ~waiter[w].timedOut => \A c \in Children : Settled(c)
    /\ waiter[w].listens => waiter[w].inst \in Instances
    /\ \A c \in waiter[w].mail : Settled(c)
SubWaits == \A w \in Waiters : WaitsWell(w)

SubInv == Sub!TypeOK /\ SubChildren /\ SubEvents /\ SubWaits

\* No subagent and no wait is there at first.
LEMMA SubBegins == Sub!Init => SubInv
<1> SUFFICES ASSUME Sub!Init PROVE SubInv
  OBVIOUS
<1>1. Sub!TypeOK
  BY Zenon, SMT DEF Sub!Init, Sub!TypeOK, Sub!Reasons
<1>2. SubChildren /\ SubEvents
  BY DEF Sub!Init, SubChildren, SubEvents, Sub!At
<1>3. SubWaits
  BY DEF Sub!Init, SubWaits, WaitsWell
<1>4. QED
  BY <1>1, <1>2, <1>3 DEF SubInv

\* Every step of a subagent or of an instance keeps what holds of subagents, and
\* who was settled stays so.
LEMMA SubagentsGoOn ==
    ASSUME SubInv, Sub!Next
    PROVE /\ SubChildren'
          /\ \A c \in Children : Settled(c) => Settled(c)'
<1>0. Sub!TypeOK /\ SubChildren
  BY DEF SubInv
<1>00. \A c \in Children : child[c] \in [row : {"none", "running", "over"},
                               at : {"none", "spawned", "run", "closing", "store", "notify", "gone"},
                               inst : Instances \cup {Sub!NoInstance}, flag : BOOLEAN,
                               cancel : BOOLEAN, status : {"running", "over"}, left : Sub!Reasons,
                               asked : BOOLEAN, late : BOOLEAN]
  BY <1>0 DEF Sub!TypeOK
<1>000. child \in [Children -> [row : {"none", "running", "over"},
                               at : {"none", "spawned", "run", "closing", "store", "notify", "gone"},
                               inst : Instances \cup {Sub!NoInstance}, flag : BOOLEAN,
                               cancel : BOOLEAN, status : {"running", "over"}, left : Sub!Reasons,
                               asked : BOOLEAN, late : BOOLEAN]]
  BY <1>0 DEF Sub!TypeOK
<1>1. ASSUME NEW c \in Children, NEW i \in Instances, Sub!Spawn(c, i)
      PROVE SubChildren' /\ \A d \in Children : Settled(d) => Settled(d)'
  BY <1>0, <1>000, <1>1 DEF Sub!Spawn, SubChildren, Settled, Sub!At
<1>2. ASSUME NEW c \in Children, Sub!Begin(c)
      PROVE SubChildren' /\ \A d \in Children : Settled(d) => Settled(d)'
  BY <1>0, <1>000, <1>2 DEF Sub!Begin, SubChildren, Settled, Sub!At
<1>3. ASSUME NEW c \in Children, Sub!CancelledEarly(c)
      PROVE SubChildren' /\ \A d \in Children : Settled(d) => Settled(d)'
  BY <1>0, <1>000, <1>3 DEF Sub!CancelledEarly, SubChildren, Settled, Sub!At
<1>4. ASSUME NEW c \in Children, Sub!Executed(c)
      PROVE SubChildren' /\ \A d \in Children : Settled(d) => Settled(d)'
  BY <1>0, <1>000, <1>4 DEF Sub!Executed, SubChildren, Settled, Sub!At
<1>5. ASSUME NEW c \in Children, Sub!Beat(c)
      PROVE SubChildren' /\ \A d \in Children : Settled(d) => Settled(d)'
  BY <1>0, <1>000, <1>5 DEF Sub!Beat, SubChildren, Settled, Sub!At
<1>6. ASSUME NEW c \in Children, Sub!Cancelled(c)
      PROVE SubChildren' /\ \A d \in Children : Settled(d) => Settled(d)'
  BY <1>0, <1>000, <1>6 DEF Sub!Cancelled, SubChildren, Settled, Sub!At
<1>7. ASSUME NEW c \in Children, Sub!Closed(c)
      PROVE SubChildren' /\ \A d \in Children : Settled(d) => Settled(d)'
  BY <1>0, <1>000, <1>7 DEF Sub!Closed, SubChildren, Settled, Sub!At
<1>8. ASSUME NEW c \in Children, Sub!Store(c)
      PROVE SubChildren' /\ \A d \in Children : Settled(d) => Settled(d)'
  BY <1>0, <1>000, <1>8 DEF Sub!Store, SubChildren, Settled, Sub!At
<1>9. ASSUME NEW c \in Children, Sub!Interrupted(c)
      PROVE SubChildren' /\ \A d \in Children : Settled(d) => Settled(d)'
  BY <1>0, <1>000, <1>9 DEF Sub!Interrupted, SubChildren, Settled, Sub!At
<1>10. ASSUME NEW c \in Children, Sub!Notify(c)
      PROVE SubChildren' /\ \A d \in Children : Settled(d) => Settled(d)'
  BY <1>0, <1>000, <1>10 DEF Sub!Notify, SubChildren, Settled, Sub!At
<1>11. ASSUME NEW c \in Children, Sub!Reap(c)
      PROVE SubChildren' /\ \A d \in Children : Settled(d) => Settled(d)'
  BY <1>0, <1>000, <1>11 DEF Sub!Reap, SubChildren, Settled, Sub!At
<1>12. ASSUME NEW c \in Children, NEW i \in Instances, Sub!Ask(c, i)
      PROVE SubChildren' /\ \A d \in Children : Settled(d) => Settled(d)'
  BY <1>0, <1>000, <1>12 DEF Sub!Ask, SubChildren, Settled, Sub!At
<1>13. ASSUME NEW i \in Instances, Sub!ShutDown(i)
      PROVE SubChildren' /\ \A d \in Children : Settled(d) => Settled(d)'
  BY <1>0, <1>000, <1>13 DEF Sub!ShutDown, SubChildren, Settled, Sub!At
<1>14. ASSUME NEW c \in Children, Sub!Drain(c)
      PROVE SubChildren' /\ \A d \in Children : Settled(d) => Settled(d)'
  BY <1>0, <1>000, <1>14 DEF Sub!Drain, SubChildren, Settled, Sub!At
<1>15. ASSUME NEW i \in Instances, Sub!Crash(i)
      PROVE SubChildren' /\ \A d \in Children : Settled(d) => Settled(d)'
  <2>1. child' = [c \in Children |->
                    IF child[c].inst = i /\ Sub!At(c) \notin {"none", "gone"}
                    THEN [child[c] EXCEPT !.at = "gone", !.cancel = FALSE,
                             !.left = IF child[c].row = "running" THEN "crashed" ELSE @]
                    ELSE child[c]]
    BY <1>15, Zenon DEF Sub!Crash
  <2>2. ASSUME NEW d \in Children, child[d].inst = i, Sub!At(d) \notin {"none", "gone"}
        PROVE /\ child'[d].at = "gone" /\ child'[d].row = child[d].row /\ child'[d].inst = i
              /\ child'[d].left = IF child[d].row = "running" THEN "crashed" ELSE child[d].left
    BY <1>000, <2>1, <2>2
  <2>3. ASSUME NEW d \in Children, ~(child[d].inst = i /\ Sub!At(d) \notin {"none", "gone"})
        PROVE child'[d] = child[d]
    BY <2>1, <2>3, Zenon
  <2>4. \A d \in Children : child[d].row \in {"none", "running", "over"}
    BY <1>000
  <2>5. ASSUME NEW d \in Children
        PROVE /\ Sub!At(d)' = "none" <=> child'[d].row = "none"
              /\ Sub!At(d)' # "none" => child'[d].inst \in Instances
              /\ Sub!At(d)' = "notify" => child'[d].row = "over" \/ child'[d].left = "paused"
              /\ Sub!At(d)' = "gone" /\ child'[d].row = "running" => child'[d].left # "no"
              /\ child'[d].asked /\ Sub!At(d)' = "run" => child'[d].flag \/ child'[d].cancel \/ child'[d].late
              /\ Settled(d) => Settled(d)'
    <3>1. CASE child[d].inst = i /\ Sub!At(d) \notin {"none", "gone"}
      BY <1>0, <2>2, <2>4, <3>1 DEF SubChildren, Settled, Sub!At
    <3>2. CASE ~(child[d].inst = i /\ Sub!At(d) \notin {"none", "gone"})
      BY <1>0, <2>3, <3>2 DEF SubChildren, Settled, Sub!At
    <3>3. QED
      BY <3>1, <3>2
  <2>6. QED
    BY <2>5 DEF SubChildren
<1>16. CASE UNCHANGED child
  BY <1>0, <1>16 DEF SubChildren, Settled, Sub!At
<1>17. QED
  <2>1. /\ \A w \in Waiters, i \in Instances : Sub!WaitStart(w, i) => UNCHANGED child
        /\ \A w \in Waiters, c \in Children : Sub!Hear(w, c) => UNCHANGED child
        /\ \A w \in Waiters : Sub!WaitNext(w) \/ Sub!WaitLoop(w) \/ Sub!WaitWakes(w) \/ Sub!WaitTimesOut(w) \/ Sub!WaitEnd(w) => UNCHANGED child
    BY DEF Sub!WaitStart, Sub!Hear, Sub!WaitNext, Sub!WaitLoop, Sub!WaitWakes, Sub!WaitTimesOut, Sub!WaitEnd
  <2>2. QED
    BY <1>1, <1>2, <1>3, <1>4, <1>5, <1>6, <1>7, <1>8, <1>9, <1>10, <1>11, <1>12, <1>13, <1>14, <1>15, <1>16, <2>1 DEF Sub!Next

\* The types, one by one.
Subagent == [row : {"none", "running", "over"},
             at : {"none", "spawned", "run", "closing", "store", "notify", "gone"},
             inst : Instances \cup {Sub!NoInstance}, flag : BOOLEAN,
             cancel : BOOLEAN, status : {"running", "over"}, left : Sub!Reasons,
             asked : BOOLEAN, late : BOOLEAN]
Marks == {"none", "clear", "set"}
Waiting == [at : {"new", "next", "loop", "wait", "done"},
         inst : Instances \cup {Sub!NoInstance}, left : Seq(Children),
         holds : {"slot", "clear", "set"}, listens : BOOLEAN,
         mail : SUBSET Children, timedOut : BOOLEAN]

\* The types, with records by name.
LEMMA SubTyped ==
    /\ Sub!TypeOK <=> /\ child \in [Children -> Subagent] /\ slot \in [Instances -> [Children -> Marks]]
                      /\ waiter \in [Waiters -> Waiting] /\ down \subseteq Instances
    /\ Sub!TypeOK' <=> /\ child' \in [Children -> Subagent] /\ slot' \in [Instances -> [Children -> Marks]]
                       /\ waiter' \in [Waiters -> Waiting] /\ down' \subseteq Instances
BY DEF Sub!TypeOK, Subagent, Marks, Waiting

\* A wait whose event is taken away keeps one of its own.
LEMMA DetachedTyped ==
    ASSUME Sub!TypeOK, SubWaits, NEW i \in Instances, NEW cs \in SUBSET Children
    PROVE Sub!Detached(i, cs) \in [Waiters -> Waiting]
<1>1. waiter \in [Waiters -> Waiting] /\ slot \in [Instances -> [Children -> Marks]]
  BY SubTyped
<1>2. ASSUME NEW w \in Waiters, NEW c \in cs, Sub!Holds(w, i, c)
      PROVE [waiter[w] EXCEPT !.holds = slot[i][Head(waiter[w].left)]] \in Waiting
  <2>1. Head(waiter[w].left) = c /\ slot[i][c] \in {"clear", "set"}
    BY <1>1, <1>2 DEF Sub!Holds, SubWaits, WaitsWell, Marks
  <2>2. waiter[w] \in Waiting
    BY <1>1
  <2>3. ASSUME NEW h \in {"clear", "set"} PROVE [waiter[w] EXCEPT !.holds = h] \in Waiting
    BY <2>2 DEF Waiting
  <2>4. QED
    BY <2>1, <2>3
<1>3. QED
  BY <1>1, <1>2 DEF Sub!Detached

\* Every step keeps the types.
LEMMA SubTypes ==
    ASSUME Sub!TypeOK, SubChildren, SubWaits, Sub!Next
    PROVE Sub!TypeOK'
<1>c. child \in [Children -> Subagent]
  BY SubTyped
<1>s. slot \in [Instances -> [Children -> Marks]]
  BY SubTyped
<1>w. waiter \in [Waiters -> Waiting]
  BY SubTyped
<1>d. down \subseteq Instances
  BY SubTyped
<1>i. /\ \A c \in Children : Sub!At(c) # "none" => child[c].inst \in Instances
      /\ \A w \in Waiters : waiter[w].at \in {"next", "loop", "wait"} \/ waiter[w].listens => waiter[w].inst \in Instances
  BY DEF SubChildren, SubWaits, WaitsWell
<1>1. ASSUME NEW c \in Children, NEW i \in Instances, Sub!Spawn(c, i)
      PROVE Sub!TypeOK'
  <2> DEFINE r == [child[c] EXCEPT !.row = "running", !.at = "spawned", !.inst = i]
  <2>1. child' = [child EXCEPT ![c] = r]
    BY <1>c, <1>1 DEF Sub!Spawn
  <2>2. child[c] \in Subagent
    BY <1>c
  <2>3. r \in Subagent
    BY <2>2 DEF Subagent, Sub!Reasons
  <2> HIDE DEF r
  <2>4. child' \in [Children -> Subagent]
    BY <1>c, <2>1, <2>3
  <2>5. slot' \in [Instances -> [Children -> Marks]]
    BY <1>s, <1>i, <1>1 DEF Sub!Spawn, Marks, Sub!At
  <2>6. waiter' \in [Waiters -> Waiting]
    BY <1>1, DetachedTyped DEF Sub!Spawn
  <2>7. QED
    BY <1>c, <1>s, <1>w, <1>d, <1>1, <2>4, <2>5, <2>6, SubTyped DEF Sub!Spawn
<1>2. ASSUME NEW c \in Children, Sub!Begin(c)
      PROVE Sub!TypeOK'
  <2> DEFINE r == [child[c] EXCEPT !.at = "run", !.flag = FALSE, !.late = child[c].asked]
  <2>1. child' = [child EXCEPT ![c] = r]
    BY <1>c, <1>2 DEF Sub!Begin
  <2>2. child[c] \in Subagent
    BY <1>c
  <2>3. r \in Subagent
    BY <2>2 DEF Subagent, Sub!Reasons
  <2> HIDE DEF r
  <2>4. child' \in [Children -> Subagent]
    BY <1>c, <2>1, <2>3
  <2>5. QED
    BY <1>c, <1>s, <1>w, <1>d, <1>2, <2>4, SubTyped DEF Sub!Begin
<1>3. ASSUME NEW c \in Children, Sub!CancelledEarly(c)
      PROVE Sub!TypeOK'
  <2> DEFINE r == [child[c] EXCEPT !.at = "gone", !.cancel = FALSE, !.left = "interrupted"]
  <2>1. child' = [child EXCEPT ![c] = r]
    BY <1>c, <1>3 DEF Sub!CancelledEarly
  <2>2. child[c] \in Subagent
    BY <1>c
  <2>3. r \in Subagent
    BY <2>2 DEF Subagent, Sub!Reasons
  <2> HIDE DEF r
  <2>4. child' \in [Children -> Subagent]
    BY <1>c, <2>1, <2>3
  <2>5. QED
    BY <1>c, <1>s, <1>w, <1>d, <1>3, <2>4, SubTyped DEF Sub!CancelledEarly
<1>4. ASSUME NEW c \in Children, Sub!Executed(c)
      PROVE Sub!TypeOK'
  <2>1. PICK status \in {"running", "over"} : child' = [child EXCEPT ![c].at = "closing", ![c].status = status]
    BY <1>4 DEF Sub!Executed
  <2> DEFINE r == [child[c] EXCEPT !.at = "closing", !.status = status]
  <2>2. child' = [child EXCEPT ![c] = r]
    BY <1>c, <2>1
  <2>3. child[c] \in Subagent
    BY <1>c
  <2>4. r \in Subagent
    BY <2>3 DEF Subagent, Sub!Reasons
  <2> HIDE DEF r
  <2>5. child' \in [Children -> Subagent]
    BY <1>c, <2>2, <2>4
  <2>6. QED
    BY <1>c, <1>s, <1>w, <1>d, <1>4, <2>5, SubTyped DEF Sub!Executed
<1>5. ASSUME NEW c \in Children, Sub!Beat(c)
      PROVE Sub!TypeOK'
  <2> DEFINE r == [child[c] EXCEPT !.cancel = TRUE]
  <2>1. child' = [child EXCEPT ![c] = r]
    BY <1>c, <1>5 DEF Sub!Beat
  <2>2. child[c] \in Subagent
    BY <1>c
  <2>3. r \in Subagent
    BY <2>2 DEF Subagent, Sub!Reasons
  <2> HIDE DEF r
  <2>4. child' \in [Children -> Subagent]
    BY <1>c, <2>1, <2>3
  <2>5. QED
    BY <1>c, <1>s, <1>w, <1>d, <1>5, <2>4, SubTyped DEF Sub!Beat
<1>6. ASSUME NEW c \in Children, Sub!Cancelled(c)
      PROVE Sub!TypeOK'
  <2> DEFINE r == [child[c] EXCEPT !.at = "store", !.cancel = FALSE, !.status = IF child[c].inst \in down /\ ~child[c].flag THEN "running" ELSE "over"]
  <2>1. child' = [child EXCEPT ![c] = r]
    BY <1>c, <1>6 DEF Sub!Cancelled
  <2>2. child[c] \in Subagent
    BY <1>c
  <2>3. r \in Subagent
    BY <2>2 DEF Subagent, Sub!Reasons
  <2> HIDE DEF r
  <2>4. child' \in [Children -> Subagent]
    BY <1>c, <2>1, <2>3
  <2>5. QED
    BY <1>c, <1>s, <1>w, <1>d, <1>6, <2>4, SubTyped DEF Sub!Cancelled
<1>7. ASSUME NEW c \in Children, Sub!Closed(c)
      PROVE Sub!TypeOK'
  <2> DEFINE r == [child[c] EXCEPT !.at = "store", !.cancel = FALSE]
  <2>1. child' = [child EXCEPT ![c] = r]
    BY <1>c, <1>7 DEF Sub!Closed
  <2>2. child[c] \in Subagent
    BY <1>c
  <2>3. r \in Subagent
    BY <2>2 DEF Subagent, Sub!Reasons
  <2> HIDE DEF r
  <2>4. child' \in [Children -> Subagent]
    BY <1>c, <2>1, <2>3
  <2>5. QED
    BY <1>c, <1>s, <1>w, <1>d, <1>7, <2>4, SubTyped DEF Sub!Closed
<1>8. ASSUME NEW c \in Children, Sub!Store(c)
      PROVE Sub!TypeOK'
  <2> DEFINE r == [child[c] EXCEPT !.at = "notify", !.row = IF child[c].status = "over" THEN "over" ELSE @, !.left = IF child[c].status = "running" THEN "paused" ELSE @, !.flag = IF child[c].status = "over" THEN FALSE ELSE @]
  <2>1. child' = [child EXCEPT ![c] = r]
    BY <1>c, <1>8 DEF Sub!Store
  <2>2. child[c] \in Subagent
    BY <1>c
  <2>3. r \in Subagent
    BY <2>2 DEF Subagent, Sub!Reasons
  <2> HIDE DEF r
  <2>4. child' \in [Children -> Subagent]
    BY <1>c, <2>1, <2>3
  <2>5. QED
    BY <1>c, <1>s, <1>w, <1>d, <1>8, <2>4, SubTyped DEF Sub!Store
<1>9. ASSUME NEW c \in Children, Sub!Interrupted(c)
      PROVE Sub!TypeOK'
  <2> DEFINE r == [child[c] EXCEPT !.at = "gone", !.cancel = FALSE, !.left = IF child[c].row = "running" THEN "interrupted" ELSE @]
  <2>1. child' = [child EXCEPT ![c] = r]
    BY <1>c, <1>9 DEF Sub!Interrupted
  <2>2. child[c] \in Subagent
    BY <1>c
  <2>3. r \in Subagent
    BY <2>2 DEF Subagent, Sub!Reasons
  <2> HIDE DEF r
  <2>4. child' \in [Children -> Subagent]
    BY <1>c, <2>1, <2>3
  <2>5. QED
    BY <1>c, <1>s, <1>w, <1>d, <1>9, <2>4, SubTyped DEF Sub!Interrupted
<1>10. ASSUME NEW c \in Children, Sub!Notify(c)
      PROVE Sub!TypeOK'
  <2> DEFINE r == [child[c] EXCEPT !.at = "gone"]
  <2>1. child' = [child EXCEPT ![c] = r]
    BY <1>c, <1>10 DEF Sub!Notify
  <2>2. child[c] \in Subagent
    BY <1>c
  <2>3. r \in Subagent
    BY <2>2 DEF Subagent, Sub!Reasons
  <2> HIDE DEF r
  <2>4. child' \in [Children -> Subagent]
    BY <1>c, <2>1, <2>3
  <2>5. slot' \in [Instances -> [Children -> Marks]]
    BY <1>s, <1>i, <1>10 DEF Sub!Notify, Marks, Sub!At, Sub!Marked
  <2>6. waiter' \in [Waiters -> Waiting]
    <3>1. ASSUME NEW w \in Waiters PROVE [waiter[w] EXCEPT !.mail = @ \cup {c}] \in Waiting
      <4>1. waiter[w] \in Waiting
        BY <1>w
      <4>2. QED
        BY <4>1 DEF Waiting
    <3>2. QED
      BY <1>w, <1>10, <3>1 DEF Sub!Notify
  <2>7. QED
    BY <1>c, <1>s, <1>w, <1>d, <1>10, <2>4, <2>5, <2>6, SubTyped DEF Sub!Notify
<1>11. ASSUME NEW c \in Children, Sub!Reap(c)
      PROVE Sub!TypeOK'
  <2> DEFINE r == [child[c] EXCEPT !.row = "over"]
  <2>1. child' = [child EXCEPT ![c] = r]
    BY <1>c, <1>11 DEF Sub!Reap
  <2>2. child[c] \in Subagent
    BY <1>c
  <2>3. r \in Subagent
    BY <2>2 DEF Subagent, Sub!Reasons
  <2> HIDE DEF r
  <2>4. child' \in [Children -> Subagent]
    BY <1>c, <2>1, <2>3
  <2>5. QED
    BY <1>c, <1>s, <1>w, <1>d, <1>11, <2>4, SubTyped DEF Sub!Reap
<1>12. ASSUME NEW c \in Children, NEW i \in Instances, Sub!Ask(c, i)
      PROVE Sub!TypeOK'
  <2> DEFINE r == [child[c] EXCEPT !.asked = TRUE, !.flag = TRUE, !.cancel = @ \/ (child[c].inst = i /\ Sub!At(c) # "gone")]
  <2>1. child' = [child EXCEPT ![c] = r]
    BY <1>c, <1>12 DEF Sub!Ask
  <2>2. child[c] \in Subagent
    BY <1>c
  <2>3. r \in Subagent
    BY <2>2 DEF Subagent, Sub!Reasons
  <2> HIDE DEF r
  <2>4. child' \in [Children -> Subagent]
    BY <1>c, <2>1, <2>3
  <2>5. QED
    BY <1>c, <1>s, <1>w, <1>d, <1>12, <2>4, SubTyped DEF Sub!Ask
<1>13. ASSUME NEW i \in Instances, Sub!ShutDown(i)
      PROVE Sub!TypeOK'
  <2>1. QED
    BY <1>c, <1>s, <1>w, <1>d, <1>13, SubTyped DEF Sub!ShutDown
<1>14. ASSUME NEW c \in Children, Sub!Drain(c)
      PROVE Sub!TypeOK'
  <2> DEFINE r == [child[c] EXCEPT !.cancel = TRUE]
  <2>1. child' = [child EXCEPT ![c] = r]
    BY <1>c, <1>14 DEF Sub!Drain
  <2>2. child[c] \in Subagent
    BY <1>c
  <2>3. r \in Subagent
    BY <2>2 DEF Subagent, Sub!Reasons
  <2> HIDE DEF r
  <2>4. child' \in [Children -> Subagent]
    BY <1>c, <2>1, <2>3
  <2>5. QED
    BY <1>c, <1>s, <1>w, <1>d, <1>14, <2>4, SubTyped DEF Sub!Drain
<1>15. ASSUME NEW i \in Instances, Sub!Crash(i)
      PROVE Sub!TypeOK'
  <2>a. child' = [c \in Children |->
                    IF child[c].inst = i /\ Sub!At(c) \notin {"none", "gone"}
                    THEN [child[c] EXCEPT !.at = "gone", !.cancel = FALSE,
                             !.left = IF child[c].row = "running" THEN "crashed" ELSE @]
                    ELSE child[c]]
    BY <1>15, Zenon DEF Sub!Crash
  <2>b. slot' = [slot EXCEPT ![i] = [c \in Children |-> "none"]]
    BY <1>15, Zenon DEF Sub!Crash
  <2>c. waiter' = [w \in Waiters |->
                     IF waiter[w].inst = i THEN [waiter[w] EXCEPT !.at = "done", !.timedOut = TRUE,
                                                     !.left = <<>>, !.mail = {}, !.listens = FALSE]
                                           ELSE waiter[w]]
    BY <1>15, Zenon DEF Sub!Crash
  <2>d. down' = down
    BY <1>15, Zenon DEF Sub!Crash
  <2>1. child' \in [Children -> Subagent]
    <3>1. ASSUME NEW c \in Children, NEW why \in Sub!Reasons
          PROVE [child[c] EXCEPT !.at = "gone", !.cancel = FALSE, !.left = why] \in Subagent
      <4>1. child[c] \in Subagent
        BY <1>c
      <4>2. QED
        BY <4>1 DEF Subagent
    <3>2. \A c \in Children : (IF child[c].row = "running" THEN "crashed" ELSE child[c].left) \in Sub!Reasons
      BY <1>c DEF Subagent, Sub!Reasons
    <3>3. \A c \in Children : [child[c] EXCEPT !.at = "gone", !.cancel = FALSE,
                                  !.left = IF child[c].row = "running" THEN "crashed" ELSE @] \in Subagent
      <4>1. ASSUME NEW c \in Children
            PROVE [child[c] EXCEPT !.at = "gone", !.cancel = FALSE,
                      !.left = IF child[c].row = "running" THEN "crashed" ELSE @]
                = [child[c] EXCEPT !.at = "gone", !.cancel = FALSE,
                      !.left = IF child[c].row = "running" THEN "crashed" ELSE child[c].left]
        <5>1. child[c] \in Subagent
          BY <1>c
        <5>2. QED
          BY <5>1 DEF Subagent
      <4>2. ASSUME NEW c \in Children
            PROVE [child[c] EXCEPT !.at = "gone", !.cancel = FALSE,
                      !.left = IF child[c].row = "running" THEN "crashed" ELSE child[c].left] \in Subagent
        <5>1. PICK why \in Sub!Reasons : why = IF child[c].row = "running" THEN "crashed" ELSE child[c].left
          BY <3>2
        <5>2. [child[c] EXCEPT !.at = "gone", !.cancel = FALSE, !.left = why] \in Subagent
          BY <3>1
        <5>3. QED
          BY <5>1, <5>2
      <4>3. QED
        BY <4>1, <4>2
    <3>4. QED
      BY <1>c, <2>a, <3>3, Zenon
  <2>2. slot' \in [Instances -> [Children -> Marks]]
    <3>1. [c \in Children |-> "none"] \in [Children -> Marks]
      BY DEF Marks
    <3>2. QED
      BY <1>s, <2>b, <3>1
  <2>3. waiter' \in [Waiters -> Waiting]
    <3>1. ASSUME NEW w \in Waiters
          PROVE [waiter[w] EXCEPT !.at = "done", !.timedOut = TRUE, !.left = <<>>, !.mail = {}, !.listens = FALSE] \in Waiting
      <4>1. waiter[w] \in Waiting /\ <<>> \in Seq(Children)
        BY <1>w
      <4>2. QED
        BY <4>1 DEF Waiting
    <3>2. QED
      BY <1>w, <2>c, <3>1, Zenon
  <2>4. QED
    BY <1>d, <2>1, <2>2, <2>3, <2>d, SubTyped
<1>16. ASSUME NEW w \in Waiters, NEW i \in Instances, Sub!WaitStart(w, i)
      PROVE Sub!TypeOK'
  <2>1. slot' \in [Instances -> [Children -> Marks]]
    BY <1>s, <1>i, <1>16 DEF Sub!WaitStart, Marks, Sub!At
  <2>2. PICK listens \in BOOLEAN : waiter' = [waiter EXCEPT ![w] = [@ EXCEPT !.at = "next", !.inst = i, !.left = Order, !.listens = listens]]
    BY <1>16, Zenon DEF Sub!WaitStart
  <2> DEFINE r == [waiter[w] EXCEPT !.at = "next", !.inst = i, !.left = Order, !.listens = listens]
  <2>3. waiter' = [waiter EXCEPT ![w] = r]
    BY <1>w, <2>2
  <2>4. waiter[w] \in Waiting
    BY <1>w
  <2>5. r \in Waiting
    BY <2>4, SubAssumption DEF Waiting
  <2> HIDE DEF r
  <2>6. waiter' \in [Waiters -> Waiting]
    BY <1>w, <2>3, <2>5
  <2>7. QED
    BY <1>c, <1>s, <1>w, <1>d, <1>16, <2>1, <2>6, SubTyped DEF Sub!WaitStart
<1>17. ASSUME NEW w \in Waiters, NEW c \in Children, Sub!Hear(w, c)
      PROVE Sub!TypeOK'
  <2>1. slot' \in [Instances -> [Children -> Marks]]
    BY <1>s, <1>i, <1>17 DEF Sub!Hear, Marks, Sub!At, Sub!Marked
  <2> DEFINE r == [waiter[w] EXCEPT !.mail = @ \ {c}]
  <2>2. waiter' = [waiter EXCEPT ![w] = r]
    BY <1>w, <1>17 DEF Sub!Hear
  <2>3. waiter[w] \in Waiting
    BY <1>w
  <2>4. r \in Waiting
    BY <2>3, SubAssumption DEF Waiting
  <2> HIDE DEF r
  <2>5. waiter' \in [Waiters -> Waiting]
    BY <1>w, <2>2, <2>4
  <2>6. QED
    BY <1>c, <1>s, <1>w, <1>d, <1>17, <2>1, <2>5, SubTyped DEF Sub!Hear
<1>18. ASSUME NEW w \in Waiters, Sub!WaitNext(w)
      PROVE Sub!TypeOK'
  <2> DEFINE r == [waiter[w] EXCEPT !.at = "loop", !.holds = IF slot[waiter[w].inst][Head(waiter[w].left)] = "none" THEN "clear" ELSE "slot"]
  <2>1. waiter' = [waiter EXCEPT ![w] = r]
    BY <1>w, <1>18 DEF Sub!WaitNext
  <2>2. waiter[w] \in Waiting
    BY <1>w
  <2>3. r \in Waiting
    BY <2>2, SubAssumption DEF Waiting
  <2> HIDE DEF r
  <2>4. waiter' \in [Waiters -> Waiting]
    BY <1>w, <2>1, <2>3
  <2>5. QED
    BY <1>c, <1>s, <1>w, <1>d, <1>18, <2>4, SubTyped DEF Sub!WaitNext
<1>19. ASSUME NEW w \in Waiters, Sub!WaitLoop(w)
      PROVE Sub!TypeOK'
  <2>1. slot' \in [Instances -> [Children -> Marks]]
    BY <1>s, <1>i, <1>19 DEF Sub!WaitLoop, Marks, Sub!At, Sub!GoOn, Sub!Marked, Sub!IsSet
  <2>2. waiter' \in [Waiters -> Waiting]
    <3>1. waiter[w] \in Waiting
      BY <1>w
    <3>2. Tail(waiter[w].left) \in Seq(Children)
      BY <3>1, <1>19 DEF Sub!WaitLoop, SubWaits, WaitsWell, Waiting
    <3>3. /\ [waiter[w] EXCEPT !.at = "next", !.left = Tail(@), !.holds = "clear"] \in Waiting
          /\ [waiter[w] EXCEPT !.at = "wait"] \in Waiting
      BY <3>1, <3>2 DEF Waiting
    <3>4. \/ waiter' = [waiter EXCEPT ![w] = [waiter[w] EXCEPT !.at = "next", !.left = Tail(@), !.holds = "clear"]]
          \/ waiter' = [waiter EXCEPT ![w] = [waiter[w] EXCEPT !.at = "wait"]]
      BY <1>w, <1>19 DEF Sub!WaitLoop, Sub!GoOn
    <3>5. QED
      BY <1>w, <3>3, <3>4
  <2>3. QED
    BY <1>c, <1>s, <1>w, <1>d, <1>19, <2>1, <2>2, SubTyped DEF Sub!WaitLoop
<1>20. ASSUME NEW w \in Waiters, Sub!WaitWakes(w)
      PROVE Sub!TypeOK'
  <2> DEFINE r == [waiter[w] EXCEPT !.at = "loop"]
  <2>1. waiter' = [waiter EXCEPT ![w] = r]
    BY <1>w, <1>20 DEF Sub!WaitWakes
  <2>2. waiter[w] \in Waiting
    BY <1>w
  <2>3. r \in Waiting
    BY <2>2, SubAssumption DEF Waiting
  <2> HIDE DEF r
  <2>4. waiter' \in [Waiters -> Waiting]
    BY <1>w, <2>1, <2>3
  <2>5. QED
    BY <1>c, <1>s, <1>w, <1>d, <1>20, <2>4, SubTyped DEF Sub!WaitWakes
<1>21. ASSUME NEW w \in Waiters, Sub!WaitTimesOut(w)
      PROVE Sub!TypeOK'
  <2> DEFINE r == [waiter[w] EXCEPT !.at = "next", !.left = <<>>, !.holds = "clear", !.timedOut = TRUE]
  <2>1. waiter' = [waiter EXCEPT ![w] = r]
    BY <1>w, <1>21 DEF Sub!WaitTimesOut
  <2>2. waiter[w] \in Waiting
    BY <1>w
  <2>3. r \in Waiting
    <3>1. <<>> \in Seq(Children)
      OBVIOUS
    <3>2. QED
      BY <2>2, <3>1 DEF Waiting
  <2> HIDE DEF r
  <2>4. waiter' \in [Waiters -> Waiting]
    BY <1>w, <2>1, <2>3
  <2>5. QED
    BY <1>c, <1>s, <1>w, <1>d, <1>21, <2>4, SubTyped DEF Sub!WaitTimesOut
<1>22. ASSUME NEW w \in Waiters, Sub!WaitEnd(w)
      PROVE Sub!TypeOK'
  <2>1. slot' \in [Instances -> [Children -> Marks]]
    BY <1>s, <1>i, <1>22 DEF Sub!WaitEnd, Marks, Sub!At
  <2>2. waiter' \in [Waiters -> Waiting]
    <3>1. waiter[w].inst \in Instances /\ Children \in SUBSET Children
      BY <1>i, <1>22 DEF Sub!WaitEnd
    <3> DEFINE f == Sub!Detached(waiter[w].inst, Children)
    <3>2. f \in [Waiters -> Waiting]
      BY <3>1, DetachedTyped
    <3>3. waiter' = [f EXCEPT ![w] = [f[w] EXCEPT !.at = "done", !.listens = FALSE, !.mail = {}]]
      BY <3>2, <1>22 DEF Sub!WaitEnd
    <3> HIDE DEF f
    <3>4. f[w] \in Waiting
      BY <3>2
    <3>5. [f[w] EXCEPT !.at = "done", !.listens = FALSE, !.mail = {}] \in Waiting
      BY <3>4 DEF Waiting
    <3>6. QED
      BY <3>2, <3>3, <3>5
  <2>3. QED
    BY <1>c, <1>s, <1>w, <1>d, <1>22, <2>1, <2>2, SubTyped DEF Sub!WaitEnd
<1>23. QED
  BY <1>1, <1>2, <1>3, <1>4, <1>5, <1>6, <1>7, <1>8, <1>9, <1>10, <1>11, <1>12, <1>13, <1>14, <1>15, <1>16, <1>17, <1>18, <1>19, <1>20, <1>21, <1>22 DEF Sub!Next

\* A wait that a step does not touch goes on, if its event stays.
LEMMA WaitsOn ==
    ASSUME NEW w \in Waiters, WaitsWell(w), waiter[w] \in Waiting, waiter'[w] = waiter[w],
           \A c \in Children : Settled(c) => Settled(c)',
           \A i \in Instances, c \in Children : slot[i][c] # "none" => slot'[i][c] # "none"
    PROVE WaitsWell(w)'
<1>1. waiter[w].left # <<>> => Head(waiter[w].left) \in Children
  BY DEF Waiting
<1>2. waiter[w].mail \subseteq Children
  BY DEF Waiting
<1>3. QED
  BY <1>1, <1>2 DEF WaitsWell

\* ... and so does one whose event is replaced.
LEMMA WaitsDetached ==
    ASSUME Sub!TypeOK, SubEvents, NEW i \in Instances, NEW cs \in SUBSET Children, NEW w \in Waiters, WaitsWell(w),
           waiter'[w] = Sub!Detached(i, cs)[w],
           \A c \in Children : Settled(c) => Settled(c)',
           \A k \in Instances, c \in Children : slot[k][c] # "none" /\ ~(k = i /\ c \in cs) => slot'[k][c] # "none"
    PROVE WaitsWell(w)'
<1>1. waiter[w] \in Waiting /\ slot \in [Instances -> [Children -> Marks]]
  BY SubTyped
<1>2. waiter[w].left # <<>> => Head(waiter[w].left) \in Children
  BY <1>1 DEF Waiting
<1>3. waiter[w].mail \subseteq Children
  BY <1>1 DEF Waiting
<1>4. CASE \E c \in cs : Sub!Holds(w, i, c)
  <2>1. waiter'[w] = [waiter[w] EXCEPT !.holds = slot[i][Head(waiter[w].left)]]
    BY <1>4 DEF Sub!Detached
  <2>2. Head(waiter[w].left) \in Children /\ waiter[w].at \in {"loop", "wait"} /\ waiter[w].inst = i /\ waiter[w].holds = "slot"
    BY <1>2, <1>4 DEF Sub!Holds, WaitsWell
  <2>3. waiter'[w].holds = slot[i][Head(waiter[w].left)] /\ waiter'[w].holds # "slot"
    BY <1>1, <2>1, <2>2 DEF Waiting, Marks
  <2>4. /\ waiter'[w].at = waiter[w].at /\ waiter'[w].inst = waiter[w].inst /\ waiter'[w].left = waiter[w].left
        /\ waiter'[w].listens = waiter[w].listens /\ waiter'[w].mail = waiter[w].mail /\ waiter'[w].timedOut = waiter[w].timedOut
    BY <1>1, <2>1 DEF Waiting
  <2>5. PICK h \in Children : h = Head(waiter[w].left)
    BY <2>2
  <2>6. waiter'[w].holds = "set" => Settled(h)'
    BY <2>3, <2>5 DEF SubEvents
  <2>7. QED
    BY <1>3, <2>2, <2>3, <2>4, <2>5, <2>6 DEF WaitsWell
<1>5. CASE ~\E c \in cs : Sub!Holds(w, i, c)
  <2>1. waiter'[w] = waiter[w]
    BY <1>5 DEF Sub!Detached
  <2>2. waiter[w].at \in {"loop", "wait"} /\ waiter[w].holds = "slot" =>
            slot'[waiter[w].inst][Head(waiter[w].left)] # "none"
    BY <1>2, <1>5 DEF Sub!Holds, WaitsWell
  <2>3. QED
    BY <1>2, <1>3, <2>1, <2>2 DEF WaitsWell
<1>6. QED
  BY <1>4, <1>5

\* Every step keeps it.
LEMMA SubKeeps ==
    ASSUME SubInv, Sub!Next
    PROVE SubInv'
<1>0. Sub!TypeOK /\ SubChildren /\ SubEvents /\ SubWaits
  BY DEF SubInv
<1>00. Sub!TypeOK' /\ SubChildren' /\ \A c \in Children : Settled(c) => Settled(c)'
  BY <1>0, SubTypes, SubagentsGoOn DEF SubInv
<1>w. waiter \in [Waiters -> Waiting] /\ waiter' \in [Waiters -> Waiting]
  BY <1>0, <1>00, SubTyped
<1>s. slot \in [Instances -> [Children -> Marks]] /\ slot' \in [Instances -> [Children -> Marks]]
  BY <1>0, <1>00, SubTyped
<1>a. ASSUME UNCHANGED slot
      PROVE SubEvents'
  BY <1>0, <1>00, <1>a DEF SubEvents
<1>b. ASSUME UNCHANGED <<slot, waiter>>
      PROVE SubEvents' /\ SubWaits'
  BY <1>0, <1>00, <1>a, <1>b, <1>w, WaitsOn DEF SubWaits
<1>c. ASSUME NEW i \in Instances, NEW c \in Children, Settled(c)', slot' = Sub!Marked(i, c)
      PROVE SubEvents'
  BY <1>0, <1>00, <1>c, <1>s DEF SubEvents, Sub!Marked
<1>d. ASSUME NEW i \in Instances, NEW c \in Children, slot' = Sub!Marked(i, c)
      PROVE \A k \in Instances, d \in Children : slot[k][d] # "none" => slot'[k][d] # "none"
  BY <1>d, <1>s DEF Sub!Marked
<1>e. ASSUME NEW w \in Waiters, \A v \in Waiters \ {w} : waiter'[v] = waiter[v], WaitsWell(w)',
             \A k \in Instances, d \in Children : slot[k][d] # "none" => slot'[k][d] # "none"
      PROVE SubWaits'
  BY <1>0, <1>00, <1>e, <1>w, WaitsOn DEF SubWaits
<1>1. ASSUME NEW c \in Children, Sub!Begin(c)
      PROVE SubEvents' /\ SubWaits'
  BY <1>b, <1>1 DEF Sub!Begin
<1>2. ASSUME NEW c \in Children, Sub!CancelledEarly(c)
      PROVE SubEvents' /\ SubWaits'
  BY <1>b, <1>2 DEF Sub!CancelledEarly
<1>3. ASSUME NEW c \in Children, Sub!Executed(c)
      PROVE SubEvents' /\ SubWaits'
  BY <1>b, <1>3 DEF Sub!Executed
<1>4. ASSUME NEW c \in Children, Sub!Beat(c)
      PROVE SubEvents' /\ SubWaits'
  BY <1>b, <1>4 DEF Sub!Beat
<1>5. ASSUME NEW c \in Children, Sub!Cancelled(c)
      PROVE SubEvents' /\ SubWaits'
  BY <1>b, <1>5 DEF Sub!Cancelled
<1>6. ASSUME NEW c \in Children, Sub!Closed(c)
      PROVE SubEvents' /\ SubWaits'
  BY <1>b, <1>6 DEF Sub!Closed
<1>7. ASSUME NEW c \in Children, Sub!Store(c)
      PROVE SubEvents' /\ SubWaits'
  BY <1>b, <1>7 DEF Sub!Store
<1>8. ASSUME NEW c \in Children, Sub!Interrupted(c)
      PROVE SubEvents' /\ SubWaits'
  BY <1>b, <1>8 DEF Sub!Interrupted
<1>9. ASSUME NEW c \in Children, Sub!Reap(c)
      PROVE SubEvents' /\ SubWaits'
  BY <1>b, <1>9 DEF Sub!Reap
<1>10. ASSUME NEW c \in Children, NEW i \in Instances, Sub!Ask(c, i)
      PROVE SubEvents' /\ SubWaits'
  BY <1>b, <1>10 DEF Sub!Ask
<1>11. ASSUME NEW i \in Instances, Sub!ShutDown(i)
      PROVE SubEvents' /\ SubWaits'
  BY <1>b, <1>11 DEF Sub!ShutDown
<1>12. ASSUME NEW c \in Children, Sub!Drain(c)
      PROVE SubEvents' /\ SubWaits'
  BY <1>b, <1>12 DEF Sub!Drain
<1>13. ASSUME NEW c \in Children, NEW i \in Instances, Sub!Spawn(c, i)
      PROVE SubEvents' /\ SubWaits'
  <2>1. waiter' = Sub!Detached(i, {c}) /\ slot' = [slot EXCEPT ![i][c] = "clear"]
    BY <1>13 DEF Sub!Spawn
  <2>2. SubEvents'
    BY <1>0, <1>00, <1>s, <2>1 DEF SubEvents
  <2>3. \A k \in Instances, d \in Children : slot[k][d] # "none" => slot'[k][d] # "none"
    BY <1>s, <2>1
  <2>4. QED
    BY <1>0, <1>00, <2>1, <2>2, <2>3, WaitsDetached DEF SubWaits
<1>14. ASSUME NEW c \in Children, Sub!Notify(c)
      PROVE SubEvents' /\ SubWaits'
  <2>1. slot' = Sub!Marked(child[c].inst, c) /\ child[c].inst \in Instances
    BY <1>0, <1>14 DEF Sub!Notify, SubChildren
  <2>2. Settled(c)'
    BY <1>0, <1>14, SubTyped DEF Sub!Notify, SubChildren, Settled, Sub!At, Subagent
  <2>3. SubEvents'
    BY <1>c, <2>1, <2>2
  <2>4. ASSUME NEW w \in Waiters PROVE WaitsWell(w)'
    <3>1. waiter'[w] = IF waiter[w].listens THEN [waiter[w] EXCEPT !.mail = @ \cup {c}] ELSE waiter[w]
      BY <1>14 DEF Sub!Notify
    <3>2. /\ waiter'[w].at = waiter[w].at /\ waiter'[w].inst = waiter[w].inst /\ waiter'[w].left = waiter[w].left
          /\ waiter'[w].listens = waiter[w].listens /\ waiter'[w].mail \subseteq waiter[w].mail \cup {c}
          /\ waiter'[w].timedOut = waiter[w].timedOut /\ waiter'[w].holds = waiter[w].holds
      BY <1>w, <3>1 DEF Waiting
    <3>3. waiter[w].left # <<>> => Head(waiter[w].left) \in Children
      BY <1>w DEF Waiting
    <3>4. waiter[w].mail \subseteq Children
      BY <1>w DEF Waiting
    <3>5. \A k \in Instances, d \in Children : slot[k][d] # "none" => slot'[k][d] # "none"
      BY <1>d, <2>1
    <3>6. QED
      BY <1>0, <1>00, <2>2, <3>2, <3>3, <3>4, <3>5 DEF SubWaits, WaitsWell
  <2>5. QED
    BY <2>3, <2>4 DEF SubWaits
<1>15. ASSUME NEW i \in Instances, Sub!Crash(i)
      PROVE SubEvents' /\ SubWaits'
  <2>1. slot' = [slot EXCEPT ![i] = [c \in Children |-> "none"]]
    BY <1>15, Zenon DEF Sub!Crash
  <2>2. waiter' = [w \in Waiters |->
                     IF waiter[w].inst = i THEN [waiter[w] EXCEPT !.at = "done", !.timedOut = TRUE,
                                                     !.left = <<>>, !.mail = {}, !.listens = FALSE]
                                           ELSE waiter[w]]
    BY <1>15, Zenon DEF Sub!Crash
  <2>3. \A k \in Instances, c \in Children : slot'[k][c] = IF k = i THEN "none" ELSE slot[k][c]
    BY <1>s, <2>1
  <2>4. SubEvents'
    BY <1>0, <1>00, <2>3 DEF SubEvents
  <2>5. ASSUME NEW w \in Waiters PROVE WaitsWell(w)'
    <3>1. CASE waiter[w].inst = i
      <4>1. waiter'[w] = [waiter[w] EXCEPT !.at = "done", !.timedOut = TRUE, !.left = <<>>, !.mail = {}, !.listens = FALSE]
        BY <2>2, <3>1, Zenon
      <4>2. waiter'[w].at = "done" /\ waiter'[w].timedOut /\ waiter'[w].mail = {} /\ ~waiter'[w].listens
        BY <1>w, <4>1 DEF Waiting
      <4>3. QED
        BY <4>2 DEF WaitsWell
    <3>2. CASE waiter[w].inst # i
      <4>1. waiter'[w] = waiter[w]
        BY <2>2, <3>2, Zenon
      <4>2. waiter[w].left # <<>> => Head(waiter[w].left) \in Children
        BY <1>w DEF Waiting
      <4>3. waiter[w].mail \subseteq Children
        BY <1>w DEF Waiting
      <4>4. QED
        BY <1>0, <1>00, <2>3, <3>2, <4>1, <4>2, <4>3 DEF SubWaits, WaitsWell
    <3>3. QED
      BY <3>1, <3>2
  <2>6. QED
    BY <2>4, <2>5 DEF SubWaits
<1>16. ASSUME NEW w \in Waiters, NEW i \in Instances, Sub!WaitStart(w, i)
      PROVE SubEvents' /\ SubWaits'
  <2>1. slot' = [slot EXCEPT ![i] = [c \in Children |-> IF @[c] = "none" THEN "clear" ELSE @[c]]]
    BY <1>16, Zenon DEF Sub!WaitStart
  <2>2. PICK listens \in BOOLEAN :
            waiter' = [waiter EXCEPT ![w] = [@ EXCEPT !.at = "next", !.inst = i, !.left = Order, !.listens = listens]]
    BY <1>16, Zenon DEF Sub!WaitStart
  <2>3. \A k \in Instances, c \in Children :
            slot'[k][c] = IF k = i /\ slot[k][c] = "none" THEN "clear" ELSE slot[k][c]
    BY <1>s, <2>1
  <2>4. SubEvents'
    BY <1>0, <1>00, <2>3 DEF SubEvents
  <2>5. /\ waiter'[w].at = "next" /\ waiter'[w].inst = i /\ waiter'[w].left = Order
        /\ waiter'[w].mail = waiter[w].mail
    BY <1>w, <2>2 DEF Waiting
  <2>6. waiter[w].mail \subseteq Children
    BY <1>w DEF Waiting
  <2>7. WaitsWell(w)'
    BY <1>0, <1>00, <2>5, <2>6, SubAssumption DEF WaitsWell, SubWaits
  <2>8. QED
    BY <1>e, <1>w, <2>2, <2>3, <2>4, <2>7
<1>17. ASSUME NEW w \in Waiters, NEW c \in Children, Sub!Hear(w, c)
      PROVE SubEvents' /\ SubWaits'
  <2>1. waiter[w].inst \in Instances /\ Settled(c)'
    BY <1>0, <1>00, <1>17 DEF Sub!Hear, SubWaits, WaitsWell
  <2>2. SubEvents' /\ \A k \in Instances, d \in Children : slot[k][d] # "none" => slot'[k][d] # "none"
    BY <1>c, <1>d, <2>1, <1>17 DEF Sub!Hear
  <2>3. waiter' = [waiter EXCEPT ![w] = [waiter[w] EXCEPT !.mail = @ \ {c}]]
    BY <1>w, <1>17 DEF Sub!Hear
  <2>4. /\ waiter'[w].at = waiter[w].at /\ waiter'[w].inst = waiter[w].inst /\ waiter'[w].left = waiter[w].left
        /\ waiter'[w].listens = waiter[w].listens /\ waiter'[w].mail \subseteq waiter[w].mail
        /\ waiter'[w].timedOut = waiter[w].timedOut /\ waiter'[w].holds = waiter[w].holds
    BY <1>w, <2>3 DEF Waiting
  <2>5. waiter[w].left # <<>> => Head(waiter[w].left) \in Children
    BY <1>w DEF Waiting
  <2>6. waiter[w].mail \subseteq Children
    BY <1>w DEF Waiting
  <2>7. WaitsWell(w)'
    BY <1>0, <1>00, <2>2, <2>4, <2>5, <2>6 DEF SubWaits, WaitsWell
  <2>8. QED
    BY <1>e, <1>w, <2>2, <2>3, <2>7
<1>18. ASSUME NEW w \in Waiters, Sub!WaitNext(w)
      PROVE SubEvents' /\ SubWaits'
  <2>1. waiter' = [waiter EXCEPT ![w] = [waiter[w] EXCEPT !.at = "loop",
                     !.holds = IF slot[waiter[w].inst][Head(waiter[w].left)] = "none" THEN "clear" ELSE "slot"]]
        /\ slot' = slot /\ waiter[w].at = "next" /\ waiter[w].left # <<>>
    BY <1>w, <1>18 DEF Sub!WaitNext
  <2>2. /\ waiter'[w].at = "loop" /\ waiter'[w].inst = waiter[w].inst /\ waiter'[w].left = waiter[w].left
        /\ waiter'[w].listens = waiter[w].listens /\ waiter'[w].mail = waiter[w].mail
        /\ waiter'[w].timedOut = waiter[w].timedOut
        /\ waiter'[w].holds = IF slot[waiter[w].inst][Head(waiter[w].left)] = "none" THEN "clear" ELSE "slot"
    BY <1>w, <2>1 DEF Waiting
  <2>3. waiter[w].mail \subseteq Children
    BY <1>w DEF Waiting
  <2>4. WaitsWell(w)'
    BY <1>0, <1>00, <2>1, <2>2, <2>3 DEF SubWaits, WaitsWell
  <2>5. QED
    BY <1>a, <1>e, <1>w, <2>1, <2>4
<1>19. ASSUME NEW w \in Waiters, Sub!WaitLoop(w)
      PROVE SubEvents' /\ SubWaits'
  <2>0. PICK h \in Children : h = Head(waiter[w].left) /\ waiter[w].left \in Seq(Children) /\ waiter[w].left # <<>>
    BY <1>0, <1>w, <1>19 DEF Sub!WaitLoop, SubWaits, WaitsWell, Waiting
  <2>1. waiter[w].inst \in Instances
    BY <1>0, <1>19 DEF Sub!WaitLoop, SubWaits, WaitsWell
  <2>2. waiter[w].mail \subseteq Children
    BY <1>w DEF Waiting
  <2>3. CASE waiter' = Sub!GoOn(w) /\ (Sub!IsSet(w) \/ child[h].row = "over")
             /\ slot' \in {slot, IF child[h].row = "over" THEN Sub!Marked(waiter[w].inst, h) ELSE slot}
    <3>1. Settled(h) /\ Settled(h)'
      BY <1>0, <1>00, <2>0, <2>1, <2>3, <1>19 DEF Sub!IsSet, Settled, SubEvents, SubWaits, WaitsWell, Sub!WaitLoop
    <3>2. SubEvents' /\ \A k \in Instances, d \in Children : slot[k][d] # "none" => slot'[k][d] # "none"
      BY <1>a, <1>c, <1>d, <2>1, <2>3, <3>1
    <3>3. waiter' = [waiter EXCEPT ![w] = [waiter[w] EXCEPT !.at = "next", !.left = Tail(@), !.holds = "clear"]]
      BY <1>w, <2>3 DEF Sub!GoOn
    <3>4. /\ waiter'[w].at = "next" /\ waiter'[w].inst = waiter[w].inst /\ waiter'[w].left = Tail(waiter[w].left)
          /\ waiter'[w].listens = waiter[w].listens /\ waiter'[w].mail = waiter[w].mail
          /\ waiter'[w].timedOut = waiter[w].timedOut
      BY <1>w, <3>3 DEF Waiting
    <3>5. ASSUME NEW c \in Children, NEW k \in 1..Len(waiter[w].left), waiter[w].left[k] = c, c # h
          PROVE \E m \in 1..Len(Tail(waiter[w].left)) : Tail(waiter[w].left)[m] = c
      <4>1. k # 1 /\ k - 1 \in 1..Len(Tail(waiter[w].left)) /\ Tail(waiter[w].left)[k - 1] = c
        BY <2>0, <3>5
      <4>2. QED
        BY <4>1
    <3>6. \A c \in Children : Settled(c)' \/ waiter'[w].timedOut
                                \/ \E m \in 1..Len(waiter'[w].left) : waiter'[w].left[m] = c
      BY <1>0, <1>00, <3>1, <3>4, <3>5, <1>19 DEF SubWaits, WaitsWell, Sub!WaitLoop
    <3>7. WaitsWell(w)'
      BY <1>0, <1>00, <2>1, <2>2, <3>4, <3>6 DEF SubWaits, WaitsWell
    <3>8. QED
      BY <1>e, <1>w, <3>2, <3>3, <3>7
  <2>4. CASE waiter' = [waiter EXCEPT ![w].at = "wait"] /\ slot' = slot
    <3>1. /\ waiter'[w].at = "wait" /\ waiter'[w].inst = waiter[w].inst /\ waiter'[w].left = waiter[w].left
          /\ waiter'[w].listens = waiter[w].listens /\ waiter'[w].mail = waiter[w].mail
          /\ waiter'[w].timedOut = waiter[w].timedOut /\ waiter'[w].holds = waiter[w].holds
      BY <1>w, <2>4 DEF Waiting
    <3>2. WaitsWell(w)'
      BY <1>0, <1>00, <2>0, <2>2, <2>4, <3>1, <1>19 DEF SubWaits, WaitsWell, Sub!WaitLoop
    <3>3. QED
      BY <1>a, <1>e, <1>w, <2>4, <3>2
  <2>5. QED
    BY <2>0, <2>3, <2>4, <1>19 DEF Sub!WaitLoop
<1>20. ASSUME NEW w \in Waiters, Sub!WaitWakes(w)
      PROVE SubEvents' /\ SubWaits'
  <2>1. waiter' = [waiter EXCEPT ![w].at = "loop"] /\ slot' = slot /\ waiter[w].at = "wait"
    BY <1>20 DEF Sub!WaitWakes
  <2>2. /\ waiter'[w].at = "loop" /\ waiter'[w].inst = waiter[w].inst /\ waiter'[w].left = waiter[w].left
        /\ waiter'[w].listens = waiter[w].listens /\ waiter'[w].mail = waiter[w].mail
        /\ waiter'[w].timedOut = waiter[w].timedOut /\ waiter'[w].holds = waiter[w].holds
    BY <1>w, <2>1 DEF Waiting
  <2>3. waiter[w].mail \subseteq Children
    BY <1>w DEF Waiting
  <2>4. waiter[w].left # <<>> => Head(waiter[w].left) \in Children
    BY <1>w DEF Waiting
  <2>5. WaitsWell(w)'
    BY <1>0, <1>00, <2>1, <2>2, <2>3, <2>4 DEF SubWaits, WaitsWell
  <2>6. QED
    BY <1>a, <1>e, <1>w, <2>1, <2>5
<1>21. ASSUME NEW w \in Waiters, Sub!WaitTimesOut(w)
      PROVE SubEvents' /\ SubWaits'
  <2>1. waiter' = [waiter EXCEPT ![w] = [waiter[w] EXCEPT !.at = "next", !.left = <<>>, !.holds = "clear", !.timedOut = TRUE]]
        /\ slot' = slot /\ waiter[w].at \in {"next", "loop"}
    BY <1>w, <1>21 DEF Sub!WaitTimesOut
  <2>2. /\ waiter'[w].at = "next" /\ waiter'[w].inst = waiter[w].inst
        /\ waiter'[w].listens = waiter[w].listens /\ waiter'[w].mail = waiter[w].mail
        /\ waiter'[w].timedOut
    BY <1>w, <2>1 DEF Waiting
  <2>3. waiter[w].mail \subseteq Children
    BY <1>w DEF Waiting
  <2>4. WaitsWell(w)'
    BY <1>0, <1>00, <2>1, <2>2, <2>3 DEF SubWaits, WaitsWell
  <2>5. QED
    BY <1>a, <1>e, <1>w, <2>1, <2>4
<1>22. ASSUME NEW w \in Waiters, Sub!WaitEnd(w)
      PROVE SubEvents' /\ SubWaits'
  <2>1. PICK i \in Instances : i = waiter[w].inst
    BY <1>0, <1>22 DEF Sub!WaitEnd, SubWaits, WaitsWell
  <2> DEFINE f == Sub!Detached(i, Children)
  <2>2. waiter' = [f EXCEPT ![w] = [@ EXCEPT !.at = "done", !.listens = FALSE, !.mail = {}]]
        /\ slot' = [slot EXCEPT ![i] = [c \in Children |-> "none"]]
        /\ waiter[w].at = "next" /\ waiter[w].left = <<>>
    BY <2>1, <1>22 DEF Sub!WaitEnd
  <2>3. f[w] = waiter[w]
    BY <2>2 DEF Sub!Detached, Sub!Holds
  <2>4. f \in [Waiters -> Waiting]
    BY <1>0, DetachedTyped
  <2>5. \A k \in Instances, c \in Children : slot'[k][c] = IF k = i THEN "none" ELSE slot[k][c]
    BY <1>s, <2>2
  <2>6. SubEvents'
    BY <1>0, <1>00, <2>5 DEF SubEvents
  <2>7. \A v \in Waiters \ {w} : WaitsWell(v)'
    <3>1. \A v \in Waiters \ {w} : waiter'[v] = Sub!Detached(i, Children)[v]
      BY <2>2, <2>4
    <3>2. QED
      BY <1>0, <1>00, <2>5, <3>1, WaitsDetached DEF SubWaits
  <2>8. waiter' = [f EXCEPT ![w] = [waiter[w] EXCEPT !.at = "done", !.listens = FALSE, !.mail = {}]]
    BY <2>2, <2>3, <2>4
  <2>9. /\ waiter'[w].at = "done" /\ ~waiter'[w].listens /\ waiter'[w].mail = {}
        /\ waiter'[w].timedOut = waiter[w].timedOut
    <3> HIDE DEF f
    <3>1. QED
      BY <1>w, <2>4, <2>8 DEF Waiting
  <2>10. \A c \in Children : Settled(c) \/ waiter[w].timedOut
    BY <1>0, <2>2 DEF SubWaits, WaitsWell
  <2>11. WaitsWell(w)'
    BY <1>00, <2>9, <2>10 DEF WaitsWell
  <2>12. QED
    BY <2>6, <2>7, <2>11 DEF SubWaits
<1>23. SubEvents' /\ SubWaits'
  BY <1>1, <1>2, <1>3, <1>4, <1>5, <1>6, <1>7, <1>8, <1>9, <1>10, <1>11, <1>12, <1>13, <1>14, <1>15, <1>16, <1>17, <1>18, <1>19, <1>20, <1>21, <1>22 DEF Sub!Next
<1>24. QED
  BY <1>00, <1>23 DEF SubInv

\* What it says of the subagents.
LEMMA SubTruth ==
    ASSUME SubInv
    PROVE Sub!TypeOK /\ Sub!WaitedForAll /\ Sub!LeftForAReason /\ Sub!StopIsHeeded
<1>1. Sub!WaitedForAll
  BY DEF SubInv, SubWaits, WaitsWell, Settled, Sub!WaitedForAll
<1>2. Sub!LeftForAReason /\ Sub!StopIsHeeded
  BY DEF SubInv, SubChildren, Sub!LeftForAReason, Sub!StopIsHeeded
<1>3. QED
  BY <1>1, <1>2 DEF SubInv

-----------------------------------------------------------------------------
(* The runners of a repository.                                            *)

\* What a row of a runner is, and where a controller may be.
CiRow == [machine : Machines, status : {"assigned", "ended", "lost"},
          by : Instances \cup {Nobody, "cancelled", "closing"}]
CiPlacesOf == {"off", "top", "ack", "acquire", "scale", "launch", "dispatch", "note", "farewell"}
CiStates == {"none", "available", "acquired", "running", "over"}
CiKinds == {"idle", "popped", "ci", "gone"}
CiEnds == {"none", "waits", "works", "ended"}

\* The types, a few variables at a time.
CiLocks == lock \in Instances \cup {Nobody} /\ ciSession \in Instances \cup {Nobody}
CiWork == job \in [Ci!AllJobs -> CiStates] /\ queue \in SUBSET Ci!AllJobs /\ dropped \in SUBSET Ci!AllJobs
CiPool == /\ mach \in [Machines -> CiKinds] /\ runner \in [Machines -> CiEnds]
          /\ task \in [Machines -> 0..MaxJobs] /\ stray \in SUBSET Machines
CiRows == jobRows \in Seq(CiRow)
CiAt == pc \in [Instances -> CiPlacesOf]
CiRead == /\ sess \in [Instances -> BOOLEAN] /\ last \in [Instances -> 0..MaxJobs]
CiHand == hand \in [Instances -> 0..MaxJobs] /\ assigned \in [Instances -> 0..MaxJobs]
CiLaunch == left \in [Instances -> 0..Limit] /\ hold \in [Instances -> Machines \cup {Nobody}]
CiNotes == overlap \in BOOLEAN /\ faults \in 0..MaxFaults
CiTypes == CiLocks /\ CiWork /\ CiPool /\ CiRows /\ CiAt /\ CiRead /\ CiHand /\ CiLaunch /\ CiNotes

\* Where a controller is: it holds the machine of a launch, which has no runner
\* before it is told; a message in hand is being acknowledged or acquired.
CiPlace(i) ==
    /\ hold[i] # Nobody <=> pc[i] \in {"dispatch", "note"}
    /\ pc[i] = "dispatch" => mach[hold[i]] \in {"popped", "gone"}
    /\ hold[i] # Nobody => mach[hold[i]] # "idle"
    /\ hand[i] # Ci!None => pc[i] \in {"ack", "acquire"}
    /\ pc[i] \in {"launch", "dispatch", "note"} => left[i] # 0
    /\ ~sess[i] => last[i] = 0

\* A machine has one launcher at most.
CiSole == \A i, k \in Instances : hold[i] = hold[k] /\ hold[i] # Nobody => i = k

\* Unless two were at work at a time, one is.
CiAlone == ~overlap => \A i, k \in Instances : pc[i] # "off" /\ pc[k] # "off" => i = k

\* What is to be launched fits beside what runs.
CiCounts ==
    ~overlap =>
        /\ Cardinality(Ci!Unfinished) <= Limit
        /\ \A i \in Instances :
              pc[i] \in {"launch", "dispatch", "note"} => Cardinality(Ci!Unfinished) + left[i] <= Limit

\* A machine that runs is accounted for.
CiMachine(m) ==
    mach[m] = "ci" =>
        \/ m \in stray
        \/ \E i \in Instances : hold[i] = m
        \/ \E r \in 1..Len(jobRows) : jobRows[r].machine = m /\ (jobRows[r].status = "assigned" \/ jobRows[r].by = "closing")

\* Jobs are queued one after the other, and nobody has read further.
CiJobs ==
    /\ \A j, k \in Ci!AllJobs : j < k /\ job[k] # "none" => job[j] # "none"
    /\ \A q \in queue : job[q] # "none"
    /\ \A i \in Instances : last[i] # 0 => job[last[i]] # "none"
    /\ \A m \in Machines : task[m] # 0 => job[task[m]] # "none"

\* A job that is offered: who reads it has it in hand, or has not come to it.
CiOffer(j) ==
    job[j] = "available" =>
        \/ j \in dropped
        \/ \E i \in Instances : hand[i] = j /\ pc[i] = "acquire"
        \/ j \in queue /\ \A i \in Instances : sess[i] => last[i] < j \/ hand[i] = j

CiInv ==
    /\ CiTypes /\ (\A i \in Instances : CiPlace(i)) /\ CiSole /\ CiAlone /\ CiCounts
    /\ (\A m \in Machines : CiMachine(m)) /\ CiJobs /\ (\A j \in Ci!AllJobs : CiOffer(j))

\* Rows are finitely many, and jobs are.
LEMMA FewRows ==
    ASSUME CiRows
    PROVE /\ Len(jobRows) \in Nat /\ \A r \in 1..Len(jobRows) : jobRows[r] \in CiRow
          /\ IsFiniteSet(Ci!Unfinished) /\ Cardinality(Ci!Unfinished) \in Nat
<1>1. Len(jobRows) \in Nat
  BY DEF CiRows
<1>a. \A r \in 1..Len(jobRows) : jobRows[r] \in CiRow
  BY ElementOfSeq DEF CiRows
<1>2. IsFiniteSet(1..Len(jobRows))
  BY <1>1, FS_Interval
<1>3. Ci!Unfinished \subseteq 1..Len(jobRows)
  BY DEF Ci!Unfinished
<1>4. QED
  BY <1>1, <1>a, <1>2, <1>3, FS_Subset, FS_CardinalityType
\* ScaleSet counts with the same Cardinality.
LEMMA CiCardinal == \A S : Ci!Cardinality(S) = Cardinality(S)
  BY DEF Ci!Cardinality, Cardinality

\* No more jobs are assigned than there are.
LEMMA FewAssigned == Ci!Assigned \in 0..MaxJobs
<1> DEFINE S == {j \in Ci!AllJobs : job[j] \in {"acquired", "running"}}
<1>1. IsFiniteSet(Ci!AllJobs) /\ Cardinality(Ci!AllJobs) = MaxJobs
  BY ScaleAssumption, FS_Interval DEF Ci!AllJobs
<1>2. S \subseteq Ci!AllJobs
  OBVIOUS
<1>3. IsFiniteSet(S) /\ Cardinality(S) \in Nat /\ Cardinality(S) <= MaxJobs
  BY <1>1, <1>2, FS_Subset, FS_CardinalityType
<1>4. Ci!Assigned = Cardinality(S)
  BY CiCardinal, Zenon DEF Ci!Assigned
<1> HIDE DEF S
<1>5. QED
  BY <1>3, <1>4, ScaleAssumption

\* A row is written.
LEMMA RowWritten ==
    ASSUME NEW rs \in Seq(CiRow), NEW r \in 1..Len(rs), NEW x \in CiRow
    PROVE /\ [rs EXCEPT ![r] = x] \in Seq(CiRow) /\ Len([rs EXCEPT ![r] = x]) = Len(rs)
          /\ \A q \in 1..Len(rs) : [rs EXCEPT ![r] = x][q] = IF q = r THEN x ELSE rs[q]
OBVIOUS

\* Rows are watched by another, or by nobody any more.
LEMMA RowsWatched ==
    ASSUME CiRows, NEW i \in Instances, NEW by \in {Nobody, "cancelled"}, jobRows' = Ci!Watched(i, by)
    PROVE /\ CiRows' /\ Len(jobRows') = Len(jobRows)
          /\ \A r \in 1..Len(jobRows) : jobRows'[r].machine = jobRows[r].machine /\ jobRows'[r].status = jobRows[r].status
          /\ \A r \in 1..Len(jobRows) : jobRows[r].by = "closing" => jobRows'[r].by = "closing"
          /\ Ci!Unfinished' = Ci!Unfinished
<1>1. Len(jobRows) \in Nat /\ \A r \in 1..Len(jobRows) : jobRows[r] \in CiRow
  BY FewRows
<1>2. \A r \in 1..Len(jobRows) : jobRows'[r] = IF jobRows[r].by = i THEN [jobRows[r] EXCEPT !.by = by] ELSE jobRows[r]
  BY DEF Ci!Watched
<1>3. \A r \in 1..Len(jobRows) : [jobRows[r] EXCEPT !.by = by] \in CiRow
  BY <1>1 DEF CiRow
<1>4. Len(jobRows') = Len(jobRows) /\ CiRows'
  BY <1>1, <1>3 DEF Ci!Watched, CiRows
<1>5. \A r \in 1..Len(jobRows) : jobRows'[r].machine = jobRows[r].machine /\ jobRows'[r].status = jobRows[r].status
  BY <1>1, <1>2 DEF CiRow
<1>6. \A r \in 1..Len(jobRows) : jobRows[r].by = "closing" => jobRows'[r].by = "closing"
  BY <1>2, ScaleAssumption
<1>7. Ci!Unfinished' = Ci!Unfinished
  BY <1>4, <1>5 DEF Ci!Unfinished
<1>8. QED
  BY <1>4, <1>5, <1>6, <1>7

\* Nothing is there at first.
LEMMA CiBegins == Ci!Init => CiInv
<1> SUFFICES ASSUME Ci!Init PROVE CiInv
  OBVIOUS
<1>1. jobRows = <<>> /\ Len(jobRows) = 0 /\ CiRows
  BY DEF Ci!Init, CiRows
<1>2. overlap = FALSE /\ faults = 0 /\ lock = Nobody /\ ciSession = Nobody
  BY Zenon DEF Ci!Init
<1>3. sess \in [Instances -> BOOLEAN] /\ (\A i \in Instances : sess[i] = FALSE) /\ last \in [Instances -> 0..MaxJobs]
  BY ScaleAssumption DEF Ci!Init
<1>4. CiLocks /\ CiRead
  BY <1>2, <1>3 DEF CiLocks, CiRead
<1>5. CiNotes
  <2>1. overlap \in BOOLEAN
    BY <1>2, Zenon
  <2>2. QED
    BY <1>2, <2>1, ScaleAssumption DEF CiNotes
<1>6. CiWork
  BY DEF Ci!Init, CiWork, CiStates
<1>7. CiPool
  BY ScaleAssumption DEF Ci!Init, CiPool, CiKinds, CiEnds, Ci!None
<1>8. CiAt /\ CiHand /\ CiLaunch
  BY ScaleAssumption DEF Ci!Init, CiAt, CiHand, CiLaunch, CiPlacesOf, Ci!None
<1>9. CiTypes
  BY <1>1, <1>4, <1>5, <1>6, <1>7, <1>8 DEF CiTypes
<1>10. \A i \in Instances : pc[i] = "off" /\ hold[i] = Nobody /\ hand[i] = Ci!None /\ last[i] = 0
  BY DEF Ci!Init
<1>11. (\A i \in Instances : CiPlace(i)) /\ CiSole /\ CiAlone
  BY <1>10 DEF CiPlace, CiSole, CiAlone
<1>12. Ci!Unfinished = {}
  BY <1>1 DEF Ci!Unfinished
<1>13. CiCounts
  BY <1>10, <1>12, FS_EmptySet, ScaleAssumption DEF CiCounts
<1>14. (\A m \in Machines : CiMachine(m)) /\ CiJobs /\ (\A j \in Ci!AllJobs : CiOffer(j))
  BY DEF Ci!Init, CiMachine, CiJobs, CiOffer, Ci!None
<1>15. QED
  BY <1>9, <1>11, <1>13, <1>14 DEF CiInv

\* The rows that count are no more than before, and no more is to be launched.
LEMMA CountsStay ==
    ASSUME CiInv, Ci!Unfinished' \subseteq Ci!Unfinished, ~overlap' => ~overlap,
           \A i \in Instances : pc'[i] \in {"launch", "dispatch", "note"} =>
               pc[i] \in {"launch", "dispatch", "note"} /\ left'[i] = left[i]
    PROVE CiCounts'
<1>1. IsFiniteSet(Ci!Unfinished) /\ Cardinality(Ci!Unfinished) \in Nat
  BY FewRows DEF CiInv, CiTypes
<1>2. Cardinality(Ci!Unfinished') <= Cardinality(Ci!Unfinished) /\ Cardinality(Ci!Unfinished') \in Nat
  BY <1>1, FS_Subset, FS_CardinalityType
<1>3. \A i \in Instances : left[i] \in Nat
  BY ScaleAssumption DEF CiInv, CiTypes, CiLaunch
<1>4. QED
  BY <1>1, <1>2, <1>3, ScaleAssumption DEF CiInv, CiCounts

\* Nothing is queued, and nobody reads further.
LEMMA JobsStay ==
    ASSUME CiJobs, CiWork, CiRead, CiPool, queue' \subseteq queue,
           \A j \in Ci!AllJobs : job'[j] # "none" <=> job[j] # "none",
           \A i \in Instances : last'[i] \in {0, last[i]},
           \A m \in Machines : task'[m] \in {0, task[m]}
    PROVE CiJobs'
<1>1. \A i \in Instances : last[i] \in Nat /\ (last[i] # 0 => last[i] \in Ci!AllJobs)
  BY ScaleAssumption DEF CiRead, Ci!AllJobs
<1>2. \A m \in Machines : task[m] \in Nat /\ (task[m] # 0 => task[m] \in Ci!AllJobs)
  BY ScaleAssumption DEF CiPool, Ci!AllJobs
<1>3. (\A j, k \in Ci!AllJobs : j < k /\ job[k] # "none" => job[j] # "none")'
  BY DEF CiJobs
<1>4. (\A q \in queue : job[q] # "none")'
  BY DEF CiJobs, CiWork
<1>5. (\A i \in Instances : last[i] # 0 => job[last[i]] # "none")'
  BY <1>1 DEF CiJobs
<1>6. (\A m \in Machines : task[m] # 0 => job[task[m]] # "none")'
  BY <1>2 DEF CiJobs
<1>7. QED
  BY <1>3, <1>4, <1>5, <1>6 DEF CiJobs

\* What a step leaves alone keeps what is true of it.
LEMMA CiFrames ==
    ASSUME CiInv
    PROVE /\ UNCHANGED <<lock, ciSession>> => CiLocks'
          /\ UNCHANGED <<job, queue, dropped>> => CiWork'
          /\ UNCHANGED <<mach, runner, task, stray>> => CiPool'
          /\ UNCHANGED jobRows => CiRows'
          /\ UNCHANGED pc => CiAt'
          /\ UNCHANGED <<sess, last>> => CiRead'
          /\ UNCHANGED <<hand, assigned>> => CiHand'
          /\ UNCHANGED <<left, hold>> => CiLaunch'
          /\ UNCHANGED <<overlap, faults>> => CiNotes'
          /\ UNCHANGED <<pc, hold, mach, hand, left, sess, last>> => (\A k \in Instances : CiPlace(k))'
          /\ UNCHANGED hold => CiSole'
          /\ UNCHANGED <<overlap, pc>> => CiAlone'
          /\ UNCHANGED <<jobRows, overlap, pc, left>> => CiCounts'
          /\ UNCHANGED <<mach, stray, hold, jobRows>> => (\A n \in Machines : CiMachine(n))'
          /\ UNCHANGED <<job, queue, last, task>> => CiJobs'
          /\ UNCHANGED <<job, dropped, hand, pc, queue, sess, last>> => (\A x \in Ci!AllJobs : CiOffer(x))'
          /\ UNCHANGED jobRows => Ci!Unfinished' = Ci!Unfinished
<1>1. UNCHANGED <<lock, ciSession>> => CiLocks'
  BY DEF CiInv, CiTypes, CiLocks
<1>2. UNCHANGED <<job, queue, dropped>> => CiWork'
  BY DEF CiInv, CiTypes, CiWork
<1>3. UNCHANGED <<mach, runner, task, stray>> => CiPool'
  BY DEF CiInv, CiTypes, CiPool
<1>4. UNCHANGED jobRows => CiRows'
  BY DEF CiInv, CiTypes, CiRows
<1>5. UNCHANGED pc => CiAt'
  BY DEF CiInv, CiTypes, CiAt
<1>6. UNCHANGED <<sess, last>> => CiRead'
  BY DEF CiInv, CiTypes, CiRead
<1>7. UNCHANGED <<hand, assigned>> => CiHand'
  BY DEF CiInv, CiTypes, CiHand
<1>8. UNCHANGED <<left, hold>> => CiLaunch'
  BY DEF CiInv, CiTypes, CiLaunch
<1>9. UNCHANGED <<overlap, faults>> => CiNotes'
  BY DEF CiInv, CiTypes, CiNotes
<1>10. UNCHANGED <<pc, hold, mach, hand, left, sess, last>> => (\A k \in Instances : CiPlace(k))'
  BY DEF CiInv, CiPlace
<1>11. UNCHANGED hold => CiSole'
  BY DEF CiInv, CiSole
<1>12. UNCHANGED <<overlap, pc>> => CiAlone'
  BY DEF CiInv, CiAlone
<1>13. UNCHANGED <<jobRows, overlap, pc, left>> => CiCounts'
  BY DEF CiInv, CiCounts, Ci!Unfinished
<1>14. UNCHANGED <<mach, stray, hold, jobRows>> => (\A n \in Machines : CiMachine(n))'
  BY DEF CiInv, CiMachine
<1>15. UNCHANGED <<job, queue, last, task>> => CiJobs'
  BY DEF CiInv, CiJobs
<1>16. UNCHANGED <<job, dropped, hand, pc, queue, sess, last>> => (\A x \in Ci!AllJobs : CiOffer(x))'
  BY DEF CiInv, CiOffer
<1>17. UNCHANGED jobRows => Ci!Unfinished' = Ci!Unfinished
  BY DEF Ci!Unfinished
<1>18. QED
  BY <1>1, <1>2, <1>3, <1>4, <1>5, <1>6, <1>7, <1>8, <1>9, <1>10, <1>11, <1>12, <1>13, <1>14, <1>15, <1>16, <1>17

\* A controller that gets the lock of a set keeps what is true of it.
LEMMA CiServe ==
    ASSUME CiInv, NEW i \in Instances, Ci!Serve(i)
    PROVE CiInv'
<1>0. /\ CiLocks /\ CiWork /\ CiPool /\ CiRows /\ CiAt /\ CiRead /\ CiHand /\ CiLaunch /\ CiNotes
      /\ (\A k \in Instances : CiPlace(k)) /\ CiSole /\ CiAlone /\ CiCounts
      /\ (\A n \in Machines : CiMachine(n)) /\ CiJobs /\ (\A x \in Ci!AllJobs : CiOffer(x))
  BY DEF CiInv, CiTypes
<1>a. /\ pc[i] = "off"
      /\ lock' = i
      /\ overlap' = (overlap \/ \E k \in Instances : pc[k] # "off")
      /\ pc' = [pc EXCEPT ![i] = "top"]
  BY Zenon DEF Ci!Serve, Ci!Goto
<1>u. UNCHANGED <<ciSession, job, queue, dropped, mach, runner, task, stray, jobRows, sess, last, hand, assigned, left, hold, faults>>
  BY DEF Ci!Serve, Ci!Goto, Ci!github, Ci!pool, Ci!own, Ci!noted
<1>w. \A k \in Instances : pc'[k] = IF k = i THEN "top" ELSE pc[k]
  BY <1>0, <1>a DEF CiAt
<1>CiLocks. CiLocks'
  BY <1>0, <1>u, <1>a, ScaleAssumption DEF CiLocks
<1>CiAt. CiAt'
  BY <1>0, <1>u, <1>a, ScaleAssumption DEF CiAt, CiPlacesOf
<1>CiNotes. CiNotes'
  BY <1>0, <1>u, <1>a, ScaleAssumption DEF Ci!Serve, Ci!Goto, CiNotes
<1>ty. CiTypes'
  BY <1>u, CiFrames, <1>CiLocks, <1>CiAt, <1>CiNotes DEF CiTypes
<1>p. ASSUME NEW k \in Instances PROVE CiPlace(k)'
  BY <1>0, <1>u, <1>a, <1>w, ScaleAssumption DEF CiPlace, Ci!None
<1>s. CiSole'
  BY <1>u, CiFrames
<1>l. CiAlone'
  BY <1>0, <1>u, <1>a, <1>w, ScaleAssumption DEF CiAlone
<1>c. CiCounts'
  <2>1. Ci!Unfinished' \subseteq Ci!Unfinished
    BY <1>u, CiFrames
  <2>2. ~overlap' => ~overlap
    BY <1>a
  <2>3. \A k \in Instances : pc'[k] \in {"launch", "dispatch", "note"} =>
           pc[k] \in {"launch", "dispatch", "note"} /\ left'[k] = left[k]
    BY <1>u, <1>a, <1>w
  <2>4. QED
    BY <2>1, <2>2, <2>3, CountsStay
<1>m. (\A n \in Machines : CiMachine(n))'
  BY <1>u, CiFrames
<1>j. CiJobs'
  BY <1>u, CiFrames
<1>o. ASSUME NEW x \in Ci!AllJobs PROVE CiOffer(x)'
  BY <1>0, <1>u, <1>a, <1>w, ScaleAssumption DEF CiOffer, CiPlace, Ci!None
<1>9. QED
  BY <1>ty, <1>p, <1>s, <1>l, <1>c, <1>m, <1>j, <1>o DEF CiInv

\* A controller whose lock is lost, until it looks at it.
LEMMA CiLoseLock ==
    ASSUME CiInv, NEW i \in Instances, Ci!LoseLock(i)
    PROVE CiInv'
<1>0. /\ CiLocks /\ CiWork /\ CiPool /\ CiRows /\ CiAt /\ CiRead /\ CiHand /\ CiLaunch /\ CiNotes
      /\ (\A k \in Instances : CiPlace(k)) /\ CiSole /\ CiAlone /\ CiCounts
      /\ (\A n \in Machines : CiMachine(n)) /\ CiJobs /\ (\A x \in Ci!AllJobs : CiOffer(x))
  BY DEF CiInv, CiTypes
<1>a. lock' = Nobody /\ (faults' = faults \/ Ci!Fault)
  BY DEF Ci!LoseLock
<1>u. UNCHANGED <<ciSession, job, queue, dropped, mach, runner, task, stray, jobRows, pc, sess, last, hand, assigned, left, hold, overlap>>
  BY DEF Ci!LoseLock, Ci!Fault, Ci!github, Ci!pool, Ci!own, Ci!noted
<1>CiLocks. CiLocks'
  BY <1>0, <1>u, <1>a, ScaleAssumption DEF CiLocks
<1>CiNotes. CiNotes'
  BY <1>0, <1>u, <1>a, ScaleAssumption DEF Ci!LoseLock, Ci!Fault, CiNotes
<1>ty. CiTypes'
  BY <1>u, CiFrames, <1>CiLocks, <1>CiNotes DEF CiTypes
<1>p. (\A k \in Instances : CiPlace(k))'
  BY <1>u, CiFrames
<1>s. CiSole'
  BY <1>u, CiFrames
<1>l. CiAlone'
  BY <1>u, CiFrames
<1>c. CiCounts'
  BY <1>u, CiFrames
<1>m. (\A n \in Machines : CiMachine(n))'
  BY <1>u, CiFrames
<1>j. CiJobs'
  BY <1>u, CiFrames
<1>o. (\A x \in Ci!AllJobs : CiOffer(x))'
  BY <1>u, CiFrames
<1>9. QED
  BY <1>ty, <1>p, <1>s, <1>l, <1>c, <1>m, <1>j, <1>o DEF CiInv

\* A controller that is told to end, with its hand empty or not.
LEMMA CiLeave ==
    ASSUME CiInv, NEW i \in Instances, Ci!Leave(i)
    PROVE CiInv'
<1>0. /\ CiLocks /\ CiWork /\ CiPool /\ CiRows /\ CiAt /\ CiRead /\ CiHand /\ CiLaunch /\ CiNotes
      /\ (\A k \in Instances : CiPlace(k)) /\ CiSole /\ CiAlone /\ CiCounts
      /\ (\A n \in Machines : CiMachine(n)) /\ CiJobs /\ (\A x \in Ci!AllJobs : CiOffer(x))
  BY DEF CiInv, CiTypes
<1>a. /\ pc[i] = "top"
      /\ pc' = [pc EXCEPT ![i] = "farewell"]
  BY Zenon DEF Ci!Leave, Ci!Goto
<1>u. UNCHANGED <<lock, ciSession, job, queue, dropped, mach, runner, task, stray, jobRows, sess, last, hand, assigned, left, hold, overlap, faults>>
  BY DEF Ci!Leave, Ci!Goto, Ci!github, Ci!pool, Ci!own, Ci!noted
<1>w. \A k \in Instances : pc'[k] = IF k = i THEN "farewell" ELSE pc[k]
  BY <1>0, <1>a DEF CiAt
<1>CiAt. CiAt'
  BY <1>0, <1>u, <1>a, ScaleAssumption DEF CiAt, CiPlacesOf
<1>ty. CiTypes'
  BY <1>u, CiFrames, <1>CiAt DEF CiTypes
<1>p. ASSUME NEW k \in Instances PROVE CiPlace(k)'
  BY <1>0, <1>u, <1>a, <1>w, ScaleAssumption DEF CiPlace, Ci!None
<1>s. CiSole'
  BY <1>u, CiFrames
<1>l. CiAlone'
  BY <1>0, <1>u, <1>a, <1>w, ScaleAssumption DEF CiAlone
<1>c. CiCounts'
  <2>1. Ci!Unfinished' \subseteq Ci!Unfinished
    BY <1>u, CiFrames
  <2>2. ~overlap' => ~overlap
    BY <1>u
  <2>3. \A k \in Instances : pc'[k] \in {"launch", "dispatch", "note"} =>
           pc[k] \in {"launch", "dispatch", "note"} /\ left'[k] = left[k]
    BY <1>u, <1>a, <1>w
  <2>4. QED
    BY <2>1, <2>2, <2>3, CountsStay
<1>m. (\A n \in Machines : CiMachine(n))'
  BY <1>u, CiFrames
<1>j. CiJobs'
  BY <1>u, CiFrames
<1>o. ASSUME NEW x \in Ci!AllJobs PROVE CiOffer(x)'
  BY <1>0, <1>u, <1>a, <1>w, ScaleAssumption DEF CiOffer, CiPlace, Ci!None
<1>9. QED
  BY <1>ty, <1>p, <1>s, <1>l, <1>c, <1>m, <1>j, <1>o DEF CiInv

\* A controller that ends closes its session if it has one.
LEMMA CiDrop ==
    ASSUME CiInv, NEW i \in Instances, Ci!Drop(i)
    PROVE CiInv'
<1>0. /\ CiLocks /\ CiWork /\ CiPool /\ CiRows /\ CiAt /\ CiRead /\ CiHand /\ CiLaunch /\ CiNotes
      /\ (\A k \in Instances : CiPlace(k)) /\ CiSole /\ CiAlone /\ CiCounts
      /\ (\A n \in Machines : CiMachine(n)) /\ CiJobs /\ (\A x \in Ci!AllJobs : CiOffer(x))
  BY DEF CiInv, CiTypes
<1>a. /\ pc[i] \notin {"off", "farewell"}
      /\ pc' = [pc EXCEPT ![i] = "farewell"]
      /\ dropped' = IF hand[i] = Ci!None THEN dropped ELSE dropped \cup {hand[i]}
      /\ stray' = IF pc[i] = "note" THEN stray \cup {hold[i]} ELSE stray
      /\ hand' = [hand EXCEPT ![i] = Ci!None]
      /\ hold' = [hold EXCEPT ![i] = Nobody]
  BY Zenon DEF Ci!Drop, Ci!Goto, Ci!CutJobs, Ci!CutMachine
<1>u. UNCHANGED <<lock, ciSession, job, queue, mach, runner, task, jobRows, sess, last, assigned, left, overlap, faults>>
  BY DEF Ci!Drop, Ci!Goto, Ci!CutJobs, Ci!CutMachine, Ci!github, Ci!pool, Ci!own, Ci!noted
<1>w. /\ (\A k \in Instances : pc'[k] = IF k = i THEN "farewell" ELSE pc[k])
      /\ (\A k \in Instances : hand'[k] = IF k = i THEN Ci!None ELSE hand[k])
      /\ (\A k \in Instances : hold'[k] = IF k = i THEN Nobody ELSE hold[k])
  BY <1>0, <1>a DEF CiAt, CiHand, CiLaunch
<1>h. /\ hand[i] # 0 => hand[i] \in Ci!AllJobs /\ hand[i] \in dropped'
      /\ dropped \subseteq dropped' /\ dropped' \subseteq dropped \cup {hand[i]} /\ (hand[i] = 0 => dropped' = dropped)
      /\ job' = job
  BY <1>0, <1>a, <1>u, ScaleAssumption DEF CiHand, Ci!AllJobs, Ci!None
<1>g. /\ \A n \in Machines : hold[i] = n /\ mach[n] = "ci" => n \in stray'
      /\ stray \subseteq stray' /\ stray' \in SUBSET Machines
      /\ mach' = mach
  <2>1. hold[i] # Nobody => hold[i] \in Machines
    BY <1>0 DEF CiLaunch
  <2>2. pc[i] = "note" => hold[i] \in Machines
    BY <2>1, <1>0 DEF CiPlace
  <2>3. \A n \in Machines : hold[i] = n /\ mach[n] = "ci" => pc[i] = "note"
    BY <1>0, ScaleAssumption DEF CiPlace
  <2>4. QED
    BY <2>2, <2>3, <1>0, <1>a, <1>u DEF CiPool
<1>CiWork. CiWork'
  BY <1>0, <1>u, <1>h DEF CiWork
<1>CiPool. CiPool'
  BY <1>0, <1>u, <1>g DEF CiPool
<1>CiAt. CiAt'
  BY <1>0, <1>u, <1>a, ScaleAssumption DEF CiAt, CiPlacesOf
<1>CiHand. CiHand'
  BY <1>0, <1>u, <1>a, ScaleAssumption DEF CiHand, Ci!None
<1>CiLaunch. CiLaunch'
  BY <1>0, <1>u, <1>a, ScaleAssumption DEF CiLaunch
<1>ty. CiTypes'
  BY <1>u, CiFrames, <1>CiWork, <1>CiPool, <1>CiAt, <1>CiHand, <1>CiLaunch DEF CiTypes
<1>p. ASSUME NEW k \in Instances PROVE CiPlace(k)'
  BY <1>0, <1>u, <1>a, <1>w, <1>g, <1>h, ScaleAssumption DEF CiPlace, Ci!None
<1>s. CiSole'
  BY <1>0, <1>u, <1>a, <1>w, <1>g, <1>h, ScaleAssumption DEF CiSole
<1>l. CiAlone'
  BY <1>0, <1>u, <1>a, <1>w, <1>g, <1>h, ScaleAssumption DEF CiAlone
<1>c. CiCounts'
  <2>1. Ci!Unfinished' \subseteq Ci!Unfinished
    BY <1>u, CiFrames
  <2>2. ~overlap' => ~overlap
    BY <1>u
  <2>3. \A k \in Instances : pc'[k] \in {"launch", "dispatch", "note"} =>
           pc[k] \in {"launch", "dispatch", "note"} /\ left'[k] = left[k]
    BY <1>u, <1>a, <1>w, <1>g, <1>h
  <2>4. QED
    BY <2>1, <2>2, <2>3, CountsStay
<1>m. ASSUME NEW n \in Machines PROVE CiMachine(n)'
  <2>1. \A k \in Instances : hold[k] = n /\ k # i => hold'[k] = n
    BY <1>w
  <2>2. QED
    BY <2>1, <1>0, <1>u, <1>g DEF CiMachine
<1>j. CiJobs'
  BY <1>u, CiFrames
<1>o. ASSUME NEW x \in Ci!AllJobs PROVE CiOffer(x)'
  <2>1. SUFFICES ASSUME job'[x] = "available", x \notin dropped'
        PROVE \/ \E k \in Instances : hand'[k] = x /\ pc'[k] = "acquire"
              \/ x \in queue' /\ \A k \in Instances : sess'[k] => last'[k] < x \/ hand'[k] = x
    BY DEF CiOffer
  <2>2. job[x] = "available" /\ x \notin dropped /\ x # 0
    BY <2>1, <1>h, <1>u DEF Ci!AllJobs
  <2>3. ASSUME NEW k \in Instances, hand[k] = x, pc[k] = "acquire" PROVE hand'[k] = x /\ pc'[k] = "acquire"
    BY <2>1, <2>2, <2>3, <1>a, <1>w, <1>h
  <2>4. ASSUME x \in queue, \A k \in Instances : sess[k] => last[k] < x \/ hand[k] = x
        PROVE x \in queue' /\ \A k \in Instances : sess'[k] => last'[k] < x \/ hand'[k] = x
    BY <2>1, <2>2, <2>4, <1>u, <1>w, <1>h
  <2>5. QED
    BY <1>0, <2>2, <2>3, <2>4 DEF CiOffer
<1>9. QED
  BY <1>ty, <1>p, <1>s, <1>l, <1>c, <1>m, <1>j, <1>o DEF CiInv

\* A controller that is done gives the lock back.
LEMMA CiFarewell ==
    ASSUME CiInv, NEW i \in Instances, Ci!Farewell(i)
    PROVE CiInv'
<1>0. /\ CiLocks /\ CiWork /\ CiPool /\ CiRows /\ CiAt /\ CiRead /\ CiHand /\ CiLaunch /\ CiNotes
      /\ (\A k \in Instances : CiPlace(k)) /\ CiSole /\ CiAlone /\ CiCounts
      /\ (\A n \in Machines : CiMachine(n)) /\ CiJobs /\ (\A x \in Ci!AllJobs : CiOffer(x))
  BY DEF CiInv, CiTypes
<1>a. /\ pc[i] = "farewell"
      /\ jobRows' = Ci!Watched(i, "cancelled")
      /\ ciSession' = IF sess[i] /\ ciSession = i THEN Nobody ELSE ciSession
      /\ lock' = IF lock = i THEN Nobody ELSE lock
      /\ pc' = [pc EXCEPT ![i] = "off"]
      /\ sess' = [sess EXCEPT ![i] = FALSE]
      /\ last' = [last EXCEPT ![i] = 0]
      /\ hand' = [hand EXCEPT ![i] = Ci!None]
      /\ assigned' = [assigned EXCEPT ![i] = 0]
      /\ left' = [left EXCEPT ![i] = 0]
      /\ hold' = [hold EXCEPT ![i] = Nobody]
  BY Zenon DEF Ci!Farewell, Ci!Goto, Ci!Reset
<1>u. UNCHANGED <<job, queue, dropped, mach, runner, task, stray, overlap, faults>>
  BY DEF Ci!Farewell, Ci!Goto, Ci!Reset, Ci!github, Ci!pool, Ci!own, Ci!noted
<1>w. /\ (\A k \in Instances : pc'[k] = IF k = i THEN "off" ELSE pc[k])
      /\ (\A k \in Instances : sess'[k] = IF k = i THEN FALSE ELSE sess[k])
      /\ (\A k \in Instances : last'[k] = IF k = i THEN 0 ELSE last[k])
      /\ (\A k \in Instances : hand'[k] = IF k = i THEN Ci!None ELSE hand[k])
      /\ (\A k \in Instances : assigned'[k] = IF k = i THEN 0 ELSE assigned[k])
      /\ (\A k \in Instances : left'[k] = IF k = i THEN 0 ELSE left[k])
      /\ (\A k \in Instances : hold'[k] = IF k = i THEN Nobody ELSE hold[k])
  BY <1>0, <1>a DEF CiAt, CiHand, CiLaunch, CiRead
<1>r. /\ CiRows' /\ Len(jobRows') = Len(jobRows)
      /\ \A r \in 1..Len(jobRows) : jobRows'[r].machine = jobRows[r].machine /\ jobRows'[r].status = jobRows[r].status
      /\ \A r \in 1..Len(jobRows) : jobRows[r].by = "closing" => jobRows'[r].by = "closing"
      /\ Ci!Unfinished' = Ci!Unfinished
  BY <1>0, <1>a, RowsWatched
<1>g. (\A n \in Machines : hold[i] # n) /\ hand[i] = 0 /\ mach' = mach /\ stray' = stray /\ job' = job /\ dropped' = dropped
  BY <1>0, <1>a, <1>u, ScaleAssumption DEF CiPlace, Ci!None
<1>h. hand[i] = 0 /\ job' = job /\ dropped' = dropped
  BY <1>g
<1>CiLocks. CiLocks'
  BY <1>0, <1>u, <1>a, ScaleAssumption DEF CiLocks
<1>CiRows. CiRows'
  BY <1>r
<1>CiAt. CiAt'
  BY <1>0, <1>u, <1>a, ScaleAssumption DEF CiAt, CiPlacesOf
<1>CiRead. CiRead'
  BY <1>0, <1>u, <1>a, ScaleAssumption DEF CiRead, Ci!None
<1>CiHand. CiHand'
  BY <1>0, <1>u, <1>a, ScaleAssumption, FewAssigned DEF CiHand, Ci!None
<1>CiLaunch. CiLaunch'
  BY <1>0, <1>u, <1>a, ScaleAssumption DEF CiLaunch
<1>ty. CiTypes'
  BY <1>u, CiFrames, <1>CiLocks, <1>CiRows, <1>CiAt, <1>CiRead, <1>CiHand, <1>CiLaunch DEF CiTypes
<1>p. ASSUME NEW k \in Instances PROVE CiPlace(k)'
  BY <1>0, <1>u, <1>a, <1>w, <1>r, <1>g, <1>h, ScaleAssumption DEF CiPlace, Ci!None
<1>s. CiSole'
  BY <1>0, <1>u, <1>a, <1>w, <1>r, <1>g, <1>h, ScaleAssumption DEF CiSole
<1>l. CiAlone'
  BY <1>0, <1>u, <1>a, <1>w, <1>r, <1>g, <1>h, ScaleAssumption DEF CiAlone
<1>c. CiCounts'
  <2>1. \A k \in Instances : pc'[k] \in {"launch", "dispatch", "note"} =>
           pc[k] \in {"launch", "dispatch", "note"} /\ left'[k] = left[k]
    BY <1>w
  <2>2. QED
    BY <2>1, <1>r, <1>u, CountsStay
<1>m. ASSUME NEW n \in Machines PROVE CiMachine(n)'
  <2>1. \A k \in Instances : hold[k] = n /\ k # i => hold'[k] = n
    BY <1>w
  <2>2. \A r \in 1..Len(jobRows) : jobRows[r].status = "assigned" \/ jobRows[r].by = "closing" =>
            jobRows'[r].status = "assigned" \/ jobRows'[r].by = "closing"
    BY <1>r
  <2>3. QED
    BY <2>1, <2>2, <1>0, <1>u, <1>r, <1>g DEF CiMachine
<1>j. CiJobs'
  <2>1. queue' \subseteq queue
    BY <1>u
  <2>2. \A x \in Ci!AllJobs : job'[x] # "none" <=> job[x] # "none"
    BY <1>u
  <2>3. \A k \in Instances : last'[k] \in {0, last[k]}
    BY <1>u, <1>a, <1>w, <1>r, <1>g, <1>h
  <2>4. \A n \in Machines : task'[n] \in {0, task[n]}
    BY <1>u
  <2>5. QED
    BY <1>0, <2>1, <2>2, <2>3, <2>4, JobsStay
<1>o. ASSUME NEW x \in Ci!AllJobs PROVE CiOffer(x)'
  <2>1. SUFFICES ASSUME job'[x] = "available", x \notin dropped'
        PROVE \/ \E k \in Instances : hand'[k] = x /\ pc'[k] = "acquire"
              \/ x \in queue' /\ \A k \in Instances : sess'[k] => last'[k] < x \/ hand'[k] = x
    BY DEF CiOffer
  <2>2. job[x] = "available" /\ x \notin dropped /\ x # 0
    BY <2>1, <1>h, <1>u DEF Ci!AllJobs
  <2>3. ASSUME NEW k \in Instances, hand[k] = x, pc[k] = "acquire" PROVE hand'[k] = x /\ pc'[k] = "acquire"
    BY <2>1, <2>2, <2>3, <1>a, <1>w, <1>h
  <2>4. ASSUME x \in queue, \A k \in Instances : sess[k] => last[k] < x \/ hand[k] = x
        PROVE x \in queue' /\ \A k \in Instances : sess'[k] => last'[k] < x \/ hand'[k] = x
    BY <2>1, <2>2, <2>4, <1>u, <1>w, <1>h
  <2>5. QED
    BY <1>0, <2>2, <2>3, <2>4 DEF CiOffer
<1>9. QED
  BY <1>ty, <1>p, <1>s, <1>l, <1>c, <1>m, <1>j, <1>o DEF CiInv

\* A process that dies takes its controller and its watchers along.
LEMMA CiCrash ==
    ASSUME CiInv, NEW i \in Instances, Ci!Crash(i)
    PROVE CiInv'
<1>0. /\ CiLocks /\ CiWork /\ CiPool /\ CiRows /\ CiAt /\ CiRead /\ CiHand /\ CiLaunch /\ CiNotes
      /\ (\A k \in Instances : CiPlace(k)) /\ CiSole /\ CiAlone /\ CiCounts
      /\ (\A n \in Machines : CiMachine(n)) /\ CiJobs /\ (\A x \in Ci!AllJobs : CiOffer(x))
  BY DEF CiInv, CiTypes
<1>a. /\ pc[i] # "off"
      /\ jobRows' = Ci!Watched(i, Nobody)
      /\ dropped' = IF hand[i] = Ci!None THEN dropped ELSE dropped \cup {hand[i]}
      /\ stray' = IF pc[i] = "note" THEN stray \cup {hold[i]} ELSE stray
      /\ pc' = [pc EXCEPT ![i] = "off"]
      /\ sess' = [sess EXCEPT ![i] = FALSE]
      /\ last' = [last EXCEPT ![i] = 0]
      /\ hand' = [hand EXCEPT ![i] = Ci!None]
      /\ assigned' = [assigned EXCEPT ![i] = 0]
      /\ left' = [left EXCEPT ![i] = 0]
      /\ hold' = [hold EXCEPT ![i] = Nobody]
  BY Zenon DEF Ci!Crash, Ci!Goto, Ci!Reset, Ci!Fault, Ci!CutJobs, Ci!CutMachine
<1>u. UNCHANGED <<lock, ciSession, job, queue, mach, runner, task, overlap>>
  BY DEF Ci!Crash, Ci!Goto, Ci!Reset, Ci!Fault, Ci!CutJobs, Ci!CutMachine, Ci!github, Ci!pool, Ci!own, Ci!noted
<1>w. /\ (\A k \in Instances : pc'[k] = IF k = i THEN "off" ELSE pc[k])
      /\ (\A k \in Instances : sess'[k] = IF k = i THEN FALSE ELSE sess[k])
      /\ (\A k \in Instances : last'[k] = IF k = i THEN 0 ELSE last[k])
      /\ (\A k \in Instances : hand'[k] = IF k = i THEN Ci!None ELSE hand[k])
      /\ (\A k \in Instances : assigned'[k] = IF k = i THEN 0 ELSE assigned[k])
      /\ (\A k \in Instances : left'[k] = IF k = i THEN 0 ELSE left[k])
      /\ (\A k \in Instances : hold'[k] = IF k = i THEN Nobody ELSE hold[k])
  BY <1>0, <1>a DEF CiAt, CiHand, CiLaunch, CiRead
<1>h. /\ hand[i] # 0 => hand[i] \in Ci!AllJobs /\ hand[i] \in dropped'
      /\ dropped \subseteq dropped' /\ dropped' \subseteq dropped \cup {hand[i]} /\ (hand[i] = 0 => dropped' = dropped)
      /\ job' = job
  BY <1>0, <1>a, <1>u, ScaleAssumption DEF CiHand, Ci!AllJobs, Ci!None
<1>g. /\ \A n \in Machines : hold[i] = n /\ mach[n] = "ci" => n \in stray'
      /\ stray \subseteq stray' /\ stray' \in SUBSET Machines
      /\ mach' = mach
  <2>1. hold[i] # Nobody => hold[i] \in Machines
    BY <1>0 DEF CiLaunch
  <2>2. pc[i] = "note" => hold[i] \in Machines
    BY <2>1, <1>0 DEF CiPlace
  <2>3. \A n \in Machines : hold[i] = n /\ mach[n] = "ci" => pc[i] = "note"
    BY <1>0, ScaleAssumption DEF CiPlace
  <2>4. QED
    BY <2>2, <2>3, <1>0, <1>a, <1>u DEF CiPool
<1>r. /\ CiRows' /\ Len(jobRows') = Len(jobRows)
      /\ \A r \in 1..Len(jobRows) : jobRows'[r].machine = jobRows[r].machine /\ jobRows'[r].status = jobRows[r].status
      /\ \A r \in 1..Len(jobRows) : jobRows[r].by = "closing" => jobRows'[r].by = "closing"
      /\ Ci!Unfinished' = Ci!Unfinished
  BY <1>0, <1>a, RowsWatched
<1>CiWork. CiWork'
  BY <1>0, <1>u, <1>h DEF CiWork
<1>CiPool. CiPool'
  BY <1>0, <1>u, <1>g DEF CiPool
<1>CiRows. CiRows'
  BY <1>r
<1>CiAt. CiAt'
  BY <1>0, <1>u, <1>a, ScaleAssumption DEF CiAt, CiPlacesOf
<1>CiRead. CiRead'
  BY <1>0, <1>u, <1>a, ScaleAssumption DEF CiRead, Ci!None
<1>CiHand. CiHand'
  BY <1>0, <1>u, <1>a, ScaleAssumption, FewAssigned DEF CiHand, Ci!None
<1>CiLaunch. CiLaunch'
  BY <1>0, <1>u, <1>a, ScaleAssumption DEF CiLaunch
<1>CiNotes. CiNotes'
  BY <1>0, <1>u, <1>a, ScaleAssumption DEF Ci!Crash, Ci!Goto, Ci!Reset, Ci!Fault, Ci!CutJobs, Ci!CutMachine, CiNotes
<1>ty. CiTypes'
  BY <1>u, CiFrames, <1>CiWork, <1>CiPool, <1>CiRows, <1>CiAt, <1>CiRead, <1>CiHand, <1>CiLaunch, <1>CiNotes DEF CiTypes
<1>p. ASSUME NEW k \in Instances PROVE CiPlace(k)'
  BY <1>0, <1>u, <1>a, <1>w, <1>r, <1>g, <1>h, ScaleAssumption DEF CiPlace, Ci!None
<1>s. CiSole'
  BY <1>0, <1>u, <1>a, <1>w, <1>r, <1>g, <1>h, ScaleAssumption DEF CiSole
<1>l. CiAlone'
  BY <1>0, <1>u, <1>a, <1>w, <1>r, <1>g, <1>h, ScaleAssumption DEF CiAlone
<1>c. CiCounts'
  <2>1. \A k \in Instances : pc'[k] \in {"launch", "dispatch", "note"} =>
           pc[k] \in {"launch", "dispatch", "note"} /\ left'[k] = left[k]
    BY <1>w
  <2>2. QED
    BY <2>1, <1>r, <1>u, CountsStay
<1>m. ASSUME NEW n \in Machines PROVE CiMachine(n)'
  <2>1. \A k \in Instances : hold[k] = n /\ k # i => hold'[k] = n
    BY <1>w
  <2>2. \A r \in 1..Len(jobRows) : jobRows[r].status = "assigned" \/ jobRows[r].by = "closing" =>
            jobRows'[r].status = "assigned" \/ jobRows'[r].by = "closing"
    BY <1>r
  <2>3. QED
    BY <2>1, <2>2, <1>0, <1>u, <1>r, <1>g DEF CiMachine
<1>j. CiJobs'
  <2>1. queue' \subseteq queue
    BY <1>u
  <2>2. \A x \in Ci!AllJobs : job'[x] # "none" <=> job[x] # "none"
    BY <1>u
  <2>3. \A k \in Instances : last'[k] \in {0, last[k]}
    BY <1>u, <1>a, <1>w, <1>r, <1>g, <1>h
  <2>4. \A n \in Machines : task'[n] \in {0, task[n]}
    BY <1>u
  <2>5. QED
    BY <1>0, <2>1, <2>2, <2>3, <2>4, JobsStay
<1>o. ASSUME NEW x \in Ci!AllJobs PROVE CiOffer(x)'
  <2>1. SUFFICES ASSUME job'[x] = "available", x \notin dropped'
        PROVE \/ \E k \in Instances : hand'[k] = x /\ pc'[k] = "acquire"
              \/ x \in queue' /\ \A k \in Instances : sess'[k] => last'[k] < x \/ hand'[k] = x
    BY DEF CiOffer
  <2>2. job[x] = "available" /\ x \notin dropped /\ x # 0
    BY <2>1, <1>h, <1>u DEF Ci!AllJobs
  <2>3. ASSUME NEW k \in Instances, hand[k] = x, pc[k] = "acquire" PROVE hand'[k] = x /\ pc'[k] = "acquire"
    BY <2>1, <2>2, <2>3, <1>a, <1>w, <1>h
  <2>4. ASSUME x \in queue, \A k \in Instances : sess[k] => last[k] < x \/ hand[k] = x
        PROVE x \in queue' /\ \A k \in Instances : sess'[k] => last'[k] < x \/ hand'[k] = x
    BY <2>1, <2>2, <2>4, <1>u, <1>w, <1>h
  <2>5. QED
    BY <1>0, <2>2, <2>3, <2>4 DEF CiOffer
<1>9. QED
  BY <1>ty, <1>p, <1>s, <1>l, <1>c, <1>m, <1>j, <1>o DEF CiInv

\* A session that is refused or gone makes the controller begin again.
LEMMA CiRefused ==
    ASSUME CiInv, NEW i \in Instances, Ci!Refused(i)
    PROVE CiInv'
<1>0. /\ CiLocks /\ CiWork /\ CiPool /\ CiRows /\ CiAt /\ CiRead /\ CiHand /\ CiLaunch /\ CiNotes
      /\ (\A k \in Instances : CiPlace(k)) /\ CiSole /\ CiAlone /\ CiCounts
      /\ (\A n \in Machines : CiMachine(n)) /\ CiJobs /\ (\A x \in Ci!AllJobs : CiOffer(x))
  BY DEF CiInv, CiTypes
<1>a. /\ pc[i] \in {"top", "ack", "acquire"}
      /\ pc' = [pc EXCEPT ![i] = "top"]
      /\ sess' = [sess EXCEPT ![i] = FALSE]
      /\ last' = [last EXCEPT ![i] = 0]
      /\ hand' = [hand EXCEPT ![i] = Ci!None]
      /\ dropped' = IF pc[i] = "acquire" THEN Ci!CutJobs(i) ELSE dropped
  BY Zenon DEF Ci!Refused, Ci!Goto, Ci!Stumble
<1>u. UNCHANGED <<lock, ciSession, job, queue, mach, runner, task, stray, jobRows, assigned, left, hold, overlap, faults>>
  BY DEF Ci!Refused, Ci!Goto, Ci!Stumble, Ci!github, Ci!pool, Ci!own, Ci!noted
<1>w. /\ (\A k \in Instances : pc'[k] = IF k = i THEN "top" ELSE pc[k])
      /\ (\A k \in Instances : sess'[k] = IF k = i THEN FALSE ELSE sess[k])
      /\ (\A k \in Instances : last'[k] = IF k = i THEN 0 ELSE last[k])
      /\ (\A k \in Instances : hand'[k] = IF k = i THEN Ci!None ELSE hand[k])
  BY <1>0, <1>a DEF CiAt, CiHand, CiRead
<1>h. /\ hand[i] # 0 => hand[i] \in Ci!AllJobs
      /\ hand[i] # 0 /\ pc[i] = "acquire" => hand[i] \in dropped'
      /\ dropped \subseteq dropped' /\ dropped' \subseteq dropped \cup {hand[i]} /\ (hand[i] = 0 => dropped' = dropped)
      /\ job' = job
  BY <1>0, <1>a, <1>u, ScaleAssumption DEF CiHand, Ci!AllJobs, Ci!None, Ci!CutJobs
<1>CiWork. CiWork'
  BY <1>0, <1>u, <1>h DEF CiWork
<1>CiAt. CiAt'
  BY <1>0, <1>u, <1>a, ScaleAssumption DEF CiAt, CiPlacesOf
<1>CiRead. CiRead'
  BY <1>0, <1>u, <1>a, ScaleAssumption DEF CiRead, Ci!None
<1>CiHand. CiHand'
  BY <1>0, <1>u, <1>a, ScaleAssumption DEF CiHand, Ci!None
<1>ty. CiTypes'
  BY <1>u, CiFrames, <1>CiWork, <1>CiAt, <1>CiRead, <1>CiHand DEF CiTypes
<1>p. ASSUME NEW k \in Instances PROVE CiPlace(k)'
  BY <1>0, <1>u, <1>a, <1>w, <1>h, ScaleAssumption DEF CiPlace, Ci!None
<1>s. CiSole'
  BY <1>u, CiFrames
<1>l. CiAlone'
  BY <1>0, <1>u, <1>a, <1>w, <1>h, ScaleAssumption DEF CiAlone
<1>c. CiCounts'
  <2>1. Ci!Unfinished' \subseteq Ci!Unfinished
    BY <1>u, CiFrames
  <2>2. ~overlap' => ~overlap
    BY <1>u
  <2>3. \A k \in Instances : pc'[k] \in {"launch", "dispatch", "note"} =>
           pc[k] \in {"launch", "dispatch", "note"} /\ left'[k] = left[k]
    BY <1>u, <1>a, <1>w, <1>h
  <2>4. QED
    BY <2>1, <2>2, <2>3, CountsStay
<1>m. (\A n \in Machines : CiMachine(n))'
  BY <1>u, CiFrames
<1>j. CiJobs'
  <2>1. queue' \subseteq queue
    BY <1>u
  <2>2. \A x \in Ci!AllJobs : job'[x] # "none" <=> job[x] # "none"
    BY <1>u
  <2>3. \A k \in Instances : last'[k] \in {0, last[k]}
    BY <1>u, <1>a, <1>w, <1>h
  <2>4. \A n \in Machines : task'[n] \in {0, task[n]}
    BY <1>u
  <2>5. QED
    BY <1>0, <2>1, <2>2, <2>3, <2>4, JobsStay
<1>o. ASSUME NEW x \in Ci!AllJobs PROVE CiOffer(x)'
  <2>1. SUFFICES ASSUME job'[x] = "available", x \notin dropped'
        PROVE \/ \E k \in Instances : hand'[k] = x /\ pc'[k] = "acquire"
              \/ x \in queue' /\ \A k \in Instances : sess'[k] => last'[k] < x \/ hand'[k] = x
    BY DEF CiOffer
  <2>2. job[x] = "available" /\ x \notin dropped /\ x # 0
    BY <2>1, <1>h, <1>u DEF Ci!AllJobs
  <2>3. ASSUME NEW k \in Instances, hand[k] = x, pc[k] = "acquire" PROVE hand'[k] = x /\ pc'[k] = "acquire"
    BY <2>1, <2>2, <2>3, <1>a, <1>w, <1>h
  <2>4. ASSUME x \in queue, \A k \in Instances : sess[k] => last[k] < x \/ hand[k] = x
        PROVE x \in queue' /\ \A k \in Instances : sess'[k] => last'[k] < x \/ hand'[k] = x
    BY <2>1, <2>2, <2>4, <1>u, <1>w, <1>h, <1>a
  <2>5. QED
    BY <1>0, <2>2, <2>3, <2>4 DEF CiOffer
<1>9. QED
  BY <1>ty, <1>p, <1>s, <1>l, <1>c, <1>m, <1>j, <1>o DEF CiInv

\* A controller that opens a session.
LEMMA CiOpen ==
    ASSUME CiInv, NEW i \in Instances, Ci!Open(i)
    PROVE CiInv'
<1>0. /\ CiLocks /\ CiWork /\ CiPool /\ CiRows /\ CiAt /\ CiRead /\ CiHand /\ CiLaunch /\ CiNotes
      /\ (\A k \in Instances : CiPlace(k)) /\ CiSole /\ CiAlone /\ CiCounts
      /\ (\A n \in Machines : CiMachine(n)) /\ CiJobs /\ (\A x \in Ci!AllJobs : CiOffer(x))
  BY DEF CiInv, CiTypes
<1>a. /\ pc[i] = "top" /\ ~sess[i]
      /\ ciSession' = i
      /\ sess' = [sess EXCEPT ![i] = TRUE]
      /\ assigned' = [assigned EXCEPT ![i] = Ci!Assigned]
      /\ pc' = [pc EXCEPT ![i] = "scale"]
  BY Zenon DEF Ci!Open, Ci!Goto
<1>u. UNCHANGED <<lock, job, queue, dropped, mach, runner, task, stray, jobRows, last, hand, left, hold, overlap, faults>>
  BY DEF Ci!Open, Ci!Goto, Ci!github, Ci!pool, Ci!own, Ci!noted
<1>w. /\ (\A k \in Instances : sess'[k] = IF k = i THEN TRUE ELSE sess[k])
      /\ (\A k \in Instances : assigned'[k] = IF k = i THEN Ci!Assigned ELSE assigned[k])
      /\ (\A k \in Instances : pc'[k] = IF k = i THEN "scale" ELSE pc[k])
  BY <1>0, <1>a DEF CiAt, CiHand, CiRead
<1>CiLocks. CiLocks'
  BY <1>0, <1>u, <1>a, ScaleAssumption DEF CiLocks
<1>CiAt. CiAt'
  BY <1>0, <1>u, <1>a, ScaleAssumption DEF CiAt, CiPlacesOf
<1>CiRead. CiRead'
  BY <1>0, <1>u, <1>a, ScaleAssumption DEF CiRead, Ci!None
<1>CiHand. CiHand'
  BY <1>0, <1>u, <1>a, ScaleAssumption, FewAssigned DEF CiHand, Ci!None
<1>ty. CiTypes'
  BY <1>u, CiFrames, <1>CiLocks, <1>CiAt, <1>CiRead, <1>CiHand DEF CiTypes
<1>p. ASSUME NEW k \in Instances PROVE CiPlace(k)'
  BY <1>0, <1>u, <1>a, <1>w, ScaleAssumption DEF CiPlace, Ci!None
<1>s. CiSole'
  BY <1>u, CiFrames
<1>l. CiAlone'
  BY <1>0, <1>u, <1>a, <1>w, ScaleAssumption DEF CiAlone
<1>c. CiCounts'
  <2>1. Ci!Unfinished' \subseteq Ci!Unfinished
    BY <1>u, CiFrames
  <2>2. ~overlap' => ~overlap
    BY <1>u
  <2>3. \A k \in Instances : pc'[k] \in {"launch", "dispatch", "note"} =>
           pc[k] \in {"launch", "dispatch", "note"} /\ left'[k] = left[k]
    BY <1>u, <1>a, <1>w
  <2>4. QED
    BY <2>1, <2>2, <2>3, CountsStay
<1>m. (\A n \in Machines : CiMachine(n))'
  BY <1>u, CiFrames
<1>j. CiJobs'
  BY <1>u, CiFrames
<1>o. ASSUME NEW x \in Ci!AllJobs PROVE CiOffer(x)'
  <2>1. 0 < x /\ last[i] = 0
    BY <1>0, <1>a DEF Ci!AllJobs, CiPlace
  <2>2. \A k \in Instances : sess'[k] => sess[k] \/ k = i
    BY <1>w
  <2>3. \A k \in Instances : pc[k] = "acquire" => pc'[k] = "acquire"
    BY <1>w, <1>a
  <2>4. CiOffer(x)
    BY <1>0
  <2>5. QED
    BY <2>1, <2>2, <2>3, <2>4, <1>u DEF CiOffer
<1>9. QED
  BY <1>ty, <1>p, <1>s, <1>l, <1>c, <1>m, <1>j, <1>o DEF CiInv

\* A message and its statistics.
LEMMA CiPoll ==
    ASSUME CiInv, NEW i \in Instances, Ci!Poll(i)
    PROVE CiInv'
<1>0. /\ CiLocks /\ CiWork /\ CiPool /\ CiRows /\ CiAt /\ CiRead /\ CiHand /\ CiLaunch /\ CiNotes
      /\ (\A k \in Instances : CiPlace(k)) /\ CiSole /\ CiAlone /\ CiCounts
      /\ (\A n \in Machines : CiMachine(n)) /\ CiJobs /\ (\A x \in Ci!AllJobs : CiOffer(x))
  BY DEF CiInv, CiTypes
<1>q. PICK q \in Ci!Unread(i) : (\A p \in Ci!Unread(i) : q <= p) /\ hand' = [hand EXCEPT ![i] = q] /\ last' = [last EXCEPT ![i] = q]
  <2>1. Ci!Unread(i) # {} /\ \E q \in Ci!AllJobs : TRUE
    BY <1>0 DEF Ci!Poll, CiWork, Ci!Unread
  <2>2. Ci!Unread(i) \subseteq Ci!AllJobs
    BY <1>0 DEF Ci!Unread, CiWork
  <2>3. \E q \in Ci!Unread(i) : \A p \in Ci!Unread(i) : q <= p
    <3>1. \A q \in Ci!Unread(i) : q \in Nat
      BY <2>2 DEF Ci!AllJobs
    <3>2. PICK q \in Ci!Unread(i) : \A p \in Ci!Unread(i) : <<p, q>> \notin OpToRel(<, Nat)
      BY <2>1, <3>1, NatLessThanWellFounded, WFMin
    <3>3. \A p \in Ci!Unread(i) : ~(p < q)
      BY <3>1, <3>2 DEF OpToRel
    <3>4. QED
      BY <3>1, <3>3
  <2>4. QED
    BY <2>3 DEF Ci!Poll
<1>a. /\ pc[i] = "top" /\ sess[i]
      /\ assigned' = [assigned EXCEPT ![i] = Ci!Assigned]
      /\ pc' = [pc EXCEPT ![i] = "ack"]
      /\ hand' = [hand EXCEPT ![i] = q]
      /\ last' = [last EXCEPT ![i] = q]
  BY <1>q, Zenon DEF Ci!Poll, Ci!Goto, Ci!Live
<1>x. q \in Ci!AllJobs /\ q \in 0..MaxJobs /\ q \in queue /\ q > last[i] /\ q # Ci!None /\ (\A p \in queue : p > last[i] => q <= p)
  BY <1>0, <1>q DEF Ci!Unread, CiWork, Ci!AllJobs, Ci!None
<1>u. UNCHANGED <<lock, ciSession, job, queue, dropped, mach, runner, task, stray, jobRows, sess, left, hold, overlap, faults>>
  BY DEF Ci!Poll, Ci!Goto, Ci!github, Ci!pool, Ci!own, Ci!noted
<1>w. /\ (\A k \in Instances : hand'[k] = IF k = i THEN q ELSE hand[k])
      /\ (\A k \in Instances : last'[k] = IF k = i THEN q ELSE last[k])
      /\ (\A k \in Instances : assigned'[k] = IF k = i THEN Ci!Assigned ELSE assigned[k])
      /\ (\A k \in Instances : pc'[k] = IF k = i THEN "ack" ELSE pc[k])
  BY <1>0, <1>a DEF CiAt, CiHand, CiRead
<1>CiAt. CiAt'
  BY <1>0, <1>u, <1>a, <1>x, ScaleAssumption DEF CiAt, CiPlacesOf
<1>CiRead. CiRead'
  BY <1>0, <1>u, <1>a, <1>x, ScaleAssumption DEF CiRead, Ci!None
<1>CiHand. CiHand'
  BY <1>0, <1>u, <1>a, <1>x, ScaleAssumption, FewAssigned DEF CiHand, Ci!None
<1>ty. CiTypes'
  BY <1>u, CiFrames, <1>CiAt, <1>CiRead, <1>CiHand DEF CiTypes
<1>p. ASSUME NEW k \in Instances PROVE CiPlace(k)'
  BY <1>0, <1>u, <1>a, <1>w, <1>x, ScaleAssumption DEF CiPlace, Ci!None
<1>s. CiSole'
  BY <1>u, CiFrames
<1>l. CiAlone'
  BY <1>0, <1>u, <1>a, <1>w, <1>x, ScaleAssumption DEF CiAlone
<1>c. CiCounts'
  <2>1. Ci!Unfinished' \subseteq Ci!Unfinished
    BY <1>u, CiFrames
  <2>2. ~overlap' => ~overlap
    BY <1>u
  <2>3. \A k \in Instances : pc'[k] \in {"launch", "dispatch", "note"} =>
           pc[k] \in {"launch", "dispatch", "note"} /\ left'[k] = left[k]
    BY <1>u, <1>a, <1>w, <1>x
  <2>4. QED
    BY <2>1, <2>2, <2>3, CountsStay
<1>m. (\A n \in Machines : CiMachine(n))'
  BY <1>u, CiFrames
<1>j. CiJobs'
  BY <1>0, <1>w, <1>x, <1>u DEF CiJobs
<1>o. ASSUME NEW x \in Ci!AllJobs PROVE CiOffer(x)'
  <2>1. \A k \in Instances : last[k] \in Nat
    BY <1>0 DEF CiRead
  <2>2. x \in Nat /\ queue \subseteq Ci!AllJobs
    BY <1>0 DEF Ci!AllJobs, CiWork
  <2>3. hand[i] = Ci!None
    BY <1>0, <1>a DEF CiPlace
  <2>4. ASSUME x \in queue, \A k \in Instances : sess[k] => last[k] < x \/ hand[k] = x
        PROVE \A k \in Instances : sess[k] => last'[k] < x \/ hand'[k] = x
    BY <2>1, <2>2, <2>3, <2>4, <1>w, <1>x, <1>a DEF Ci!AllJobs, Ci!None
  <2>5. QED
    BY <2>3, <2>4, <1>0, <1>a, <1>u, <1>w DEF CiOffer, Ci!None
<1>9. QED
  BY <1>ty, <1>p, <1>s, <1>l, <1>c, <1>m, <1>j, <1>o DEF CiInv

\* A poll with no message.
LEMMA CiQuiet ==
    ASSUME CiInv, NEW i \in Instances, Ci!Quiet(i)
    PROVE CiInv'
<1>0. /\ CiLocks /\ CiWork /\ CiPool /\ CiRows /\ CiAt /\ CiRead /\ CiHand /\ CiLaunch /\ CiNotes
      /\ (\A k \in Instances : CiPlace(k)) /\ CiSole /\ CiAlone /\ CiCounts
      /\ (\A n \in Machines : CiMachine(n)) /\ CiJobs /\ (\A x \in Ci!AllJobs : CiOffer(x))
  BY DEF CiInv, CiTypes
<1>a. /\ pc[i] = "top"
      /\ assigned' = [assigned EXCEPT ![i] = Ci!Assigned]
      /\ pc' = [pc EXCEPT ![i] = "scale"]
  BY Zenon DEF Ci!Quiet, Ci!Goto, Ci!Live
<1>u. UNCHANGED <<lock, ciSession, job, queue, dropped, mach, runner, task, stray, jobRows, sess, last, hand, left, hold, overlap, faults>>
  BY DEF Ci!Quiet, Ci!Goto, Ci!Live, Ci!github, Ci!pool, Ci!own, Ci!noted
<1>w. /\ (\A k \in Instances : assigned'[k] = IF k = i THEN Ci!Assigned ELSE assigned[k])
      /\ (\A k \in Instances : pc'[k] = IF k = i THEN "scale" ELSE pc[k])
  BY <1>0, <1>a DEF CiAt, CiHand
<1>CiAt. CiAt'
  BY <1>0, <1>u, <1>a, ScaleAssumption DEF CiAt, CiPlacesOf
<1>CiHand. CiHand'
  BY <1>0, <1>u, <1>a, ScaleAssumption, FewAssigned DEF CiHand, Ci!None
<1>ty. CiTypes'
  BY <1>u, CiFrames, <1>CiAt, <1>CiHand DEF CiTypes
<1>p. ASSUME NEW k \in Instances PROVE CiPlace(k)'
  BY <1>0, <1>u, <1>a, <1>w, ScaleAssumption DEF CiPlace, Ci!None
<1>s. CiSole'
  BY <1>u, CiFrames
<1>l. CiAlone'
  BY <1>0, <1>u, <1>a, <1>w, ScaleAssumption DEF CiAlone
<1>c. CiCounts'
  <2>1. Ci!Unfinished' \subseteq Ci!Unfinished
    BY <1>u, CiFrames
  <2>2. ~overlap' => ~overlap
    BY <1>u
  <2>3. \A k \in Instances : pc'[k] \in {"launch", "dispatch", "note"} =>
           pc[k] \in {"launch", "dispatch", "note"} /\ left'[k] = left[k]
    BY <1>u, <1>a, <1>w
  <2>4. QED
    BY <2>1, <2>2, <2>3, CountsStay
<1>m. (\A n \in Machines : CiMachine(n))'
  BY <1>u, CiFrames
<1>j. CiJobs'
  BY <1>u, CiFrames
<1>o. ASSUME NEW x \in Ci!AllJobs PROVE CiOffer(x)'
  BY <1>0, <1>u, <1>a, <1>w, ScaleAssumption DEF CiOffer, CiPlace, Ci!None
<1>9. QED
  BY <1>ty, <1>p, <1>s, <1>l, <1>c, <1>m, <1>j, <1>o DEF CiInv

\* A message that is acknowledged is gone.
LEMMA CiAck ==
    ASSUME CiInv, NEW i \in Instances, Ci!Ack(i)
    PROVE CiInv'
<1>0. /\ CiLocks /\ CiWork /\ CiPool /\ CiRows /\ CiAt /\ CiRead /\ CiHand /\ CiLaunch /\ CiNotes
      /\ (\A k \in Instances : CiPlace(k)) /\ CiSole /\ CiAlone /\ CiCounts
      /\ (\A n \in Machines : CiMachine(n)) /\ CiJobs /\ (\A x \in Ci!AllJobs : CiOffer(x))
  BY DEF CiInv, CiTypes
<1>a. /\ pc[i] = "ack" /\ sess[i]
      /\ queue' = queue \ {hand[i]}
      /\ pc' = [pc EXCEPT ![i] = "acquire"]
  BY Zenon DEF Ci!Ack, Ci!Goto, Ci!Live
<1>u. UNCHANGED <<lock, ciSession, job, dropped, mach, runner, task, stray, jobRows, sess, last, hand, assigned, left, hold, overlap, faults>>
  BY DEF Ci!Ack, Ci!Goto, Ci!Live, Ci!github, Ci!pool, Ci!own, Ci!noted
<1>w. \A k \in Instances : pc'[k] = IF k = i THEN "acquire" ELSE pc[k]
  BY <1>0, <1>a DEF CiAt
<1>CiWork. CiWork'
  BY <1>0, <1>u, <1>a, ScaleAssumption DEF CiWork, CiStates
<1>CiAt. CiAt'
  BY <1>0, <1>u, <1>a, ScaleAssumption DEF CiAt, CiPlacesOf
<1>ty. CiTypes'
  BY <1>u, CiFrames, <1>CiWork, <1>CiAt DEF CiTypes
<1>p. ASSUME NEW k \in Instances PROVE CiPlace(k)'
  BY <1>0, <1>u, <1>a, <1>w, ScaleAssumption DEF CiPlace, Ci!None
<1>s. CiSole'
  BY <1>u, CiFrames
<1>l. CiAlone'
  BY <1>0, <1>u, <1>a, <1>w, ScaleAssumption DEF CiAlone
<1>c. CiCounts'
  <2>1. Ci!Unfinished' \subseteq Ci!Unfinished
    BY <1>u, CiFrames
  <2>2. ~overlap' => ~overlap
    BY <1>u
  <2>3. \A k \in Instances : pc'[k] \in {"launch", "dispatch", "note"} =>
           pc[k] \in {"launch", "dispatch", "note"} /\ left'[k] = left[k]
    BY <1>u, <1>a, <1>w
  <2>4. QED
    BY <2>1, <2>2, <2>3, CountsStay
<1>m. (\A n \in Machines : CiMachine(n))'
  BY <1>u, CiFrames
<1>j. CiJobs'
  <2>1. queue' \subseteq queue
    BY <1>a
  <2>2. \A x \in Ci!AllJobs : job'[x] # "none" <=> job[x] # "none"
    BY <1>u
  <2>3. \A k \in Instances : last'[k] \in {0, last[k]}
    BY <1>u
  <2>4. \A n \in Machines : task'[n] \in {0, task[n]}
    BY <1>u
  <2>5. QED
    BY <1>0, <2>1, <2>2, <2>3, <2>4, JobsStay
<1>o. ASSUME NEW x \in Ci!AllJobs PROVE CiOffer(x)'
  <2>1. CASE hand[i] = x
    BY <2>1, <1>0, <1>a, <1>u, <1>w DEF CiOffer
  <2>2. CASE hand[i] # x
    <3>1. \A k \in Instances : pc[k] = "acquire" => pc'[k] = "acquire"
      BY <1>w
    <3>2. x \in queue => x \in queue'
      BY <2>2, <1>a
    <3>3. QED
      BY <3>1, <3>2, <1>0, <1>u DEF CiOffer
  <2>3. QED
    BY <2>1, <2>2
<1>9. QED
  BY <1>ty, <1>p, <1>s, <1>l, <1>c, <1>m, <1>j, <1>o DEF CiInv

\* A call that fails leaves the message taken for read.
LEMMA CiCallFails ==
    ASSUME CiInv, NEW i \in Instances, Ci!CallFails(i)
    PROVE CiInv'
<1>0. /\ CiLocks /\ CiWork /\ CiPool /\ CiRows /\ CiAt /\ CiRead /\ CiHand /\ CiLaunch /\ CiNotes
      /\ (\A k \in Instances : CiPlace(k)) /\ CiSole /\ CiAlone /\ CiCounts
      /\ (\A n \in Machines : CiMachine(n)) /\ CiJobs /\ (\A x \in Ci!AllJobs : CiOffer(x))
  BY DEF CiInv, CiTypes
<1>a. /\ pc[i] \in {"ack", "acquire"}
      /\ pc' = [pc EXCEPT ![i] = "top"]
      /\ dropped' = IF hand[i] = Ci!None THEN dropped ELSE dropped \cup {hand[i]}
      /\ hand' = [hand EXCEPT ![i] = Ci!None]
  BY Zenon DEF Ci!CallFails, Ci!Goto, Ci!Fault, Ci!CutJobs
<1>u. UNCHANGED <<lock, ciSession, job, queue, mach, runner, task, stray, jobRows, sess, last, assigned, left, hold, overlap>>
  BY DEF Ci!CallFails, Ci!Goto, Ci!Fault, Ci!CutJobs, Ci!github, Ci!pool, Ci!own, Ci!noted
<1>w. /\ (\A k \in Instances : pc'[k] = IF k = i THEN "top" ELSE pc[k])
      /\ (\A k \in Instances : hand'[k] = IF k = i THEN Ci!None ELSE hand[k])
  BY <1>0, <1>a DEF CiAt, CiHand
<1>h. /\ hand[i] # 0 => hand[i] \in Ci!AllJobs /\ hand[i] \in dropped'
      /\ dropped \subseteq dropped' /\ dropped' \subseteq dropped \cup {hand[i]} /\ (hand[i] = 0 => dropped' = dropped)
      /\ job' = job
  BY <1>0, <1>a, <1>u, ScaleAssumption DEF CiHand, Ci!AllJobs, Ci!None
<1>CiWork. CiWork'
  BY <1>0, <1>u, <1>h DEF CiWork
<1>CiAt. CiAt'
  BY <1>0, <1>u, <1>a, ScaleAssumption DEF CiAt, CiPlacesOf
<1>CiHand. CiHand'
  BY <1>0, <1>u, <1>a, ScaleAssumption DEF CiHand, Ci!None
<1>CiNotes. CiNotes'
  BY <1>0, <1>u, <1>a, ScaleAssumption DEF Ci!CallFails, Ci!Goto, Ci!Fault, Ci!CutJobs, CiNotes
<1>ty. CiTypes'
  BY <1>u, CiFrames, <1>CiWork, <1>CiAt, <1>CiHand, <1>CiNotes DEF CiTypes
<1>p. ASSUME NEW k \in Instances PROVE CiPlace(k)'
  BY <1>0, <1>u, <1>a, <1>w, <1>h, ScaleAssumption DEF CiPlace, Ci!None
<1>s. CiSole'
  BY <1>u, CiFrames
<1>l. CiAlone'
  BY <1>0, <1>u, <1>a, <1>w, <1>h, ScaleAssumption DEF CiAlone
<1>c. CiCounts'
  <2>1. Ci!Unfinished' \subseteq Ci!Unfinished
    BY <1>u, CiFrames
  <2>2. ~overlap' => ~overlap
    BY <1>u
  <2>3. \A k \in Instances : pc'[k] \in {"launch", "dispatch", "note"} =>
           pc[k] \in {"launch", "dispatch", "note"} /\ left'[k] = left[k]
    BY <1>u, <1>a, <1>w, <1>h
  <2>4. QED
    BY <2>1, <2>2, <2>3, CountsStay
<1>m. (\A n \in Machines : CiMachine(n))'
  BY <1>u, CiFrames
<1>j. CiJobs'
  BY <1>u, CiFrames
<1>o. ASSUME NEW x \in Ci!AllJobs PROVE CiOffer(x)'
  <2>1. SUFFICES ASSUME job'[x] = "available", x \notin dropped'
        PROVE \/ \E k \in Instances : hand'[k] = x /\ pc'[k] = "acquire"
              \/ x \in queue' /\ \A k \in Instances : sess'[k] => last'[k] < x \/ hand'[k] = x
    BY DEF CiOffer
  <2>2. job[x] = "available" /\ x \notin dropped /\ x # 0
    BY <2>1, <1>h, <1>u DEF Ci!AllJobs
  <2>3. ASSUME NEW k \in Instances, hand[k] = x, pc[k] = "acquire" PROVE hand'[k] = x /\ pc'[k] = "acquire"
    BY <2>1, <2>2, <2>3, <1>a, <1>w, <1>h
  <2>4. ASSUME x \in queue, \A k \in Instances : sess[k] => last[k] < x \/ hand[k] = x
        PROVE x \in queue' /\ \A k \in Instances : sess'[k] => last'[k] < x \/ hand'[k] = x
    BY <2>1, <2>2, <2>4, <1>u, <1>w, <1>h, <1>a
  <2>5. QED
    BY <1>0, <2>2, <2>3, <2>4 DEF CiOffer
<1>9. QED
  BY <1>ty, <1>p, <1>s, <1>l, <1>c, <1>m, <1>j, <1>o DEF CiInv

\* Jobs that are acquired are assigned later.
LEMMA CiAcquire ==
    ASSUME CiInv, NEW i \in Instances, Ci!Acquire(i)
    PROVE CiInv'
<1>0. /\ CiLocks /\ CiWork /\ CiPool /\ CiRows /\ CiAt /\ CiRead /\ CiHand /\ CiLaunch /\ CiNotes
      /\ (\A k \in Instances : CiPlace(k)) /\ CiSole /\ CiAlone /\ CiCounts
      /\ (\A n \in Machines : CiMachine(n)) /\ CiJobs /\ (\A x \in Ci!AllJobs : CiOffer(x))
  BY DEF CiInv, CiTypes
<1>a. /\ pc[i] = "acquire"
      /\ job' = [job EXCEPT ![hand[i]] = IF @ = "available" THEN "acquired" ELSE @]
      /\ hand' = [hand EXCEPT ![i] = Ci!None]
      /\ pc' = [pc EXCEPT ![i] = "scale"]
  BY Zenon DEF Ci!Acquire, Ci!Goto, Ci!Live
<1>u. UNCHANGED <<lock, ciSession, queue, dropped, mach, runner, task, stray, jobRows, sess, last, assigned, left, hold, overlap, faults>>
  BY DEF Ci!Acquire, Ci!Goto, Ci!Live, Ci!github, Ci!pool, Ci!own, Ci!noted
<1>w. /\ (\A x \in Ci!AllJobs : job'[x] = IF x = hand[i] THEN IF job[hand[i]] = "available" THEN "acquired" ELSE job[hand[i]] ELSE job[x])
      /\ (\A k \in Instances : hand'[k] = IF k = i THEN Ci!None ELSE hand[k])
      /\ (\A k \in Instances : pc'[k] = IF k = i THEN "scale" ELSE pc[k])
  BY <1>0, <1>a DEF CiAt, CiHand, CiWork
<1>CiWork. CiWork'
  BY <1>0, <1>u, <1>a, ScaleAssumption DEF CiWork, CiStates
<1>CiAt. CiAt'
  BY <1>0, <1>u, <1>a, ScaleAssumption DEF CiAt, CiPlacesOf
<1>CiHand. CiHand'
  BY <1>0, <1>u, <1>a, ScaleAssumption DEF CiHand, Ci!None
<1>ty. CiTypes'
  BY <1>u, CiFrames, <1>CiWork, <1>CiAt, <1>CiHand DEF CiTypes
<1>p. ASSUME NEW k \in Instances PROVE CiPlace(k)'
  BY <1>0, <1>u, <1>a, <1>w, ScaleAssumption DEF CiPlace, Ci!None
<1>s. CiSole'
  BY <1>u, CiFrames
<1>l. CiAlone'
  BY <1>0, <1>u, <1>a, <1>w, ScaleAssumption DEF CiAlone
<1>c. CiCounts'
  <2>1. Ci!Unfinished' \subseteq Ci!Unfinished
    BY <1>u, CiFrames
  <2>2. ~overlap' => ~overlap
    BY <1>u
  <2>3. \A k \in Instances : pc'[k] \in {"launch", "dispatch", "note"} =>
           pc[k] \in {"launch", "dispatch", "note"} /\ left'[k] = left[k]
    BY <1>u, <1>a, <1>w
  <2>4. QED
    BY <2>1, <2>2, <2>3, CountsStay
<1>m. (\A n \in Machines : CiMachine(n))'
  BY <1>u, CiFrames
<1>j. CiJobs'
  <2>1. queue' \subseteq queue
    BY <1>u
  <2>2. \A x \in Ci!AllJobs : job'[x] # "none" <=> job[x] # "none"
    BY <1>u, <1>a, <1>w
  <2>3. \A k \in Instances : last'[k] \in {0, last[k]}
    BY <1>u
  <2>4. \A n \in Machines : task'[n] \in {0, task[n]}
    BY <1>u
  <2>5. QED
    BY <1>0, <2>1, <2>2, <2>3, <2>4, JobsStay
<1>o. ASSUME NEW x \in Ci!AllJobs PROVE CiOffer(x)'
  <2>1. CASE hand[i] = x
    BY <2>1, <1>0, <1>a, <1>w DEF CiOffer
  <2>2. CASE hand[i] # x
    <3>1. \A k \in Instances : hand[k] = x => hand'[k] = x
      BY <2>2, <1>w
    <3>2. job'[x] = job[x]
      BY <2>2, <1>w
    <3>3. (\E k \in Instances : hand[k] = x /\ pc[k] = "acquire") => \E k \in Instances : hand'[k] = x /\ pc'[k] = "acquire"
      <4>1. \A k \in Instances : hand[k] = x => k # i
        BY <2>2
      <4>2. QED
        BY <4>1, <1>w
    <3>4. CiOffer(x)
      BY <1>0
    <3>5. QED
      BY <3>1, <3>2, <3>3, <3>4, <1>u DEF CiOffer
  <2>3. QED
    BY <2>1, <2>2
<1>9. QED
  BY <1>ty, <1>p, <1>s, <1>l, <1>c, <1>m, <1>j, <1>o DEF CiInv

\* As many launches are begun as are missing, and the limit allows.
LEMMA CiScale ==
    ASSUME CiInv, NEW i \in Instances, Ci!Scale(i)
    PROVE CiInv'
<1>0. /\ CiLocks /\ CiWork /\ CiPool /\ CiRows /\ CiAt /\ CiRead /\ CiHand /\ CiLaunch /\ CiNotes
      /\ (\A k \in Instances : CiPlace(k)) /\ CiSole /\ CiAlone /\ CiCounts
      /\ (\A y \in Machines : CiMachine(y)) /\ CiJobs /\ (\A x \in Ci!AllJobs : CiOffer(x))
  BY DEF CiInv, CiTypes
<1> DEFINE n == Ci!Least(Ci!Less(assigned[i], Cardinality(Ci!Unfinished)), Ci!Less(Limit, Cardinality(Ci!Unfinished)))
           p == IF n = 0 THEN "top" ELSE "launch"
<1>n. Cardinality(Ci!Unfinished) \in Nat /\ n \in 0..Limit /\ (n # 0 => Cardinality(Ci!Unfinished) + n <= Limit)
  <2>1. Cardinality(Ci!Unfinished) \in Nat /\ assigned[i] \in Nat /\ Limit \in Nat
    BY <1>0, FewRows, ScaleAssumption DEF CiHand
  <2>2. QED
    BY <2>1 DEF Ci!Least, Ci!Less
<1>a. /\ pc[i] = "scale"
      /\ left' = [left EXCEPT ![i] = n]
      /\ assigned' = [assigned EXCEPT ![i] = 0]
      /\ pc' = [pc EXCEPT ![i] = p]
  <2>1. /\ pc[i] = "scale"
        /\ left' = [left EXCEPT ![i] = n]
        /\ assigned' = [assigned EXCEPT ![i] = 0]
        /\ pc' = [pc EXCEPT ![i] = IF left'[i] = 0 THEN "top" ELSE "launch"]
    <3>1. Ci!Cardinality(Ci!Unfinished) = Cardinality(Ci!Unfinished)
      BY CiCardinal
    <3>2. /\ pc[i] = "scale"
          /\ left' = [left EXCEPT ![i] = Ci!Least(Ci!Less(assigned[i], Ci!Cardinality(Ci!Unfinished)),
                                                   Ci!Less(Limit, Ci!Cardinality(Ci!Unfinished)))]
          /\ assigned' = [assigned EXCEPT ![i] = 0]
          /\ pc' = [pc EXCEPT ![i] = IF left'[i] = 0 THEN "top" ELSE "launch"]
      BY DEF Ci!Scale, Ci!Goto
    <3>3. QED
      BY <3>1, <3>2
  <2>2. left'[i] = n
    BY <2>1, <1>0 DEF CiLaunch
  <2>3. QED
    BY <2>1, <2>2
<1>x. n \in 0..Limit /\ p \in {"top", "launch"} /\ (p = "launch" <=> n # 0) /\ (n # 0 => Cardinality(Ci!Unfinished) + n <= Limit)
  BY <1>n
<1> HIDE DEF n, p
<1>u. UNCHANGED <<lock, ciSession, job, queue, dropped, mach, runner, task, stray, jobRows, sess, last, hand, hold, overlap, faults>>
  BY DEF Ci!Scale, Ci!Goto, Ci!github, Ci!pool, Ci!own, Ci!noted
<1>w. /\ (\A k \in Instances : left'[k] = IF k = i THEN n ELSE left[k])
      /\ (\A k \in Instances : assigned'[k] = IF k = i THEN 0 ELSE assigned[k])
      /\ (\A k \in Instances : pc'[k] = IF k = i THEN p ELSE pc[k])
  BY <1>0, <1>a DEF CiAt, CiHand, CiLaunch
<1>CiAt. CiAt'
  BY <1>0, <1>u, <1>a, <1>x, ScaleAssumption DEF CiAt, CiPlacesOf
<1>CiHand. CiHand'
  BY <1>0, <1>u, <1>a, <1>x, ScaleAssumption, FewAssigned DEF CiHand, Ci!None
<1>CiLaunch. CiLaunch'
  BY <1>0, <1>u, <1>a, <1>x, ScaleAssumption DEF CiLaunch
<1>ty. CiTypes'
  BY <1>u, CiFrames, <1>CiAt, <1>CiHand, <1>CiLaunch DEF CiTypes
<1>p. ASSUME NEW k \in Instances PROVE CiPlace(k)'
  BY <1>0, <1>u, <1>a, <1>w, <1>x, ScaleAssumption DEF CiPlace, Ci!None
<1>s. CiSole'
  BY <1>u, CiFrames
<1>l. CiAlone'
  BY <1>0, <1>u, <1>a, <1>w, <1>x, ScaleAssumption DEF CiAlone
<1>c. CiCounts'
  <2>1. Ci!Unfinished' = Ci!Unfinished
    BY <1>u, CiFrames
  <2>2. QED
    BY <1>0, <1>u, <1>w, <1>x, <2>1 DEF CiCounts
<1>m. (\A y \in Machines : CiMachine(y))'
  BY <1>u, CiFrames
<1>j. CiJobs'
  BY <1>u, CiFrames
<1>o. ASSUME NEW x \in Ci!AllJobs PROVE CiOffer(x)'
  BY <1>0, <1>u, <1>a, <1>w, <1>x, ScaleAssumption DEF CiOffer, CiPlace, Ci!None
<1>9. QED
  BY <1>ty, <1>p, <1>s, <1>l, <1>c, <1>m, <1>j, <1>o DEF CiInv

\* An idle machine is taken.
LEMMA CiGrab ==
    ASSUME CiInv, NEW i \in Instances, NEW m \in Machines, Ci!Grab(i, m)
    PROVE CiInv'
<1>0. /\ CiLocks /\ CiWork /\ CiPool /\ CiRows /\ CiAt /\ CiRead /\ CiHand /\ CiLaunch /\ CiNotes
      /\ (\A k \in Instances : CiPlace(k)) /\ CiSole /\ CiAlone /\ CiCounts
      /\ (\A n \in Machines : CiMachine(n)) /\ CiJobs /\ (\A x \in Ci!AllJobs : CiOffer(x))
  BY DEF CiInv, CiTypes
<1>a. /\ pc[i] = "launch" /\ mach[m] = "idle"
      /\ mach' = [mach EXCEPT ![m] = "popped"]
      /\ hold' = [hold EXCEPT ![i] = m]
      /\ pc' = [pc EXCEPT ![i] = "dispatch"]
  BY Zenon DEF Ci!Grab, Ci!Goto
<1>u. UNCHANGED <<lock, ciSession, job, queue, dropped, runner, task, stray, jobRows, sess, last, hand, assigned, left, overlap, faults>>
  BY DEF Ci!Grab, Ci!Goto, Ci!github, Ci!pool, Ci!own, Ci!noted
<1>w. /\ (\A n \in Machines : mach'[n] = IF n = m THEN "popped" ELSE mach[n])
      /\ (\A k \in Instances : hold'[k] = IF k = i THEN m ELSE hold[k])
      /\ (\A k \in Instances : pc'[k] = IF k = i THEN "dispatch" ELSE pc[k])
  BY <1>0, <1>a DEF CiAt, CiLaunch, CiPool
<1>CiPool. CiPool'
  BY <1>0, <1>u, <1>a, ScaleAssumption DEF CiPool, CiKinds, CiEnds, Ci!None
<1>CiAt. CiAt'
  BY <1>0, <1>u, <1>a, ScaleAssumption DEF CiAt, CiPlacesOf
<1>CiLaunch. CiLaunch'
  BY <1>0, <1>u, <1>a, ScaleAssumption DEF CiLaunch
<1>ty. CiTypes'
  BY <1>u, CiFrames, <1>CiPool, <1>CiAt, <1>CiLaunch DEF CiTypes
<1>p. ASSUME NEW k \in Instances PROVE CiPlace(k)'
  BY <1>0, <1>u, <1>a, <1>w, ScaleAssumption DEF CiPlace, Ci!None
<1>s. CiSole'
  BY <1>0, <1>a, <1>w, ScaleAssumption DEF CiSole, CiPlace
<1>l. CiAlone'
  BY <1>0, <1>u, <1>a, <1>w, ScaleAssumption DEF CiAlone
<1>c. CiCounts'
  <2>1. Ci!Unfinished' \subseteq Ci!Unfinished
    BY <1>u, CiFrames
  <2>2. ~overlap' => ~overlap
    BY <1>u
  <2>3. \A k \in Instances : pc'[k] \in {"launch", "dispatch", "note"} =>
           pc[k] \in {"launch", "dispatch", "note"} /\ left'[k] = left[k]
    BY <1>u, <1>a, <1>w
  <2>4. QED
    BY <2>1, <2>2, <2>3, CountsStay
<1>m. ASSUME NEW n \in Machines PROVE CiMachine(n)'
  <2>1. hold[i] # n
    BY <1>0, <1>a, ScaleAssumption DEF CiPlace
  <2>2. \A k \in Instances : hold[k] = n => hold'[k] = n
    BY <2>1, <1>w
  <2>3. mach'[n] = "ci" => mach[n] = "ci"
    BY <1>w
  <2>4. QED
    BY <2>2, <2>3, <1>0, <1>u DEF CiMachine
<1>j. CiJobs'
  BY <1>u, CiFrames
<1>o. ASSUME NEW x \in Ci!AllJobs PROVE CiOffer(x)'
  BY <1>0, <1>u, <1>a, <1>w, ScaleAssumption DEF CiOffer, CiPlace, Ci!None
<1>9. QED
  BY <1>ty, <1>p, <1>s, <1>l, <1>c, <1>m, <1>j, <1>o DEF CiInv

\* There is none.
LEMMA CiNoMachine ==
    ASSUME CiInv, NEW i \in Instances, Ci!NoMachine(i)
    PROVE CiInv'
<1>0. /\ CiLocks /\ CiWork /\ CiPool /\ CiRows /\ CiAt /\ CiRead /\ CiHand /\ CiLaunch /\ CiNotes
      /\ (\A k \in Instances : CiPlace(k)) /\ CiSole /\ CiAlone /\ CiCounts
      /\ (\A n \in Machines : CiMachine(n)) /\ CiJobs /\ (\A x \in Ci!AllJobs : CiOffer(x))
  BY DEF CiInv, CiTypes
<1>a. /\ pc[i] = "launch"
      /\ left' = [left EXCEPT ![i] = 0]
      /\ pc' = [pc EXCEPT ![i] = "top"]
  BY Zenon DEF Ci!NoMachine, Ci!Goto
<1>u. UNCHANGED <<lock, ciSession, job, queue, dropped, mach, runner, task, stray, jobRows, sess, last, hand, assigned, hold, overlap, faults>>
  BY DEF Ci!NoMachine, Ci!Goto, Ci!github, Ci!pool, Ci!own, Ci!noted
<1>w. /\ (\A k \in Instances : left'[k] = IF k = i THEN 0 ELSE left[k])
      /\ (\A k \in Instances : pc'[k] = IF k = i THEN "top" ELSE pc[k])
  BY <1>0, <1>a DEF CiAt, CiLaunch
<1>CiAt. CiAt'
  BY <1>0, <1>u, <1>a, ScaleAssumption DEF CiAt, CiPlacesOf
<1>CiLaunch. CiLaunch'
  BY <1>0, <1>u, <1>a, ScaleAssumption DEF CiLaunch
<1>ty. CiTypes'
  BY <1>u, CiFrames, <1>CiAt, <1>CiLaunch DEF CiTypes
<1>p. ASSUME NEW k \in Instances PROVE CiPlace(k)'
  BY <1>0, <1>u, <1>a, <1>w, ScaleAssumption DEF CiPlace, Ci!None
<1>s. CiSole'
  BY <1>u, CiFrames
<1>l. CiAlone'
  BY <1>0, <1>u, <1>a, <1>w, ScaleAssumption DEF CiAlone
<1>c. CiCounts'
  <2>1. Ci!Unfinished' \subseteq Ci!Unfinished
    BY <1>u, CiFrames
  <2>2. ~overlap' => ~overlap
    BY <1>u
  <2>3. \A k \in Instances : pc'[k] \in {"launch", "dispatch", "note"} =>
           pc[k] \in {"launch", "dispatch", "note"} /\ left'[k] = left[k]
    BY <1>u, <1>a, <1>w
  <2>4. QED
    BY <2>1, <2>2, <2>3, CountsStay
<1>m. (\A n \in Machines : CiMachine(n))'
  BY <1>u, CiFrames
<1>j. CiJobs'
  BY <1>u, CiFrames
<1>o. ASSUME NEW x \in Ci!AllJobs PROVE CiOffer(x)'
  BY <1>0, <1>u, <1>a, <1>w, ScaleAssumption DEF CiOffer, CiPlace, Ci!None
<1>9. QED
  BY <1>ty, <1>p, <1>s, <1>l, <1>c, <1>m, <1>j, <1>o DEF CiInv

\* A machine in hand is given the command of a runner.
LEMMA CiDispatch ==
    ASSUME CiInv, NEW i \in Instances, Ci!Dispatch(i)
    PROVE CiInv'
<1>0. /\ CiLocks /\ CiWork /\ CiPool /\ CiRows /\ CiAt /\ CiRead /\ CiHand /\ CiLaunch /\ CiNotes
      /\ (\A k \in Instances : CiPlace(k)) /\ CiSole /\ CiAlone /\ CiCounts
      /\ (\A n \in Machines : CiMachine(n)) /\ CiJobs /\ (\A x \in Ci!AllJobs : CiOffer(x))
  BY DEF CiInv, CiTypes
<1>a. pc[i] = "dispatch" /\ pc' = [pc EXCEPT ![i] = "note"]
  BY Zenon DEF Ci!Dispatch, Ci!Goto
<1>b. \/ mach[hold[i]] = "gone" /\ mach' = mach /\ runner' = runner
      \/ /\ mach[hold[i]] # "gone" /\ mach' = [mach EXCEPT ![hold[i]] = "ci"]
         /\ runner' = [runner EXCEPT ![hold[i]] = "waits"]
  BY DEF Ci!Dispatch
<1>x. hold[i] \in Machines /\ hold[i] # Nobody
  BY <1>0, <1>a DEF CiPlace, CiLaunch
<1>u. UNCHANGED <<lock, ciSession, job, queue, dropped, task, stray, jobRows, sess, last, hand, assigned, left, hold, overlap, faults>>
  BY DEF Ci!Dispatch, Ci!Goto, Ci!github, Ci!pool, Ci!own, Ci!noted
<1>w. /\ \A k \in Instances : pc'[k] = IF k = i THEN "note" ELSE pc[k]
      /\ \A n \in Machines : mach'[n] = IF n = hold[i] /\ mach[n] # "gone" THEN "ci" ELSE mach[n]
  BY <1>0, <1>a, <1>b, <1>x DEF CiAt, CiPool
<1>CiPool. CiPool'
  BY <1>0, <1>b, <1>u, <1>x DEF CiPool, CiKinds, CiEnds
<1>CiAt. CiAt'
  BY <1>0, <1>u, <1>a, <1>x, ScaleAssumption DEF CiAt, CiPlacesOf
<1>ty. CiTypes'
  BY <1>u, CiFrames, <1>CiPool, <1>CiAt DEF CiTypes
<1>p. ASSUME NEW k \in Instances PROVE CiPlace(k)'
  <2>1. CASE k = i
    BY <2>1, <1>0, <1>u, <1>w, <1>x, <1>a, ScaleAssumption DEF CiPlace, Ci!None
  <2>2. CASE k # i
    <3>1. hold[k] # Nobody => hold[k] # hold[i] /\ hold[k] \in Machines
      BY <2>2, <1>0, <1>x DEF CiSole, CiLaunch
    <3>2. hold[k] # Nobody => mach'[hold[k]] = mach[hold[k]]
      BY <3>1, <1>0, <1>a, <1>x, <1>w
    <3>3. QED
      BY <2>2, <3>2, <1>0, <1>u, <1>w DEF CiPlace
  <2>3. QED
    BY <2>1, <2>2
<1>s. CiSole'
  BY <1>u, CiFrames
<1>l. CiAlone'
  BY <1>0, <1>u, <1>a, <1>w, <1>b, <1>x, ScaleAssumption DEF CiAlone
<1>c. CiCounts'
  <2>1. Ci!Unfinished' \subseteq Ci!Unfinished
    BY <1>u, CiFrames
  <2>2. ~overlap' => ~overlap
    BY <1>u
  <2>3. \A k \in Instances : pc'[k] \in {"launch", "dispatch", "note"} =>
           pc[k] \in {"launch", "dispatch", "note"} /\ left'[k] = left[k]
    BY <1>u, <1>a, <1>w, <1>b, <1>x
  <2>4. QED
    BY <2>1, <2>2, <2>3, CountsStay
<1>m. ASSUME NEW n \in Machines PROVE CiMachine(n)'
  BY <1>0, <1>u, <1>a, <1>w, <1>b, <1>x, ScaleAssumption DEF CiMachine
<1>j. CiJobs'
  BY <1>u, CiFrames
<1>o. ASSUME NEW x \in Ci!AllJobs PROVE CiOffer(x)'
  BY <1>0, <1>u, <1>a, <1>w, <1>b, <1>x, ScaleAssumption DEF CiOffer, CiPlace, Ci!None
<1>9. QED
  BY <1>ty, <1>p, <1>s, <1>l, <1>c, <1>m, <1>j, <1>o DEF CiInv

\* Its row is written, and somebody watches it.
LEMMA CiNote ==
    ASSUME CiInv, NEW i \in Instances, Ci!Note(i)
    PROVE CiInv'
<1>0. /\ CiLocks /\ CiWork /\ CiPool /\ CiRows /\ CiAt /\ CiRead /\ CiHand /\ CiLaunch /\ CiNotes
      /\ (\A k \in Instances : CiPlace(k)) /\ CiSole /\ CiAlone /\ CiCounts
      /\ (\A n \in Machines : CiMachine(n)) /\ CiJobs /\ (\A x \in Ci!AllJobs : CiOffer(x))
  BY DEF CiInv, CiTypes
<1> DEFINE p == IF left[i] - 1 = 0 THEN "top" ELSE "launch"
           row == [machine |-> hold[i], status |-> "assigned", by |-> i]
<1>a. /\ pc[i] = "note"
      /\ jobRows' = Append(jobRows, row)
      /\ left' = [left EXCEPT ![i] = left[i] - 1]
      /\ hold' = [hold EXCEPT ![i] = Nobody]
      /\ pc' = [pc EXCEPT ![i] = p]
  <2>1. /\ pc[i] = "note"
        /\ jobRows' = Append(jobRows, row)
        /\ left' = [left EXCEPT ![i] = left[i] - 1]
        /\ hold' = [hold EXCEPT ![i] = Nobody]
        /\ pc' = [pc EXCEPT ![i] = IF left'[i] = 0 THEN "top" ELSE "launch"]
    BY DEF Ci!Note, Ci!Goto
  <2>2. left'[i] = left[i] - 1
    BY <2>1, <1>0 DEF CiLaunch
  <2>3. QED
    BY <2>1, <2>2
<1>x. /\ left[i] \in Nat /\ left[i] # 0 /\ left[i] - 1 \in 0..Limit /\ p \in {"top", "launch"} /\ (p = "launch" <=> left[i] - 1 # 0)
      /\ hold[i] \in Machines /\ hold[i] # Nobody
  BY <1>0, <1>a, ScaleAssumption DEF CiPlace, CiLaunch
<1>r. /\ row \in CiRow /\ Len(jobRows) \in Nat /\ Len(jobRows') = Len(jobRows) + 1
      /\ (\A r \in 1..Len(jobRows) : jobRows'[r] = jobRows[r]) /\ jobRows'[Len(jobRows) + 1] = row
      /\ row.machine = hold[i] /\ row.status = "assigned"
  BY <1>0, <1>a, <1>x DEF CiRow, CiRows
<1> HIDE DEF p, row
<1>u. UNCHANGED <<lock, ciSession, job, queue, dropped, mach, runner, task, stray, sess, last, hand, assigned, overlap, faults>>
  BY DEF Ci!Note, Ci!Goto, Ci!github, Ci!pool, Ci!own, Ci!noted
<1>w. /\ (\A k \in Instances : left'[k] = IF k = i THEN left[i] - 1 ELSE left[k])
      /\ (\A k \in Instances : hold'[k] = IF k = i THEN Nobody ELSE hold[k])
      /\ (\A k \in Instances : pc'[k] = IF k = i THEN p ELSE pc[k])
  BY <1>0, <1>a DEF CiAt, CiLaunch
<1>CiRows. CiRows'
  BY <1>0, <1>a, <1>r DEF CiRows
<1>CiAt. CiAt'
  BY <1>0, <1>u, <1>a, <1>x, ScaleAssumption DEF CiAt, CiPlacesOf
<1>CiLaunch. CiLaunch'
  BY <1>0, <1>u, <1>a, <1>x, ScaleAssumption DEF CiLaunch
<1>ty. CiTypes'
  BY <1>u, CiFrames, <1>CiRows, <1>CiAt, <1>CiLaunch DEF CiTypes
<1>p. ASSUME NEW k \in Instances PROVE CiPlace(k)'
  BY <1>0, <1>u, <1>a, <1>w, <1>r, <1>x, ScaleAssumption DEF CiPlace, Ci!None
<1>s. CiSole'
  BY <1>0, <1>u, <1>a, <1>w, <1>r, <1>x, ScaleAssumption DEF CiSole
<1>l. CiAlone'
  BY <1>0, <1>u, <1>a, <1>w, <1>r, <1>x, ScaleAssumption DEF CiAlone
<1>c. CiCounts'
  <2>1. Ci!Unfinished' = Ci!Unfinished \cup {Len(jobRows) + 1} /\ Len(jobRows) + 1 \notin Ci!Unfinished
    BY <1>r DEF Ci!Unfinished
  <2>2. Cardinality(Ci!Unfinished) \in Nat /\ Cardinality(Ci!Unfinished') = Cardinality(Ci!Unfinished) + 1
    BY <1>0, <2>1, FewRows, FS_AddElement
  <2>3. ASSUME ~overlap PROVE Cardinality(Ci!Unfinished) + left[i] <= Limit
    BY <1>0, <1>a, <2>3 DEF CiCounts
  <2>4. ASSUME ~overlap', NEW k \in Instances, pc'[k] \in {"launch", "dispatch", "note"} PROVE k = i /\ left'[k] = left[i] - 1
    BY <2>4, <1>0, <1>u, <1>w, <1>a DEF CiAlone
  <2>5. QED
    BY <1>u, <1>x, <2>2, <2>3, <2>4, ScaleAssumption DEF CiCounts
<1>m. ASSUME NEW n \in Machines PROVE CiMachine(n)'
  <2>1. CASE hold[i] = n
    BY <2>1, <1>r DEF CiMachine
  <2>2. CASE hold[i] # n
    <3>1. \A k \in Instances : hold[k] = n => hold'[k] = n
      BY <2>2, <1>w
    <3>2. \A r \in 1..Len(jobRows) : r \in 1..Len(jobRows') /\ jobRows'[r] = jobRows[r]
      BY <1>r
    <3>3. QED
      BY <3>1, <3>2, <1>0, <1>u DEF CiMachine
  <2>3. QED
    BY <2>1, <2>2
<1>j. CiJobs'
  BY <1>u, CiFrames
<1>o. ASSUME NEW x \in Ci!AllJobs PROVE CiOffer(x)'
  BY <1>0, <1>u, <1>a, <1>w, <1>r, <1>x, ScaleAssumption DEF CiOffer, CiPlace, Ci!None
<1>9. QED
  BY <1>ty, <1>p, <1>s, <1>l, <1>c, <1>m, <1>j, <1>o DEF CiInv

\* A launch that fails offers its machine again.
LEMMA CiLaunchFails ==
    ASSUME CiInv, NEW i \in Instances, Ci!LaunchFails(i)
    PROVE CiInv'
<1>0. /\ CiLocks /\ CiWork /\ CiPool /\ CiRows /\ CiAt /\ CiRead /\ CiHand /\ CiLaunch /\ CiNotes
      /\ (\A k \in Instances : CiPlace(k)) /\ CiSole /\ CiAlone /\ CiCounts
      /\ (\A n \in Machines : CiMachine(n)) /\ CiJobs /\ (\A x \in Ci!AllJobs : CiOffer(x))
  BY DEF CiInv, CiTypes
<1>a. PICK p \in {"top", "farewell"} :
      /\ pc[i] \in {"dispatch", "note"}
      /\ mach' = [mach EXCEPT ![hold[i]] = IF @ = "gone" THEN @ ELSE "idle"]
      /\ stray' = IF pc[i] = "note" THEN stray \cup {hold[i]} ELSE stray
      /\ hold' = [hold EXCEPT ![i] = Nobody]
      /\ left' = [left EXCEPT ![i] = 0]
      /\ pc' = [pc EXCEPT ![i] = p]
  BY Zenon DEF Ci!LaunchFails, Ci!Goto, Ci!CutMachine
<1>x. hold[i] \in Machines /\ hold[i] # Nobody
  BY <1>0, <1>a DEF CiPlace, CiLaunch
<1>u. UNCHANGED <<lock, ciSession, job, queue, dropped, runner, task, jobRows, sess, last, hand, assigned, overlap>>
  BY DEF Ci!LaunchFails, Ci!Goto, Ci!Fault, Ci!CutMachine, Ci!github, Ci!pool, Ci!own, Ci!noted
<1>w. /\ (\A n \in Machines : mach'[n] = IF n = hold[i] THEN IF mach[hold[i]] = "gone" THEN mach[hold[i]] ELSE "idle" ELSE mach[n])
      /\ (\A k \in Instances : hold'[k] = IF k = i THEN Nobody ELSE hold[k])
      /\ (\A k \in Instances : left'[k] = IF k = i THEN 0 ELSE left[k])
      /\ (\A k \in Instances : pc'[k] = IF k = i THEN p ELSE pc[k])
  BY <1>0, <1>a DEF CiAt, CiLaunch, CiPool
<1>CiPool. CiPool'
  BY <1>0, <1>u, <1>a, <1>x, ScaleAssumption DEF CiPool, CiKinds, CiEnds, Ci!None, Ci!CutJobs, Ci!None, CiHand, CiLaunch, Ci!AllJobs
<1>CiAt. CiAt'
  BY <1>0, <1>u, <1>a, <1>x, ScaleAssumption DEF CiAt, CiPlacesOf
<1>CiLaunch. CiLaunch'
  BY <1>0, <1>u, <1>a, <1>x, ScaleAssumption DEF CiLaunch
<1>CiNotes. CiNotes'
  BY <1>0, <1>u, <1>a, <1>x, ScaleAssumption DEF Ci!LaunchFails, Ci!Goto, Ci!Fault, Ci!CutMachine, CiNotes
<1>ty. CiTypes'
  BY <1>u, CiFrames, <1>CiPool, <1>CiAt, <1>CiLaunch, <1>CiNotes DEF CiTypes
<1>p. ASSUME NEW k \in Instances PROVE CiPlace(k)'
  <2>1. CASE k = i
    BY <2>1, <1>0, <1>u, <1>w, <1>x, <1>a, ScaleAssumption DEF CiPlace, Ci!None
  <2>2. CASE k # i
    <3>1. hold[k] # Nobody => hold[k] # hold[i] /\ hold[k] \in Machines
      BY <2>2, <1>0, <1>x DEF CiSole, CiLaunch
    <3>2. hold[k] # Nobody => mach'[hold[k]] = mach[hold[k]]
      BY <3>1, <1>0, <1>a, <1>x DEF CiPool
    <3>3. QED
      BY <2>2, <3>2, <1>0, <1>u, <1>w DEF CiPlace
  <2>3. QED
    BY <2>1, <2>2
<1>s. CiSole'
  BY <1>0, <1>u, <1>a, <1>w, <1>x, ScaleAssumption DEF CiSole
<1>l. CiAlone'
  BY <1>0, <1>u, <1>a, <1>w, <1>x, ScaleAssumption DEF CiAlone
<1>c. CiCounts'
  <2>1. Ci!Unfinished' \subseteq Ci!Unfinished
    BY <1>u, CiFrames
  <2>2. ~overlap' => ~overlap
    BY <1>u
  <2>3. \A k \in Instances : pc'[k] \in {"launch", "dispatch", "note"} =>
           pc[k] \in {"launch", "dispatch", "note"} /\ left'[k] = left[k]
    BY <1>u, <1>a, <1>w, <1>x
  <2>4. QED
    BY <2>1, <2>2, <2>3, CountsStay
<1>m. ASSUME NEW n \in Machines PROVE CiMachine(n)'
  BY <1>0, <1>u, <1>a, <1>w, <1>x, ScaleAssumption DEF CiMachine
<1>j. CiJobs'
  BY <1>u, CiFrames
<1>o. ASSUME NEW x \in Ci!AllJobs PROVE CiOffer(x)'
  BY <1>0, <1>u, <1>a, <1>w, <1>x, ScaleAssumption DEF CiOffer, CiPlace, Ci!None
<1>9. QED
  BY <1>ty, <1>p, <1>s, <1>l, <1>c, <1>m, <1>j, <1>o DEF CiInv

\* A watcher has the result of its row.
LEMMA CiWatch ==
    ASSUME CiInv, NEW r \in 1..Len(jobRows), Ci!Watch(r)
    PROVE CiInv'
<1>0. /\ CiLocks /\ CiWork /\ CiPool /\ CiRows /\ CiAt /\ CiRead /\ CiHand /\ CiLaunch /\ CiNotes
      /\ (\A k \in Instances : CiPlace(k)) /\ CiSole /\ CiAlone /\ CiCounts
      /\ (\A n \in Machines : CiMachine(n)) /\ CiJobs /\ (\A x \in Ci!AllJobs : CiOffer(x))
  BY DEF CiInv, CiTypes
<1>u. UNCHANGED <<lock, ciSession, job, queue, dropped, mach, runner, task, stray, pc, sess, last, hand, assigned, left, hold, overlap>>
  BY DEF Ci!Watch, Ci!Fault, Ci!github, Ci!pool, Ci!own, Ci!noted
<1>r. PICK y \in CiRow : jobRows' = [jobRows EXCEPT ![r] = y] /\ y.machine = jobRows[r].machine /\ y.status = "ended" /\ y.by = "closing"
  <2>1. jobRows[r] \in CiRow /\ jobRows \in Seq(CiRow)
    BY <1>0, FewRows DEF CiRows
  <2> DEFINE y == [jobRows[r] EXCEPT !.status = "ended", !.by = "closing"]
  <2>2. y \in CiRow /\ y.machine = jobRows[r].machine /\ y.status = "ended" /\ y.by = "closing"
    BY <2>1 DEF CiRow
  <2>3. jobRows' = [jobRows EXCEPT ![r] = y]
    BY <2>1 DEF Ci!Watch, CiRow
  <2>4. QED
    BY <2>2, <2>3
<1>v. /\ CiRows' /\ Len(jobRows') = Len(jobRows) /\ Len(jobRows) \in Nat
      /\ \A q \in 1..Len(jobRows) : jobRows'[q] = IF q = r THEN y ELSE jobRows[q]
  BY <1>0, <1>r, RowWritten, FewRows DEF CiRows
<1>CiRows. CiRows'
  BY <1>v
<1>CiNotes. CiNotes'
  BY <1>0, <1>u, ScaleAssumption DEF Ci!Watch, Ci!Fault, CiNotes
<1>ty. CiTypes'
  BY <1>u, CiFrames, <1>CiRows, <1>CiNotes DEF CiTypes
<1>p. (\A k \in Instances : CiPlace(k))'
  BY <1>u, CiFrames
<1>s. CiSole'
  BY <1>u, CiFrames
<1>l. CiAlone'
  BY <1>u, CiFrames
<1>c. CiCounts'
  <2>1. Ci!Unfinished' \subseteq Ci!Unfinished
    BY <1>v, <1>r DEF Ci!Unfinished
  <2>2. QED
    BY <2>1, <1>u, CountsStay
<1>m. ASSUME NEW n \in Machines PROVE CiMachine(n)'
  BY <1>0, <1>u, <1>v, <1>r DEF CiMachine
<1>j. CiJobs'
  BY <1>u, CiFrames
<1>o. (\A x \in Ci!AllJobs : CiOffer(x))'
  BY <1>u, CiFrames
<1>9. QED
  BY <1>ty, <1>p, <1>s, <1>l, <1>c, <1>m, <1>j, <1>o DEF CiInv

\* A watcher that is told to end.
LEMMA CiCancelled ==
    ASSUME CiInv, NEW r \in 1..Len(jobRows), Ci!Cancelled(r)
    PROVE CiInv'
<1>0. /\ CiLocks /\ CiWork /\ CiPool /\ CiRows /\ CiAt /\ CiRead /\ CiHand /\ CiLaunch /\ CiNotes
      /\ (\A k \in Instances : CiPlace(k)) /\ CiSole /\ CiAlone /\ CiCounts
      /\ (\A n \in Machines : CiMachine(n)) /\ CiJobs /\ (\A x \in Ci!AllJobs : CiOffer(x))
  BY DEF CiInv, CiTypes
<1>a. jobRows[r].by = "cancelled"
  BY Zenon DEF Ci!Cancelled
<1>u. UNCHANGED <<lock, ciSession, job, queue, dropped, mach, runner, task, stray, pc, sess, last, hand, assigned, left, hold, overlap, faults>>
  BY DEF Ci!Cancelled, Ci!github, Ci!pool, Ci!own, Ci!noted
<1>r. PICK y \in CiRow : jobRows' = [jobRows EXCEPT ![r] = y] /\ y.machine = jobRows[r].machine /\ y.status = "ended" /\ y.by = "closing"
  <2>1. jobRows[r] \in CiRow /\ jobRows \in Seq(CiRow)
    BY <1>0, FewRows DEF CiRows
  <2> DEFINE y == [jobRows[r] EXCEPT !.status = "ended", !.by = "closing"]
  <2>2. y \in CiRow /\ y.machine = jobRows[r].machine /\ y.status = "ended" /\ y.by = "closing"
    BY <2>1 DEF CiRow
  <2>3. jobRows' = [jobRows EXCEPT ![r] = y]
    BY <2>1 DEF Ci!Cancelled, CiRow
  <2>4. QED
    BY <2>2, <2>3
<1>v. /\ CiRows' /\ Len(jobRows') = Len(jobRows) /\ Len(jobRows) \in Nat
      /\ \A q \in 1..Len(jobRows) : jobRows'[q] = IF q = r THEN y ELSE jobRows[q]
  BY <1>0, <1>r, RowWritten, FewRows DEF CiRows
<1>CiRows. CiRows'
  BY <1>v
<1>ty. CiTypes'
  BY <1>u, CiFrames, <1>CiRows DEF CiTypes
<1>p. (\A k \in Instances : CiPlace(k))'
  BY <1>u, CiFrames
<1>s. CiSole'
  BY <1>u, CiFrames
<1>l. CiAlone'
  BY <1>u, CiFrames
<1>c. CiCounts'
  <2>1. Ci!Unfinished' \subseteq Ci!Unfinished
    BY <1>v, <1>r DEF Ci!Unfinished
  <2>2. QED
    BY <2>1, <1>u, CountsStay
<1>m. ASSUME NEW n \in Machines PROVE CiMachine(n)'
  BY <1>0, <1>u, <1>v, <1>r DEF CiMachine
<1>j. CiJobs'
  BY <1>u, CiFrames
<1>o. (\A x \in Ci!AllJobs : CiOffer(x))'
  BY <1>u, CiFrames
<1>9. QED
  BY <1>ty, <1>p, <1>s, <1>l, <1>c, <1>m, <1>j, <1>o DEF CiInv

\* A machine whose runner ended is offered again.
LEMMA CiForget ==
    ASSUME CiInv, NEW r \in 1..Len(jobRows), Ci!Forget(r)
    PROVE CiInv'
<1>0. /\ CiLocks /\ CiWork /\ CiPool /\ CiRows /\ CiAt /\ CiRead /\ CiHand /\ CiLaunch /\ CiNotes
      /\ (\A k \in Instances : CiPlace(k)) /\ CiSole /\ CiAlone /\ CiCounts
      /\ (\A n \in Machines : CiMachine(n)) /\ CiJobs /\ (\A x \in Ci!AllJobs : CiOffer(x))
  BY DEF CiInv, CiTypes
<1> DEFINE m == jobRows[r].machine
<1>m0. m \in Machines /\ jobRows[r].by = "closing"
  BY <1>0, FewRows DEF Ci!Forget, CiRow
<1>a. /\ mach' = [mach EXCEPT ![m] = "gone"] /\ runner' = [runner EXCEPT ![m] = "ended"]
      /\ job' = Ci!JobsWithout(m) /\ task' = [task EXCEPT ![m] = Ci!None]
  BY DEF Ci!Forget
<1>r. PICK y \in CiRow : jobRows' = [jobRows EXCEPT ![r] = y] /\ y.machine = jobRows[r].machine /\ y.status = jobRows[r].status /\ y.by = Nobody
  <2>1. jobRows[r] \in CiRow /\ jobRows \in Seq(CiRow)
    BY <1>0, FewRows DEF CiRows
  <2> DEFINE y == [jobRows[r] EXCEPT !.by = Nobody]
  <2>2. y \in CiRow /\ y.machine = jobRows[r].machine /\ y.status = jobRows[r].status /\ y.by = Nobody
    BY <2>1 DEF CiRow
  <2>3. jobRows' = [jobRows EXCEPT ![r] = y]
    BY <2>1 DEF Ci!Forget, CiRow
  <2>4. QED
    BY <2>2, <2>3
<1>v. /\ CiRows' /\ Len(jobRows') = Len(jobRows) /\ Len(jobRows) \in Nat
      /\ \A q \in 1..Len(jobRows) : jobRows'[q] = IF q = r THEN y ELSE jobRows[q]
  BY <1>0, <1>r, RowWritten, FewRows DEF CiRows
<1> HIDE DEF m
<1>u. UNCHANGED <<lock, ciSession, queue, dropped, stray, pc, sess, last, hand, assigned, left, hold, overlap, faults>>
  BY DEF Ci!Forget, Ci!github, Ci!pool, Ci!own, Ci!noted
<1>w. /\ (\A x \in Ci!AllJobs : job'[x] = IF runner[m] = "works" /\ x = task[m] THEN "over" ELSE job[x])
      /\ (\A n \in Machines : task'[n] = IF n = m THEN 0 ELSE task[n])
      /\ (\A n \in Machines : mach'[n] = IF n = m THEN "gone" ELSE mach[n])
  BY <1>0, <1>a DEF CiWork, CiPool, Ci!JobsWithout, Ci!None
<1>x. (\A x \in Ci!AllJobs : job'[x] # "none" <=> job[x] # "none") /\ (\A x \in Ci!AllJobs : job'[x] = "available" => job[x] = "available")
  <2>1. \A x \in Ci!AllJobs : x \in Nat /\ x # 0
    BY DEF Ci!AllJobs
  <2>2. \A x \in Ci!AllJobs : x = task[m] => job[x] # "none"
    BY <2>1, <1>0, <1>m0 DEF CiJobs
  <2>3. QED
    BY <2>2, <1>w
<1>CiWork. CiWork'
  BY <1>0, <1>a, <1>u DEF CiWork, Ci!JobsWithout, CiStates
<1>CiPool. CiPool'
  <2>1. mach \in [Machines -> CiKinds] /\ runner \in [Machines -> CiEnds] /\ task \in [Machines -> 0..MaxJobs]
    BY <1>0 DEF CiPool
  <2>2. "gone" \in CiKinds /\ "ended" \in CiEnds /\ Ci!None \in 0..MaxJobs
    BY ScaleAssumption DEF CiKinds, CiEnds, Ci!None
  <2>3. mach' \in [Machines -> CiKinds]
    BY <2>1, <2>2, <1>a
  <2>4. runner' \in [Machines -> CiEnds]
    BY <2>1, <2>2, <1>a
  <2>5. task' \in [Machines -> 0..MaxJobs]
    BY <2>1, <2>2, <1>a
  <2>6. QED
    BY <2>3, <2>4, <2>5, <1>0, <1>u DEF CiPool
<1>CiRows. CiRows'
  BY <1>v
<1>ty. CiTypes'
  BY <1>u, CiFrames, <1>CiWork, <1>CiPool, <1>CiRows DEF CiTypes
<1>p. ASSUME NEW k \in Instances PROVE CiPlace(k)'
  BY <1>0, <1>u, <1>w, ScaleAssumption DEF CiPlace, CiLaunch
<1>s. CiSole'
  BY <1>u, CiFrames
<1>l. CiAlone'
  BY <1>u, CiFrames
<1>c. CiCounts'
  <2>1. Ci!Unfinished' \subseteq Ci!Unfinished
    BY <1>v, <1>r DEF Ci!Unfinished
  <2>2. QED
    BY <2>1, <1>u, CountsStay
<1>m. ASSUME NEW n \in Machines PROVE CiMachine(n)'
  <2>1. n # m => n # jobRows[r].machine
    BY DEF m
  <2>2. QED
    BY <1>0, <1>u, <1>v, <1>r, <1>w, <2>1 DEF CiMachine
<1>j. CiJobs'
  BY <1>0, <1>u, <1>w, <1>x, JobsStay
<1>o. ASSUME NEW x \in Ci!AllJobs PROVE CiOffer(x)'
  BY <1>0, <1>u, <1>x DEF CiOffer
<1>9. QED
  BY <1>ty, <1>p, <1>s, <1>l, <1>c, <1>m, <1>j, <1>o DEF CiInv

\* A machine that a watcher left as it is.
LEMMA CiUnforgotten ==
    ASSUME CiInv, NEW r \in 1..Len(jobRows), Ci!Unforgotten(r)
    PROVE CiInv'
<1>0. /\ CiLocks /\ CiWork /\ CiPool /\ CiRows /\ CiAt /\ CiRead /\ CiHand /\ CiLaunch /\ CiNotes
      /\ (\A k \in Instances : CiPlace(k)) /\ CiSole /\ CiAlone /\ CiCounts
      /\ (\A n \in Machines : CiMachine(n)) /\ CiJobs /\ (\A x \in Ci!AllJobs : CiOffer(x))
  BY DEF CiInv, CiTypes
<1>a. /\ jobRows[r].by = "closing"
      /\ stray' = stray \cup {jobRows[r].machine}
  BY Zenon DEF Ci!Unforgotten, Ci!Fault
<1>u. UNCHANGED <<lock, ciSession, job, queue, dropped, mach, runner, task, pc, sess, last, hand, assigned, left, hold, overlap>>
  BY DEF Ci!Unforgotten, Ci!Fault, Ci!github, Ci!pool, Ci!own, Ci!noted
<1>r. PICK y \in CiRow : jobRows' = [jobRows EXCEPT ![r] = y] /\ y.machine = jobRows[r].machine /\ y.status = jobRows[r].status /\ y.by = Nobody
  <2>1. jobRows[r] \in CiRow /\ jobRows \in Seq(CiRow)
    BY <1>0, FewRows DEF CiRows
  <2> DEFINE y == [jobRows[r] EXCEPT !.by = Nobody]
  <2>2. y \in CiRow /\ y.machine = jobRows[r].machine /\ y.status = jobRows[r].status /\ y.by = Nobody
    BY <2>1 DEF CiRow
  <2>3. jobRows' = [jobRows EXCEPT ![r] = y]
    BY <2>1 DEF Ci!Unforgotten, CiRow
  <2>4. QED
    BY <2>2, <2>3
<1>v. /\ CiRows' /\ Len(jobRows') = Len(jobRows) /\ Len(jobRows) \in Nat
      /\ \A q \in 1..Len(jobRows) : jobRows'[q] = IF q = r THEN y ELSE jobRows[q]
  BY <1>0, <1>r, RowWritten, FewRows DEF CiRows
<1>CiPool. CiPool'
  BY <1>0, <1>a, <1>u, FewRows DEF CiPool, CiRow
<1>CiRows. CiRows'
  BY <1>v
<1>CiNotes. CiNotes'
  BY <1>0, <1>u, <1>a, ScaleAssumption DEF Ci!Unforgotten, Ci!Fault, CiNotes
<1>ty. CiTypes'
  BY <1>u, CiFrames, <1>CiPool, <1>CiRows, <1>CiNotes DEF CiTypes
<1>p. (\A k \in Instances : CiPlace(k))'
  BY <1>u, CiFrames
<1>s. CiSole'
  BY <1>u, CiFrames
<1>l. CiAlone'
  BY <1>u, CiFrames
<1>c. CiCounts'
  <2>1. Ci!Unfinished' \subseteq Ci!Unfinished
    BY <1>v, <1>r DEF Ci!Unfinished
  <2>2. QED
    BY <2>1, <1>u, CountsStay
<1>m. ASSUME NEW n \in Machines PROVE CiMachine(n)'
  BY <1>0, <1>u, <1>v, <1>r, <1>a DEF CiMachine
<1>j. CiJobs'
  BY <1>u, CiFrames
<1>o. (\A x \in Ci!AllJobs : CiOffer(x))'
  BY <1>u, CiFrames
<1>9. QED
  BY <1>ty, <1>p, <1>s, <1>l, <1>c, <1>m, <1>j, <1>o DEF CiInv

\* Rows of instances that are gone are closed.
LEMMA CiCloseOrphans ==
    ASSUME CiInv, Ci!CloseOrphans
    PROVE CiInv'
<1>0. /\ CiLocks /\ CiWork /\ CiPool /\ CiRows /\ CiAt /\ CiRead /\ CiHand /\ CiLaunch /\ CiNotes
      /\ (\A k \in Instances : CiPlace(k)) /\ CiSole /\ CiAlone /\ CiCounts
      /\ (\A n \in Machines : CiMachine(n)) /\ CiJobs /\ (\A x \in Ci!AllJobs : CiOffer(x))
  BY DEF CiInv, CiTypes
<1>r. PICK late \in SUBSET (1..Len(jobRows)) :
        jobRows' = [r \in 1..Len(jobRows) |->
                       IF r \in Ci!Unfinished \cup late /\ mach[jobRows[r].machine] = "gone"
                       THEN [jobRows[r] EXCEPT !.status = "lost"] ELSE jobRows[r]]
  BY DEF Ci!CloseOrphans
<1>v. /\ Len(jobRows) \in Nat /\ Len(jobRows') = Len(jobRows) /\ CiRows'
      /\ \A q \in 1..Len(jobRows) :
            /\ jobRows'[q].machine = jobRows[q].machine /\ jobRows'[q].by = jobRows[q].by
            /\ jobRows'[q].status = jobRows[q].status \/ (jobRows'[q].status = "lost" /\ mach[jobRows[q].machine] = "gone")
  <2>1. Len(jobRows) \in Nat /\ \A q \in 1..Len(jobRows) : jobRows[q] \in CiRow
    BY <1>0, FewRows
  <2>2. \A q \in 1..Len(jobRows) : jobRows'[q] = IF q \in Ci!Unfinished \cup late /\ mach[jobRows[q].machine] = "gone"
                                           THEN [jobRows[q] EXCEPT !.status = "lost"] ELSE jobRows[q]
    BY <1>r, Zenon
  <2>3. \A q \in 1..Len(jobRows) : [jobRows[q] EXCEPT !.status = "lost"] \in CiRow
    BY <2>1 DEF CiRow
  <2>4. jobRows' \in Seq(CiRow) /\ Len(jobRows') = Len(jobRows)
    BY <1>r, <2>1, <2>3
  <2>5. QED
    BY <2>1, <2>2, <2>4 DEF CiRow, CiRows
<1>u. UNCHANGED <<lock, ciSession, job, queue, dropped, mach, runner, task, stray, pc, sess, last, hand, assigned, left, hold, overlap, faults>>
  BY DEF Ci!CloseOrphans, Ci!github, Ci!pool, Ci!own, Ci!noted
<1>CiRows. CiRows'
  BY <1>v
<1>ty. CiTypes'
  BY <1>u, CiFrames, <1>CiRows DEF CiTypes
<1>p. (\A k \in Instances : CiPlace(k))'
  BY <1>u, CiFrames
<1>s. CiSole'
  BY <1>u, CiFrames
<1>l. CiAlone'
  BY <1>u, CiFrames
<1>c. CiCounts'
  <2>1. Ci!Unfinished' \subseteq Ci!Unfinished
    BY <1>v DEF Ci!Unfinished
  <2>2. QED
    BY <2>1, <1>u, CountsStay
<1>m. ASSUME NEW n \in Machines PROVE CiMachine(n)'
  BY <1>0, <1>u, <1>v DEF CiMachine
<1>j. CiJobs'
  BY <1>u, CiFrames
<1>o. (\A x \in Ci!AllJobs : CiOffer(x))'
  BY <1>u, CiFrames
<1>9. QED
  BY <1>ty, <1>p, <1>s, <1>l, <1>c, <1>m, <1>j, <1>o DEF CiInv

\* A machine that dies.
LEMMA CiDies ==
    ASSUME CiInv, NEW m \in Machines, Ci!Dies(m)
    PROVE CiInv'
<1>0. /\ CiLocks /\ CiWork /\ CiPool /\ CiRows /\ CiAt /\ CiRead /\ CiHand /\ CiLaunch /\ CiNotes
      /\ (\A k \in Instances : CiPlace(k)) /\ CiSole /\ CiAlone /\ CiCounts
      /\ (\A n \in Machines : CiMachine(n)) /\ CiJobs /\ (\A x \in Ci!AllJobs : CiOffer(x))
  BY DEF CiInv, CiTypes
<1>a. /\ mach[m] # "gone"
      /\ mach' = [mach EXCEPT ![m] = "gone"]
      /\ runner' = [runner EXCEPT ![m] = IF @ = "none" THEN @ ELSE "ended"]
      /\ job' = Ci!JobsWithout(m)
      /\ task' = [task EXCEPT ![m] = Ci!None]
  BY Zenon DEF Ci!Dies
<1>u. UNCHANGED <<lock, ciSession, queue, dropped, stray, jobRows, pc, sess, last, hand, assigned, left, hold, overlap, faults>>
  BY DEF Ci!Dies, Ci!github, Ci!pool, Ci!own, Ci!noted
<1>w. /\ (\A x \in Ci!AllJobs : job'[x] = IF runner[m] = "works" /\ x = task[m] THEN "over" ELSE job[x])
      /\ (\A n \in Machines : task'[n] = IF n = m THEN 0 ELSE task[n])
      /\ (\A n \in Machines : mach'[n] = IF n = m THEN "gone" ELSE mach[n])
  BY <1>0, <1>a DEF CiWork, CiPool, Ci!JobsWithout, Ci!None
<1>x. (\A x \in Ci!AllJobs : job'[x] # "none" <=> job[x] # "none") /\ (\A x \in Ci!AllJobs : job'[x] = "available" => job[x] = "available")
  <2>1. \A x \in Ci!AllJobs : x \in Nat /\ x # 0
    BY DEF Ci!AllJobs
  <2>2. \A x \in Ci!AllJobs : x = task[m] => job[x] # "none"
    BY <2>1, <1>0 DEF CiJobs
  <2>3. QED
    BY <2>2, <1>w
<1>CiWork. CiWork'
  BY <1>0, <1>a, <1>u DEF CiWork, Ci!JobsWithout, CiStates
<1>CiPool. CiPool'
  BY <1>0, <1>u, <1>a, <1>x, ScaleAssumption DEF CiPool, CiKinds, CiEnds, Ci!None
<1>ty. CiTypes'
  BY <1>u, CiFrames, <1>CiWork, <1>CiPool DEF CiTypes
<1>p. ASSUME NEW k \in Instances PROVE CiPlace(k)'
  BY <1>0, <1>u, <1>w, ScaleAssumption DEF CiPlace, CiLaunch
<1>s. CiSole'
  BY <1>u, CiFrames
<1>l. CiAlone'
  BY <1>u, CiFrames
<1>c. CiCounts'
  BY <1>u, CiFrames
<1>m. ASSUME NEW n \in Machines PROVE CiMachine(n)'
  BY <1>0, <1>u, <1>a, <1>w, <1>x, ScaleAssumption DEF CiMachine
<1>j. CiJobs'
  BY <1>0, <1>u, <1>w, <1>x, JobsStay
<1>o. ASSUME NEW x \in Ci!AllJobs PROVE CiOffer(x)'
  BY <1>0, <1>u, <1>x DEF CiOffer
<1>9. QED
  BY <1>ty, <1>p, <1>s, <1>l, <1>c, <1>m, <1>j, <1>o DEF CiInv

\* A runner takes a job.
LEMMA CiTakeJob ==
    ASSUME CiInv, NEW m \in Machines, NEW j \in Ci!AllJobs, Ci!TakeJob(m, j)
    PROVE CiInv'
<1>0. /\ CiLocks /\ CiWork /\ CiPool /\ CiRows /\ CiAt /\ CiRead /\ CiHand /\ CiLaunch /\ CiNotes
      /\ (\A k \in Instances : CiPlace(k)) /\ CiSole /\ CiAlone /\ CiCounts
      /\ (\A n \in Machines : CiMachine(n)) /\ CiJobs /\ (\A x \in Ci!AllJobs : CiOffer(x))
  BY DEF CiInv, CiTypes
<1>a. /\ job[j] = "acquired"
      /\ runner' = [runner EXCEPT ![m] = "works"]
      /\ task' = [task EXCEPT ![m] = j]
      /\ job' = [job EXCEPT ![j] = "running"]
  BY Zenon DEF Ci!TakeJob
<1>u. UNCHANGED <<lock, ciSession, queue, dropped, mach, stray, jobRows, pc, sess, last, hand, assigned, left, hold, overlap, faults>>
  BY DEF Ci!TakeJob, Ci!github, Ci!pool, Ci!own, Ci!noted
<1>w. /\ (\A n \in Machines : runner'[n] = IF n = m THEN "works" ELSE runner[n])
      /\ (\A n \in Machines : task'[n] = IF n = m THEN j ELSE task[n])
      /\ (\A x \in Ci!AllJobs : job'[x] = IF x = j THEN "running" ELSE job[x])
  BY <1>0, <1>a DEF CiPool, CiWork
<1>CiWork. CiWork'
  BY <1>0, <1>u, <1>a, ScaleAssumption DEF CiWork, CiStates
<1>CiPool. CiPool'
  BY <1>0, <1>u, <1>a, ScaleAssumption DEF CiPool, CiEnds, Ci!AllJobs
<1>ty. CiTypes'
  BY <1>u, CiFrames, <1>CiWork, <1>CiPool DEF CiTypes
<1>p. (\A k \in Instances : CiPlace(k))'
  BY <1>u, CiFrames
<1>s. CiSole'
  BY <1>u, CiFrames
<1>l. CiAlone'
  BY <1>u, CiFrames
<1>c. CiCounts'
  BY <1>u, CiFrames
<1>m. (\A n \in Machines : CiMachine(n))'
  BY <1>u, CiFrames
<1>j. CiJobs'
  <2>1. j \in Nat /\ \A x \in Ci!AllJobs : job'[x] # "none" <=> job[x] # "none"
    BY <1>w, <1>a DEF Ci!AllJobs
  <2>2. (\A x, y \in Ci!AllJobs : x < y /\ job[y] # "none" => job[x] # "none")'
    BY <2>1, <1>0 DEF CiJobs
  <2>3. (\A q \in queue : job[q] # "none")'
    BY <1>0, <2>1, <1>u DEF CiJobs, CiWork
  <2>4. \A k \in Instances : last[k] # 0 => last[k] \in Ci!AllJobs
    BY <1>0 DEF CiRead, Ci!AllJobs
  <2>5. \A n \in Machines : task[n] # 0 => task[n] \in Ci!AllJobs
    BY <1>0 DEF CiPool, Ci!AllJobs
  <2>6. (\A k \in Instances : last[k] # 0 => job[last[k]] # "none")'
    BY <2>4, <1>0, <2>1, <1>u DEF CiJobs
  <2>7. (\A n \in Machines : task[n] # 0 => job[task[n]] # "none")'
    BY <2>5, <1>0, <1>w, <2>1, <1>a DEF CiJobs
  <2>8. QED
    BY <2>2, <2>3, <2>6, <2>7 DEF CiJobs
<1>o. ASSUME NEW x \in Ci!AllJobs PROVE CiOffer(x)'
  BY <1>0, <1>u, <1>a, <1>w, ScaleAssumption DEF CiOffer, CiPlace, Ci!None
<1>9. QED
  BY <1>ty, <1>p, <1>s, <1>l, <1>c, <1>m, <1>j, <1>o DEF CiInv

\* A runner ends with its job.
LEMMA CiRunnerEnds ==
    ASSUME CiInv, NEW m \in Machines, Ci!RunnerEnds(m)
    PROVE CiInv'
<1>0. /\ CiLocks /\ CiWork /\ CiPool /\ CiRows /\ CiAt /\ CiRead /\ CiHand /\ CiLaunch /\ CiNotes
      /\ (\A k \in Instances : CiPlace(k)) /\ CiSole /\ CiAlone /\ CiCounts
      /\ (\A n \in Machines : CiMachine(n)) /\ CiJobs /\ (\A x \in Ci!AllJobs : CiOffer(x))
  BY DEF CiInv, CiTypes
<1>a. /\ runner[m] \in {"waits", "works"}
      /\ runner' = [runner EXCEPT ![m] = "ended"]
      /\ job' = Ci!JobsWithout(m)
      /\ task' = [task EXCEPT ![m] = Ci!None]
  BY Zenon DEF Ci!RunnerEnds
<1>u. UNCHANGED <<lock, ciSession, queue, dropped, mach, stray, jobRows, pc, sess, last, hand, assigned, left, hold, overlap, faults>>
  BY DEF Ci!RunnerEnds, Ci!github, Ci!pool, Ci!own, Ci!noted
<1>w. /\ (\A x \in Ci!AllJobs : job'[x] = IF runner[m] = "works" /\ x = task[m] THEN "over" ELSE job[x])
      /\ (\A n \in Machines : task'[n] = IF n = m THEN 0 ELSE task[n])
  BY <1>0, <1>a DEF CiWork, CiPool, Ci!JobsWithout, Ci!None
<1>x. (\A x \in Ci!AllJobs : job'[x] # "none" <=> job[x] # "none") /\ (\A x \in Ci!AllJobs : job'[x] = "available" => job[x] = "available")
  <2>1. \A x \in Ci!AllJobs : x \in Nat /\ x # 0
    BY DEF Ci!AllJobs
  <2>2. \A x \in Ci!AllJobs : x = task[m] => job[x] # "none"
    BY <2>1, <1>0 DEF CiJobs
  <2>3. QED
    BY <2>2, <1>w
<1>CiWork. CiWork'
  BY <1>0, <1>a, <1>u DEF CiWork, Ci!JobsWithout, CiStates
<1>CiPool. CiPool'
  BY <1>0, <1>u, <1>a, <1>x, ScaleAssumption DEF CiPool, CiKinds, CiEnds, Ci!None
<1>ty. CiTypes'
  BY <1>u, CiFrames, <1>CiWork, <1>CiPool DEF CiTypes
<1>p. (\A k \in Instances : CiPlace(k))'
  BY <1>u, CiFrames
<1>s. CiSole'
  BY <1>u, CiFrames
<1>l. CiAlone'
  BY <1>u, CiFrames
<1>c. CiCounts'
  BY <1>u, CiFrames
<1>m. (\A n \in Machines : CiMachine(n))'
  BY <1>u, CiFrames
<1>j. CiJobs'
  BY <1>0, <1>u, <1>w, <1>x, JobsStay
<1>o. ASSUME NEW x \in Ci!AllJobs PROVE CiOffer(x)'
  BY <1>0, <1>u, <1>x DEF CiOffer
<1>9. QED
  BY <1>ty, <1>p, <1>s, <1>l, <1>c, <1>m, <1>j, <1>o DEF CiInv

\* A job is queued.
LEMMA CiQueue ==
    ASSUME CiInv, NEW j \in Ci!AllJobs, Ci!Queue(j)
    PROVE CiInv'
<1>0. /\ CiLocks /\ CiWork /\ CiPool /\ CiRows /\ CiAt /\ CiRead /\ CiHand /\ CiLaunch /\ CiNotes
      /\ (\A k \in Instances : CiPlace(k)) /\ CiSole /\ CiAlone /\ CiCounts
      /\ (\A n \in Machines : CiMachine(n)) /\ CiJobs /\ (\A x \in Ci!AllJobs : CiOffer(x))
  BY DEF CiInv, CiTypes
<1>a. /\ job[j] = "none" /\ \A k \in 1..(j - 1) : job[k] # "none"
      /\ job' = [job EXCEPT ![j] = "available"]
      /\ queue' = queue \cup {j}
  BY Zenon DEF Ci!Queue
<1>u. UNCHANGED <<lock, ciSession, dropped, mach, runner, task, stray, jobRows, pc, sess, last, hand, assigned, left, hold, overlap, faults>>
  BY DEF Ci!Queue, Ci!github, Ci!pool, Ci!own, Ci!noted
<1>w. \A x \in Ci!AllJobs : job'[x] = IF x = j THEN "available" ELSE job[x]
  BY <1>0, <1>a DEF CiWork
<1>CiWork. CiWork'
  BY <1>0, <1>u, <1>a, ScaleAssumption DEF CiWork, CiStates
<1>ty. CiTypes'
  BY <1>u, CiFrames, <1>CiWork DEF CiTypes
<1>p. (\A k \in Instances : CiPlace(k))'
  BY <1>u, CiFrames
<1>s. CiSole'
  BY <1>u, CiFrames
<1>l. CiAlone'
  BY <1>u, CiFrames
<1>c. CiCounts'
  BY <1>u, CiFrames
<1>m. (\A n \in Machines : CiMachine(n))'
  BY <1>u, CiFrames
<1>j. CiJobs'
  <2>1. \A k \in Ci!AllJobs : k < j => job[k] # "none"
    BY <1>a DEF Ci!AllJobs
  <2>2. (\A x, y \in Ci!AllJobs : x < y /\ job[y] # "none" => job[x] # "none")'
    BY <2>1, <1>0, <1>w DEF CiJobs
  <2>3. (\A q \in queue : job[q] # "none")'
    BY <1>0, <1>w, <1>a DEF CiJobs, CiWork
  <2>4. \A k \in Instances : last[k] # 0 => last[k] \in Ci!AllJobs
    BY <1>0 DEF CiRead, Ci!AllJobs
  <2>5. \A n \in Machines : task[n] # 0 => task[n] \in Ci!AllJobs
    BY <1>0 DEF CiPool, Ci!AllJobs
  <2>6. (\A k \in Instances : last[k] # 0 => job[last[k]] # "none")'
    BY <2>4, <1>0, <1>w, <1>u DEF CiJobs
  <2>7. (\A n \in Machines : task[n] # 0 => job[task[n]] # "none")'
    BY <2>5, <1>0, <1>w, <1>u DEF CiJobs
  <2>8. QED
    BY <2>2, <2>3, <2>6, <2>7 DEF CiJobs
<1>o. ASSUME NEW x \in Ci!AllJobs PROVE CiOffer(x)'
  <2>1. \A k \in Instances : last[k] \in Nat /\ (last[k] # 0 => last[k] \in Ci!AllJobs /\ job[last[k]] # "none")
    BY <1>0 DEF CiRead, Ci!AllJobs, CiJobs
  <2>2. \A k \in Instances : last[k] < j
    <3> SUFFICES ASSUME NEW k \in Instances PROVE last[k] < j
      OBVIOUS
    <3>1. j \in Nat /\ j # 0
      BY DEF Ci!AllJobs
    <3>2. CASE last[k] = 0
      BY <3>1, <3>2
    <3>3. CASE last[k] # 0
      BY <3>1, <3>3, <2>1, <1>a, <1>0 DEF CiJobs, Ci!AllJobs
    <3>4. QED
      BY <3>2, <3>3
  <2>3. QED
    BY <2>2, <1>0, <1>a, <1>u, <1>w DEF CiOffer
<1>9. QED
  BY <1>ty, <1>p, <1>s, <1>l, <1>c, <1>m, <1>j, <1>o DEF CiInv

\* A session that lapses.
LEMMA CiSessionLapses ==
    ASSUME CiInv, Ci!SessionLapses
    PROVE CiInv'
<1>0. /\ CiLocks /\ CiWork /\ CiPool /\ CiRows /\ CiAt /\ CiRead /\ CiHand /\ CiLaunch /\ CiNotes
      /\ (\A k \in Instances : CiPlace(k)) /\ CiSole /\ CiAlone /\ CiCounts
      /\ (\A n \in Machines : CiMachine(n)) /\ CiJobs /\ (\A x \in Ci!AllJobs : CiOffer(x))
  BY DEF CiInv, CiTypes
<1>a. ciSession' = Nobody /\ (faults' = faults \/ Ci!Fault)
  BY DEF Ci!SessionLapses
<1>u. UNCHANGED <<lock, job, queue, dropped, mach, runner, task, stray, jobRows, pc, sess, last, hand, assigned, left, hold, overlap>>
  BY DEF Ci!SessionLapses, Ci!Fault, Ci!github, Ci!pool, Ci!own, Ci!noted
<1>CiLocks. CiLocks'
  BY <1>0, <1>u, <1>a, ScaleAssumption DEF CiLocks
<1>CiNotes. CiNotes'
  BY <1>0, <1>u, <1>a, ScaleAssumption DEF Ci!SessionLapses, Ci!Fault, CiNotes
<1>ty. CiTypes'
  BY <1>u, CiFrames, <1>CiLocks, <1>CiNotes DEF CiTypes
<1>p. (\A k \in Instances : CiPlace(k))'
  BY <1>u, CiFrames
<1>s. CiSole'
  BY <1>u, CiFrames
<1>l. CiAlone'
  BY <1>u, CiFrames
<1>c. CiCounts'
  BY <1>u, CiFrames
<1>m. (\A n \in Machines : CiMachine(n))'
  BY <1>u, CiFrames
<1>j. CiJobs'
  BY <1>u, CiFrames
<1>o. (\A x \in Ci!AllJobs : CiOffer(x))'
  BY <1>u, CiFrames
<1>9. QED
  BY <1>ty, <1>p, <1>s, <1>l, <1>c, <1>m, <1>j, <1>o DEF CiInv

\* Every step keeps it.
LEMMA CiKeeps ==
    ASSUME CiInv, Ci!Next
    PROVE CiInv'
<1>1. ASSUME NEW i \in Instances, Ci!Step(i) PROVE CiInv'
  BY <1>1, Zenon, CiServe, CiLoseLock, CiLeave, CiDrop, CiFarewell, CiCrash, CiRefused, CiOpen, CiPoll, CiQuiet, CiAck,
     CiCallFails, CiAcquire, CiScale, CiNoMachine, CiDispatch, CiNote, CiLaunchFails, CiGrab DEF Ci!Step
<1>2. ASSUME Ci!World PROVE CiInv'
  BY <1>2, Zenon, CiSessionLapses, CiCloseOrphans, CiQueue, CiWatch, CiCancelled, CiForget, CiUnforgotten, CiDies,
     CiRunnerEnds, CiTakeJob DEF Ci!World
<1>3. QED
  BY <1>1, <1>2 DEF Ci!Next

\* A step of another module leaves it.
LEMMA CiRests == CiInv /\ UNCHANGED Ci!vars => CiInv'
<1> SUFFICES ASSUME CiInv, UNCHANGED Ci!vars PROVE CiInv'
  OBVIOUS
<1>1. UNCHANGED <<lock, ciSession, job, queue, dropped, mach, runner, task, stray, jobRows, pc, sess, last, hand, assigned, left, hold, overlap, faults>>
  BY DEF Ci!vars, Ci!github, Ci!pool, Ci!own, Ci!noted
<1>2. CiTypes'
  BY <1>1, CiFrames DEF CiTypes
<1>3. QED
  BY <1>1, <1>2, CiFrames DEF CiInv

\* What it says of the machines and of the jobs.
LEMMA CiTruth == CiInv => Ci!TypeOK /\ Ci!RunnersAreCounted /\ Ci!OffersAreKept
<1> SUFFICES ASSUME CiInv PROVE Ci!TypeOK /\ Ci!RunnersAreCounted /\ Ci!OffersAreKept
  OBVIOUS
<1>0. CiTypes /\ (\A i \in Instances : CiPlace(i)) /\ CiCounts /\ (\A m \in Machines : CiMachine(m)) /\ (\A j \in Ci!AllJobs : CiOffer(j))
  BY DEF CiInv
<1>1. Ci!TypeOK
  <2>1. \A r \in 1..Len(jobRows) : jobRows[r] \in CiRow
    BY <1>0, FewRows DEF CiTypes
  <2>2. overlap \in BOOLEAN /\ faults \in 0..MaxFaults
    BY <1>0 DEF CiTypes, CiNotes
  <2>3. sess \in [Instances -> BOOLEAN]
    BY <1>0 DEF CiTypes, CiRead
  <2>4. QED
    BY <1>0, <2>1, <2>2, <2>3 DEF Ci!TypeOK, CiTypes, CiLocks, CiWork, CiPool, CiAt, CiRead, CiHand, CiLaunch, CiRow, CiPlacesOf, CiStates, CiKinds, CiEnds
<1>2. Ci!RunnersAreCounted
  <2>1. overlap \/ Cardinality(Ci!Unfinished) <= Limit
    BY <1>0 DEF CiCounts
  <2>2. ASSUME NEW m \in Machines, mach[m] = "ci"
        PROVE  \/ m \in stray
               \/ \E i \in Instances : hold[i] = m
               \/ \E r \in 1..Len(jobRows) : jobRows[r].machine = m /\ (r \in Ci!Unfinished \/ jobRows[r].by = "closing")
    BY <1>0, <2>2 DEF CiMachine, Ci!Unfinished
  <2>3. QED
    BY <2>1, <2>2, CiCardinal, Zenon DEF Ci!RunnersAreCounted
<1>3. Ci!OffersAreKept
  BY <1>0 DEF Ci!OffersAreKept, CiOffer, CiPlace, Ci!None
<1>4. QED
  BY <1>1, <1>2, <1>3

-----------------------------------------------------------------------------
(* The keeper.                                                             *)

\* Young runs that live, or are about to be dispatched by who has seen all.
Young == Fleet!Live \ old

\* Unless a keeper was blind one at most dispatches, and what it has left fits
\* beside the runs there are.
FleetInv ==
    /\ Fleet!TypeOK
    /\ ~blind =>
         /\ \A i, k \in Instances : keeperPc[i] = "dispatch" /\ keeperPc[k] = "dispatch" => i = k
         /\ \A i \in Instances : keeperPc[i] = "dispatch" => Cardinality(Young) + toGo[i] <= Target
         /\ Cardinality(Young) <= Target

\* Keeper counts with the same Cardinality.
LEMMA FleetCardinal == \A S : Fleet!Cardinality(S) = Cardinality(S)
  BY DEF Fleet!Cardinality, Cardinality

\* Runs are finitely many.
LEMMA FewRuns ==
    ASSUME NEW S \in SUBSET Fleet!Runs
    PROVE IsFiniteSet(S) /\ Cardinality(S) \in Nat
<1>1. IsFiniteSet(Fleet!Runs)
  BY KeeperAssumption, FS_Interval DEF Fleet!Runs
<1>2. QED
  BY <1>1, FS_Subset, FS_CardinalityType

\* Young runs are runs.
LEMMA YoungRuns == Young \in SUBSET Fleet!Runs
BY DEF Young, Fleet!Live

\* No more of them when they are some of those before.
LEMMA FewerYoung ==
    ASSUME Fleet!TypeOK, NEW S \in SUBSET Fleet!Runs, NEW U \in SUBSET S
    PROVE Cardinality(U) \in Nat /\ Cardinality(S) \in Nat /\ Cardinality(U) <= Cardinality(S)
BY FewRuns, FS_Subset

\* There is no run at first.
LEMMA FleetBegins == Fleet!Init => FleetInv
<1> SUFFICES ASSUME Fleet!Init PROVE FleetInv
  OBVIOUS
<1>1. Fleet!TypeOK
  <2>1. blind \in BOOLEAN
    BY Zenon DEF Fleet!Init
  <2>2. QED
    BY <2>1, KeeperAssumption DEF Fleet!Init, Fleet!TypeOK
<1>2. Young = {}
  BY DEF Fleet!Init, Young, Fleet!Live
<1>3. Cardinality(Young) = 0
  BY <1>2, FS_EmptySet
<1>4. QED
  BY <1>1, <1>3, KeeperAssumption DEF FleetInv, Fleet!Init

\* A step that touches neither the phases nor what is left, and adds no young run.
LEMMA FleetRests ==
    ASSUME FleetInv, Fleet!TypeOK', Young' \subseteq Young, blind' = blind,
           \A i \in Instances : keeperPc'[i] = "dispatch" => keeperPc[i] = "dispatch" /\ toGo'[i] = toGo[i]
    PROVE FleetInv'
<1>1. Cardinality(Young') \in Nat /\ Cardinality(Young) \in Nat /\ Cardinality(Young') <= Cardinality(Young)
  BY FewerYoung, YoungRuns DEF FleetInv
<1>2. \A i \in Instances : toGo[i] \in Nat
  BY KeeperAssumption DEF FleetInv, Fleet!TypeOK
<1>3. CASE blind
  BY <1>3 DEF FleetInv
<1>4. CASE ~blind
  BY <1>1, <1>2, <1>4, KeeperAssumption DEF FleetInv
<1>5. QED
  BY <1>3, <1>4

\* Every step of a keeper or of a run keeps it.
LEMMA FleetKeeps ==
    ASSUME FleetInv, Fleet!Next
    PROVE FleetInv'
<1> USE KeeperAssumption DEF Fleet!keeper
<1>0. Fleet!TypeOK
  BY DEF FleetInv
<1>1. ASSUME NEW i \in Instances, Fleet!ListRunning(i)
      PROVE FleetInv'
  <2>1. Fleet!TypeOK'
    BY <1>0, <1>1 DEF Fleet!ListRunning, Fleet!TypeOK, Fleet!Goto
  <2>2. Young' = Young
    BY <1>1 DEF Fleet!ListRunning, Young, Fleet!Live
  <2>3. QED
    BY <1>0, <1>1, <2>1, <2>2, FleetRests DEF Fleet!ListRunning, Fleet!TypeOK, Fleet!Goto
<1>2. ASSUME NEW i \in Instances, Fleet!ListQueued(i)
      PROVE FleetInv'
  <2>1. Fleet!TypeOK'
    BY <1>0, <1>2 DEF Fleet!ListQueued, Fleet!TypeOK, Fleet!Goto
  <2>2. Young' = Young
    BY <1>2 DEF Fleet!ListQueued, Young, Fleet!Live
  <2>3. QED
    BY <1>0, <1>2, <2>1, <2>2, FleetRests DEF Fleet!ListQueued, Fleet!TypeOK, Fleet!Goto
<1>3. ASSUME NEW i \in Instances, Fleet!Reconcile(i)
      PROVE FleetInv'
  <2> DEFINE n == Cardinality(listed[i] \ old)
  <2>0. listed[i] \in SUBSET Fleet!Runs /\ n \in Nat
    BY <1>0, FewRuns DEF Fleet!TypeOK
  <2>1. Fleet!Missing(i) \in Nat /\ (n <= Target => Fleet!Missing(i) = Target - n) /\ (n > Target => Fleet!Missing(i) = 0)
    <3>1. Fleet!Missing(i) = IF n < Target THEN Target - n ELSE 0
      BY FleetCardinal, Zenon DEF Fleet!Missing
    <3> HIDE DEF n
    <3>2. QED
      BY <2>0, <3>1, KeeperAssumption
  <2>2. toGo'[i] \in 0..Burst /\ toGo'[i] <= Fleet!Missing(i) /\ toGo' = [toGo EXCEPT ![i] = toGo'[i]]
    BY <1>0, <1>3, <2>1 DEF Fleet!Reconcile, Fleet!Least, Fleet!TypeOK
  <2>3. PICK gone \in SUBSET (listed[i] \cap old) :
            runs' = [r \in Fleet!Runs |-> IF r \in gone THEN "over" ELSE runs[r]]
    BY <1>3 DEF Fleet!Reconcile
  <2>4. keeperPc' = [keeperPc EXCEPT ![i] = "dispatch"] /\ UNCHANGED <<keeperLock, listed, old>>
        /\ blind' = (blind \/ Fleet!AtWork(i) \/ ~(Fleet!Live \subseteq listed[i]))
    BY <1>3 DEF Fleet!Reconcile, Fleet!Goto
  <2>5. blind' \in BOOLEAN
    BY <2>4
  <2>6. Fleet!TypeOK'
    BY <1>0, <2>2, <2>3, <2>4, <2>5 DEF Fleet!TypeOK
  <2>7. CASE blind'
    BY <2>6, <2>7 DEF FleetInv
  <2>8. CASE ~blind'
    <3>1. ~blind /\ Fleet!Live \subseteq listed[i] /\ \A k \in Instances \ {i} : keeperPc[k] = "idle"
      BY <2>4, <2>8 DEF Fleet!AtWork
    <3>2. Young' \subseteq Young /\ Young \subseteq listed[i] \ old
      BY <1>0, <2>3, <2>4, <3>1 DEF Young, Fleet!Live, Fleet!TypeOK
    <3>3. Cardinality(Young') <= Cardinality(Young) /\ Cardinality(Young) <= n
          /\ Cardinality(Young') \in Nat /\ Cardinality(Young) \in Nat
      BY <1>0, <2>0, <3>2, FewerYoung, YoungRuns
    <3>4. Cardinality(Young) <= Target
      BY <3>1 DEF FleetInv
    <3>5. Cardinality(Young') + toGo'[i] <= Target /\ Cardinality(Young') <= Target
      BY <2>0, <2>1, <2>2, <3>3, <3>4
    <3>6. \A k \in Instances : keeperPc'[k] = "dispatch" => k = i
      BY <1>0, <2>4, <3>1 DEF Fleet!TypeOK
    <3>7. QED
      BY <2>6, <3>5, <3>6 DEF FleetInv
  <2>9. QED
    BY <2>7, <2>8
<1>4. ASSUME NEW i \in Instances, Fleet!Dispatch(i)
      PROVE FleetInv'
  <2>1. PICK r \in Fleet!Runs : runs[r] = "none" /\ runs' = [runs EXCEPT ![r] = "accepted"]
    BY <1>4 DEF Fleet!Dispatch
  <2>2. keeperPc[i] = "dispatch" /\ toGo[i] > 0 /\ toGo' = [toGo EXCEPT ![i] = @ - 1]
        /\ UNCHANGED <<keeperLock, keeperPc, listed, blind, old>>
    BY <1>4 DEF Fleet!Dispatch
  <2>3. Fleet!TypeOK'
    BY <1>0, <2>1, <2>2 DEF Fleet!TypeOK
  <2>4. Young' \subseteq Young \cup {r}
    BY <1>0, <2>1, <2>2 DEF Young, Fleet!Live, Fleet!TypeOK
  <2>5. Cardinality(Young') \in Nat /\ Cardinality(Young) \in Nat
        /\ Cardinality(Young') <= Cardinality(Young) + 1
    <3>1. IsFiniteSet(Young) /\ Cardinality(Young) \in Nat /\ Young' \in SUBSET Fleet!Runs
      BY FewRuns, YoungRuns DEF Young, Fleet!Live
    <3>2. Cardinality(Young \cup {r}) <= Cardinality(Young) + 1 /\ Young \cup {r} \in SUBSET Fleet!Runs
          /\ Cardinality(Young \cup {r}) \in Nat
      BY <3>1, FS_AddElement, FewRuns, YoungRuns
    <3>3. QED
      BY <1>0, <2>4, <3>1, <3>2, FewerYoung
  <2>6. toGo[i] \in Nat
    BY <1>0 DEF Fleet!TypeOK
  <2>7. CASE blind
    BY <2>2, <2>3, <2>7 DEF FleetInv
  <2>8. CASE ~blind
    <3>1. Cardinality(Young) + toGo[i] <= Target
      BY <2>2, <2>8 DEF FleetInv
    <3>2. toGo'[i] = toGo[i] - 1
      BY <1>0, <2>2 DEF Fleet!TypeOK
    <3>3. Cardinality(Young') + toGo'[i] <= Target /\ Cardinality(Young') <= Target
      BY <2>2, <2>5, <2>6, <3>1, <3>2
    <3>4. \A k, l \in Instances : keeperPc'[k] = "dispatch" /\ keeperPc'[l] = "dispatch" => k = l
      BY <2>2, <2>8 DEF FleetInv
    <3>5. QED
      BY <2>2, <2>3, <3>3, <3>4 DEF FleetInv
  <2>9. QED
    BY <2>7, <2>8
<1>5. ASSUME NEW i \in Instances, Fleet!Leave(i)
      PROVE FleetInv'
  <2>1. Fleet!TypeOK'
    BY <1>0, <1>5 DEF Fleet!Leave, Fleet!TypeOK, Fleet!Goto
  <2>2. Young' = Young
    BY <1>5 DEF Fleet!Leave, Young, Fleet!Live
  <2>3. QED
    BY <1>0, <1>5, <2>1, <2>2, FleetRests DEF Fleet!Leave, Fleet!TypeOK, Fleet!Goto
<1>6. CASE Fleet!LockLapses
  <2>1. Fleet!TypeOK'
    BY <1>0, <1>6 DEF Fleet!LockLapses, Fleet!TypeOK
  <2>2. Young' = Young
    BY <1>6 DEF Fleet!LockLapses, Young, Fleet!Live
  <2>3. QED
    BY <1>6, <2>1, <2>2, FleetRests DEF Fleet!LockLapses
<1>7. ASSUME NEW r \in Fleet!Runs, Fleet!Appear(r) \/ Fleet!Start(r) \/ Fleet!RunEnds(r) \/ Fleet!Age(r)
      PROVE FleetInv'
  <2>1. Fleet!TypeOK'
    BY <1>0, <1>7 DEF Fleet!Appear, Fleet!Start, Fleet!RunEnds, Fleet!Age, Fleet!TypeOK, Fleet!Listed
  <2>2. Young' \subseteq Young
    BY <1>0, <1>7 DEF Fleet!Appear, Fleet!Start, Fleet!RunEnds, Fleet!Age, Fleet!TypeOK, Fleet!Listed, Young, Fleet!Live
  <2>3. UNCHANGED <<keeperPc, toGo, blind>>
    BY <1>7 DEF Fleet!Appear, Fleet!Start, Fleet!RunEnds, Fleet!Age
  <2>4. QED
    BY <2>1, <2>2, <2>3, FleetRests
<1>8. QED
  BY <1>1, <1>2, <1>3, <1>4, <1>5, <1>6, <1>7 DEF Fleet!Next

\* What it says of the runs.
LEMMA FleetTruth == FleetInv => Fleet!TypeOK /\ Fleet!RunsAreCounted
BY FleetCardinal, Zenon DEF FleetInv, Fleet!RunsAreCounted, Young

-----------------------------------------------------------------------------
(* Donors.                                                                 *)

\* Unless tokens were mixed up one operator at most is at the donor, with the token
\* that is asked for; and when none is, the secrets hold that token.
DonorInv ==
    /\ Donor!TypeOK
    /\ ~mixed =>
         /\ \A o, p \in Operators : operator[o] # "idle" /\ operator[p] # "idle" => o = p
         /\ \A o \in Operators : operator[o] # "idle" => mine[o] = token
         /\ (\A o \in Operators : operator[o] = "idle") => secret = token

\* The table is empty at first.
LEMMA DonorBegins == Donor!Init => DonorInv
<1> SUFFICES ASSUME Donor!Init PROVE DonorInv
  OBVIOUS
<1>1. enabled \in BOOLEAN /\ mixed \in BOOLEAN
  BY Zenon DEF Donor!Init
<1>2. QED
  BY <1>1, DonorsAssumption DEF Donor!Init, DonorInv, Donor!TypeOK

\* Every step of an operator or a job keeps it.
LEMMA DonorKeeps ==
    ASSUME DonorInv, Donor!Next
    PROVE DonorInv'
<1> USE DonorsAssumption DEF DonorInv, Donor!TypeOK
<1>1. CASE Donor!Add
  BY <1>1 DEF Donor!Add, Donor!NewToken
<1>2. CASE Donor!Rotate
  BY <1>2 DEF Donor!Rotate, Donor!NewToken
<1>3. CASE Donor!Enable
  BY <1>3 DEF Donor!Enable, Donor!runs
<1>4. CASE Donor!Remove
  <2>1. enabled' \in BOOLEAN /\ mixed' \in BOOLEAN /\ mixed'
    BY <1>4, Zenon DEF Donor!Remove
  <2>2. QED
    BY <1>4, <2>1 DEF Donor!Remove, Donor!runs
<1>5. ASSUME NEW o \in Operators, Donor!Bootstrap(o)
      PROVE DonorInv'
  <2>1. Donor!TypeOK'
    BY <1>5 DEF Donor!Bootstrap, Donor!NewToken
  <2>2. mixed' = \E p \in Operators : operator[p] # "idle"
    BY <1>5 DEF Donor!Bootstrap
  <2>3. CASE \E p \in Operators : operator[p] # "idle"
    BY <2>1, <2>2, <2>3
  <2>4. CASE \A p \in Operators : operator[p] = "idle"
    BY <1>5, <2>1, <2>4 DEF Donor!Bootstrap, Donor!NewToken
  <2>5. QED
    BY <2>3, <2>4
<1>6. ASSUME NEW o \in Operators, Donor!Seal(o)
      PROVE DonorInv'
  BY <1>6 DEF Donor!Seal, Donor!runs
<1>7. ASSUME NEW o \in Operators, Donor!BootstrapFails(o)
      PROVE DonorInv'
  BY <1>7 DEF Donor!BootstrapFails, Donor!runs
<1>8. ASSUME NEW j \in Jobs, Donor!Start(j)
      PROVE DonorInv'
  BY <1>8 DEF Donor!Start
<1>9. ASSUME NEW j \in Jobs, Donor!Register(j)
      PROVE DonorInv'
  BY <1>9 DEF Donor!Register
<1>10. QED
  BY <1>1, <1>2, <1>3, <1>4, <1>5, <1>6, <1>7, <1>8, <1>9 DEF Donor!Next

\* What it says of the secrets.
LEMMA DonorTruth == DonorInv => Donor!TypeOK /\ Donor!SecretsFit
BY DEF DonorInv, Donor!SecretsFit

-----------------------------------------------------------------------------
(* The browser of a turn.                                                  *)

\* What the state file, the page a command works on and a kept connection are.
WebFile == [profile : 0..MaxProfiles, target : 0..MaxTabs, blocked : BOOLEAN]
WebPage == [tab : 0..MaxTabs, place : 0..Web!Newest, field : Nat, clicks : Nat]
WebConn == [profile : 0..MaxProfiles, target : 0..MaxTabs, tab : 0..MaxTabs]
WebStages == {"idle", "launch", "stop", "forget", "save", "act", "work", "reload", "told"}
WebKinds == (UNION {Does[p] : p \in Procs}) \cup {"none", "switch"}

\* The types, a few variables at a time.
WebProfiles == launched \in 0..MaxProfiles /\ profiles \in SUBSET (1..launched)
WebOwner == owner \in [Web!TabIds -> 0..MaxProfiles] /\ opened \in 0..MaxTabs
WebPages == place \in [Web!TabIds -> 0..Web!Newest] /\ field \in [Web!TabIds -> Nat] /\ clicks \in [Web!TabIds -> Nat]
WebConns == conns \in [Procs -> WebConn]
WebStage == stage \in [Procs -> WebStages]
WebKind == kind \in [Procs -> WebKinds] /\ tab \in [Procs -> 0..MaxTabs]
WebSnap == stateFile \in WebFile /\ snap \in [Procs -> WebFile]
WebTry == try \in [Procs -> 0..2] /\ calls \in [Procs -> 0..(Letters + 1)]
WebMeant == meant \in [Procs -> 0..MaxTabs] /\ before \in [Procs -> WebPage]
WebHit == hit \in [Procs -> BOOLEAN]
WebTypes ==
    /\ WebProfiles /\ WebOwner /\ WebPages /\ WebConns /\ WebStage /\ WebKind /\ WebSnap
    /\ WebTry /\ WebMeant /\ WebHit

\* A tab that is open, or that is named, was opened.
WebTabs ==
    /\ \A t \in Web!TabIds : owner[t] # 0 => t <= opened
    /\ stateFile.target <= opened

\* What a process holds: the tabs it knows were opened, and its connection is to
\* the tab it was made for, as long as that is open.
WebHolds(p) ==
    /\ tab[p] <= opened /\ snap[p].target <= opened /\ conns[p].target <= opened
    /\ conns[p] # Web!NoConn => conns[p].tab # 0 /\ conns[p].profile # 0
    /\ conns[p].target \in Web!TabIds /\ conns[p].profile # 0 /\ owner[conns[p].target] = conns[p].profile => conns[p].tab = conns[p].target
    /\ stage[p] = "work" => conns[p] # Web!NoConn /\ meant[p] = conns[p].target /\ calls[p] < Web!Calls(p)

\* How far the calls of an attempt have come, and what a command does to its page.
WebShare(k, c) == CASE k = "type" -> c
                    [] k = "click" -> IF c > 2 THEN 1 ELSE 0
                    [] OTHER -> IF c > 0 THEN 1 ELSE 0
WebOnce(k) == IF k = "type" THEN Letters ELSE 1
WebMade(p, t, n) ==
    /\ kind[p] = "type" => field[t] = before[p].field + n
    /\ kind[p] = "click" => clicks[t] = before[p].clicks + n
    /\ kind[p] = "back" => place[t] + n = before[p].place
    /\ kind[p] = "forward" => place[t] = before[p].place + n

\* A command on a page: a first attempt may have done it, all or in part, and the
\* second does it again.
WebDoes(p) ==
    kind[p] \in Web!Pages =>
        /\ kind[p] \in Does[p]
        /\ stage[p] \in {"idle", "act", "work", "told"}
        /\ stage[p] \in {"act", "work", "told"} /\ try[p] = 2 => hit[p]
        /\ stage[p] = "act" /\ try[p] = 2 =>
               before[p].tab \in Web!TabIds /\ \E d \in 0..WebOnce(kind[p]) : WebMade(p, before[p].tab, d)
        /\ stage[p] \in {"work", "told"} =>
               /\ before[p].tab \in Web!TabIds /\ conns[p].tab = before[p].tab
               /\ \E d \in 0..WebOnce(kind[p]) :
                     (try[p] = 2 \/ d = 0) /\ WebMade(p, before[p].tab, d + WebShare(kind[p], calls[p]))
               /\ kind[p] = "retype" /\ calls[p] > 0 => field[before[p].tab] = calls[p] - 1
        /\ stage[p] = "told" => calls[p] = Web!Calls(p)

\* Who starts, and who stops, and the profile that is in the file.
WebRuns(p) ==
    /\ stage[p] = "launch" => kind[p] = "start"
    /\ stage[p] = "forget" => snap[p].profile \notin profiles
    /\ snap[p].profile <= launched
WebSaved ==
    /\ stateFile.profile <= launched
    /\ ~tabRaced => \A q \in profiles :
                    q = stateFile.profile \/ \E p \in Procs : stage[p] = "save" /\ kind[p] = "start" /\ snap[p].profile = q

WebInv ==
    /\ WebTypes /\ WebTabs /\ WebSaved
    /\ \A p \in Procs : WebHolds(p) /\ WebDoes(p) /\ WebRuns(p)

\* Nothing is there at first.
LEMMA WebBegins == Web!Init => WebInv
<1> SUFFICES ASSUME Web!Init PROVE WebInv
  OBVIOUS
<1>1. Web!NoFile \in WebFile /\ Web!Unknown \in WebPage /\ Web!NoConn \in WebConn
  BY BrowserAssumption DEF Web!NoFile, Web!Unknown, Web!NoConn, WebFile, WebPage, WebConn, Web!None, Web!Newest
<1>2. WebProfiles /\ WebOwner /\ WebPages
  BY BrowserAssumption DEF Web!Init, WebProfiles, WebOwner, WebPages, Web!None, Web!Newest
<1>3. WebConns /\ WebSnap
  BY <1>1 DEF Web!Init, WebConns, WebSnap
<1>4. WebStage /\ WebTry
  BY BrowserAssumption DEF Web!Init, WebStage, WebStages, WebTry
<1>5. WebKind
  BY BrowserAssumption DEF Web!Init, WebKind, WebKinds, Web!None
<1>6. WebMeant
  BY <1>1, BrowserAssumption DEF Web!Init, WebMeant, Web!None
<1>7. WebHit
  BY DEF Web!Init, WebHit
<1>8. WebTypes
  BY <1>2, <1>3, <1>4, <1>5, <1>6, <1>7 DEF WebTypes
<1>9. WebTabs
  BY DEF Web!Init, WebTabs, Web!NoFile, Web!None
<1>10. WebSaved
  BY DEF Web!Init, WebSaved, Web!NoFile, Web!None
<1>11. ASSUME NEW p \in Procs PROVE WebHolds(p) /\ WebDoes(p) /\ WebRuns(p)
  <2>1. kind[p] = "none" /\ stage[p] = "idle" /\ conns[p] = Web!NoConn /\ snap[p] = Web!NoFile /\ tab[p] = 0
    BY DEF Web!Init, Web!None
  <2>2. Web!NoConn.profile = 0 /\ Web!NoConn.target = 0 /\ Web!NoFile.profile = 0 /\ Web!NoFile.target = 0
    BY DEF Web!NoConn, Web!NoFile, Web!None
  <2>3. opened = 0 /\ launched = 0 /\ profiles = {} /\ "none" \notin Web!Pages
    BY DEF Web!Init, Web!Pages
  <2>4. WebHolds(p)
    BY <2>1, <2>2, <2>3 DEF WebHolds
  <2>5. QED
    BY <2>1, <2>2, <2>3, <2>4 DEF WebDoes, WebRuns
<1>12. QED
  BY <1>8, <1>9, <1>10, <1>11 DEF WebInv

\* What a step leaves alone keeps its type.
LEMMA WebFrames ==
    ASSUME WebTypes
    PROVE /\ UNCHANGED <<profiles, launched>> => WebProfiles'
          /\ UNCHANGED <<owner, opened>> => WebOwner'
          /\ UNCHANGED <<place, field, clicks>> => WebPages'
          /\ UNCHANGED <<conns>> => WebConns'
          /\ UNCHANGED <<stage>> => WebStage'
          /\ UNCHANGED <<kind, tab>> => WebKind'
          /\ UNCHANGED <<stateFile, snap>> => WebSnap'
          /\ UNCHANGED <<try, calls>> => WebTry'
          /\ UNCHANGED <<meant, before>> => WebMeant'
          /\ UNCHANGED <<hit>> => WebHit'
<1>1. UNCHANGED <<profiles, launched>> => WebProfiles'
  BY DEF WebTypes, WebProfiles
<1>2. UNCHANGED <<owner, opened>> => WebOwner'
  BY DEF WebTypes, WebOwner
<1>3. UNCHANGED <<place, field, clicks>> => WebPages'
  BY DEF WebTypes, WebPages
<1>4. UNCHANGED <<conns>> => WebConns'
  BY DEF WebTypes, WebConns
<1>5. UNCHANGED <<stage>> => WebStage'
  BY DEF WebTypes, WebStage
<1>6. UNCHANGED <<kind, tab>> => WebKind'
  BY DEF WebTypes, WebKind
<1>7. UNCHANGED <<stateFile, snap>> => WebSnap'
  BY DEF WebTypes, WebSnap
<1>8. UNCHANGED <<try, calls>> => WebTry'
  BY DEF WebTypes, WebTry
<1>9. UNCHANGED <<meant, before>> => WebMeant'
  BY DEF WebTypes, WebMeant
<1>10. UNCHANGED <<hit>> => WebHit'
  BY DEF WebTypes, WebHit
<1>11. QED
  BY <1>1, <1>2, <1>3, <1>4, <1>5, <1>6, <1>7, <1>8, <1>9, <1>10

\* What stands for nothing.
LEMMA WebNone ==
    /\ Web!NoFile \in WebFile /\ Web!NoFile.profile = 0 /\ Web!NoFile.target = 0
    /\ Web!NoConn \in WebConn /\ Web!NoConn.profile = 0 /\ Web!NoConn.target = 0 /\ Web!NoConn.tab = 0
    /\ Web!Unknown \in WebPage
    /\ \A n \in 0..MaxProfiles : [Web!NoFile EXCEPT !.profile = n] \in WebFile
                                 /\ [Web!NoFile EXCEPT !.profile = n].profile = n /\ [Web!NoFile EXCEPT !.profile = n].target = 0
<1>1. Web!NoFile \in WebFile /\ Web!NoFile.profile = 0 /\ Web!NoFile.target = 0
  BY BrowserAssumption DEF Web!NoFile, WebFile, Web!None
<1>2. Web!NoConn \in WebConn /\ Web!NoConn.profile = 0 /\ Web!NoConn.target = 0 /\ Web!NoConn.tab = 0
  BY BrowserAssumption DEF Web!NoConn, WebConn, Web!None
<1>3. Web!Unknown \in WebPage
  BY BrowserAssumption DEF Web!Unknown, WebPage, Web!None, Web!Newest
<1>4. ASSUME NEW n \in 0..MaxProfiles
      PROVE /\ [Web!NoFile EXCEPT !.profile = n] \in WebFile
            /\ [Web!NoFile EXCEPT !.profile = n].profile = n /\ [Web!NoFile EXCEPT !.profile = n].target = 0
  BY <1>1 DEF Web!NoFile, WebFile, Web!None
<1>5. QED
  BY <1>1, <1>2, <1>3, <1>4

\* A call is one of a few.
LEMMA FewCalls ==
    ASSUME NEW p \in Procs
    PROVE Web!Calls(p) \in 1..(Letters + 1)
BY BrowserAssumption DEF Web!Calls

\* A step of another process, or of a page, leaves what is true of a process: tabs
\* that were open are closed or not, others have new numbers, and profiles too; and
\* only its own calls touch the page that it works on.
LEMMA WebStay ==
    ASSUME WebInv, NEW q \in Procs,
           conns'[q] = conns[q], stage'[q] = stage[q], kind'[q] = kind[q], tab'[q] = tab[q], snap'[q] = snap[q],
           try'[q] = try[q], calls'[q] = calls[q], meant'[q] = meant[q], before'[q] = before[q], hit'[q] = hit[q],
           opened' \in Nat, opened <= opened',
           \A t \in Web!TabIds : t <= opened => owner'[t] \in {0, owner[t]},
           kind[q] \in Web!Pages => UNCHANGED <<place, field, clicks>>,
           profiles' \subseteq profiles \cup {launched + 1}, launched' \in {launched, launched + 1}
    PROVE (WebHolds(q) /\ WebDoes(q) /\ WebRuns(q))'
<1>0. WebHolds(q) /\ WebDoes(q) /\ WebRuns(q) /\ WebTypes
  BY DEF WebInv
<1>1. /\ opened \in Nat /\ tab[q] \in Nat /\ snap[q] \in WebFile /\ conns[q] \in WebConn /\ launched \in Nat
      /\ snap[q].target \in Nat /\ snap[q].profile \in Nat /\ conns[q].target \in Nat /\ conns[q].profile \in Nat
  BY <1>0, BrowserAssumption DEF WebTypes, WebOwner, WebKind, WebSnap, WebConns, WebProfiles, WebFile, WebConn
<1>2. Web!Calls(q)' = Web!Calls(q)
  BY DEF Web!Calls
<1>3. WebHolds(q)'
  <2>1. tab'[q] <= opened' /\ snap'[q].target <= opened' /\ conns'[q].target <= opened'
    BY <1>0, <1>1 DEF WebHolds
  <2>2. conns'[q] # Web!NoConn => conns'[q].tab # 0 /\ conns'[q].profile # 0
    BY <1>0 DEF WebHolds
  <2>3. conns'[q].target \in Web!TabIds /\ conns'[q].profile # 0 /\ owner'[conns'[q].target] = conns'[q].profile => conns'[q].tab = conns'[q].target
    <3>1. SUFFICES ASSUME conns[q].target \in Web!TabIds, conns[q].profile # 0, owner'[conns[q].target] = conns[q].profile
                   PROVE conns[q].tab = conns[q].target
      OBVIOUS
    <3>2. conns[q].target <= opened
      BY <1>0 DEF WebHolds
    <3>3. owner[conns[q].target] = conns[q].profile
      BY <3>1, <3>2
    <3>4. QED
      BY <3>1, <3>3, <1>0 DEF WebHolds
  <2>4. stage'[q] = "work" => conns'[q] # Web!NoConn /\ meant'[q] = conns'[q].target /\ calls'[q] < Web!Calls(q)'
    BY <1>0, <1>2 DEF WebHolds
  <2>5. QED
    BY <2>1, <2>2, <2>3, <2>4 DEF WebHolds
<1>4. WebDoes(q)'
  <2>1. SUFFICES ASSUME kind[q] \in Web!Pages PROVE WebDoes(q)'
    BY DEF WebDoes, Web!Pages
  <2>2. \A t, n : WebMade(q, t, n)' <=> WebMade(q, t, n)
    BY <2>1 DEF WebMade
  <2>3. QED
    BY <2>1, <2>2, <1>0, <1>2 DEF WebDoes
<1>5. WebRuns(q)'
  BY <1>0, <1>1 DEF WebRuns
<1>6. QED
  BY <1>3, <1>4, <1>5

\* A command begins: it reads the file, and remembers what the page has.
LEMMA WebBegin ==
    ASSUME WebInv, NEW p \in Procs, NEW k, NEW t \in 0..opened, Web!Begin(p, k, t)
    PROVE WebInv'
<1>0. /\ WebProfiles /\ WebOwner /\ WebPages /\ WebConns /\ WebStage /\ WebKind /\ WebSnap
      /\ WebTry /\ WebMeant /\ WebHit /\ WebTabs /\ WebSaved
      /\ \A q \in Procs : WebHolds(q) /\ WebDoes(q) /\ WebRuns(q)
  BY DEF WebInv, WebTypes
<1>h. WebHolds(p) /\ WebDoes(p) /\ WebRuns(p) /\ opened \in Nat /\ launched \in Nat /\ snap[p] \in WebFile /\ conns[p] \in WebConn /\ stateFile \in WebFile
  BY <1>0, BrowserAssumption DEF WebOwner, WebProfiles, WebSnap, WebConns
<1>f. PICK f \in WebFile : /\ f = IF stateFile.profile \in profiles THEN stateFile ELSE Web!NoFile
                       /\ f.target <= opened /\ f.profile <= launched
  <2>1. stateFile.target <= opened /\ stateFile.profile <= launched
    BY <1>0 DEF WebTabs, WebSaved
  <2>2. CASE stateFile.profile \in profiles
    BY <2>1, <2>2, <1>h
  <2>3. CASE stateFile.profile \notin profiles
    BY <2>3, <1>h, <1>0, WebNone, BrowserAssumption DEF WebOwner, WebProfiles
  <2>4. QED
    BY <2>2, <2>3
<1>a. /\ stage[p] = "idle" /\ k \in Does[p]
      /\ stateFile' = f
      /\ snap' = [snap EXCEPT ![p] = f]
      /\ stage' = [stage EXCEPT ![p] = CASE k = "start" -> IF f = Web!NoFile THEN "launch" ELSE "idle"
                [] k = "stop" -> IF f = Web!NoFile THEN "idle" ELSE "stop"
                [] OTHER -> IF f = Web!NoFile THEN "idle"
                            ELSE IF k = "block" THEN "save" ELSE "act"]
      /\ tab' = [tab EXCEPT ![p] = IF k = "close" /\ t = Web!None THEN f.target ELSE t]
      /\ kind' = [kind EXCEPT ![p] = k]
      /\ try' = [try EXCEPT ![p] = 1]
      /\ hit' = [hit EXCEPT ![p] = FALSE]
      /\ before' = [before EXCEPT ![p] = Web!Unknown]
      /\ conns' = IF k \in {"start", "stop"} THEN [conns EXCEPT ![p] = Web!NoConn] ELSE conns
  BY <1>f DEF Web!Begin, Web!Set
<1>x. PICK s \in WebStages, c \in WebConn, u \in 0..opened :
      /\ stage' = [stage EXCEPT ![p] = s] /\ conns' = [conns EXCEPT ![p] = c] /\ tab' = [tab EXCEPT ![p] = u]
      /\ s \in {"idle", "launch", "stop", "save", "act"} /\ (s = "launch" => k = "start")
      /\ (s = "save" => k = "block") /\ (k \in Web!Pages => s \in {"idle", "act"})
      /\ (c = conns[p] \/ c = Web!NoConn)
  <2> DEFINE s == CASE k = "start" -> IF f = Web!NoFile THEN "launch" ELSE "idle"
                [] k = "stop" -> IF f = Web!NoFile THEN "idle" ELSE "stop"
                [] OTHER -> IF f = Web!NoFile THEN "idle"
                            ELSE IF k = "block" THEN "save" ELSE "act"
             u == IF k = "close" /\ t = Web!None THEN f.target ELSE t
             c == IF k \in {"start", "stop"} THEN Web!NoConn ELSE conns[p]
  <2>1. /\ s \in {"idle", "launch", "stop", "save", "act"} /\ (s = "launch" => k = "start")
        /\ (s = "save" => k = "block") /\ (k \in Web!Pages => s \in {"idle", "act"})
    BY DEF Web!Pages
  <2>2. u \in 0..opened
    BY <1>f, <1>h DEF WebFile
  <2>3. c \in WebConn /\ (c = conns[p] \/ c = Web!NoConn) /\ conns' = [conns EXCEPT ![p] = c]
    <3>1. c \in WebConn /\ (c = conns[p] \/ c = Web!NoConn)
      BY <1>h, WebNone
    <3>2. CASE k \in {"start", "stop"}
      BY <3>1, <3>2, <1>a
    <3>3. CASE k \notin {"start", "stop"}
      BY <3>1, <3>3, <1>a, <1>0 DEF WebConns
    <3>4. QED
      BY <3>1, <3>2, <3>3
  <2>4. stage' = [stage EXCEPT ![p] = s] /\ tab' = [tab EXCEPT ![p] = u]
    BY <1>a
  <2>5. s \in WebStages
    BY <2>1 DEF WebStages
  <2> HIDE DEF s, u, c
  <2>6. QED
    BY <2>1, <2>2, <2>3, <2>4, <2>5
<1>u. UNCHANGED <<profiles, launched, owner, opened, place, field, clicks, calls, meant, webFaults, tabRaced>>
  BY DEF Web!Begin, Web!browser, Web!tabsAndPages, Web!counters
<1>w. /\ conns'[p] = c /\ \A q \in Procs : q # p => conns'[q] = conns[q]
      /\ stage'[p] = s /\ \A q \in Procs : q # p => stage'[q] = stage[q]
      /\ kind'[p] = k /\ \A q \in Procs : q # p => kind'[q] = kind[q]
      /\ tab'[p] = u /\ \A q \in Procs : q # p => tab'[q] = tab[q]
      /\ snap'[p] = f /\ \A q \in Procs : q # p => snap'[q] = snap[q]
      /\ try'[p] = 1 /\ \A q \in Procs : q # p => try'[q] = try[q]
      /\ before'[p] = Web!Unknown /\ \A q \in Procs : q # p => before'[q] = before[q]
      /\ hit'[p] = FALSE /\ \A q \in Procs : q # p => hit'[q] = hit[q]
  BY <1>0, <1>a, <1>x DEF WebConns, WebHit, WebKind, WebMeant, WebSnap, WebStage, WebTry
<1>WebConns. WebConns'
  BY <1>0, <1>x DEF WebConns
<1>WebStage. WebStage'
  BY <1>0, <1>x DEF WebStage
<1>WebKind. WebKind'
  <2>1. k \in WebKinds
    BY <1>a DEF WebKinds
  <2>2. u \in 0..MaxTabs
    BY <1>0, <1>x, BrowserAssumption DEF WebOwner
  <2>3. QED
    BY <2>1, <2>2, <1>0, <1>a, <1>x DEF WebKind
<1>WebSnap. WebSnap'
  BY <1>0, <1>a DEF WebSnap
<1>WebTry. WebTry'
  BY <1>0, <1>a, <1>u DEF WebTry
<1>WebMeant. WebMeant'
  <2>1. Web!Unknown \in WebPage
    BY WebNone
  <2>2. QED
    BY <2>1, <1>0, <1>a, <1>u DEF WebMeant
<1>WebHit. WebHit'
  BY <1>0, <1>a DEF WebHit
<1>t. WebTypes'
  BY <1>0, <1>u, WebFrames, <1>WebConns, <1>WebStage, <1>WebKind, <1>WebSnap, <1>WebTry, <1>WebMeant, <1>WebHit DEF WebTypes
<1>b. WebTabs'
  BY <1>0, <1>f, <1>a, <1>u DEF WebTabs
<1>s. WebSaved'
  <2>1. f.profile <= launched
    BY <1>f
  <2>2. ASSUME ~tabRaced, NEW q \in profiles
        PROVE q = f.profile \/ \E r \in Procs : stage'[r] = "save" /\ kind'[r] = "start" /\ snap'[r].profile = q
    <3>1. CASE q = stateFile.profile
      BY <3>1, <1>f
    <3>2. CASE \E r \in Procs : stage[r] = "save" /\ kind[r] = "start" /\ snap[r].profile = q
      <4>1. PICK r \in Procs : stage[r] = "save" /\ kind[r] = "start" /\ snap[r].profile = q
        BY <3>2
      <4>2. r # p
        BY <4>1, <1>a
      <4>3. QED
        BY <4>1, <4>2, <1>w
    <3>3. QED
      BY <3>1, <3>2, <2>2, <1>0 DEF WebSaved
  <2>3. QED
    BY <2>1, <2>2, <1>a, <1>u DEF WebSaved
<1>p. WebHolds(p)'
  <2>1. c.target <= opened /\ (c # Web!NoConn => c.tab # 0 /\ c.profile # 0)
        /\ (c.target \in Web!TabIds /\ c.profile # 0 /\ owner[c.target] = c.profile => c.tab = c.target)
    BY <1>h, <1>x DEF WebHolds, Web!NoConn, Web!None
  <2>2. QED
    BY <2>1, <1>f, <1>u, <1>w, <1>x DEF WebHolds
<1>d. WebDoes(p)'
  BY <1>w, <1>x, <1>a DEF WebDoes
<1>r. WebRuns(p)'
  BY <1>f, <1>u, <1>w, <1>x DEF WebRuns
<1>o. ASSUME NEW q \in Procs, q # p PROVE (WebHolds(q) /\ WebDoes(q) /\ WebRuns(q))'
  BY <1>0, <1>h, <1>o, <1>u, <1>w, WebStay
<1>9. QED
  BY <1>t, <1>b, <1>s, <1>p, <1>d, <1>r, <1>o DEF WebInv

\* A profile is launched.
LEMMA WebLaunch ==
    ASSUME WebInv, NEW p \in Procs, Web!Launch(p)
    PROVE WebInv'
<1>0. /\ WebProfiles /\ WebOwner /\ WebPages /\ WebConns /\ WebStage /\ WebKind /\ WebSnap
      /\ WebTry /\ WebMeant /\ WebHit /\ WebTabs /\ WebSaved
      /\ \A q \in Procs : WebHolds(q) /\ WebDoes(q) /\ WebRuns(q)
  BY DEF WebInv, WebTypes
<1>h. WebHolds(p) /\ WebDoes(p) /\ WebRuns(p) /\ opened \in Nat /\ launched \in Nat /\ snap[p] \in WebFile /\ conns[p] \in WebConn /\ stateFile \in WebFile
  BY <1>0, BrowserAssumption DEF WebOwner, WebProfiles, WebSnap, WebConns
<1>a. /\ stage[p] = "launch" /\ launched < MaxProfiles
      /\ launched' = launched + 1
      /\ profiles' = profiles \cup {launched + 1}
      /\ snap' = [snap EXCEPT ![p] = [Web!NoFile EXCEPT !.profile = launched + 1]]
      /\ stage' = [stage EXCEPT ![p] = "save"]
  BY DEF Web!Launch, Web!Set
<1>f. PICK f \in WebFile : snap' = [snap EXCEPT ![p] = f] /\ f.profile = launched + 1 /\ f.target = 0
  <2>1. launched + 1 \in 0..MaxProfiles
    BY <1>a, <1>h, BrowserAssumption
  <2>2. QED
    BY <2>1, <1>a, WebNone
<1>u. UNCHANGED <<stateFile, owner, opened, place, field, clicks, conns, kind, tab, try, calls, meant, before, hit, commands, webFaults, tabRaced>>
  BY DEF Web!Launch, Web!browser, Web!tabsAndPages, Web!counters
<1>w. /\ stage'[p] = "save" /\ \A q \in Procs : q # p => stage'[q] = stage[q]
      /\ snap'[p] = f /\ \A q \in Procs : q # p => snap'[q] = snap[q]
  BY <1>0, <1>f, <1>a DEF WebSnap, WebStage, Web!Set
<1>WebProfiles. WebProfiles'
  BY <1>0, <1>a, <1>h, BrowserAssumption DEF WebProfiles
<1>WebStage. WebStage'
  BY <1>0, <1>a DEF WebStage, WebStages, Web!Set
<1>WebSnap. WebSnap'
  BY <1>0, <1>f, <1>u DEF WebSnap
<1>t. WebTypes'
  BY <1>0, <1>u, WebFrames, <1>WebProfiles, <1>WebStage, <1>WebSnap DEF WebTypes
<1>b. WebTabs'
  BY <1>0, <1>u DEF WebTabs
<1>s. WebSaved'
  <2>1. stateFile.profile <= launched'
    BY <1>0, <1>h, <1>a DEF WebSaved, WebFile
  <2>2. ASSUME ~tabRaced, NEW q \in profiles'
        PROVE q = stateFile.profile \/ \E r \in Procs : stage'[r] = "save" /\ kind'[r] = "start" /\ snap'[r].profile = q
    <3>1. CASE q = launched + 1
      BY <3>1, <1>f, <1>a, <1>w, <1>u, <1>h DEF WebRuns
    <3>2. CASE \E r \in Procs : stage[r] = "save" /\ kind[r] = "start" /\ snap[r].profile = q
      <4>1. PICK r \in Procs : stage[r] = "save" /\ kind[r] = "start" /\ snap[r].profile = q
        BY <3>2
      <4>2. r # p
        BY <4>1, <1>a
      <4>3. QED
        BY <4>1, <4>2, <1>w, <1>u
    <3>3. QED
      BY <3>1, <3>2, <2>2, <1>0, <1>a DEF WebSaved
  <2>3. QED
    BY <2>1, <2>2, <1>u DEF WebSaved
<1>p. WebHolds(p)'
  BY <1>h, <1>f, <1>a, <1>u, <1>w DEF WebHolds
<1>d. WebDoes(p)'
  <2>1. kind[p] \notin Web!Pages
    BY <1>h, <1>a DEF WebRuns, Web!Pages
  <2>2. QED
    BY <2>1, <1>u DEF WebDoes, Web!Pages
<1>r. WebRuns(p)'
  BY <1>h, <1>f, <1>a, <1>u, <1>w DEF WebRuns
<1>o. ASSUME NEW q \in Procs, q # p PROVE (WebHolds(q) /\ WebDoes(q) /\ WebRuns(q))'
  BY <1>0, <1>h, <1>a, <1>o, <1>u, <1>w, WebStay
<1>9. QED
  BY <1>t, <1>b, <1>s, <1>p, <1>d, <1>r, <1>o DEF WebInv

\* The browser of a profile is stopped.
LEMMA WebStopProfile ==
    ASSUME WebInv, NEW p \in Procs, Web!StopProfile(p)
    PROVE WebInv'
<1>0. /\ WebProfiles /\ WebOwner /\ WebPages /\ WebConns /\ WebStage /\ WebKind /\ WebSnap
      /\ WebTry /\ WebMeant /\ WebHit /\ WebTabs /\ WebSaved
      /\ \A q \in Procs : WebHolds(q) /\ WebDoes(q) /\ WebRuns(q)
  BY DEF WebInv, WebTypes
<1>h. WebHolds(p) /\ WebDoes(p) /\ WebRuns(p) /\ opened \in Nat /\ launched \in Nat /\ snap[p] \in WebFile /\ conns[p] \in WebConn /\ stateFile \in WebFile
  BY <1>0, BrowserAssumption DEF WebOwner, WebProfiles, WebSnap, WebConns
<1>a. /\ stage[p] = "stop"
      /\ profiles' = profiles \ {snap[p].profile}
      /\ owner' = [t \in Web!TabIds |-> IF owner[t] = snap[p].profile THEN Web!None ELSE owner[t]]
      /\ stage' = [stage EXCEPT ![p] = "forget"]
  BY DEF Web!StopProfile, Web!Set
<1>n. \A t \in Web!TabIds : owner'[t] \in {0, owner[t]}
  BY <1>a DEF Web!None
<1>u. UNCHANGED <<stateFile, launched, opened, place, field, clicks, conns, kind, tab, snap, try, calls, meant, before, hit, commands, webFaults, tabRaced>>
  BY DEF Web!StopProfile, Web!browser, Web!tabsAndPages, Web!counters
<1>w. /\ stage'[p] = "forget" /\ \A q \in Procs : q # p => stage'[q] = stage[q]
  BY <1>0, <1>a DEF WebStage, Web!Set
<1>WebProfiles. WebProfiles'
  BY <1>0, <1>a, <1>u DEF WebProfiles
<1>WebOwner. WebOwner'
  BY <1>0, <1>a, <1>u, BrowserAssumption DEF WebOwner, Web!None
<1>WebStage. WebStage'
  BY <1>0, <1>a DEF WebStage, WebStages, Web!Set
<1>t. WebTypes'
  BY <1>0, <1>u, WebFrames, <1>WebProfiles, <1>WebOwner, <1>WebStage DEF WebTypes
<1>b. WebTabs'
  BY <1>0, <1>n, <1>u DEF WebTabs
<1>s. WebSaved'
  <2>1. ASSUME ~tabRaced, NEW q \in profiles
        PROVE q = stateFile.profile \/ \E r \in Procs : stage'[r] = "save" /\ kind'[r] = "start" /\ snap'[r].profile = q
    <3>2. CASE \E r \in Procs : stage[r] = "save" /\ kind[r] = "start" /\ snap[r].profile = q
      <4>1. PICK r \in Procs : stage[r] = "save" /\ kind[r] = "start" /\ snap[r].profile = q
        BY <3>2
      <4>2. r # p
        BY <4>1, <1>a
      <4>3. QED
        BY <4>1, <4>2, <1>w, <1>u
    <3>3. QED
      BY <3>2, <2>1, <1>0 DEF WebSaved
  <2>2. QED
    BY <2>1, <1>0, <1>a, <1>u DEF WebSaved
<1>p. WebHolds(p)'
  <2>1. conns[p].target \in Web!TabIds /\ conns[p].profile # 0 /\ owner'[conns[p].target] = conns[p].profile => conns[p].tab = conns[p].target
    BY <1>h, <1>n DEF WebHolds
  <2>2. QED
    BY <2>1, <1>h, <1>u, <1>w DEF WebHolds
<1>d. WebDoes(p)'
  <2>1. kind[p] \notin Web!Pages
    BY <1>h, <1>a DEF WebDoes
  <2>2. QED
    BY <2>1, <1>u DEF WebDoes, Web!Pages
<1>r. WebRuns(p)'
  BY <1>h, <1>a, <1>u, <1>w DEF WebRuns
<1>o. ASSUME NEW q \in Procs, q # p PROVE (WebHolds(q) /\ WebDoes(q) /\ WebRuns(q))'
  BY <1>0, <1>h, <1>a, <1>n, <1>o, <1>u, <1>w, WebStay
<1>9. QED
  BY <1>t, <1>b, <1>s, <1>p, <1>d, <1>r, <1>o DEF WebInv

\* The file forgets a profile that is stopped.
LEMMA WebForget ==
    ASSUME WebInv, NEW p \in Procs, Web!Forget(p)
    PROVE WebInv'
<1>0. /\ WebProfiles /\ WebOwner /\ WebPages /\ WebConns /\ WebStage /\ WebKind /\ WebSnap
      /\ WebTry /\ WebMeant /\ WebHit /\ WebTabs /\ WebSaved
      /\ \A q \in Procs : WebHolds(q) /\ WebDoes(q) /\ WebRuns(q)
  BY DEF WebInv, WebTypes
<1>h. WebHolds(p) /\ WebDoes(p) /\ WebRuns(p) /\ opened \in Nat /\ launched \in Nat /\ snap[p] \in WebFile /\ conns[p] \in WebConn /\ stateFile \in WebFile
  BY <1>0, BrowserAssumption DEF WebOwner, WebProfiles, WebSnap, WebConns
<1>a. /\ stage[p] = "forget"
      /\ stateFile' = Web!NoFile
      /\ stage' = [stage EXCEPT ![p] = "idle"]
      /\ tabRaced' = (tabRaced \/ stateFile \notin {snap[p], Web!NoFile})
  BY DEF Web!Forget, Web!Set
<1>n. Web!NoFile \in WebFile /\ Web!NoFile.target = 0 /\ Web!NoFile.profile = 0
  BY BrowserAssumption DEF Web!NoFile, WebFile, Web!None
<1>u. UNCHANGED <<profiles, launched, owner, opened, place, field, clicks, conns, kind, tab, snap, try, calls, meant, before, hit, commands, webFaults>>
  BY DEF Web!Forget, Web!browser, Web!tabsAndPages, Web!counters
<1>w. /\ stage'[p] = "idle" /\ \A q \in Procs : q # p => stage'[q] = stage[q]
  BY <1>0, <1>a DEF WebStage, Web!Set
<1>WebStage. WebStage'
  BY <1>0, <1>a DEF WebStage, WebStages, Web!Set
<1>WebSnap. WebSnap'
  BY <1>0, <1>a, <1>n, <1>u DEF WebSnap
<1>t. WebTypes'
  BY <1>0, <1>u, WebFrames, <1>WebStage, <1>WebSnap DEF WebTypes
<1>b. WebTabs'
  BY <1>0, <1>a, <1>n, <1>h, <1>u DEF WebTabs
<1>s. WebSaved'
  <2>1. ASSUME ~tabRaced', NEW q \in profiles
        PROVE \E r \in Procs : stage'[r] = "save" /\ kind'[r] = "start" /\ snap'[r].profile = q
    <3>1. ~tabRaced /\ stateFile \in {snap[p], Web!NoFile}
      BY <2>1, <1>a
    <3>2. q # stateFile.profile
      BY <3>1, <1>h, <1>a, <1>n, <1>0 DEF WebRuns, WebProfiles
    <3>3. PICK r \in Procs : stage[r] = "save" /\ kind[r] = "start" /\ snap[r].profile = q
      BY <3>1, <3>2, <1>0 DEF WebSaved
    <3>4. r # p
      BY <3>3, <1>a
    <3>5. QED
      BY <3>3, <3>4, <1>w, <1>u
  <2>2. QED
    BY <2>1, <1>a, <1>n, <1>h, <1>u DEF WebSaved
<1>p. WebHolds(p)'
  BY <1>h, <1>u, <1>w DEF WebHolds
<1>d. WebDoes(p)'
  BY <1>h, <1>a, <1>u, <1>w DEF WebDoes
<1>r. WebRuns(p)'
  BY <1>h, <1>a, <1>u, <1>w DEF WebRuns
<1>o. ASSUME NEW q \in Procs, q # p PROVE (WebHolds(q) /\ WebDoes(q) /\ WebRuns(q))'
  BY <1>0, <1>h, <1>o, <1>u, <1>w, WebStay
<1>9. QED
  BY <1>t, <1>b, <1>s, <1>p, <1>d, <1>r, <1>o DEF WebInv

\* A command comes to have its connection: the one it keeps, or one to the active
\* tab, to some tab or to a new one.
LEMMA WebAttach ==
    ASSUME WebInv, NEW p \in Procs, NEW t \in 0..MaxTabs, stateFile.profile \in profiles,
           IF Web!Cached(p) THEN t = conns[p].tab /\ UNCHANGED <<owner, opened, conns>> ELSE Web!Attach(p, t)
    PROVE \E c \in WebConn :
              /\ conns' = [conns EXCEPT ![p] = c] /\ c.tab = t /\ t \in Web!TabIds /\ c.target = stateFile.target /\ c.profile = stateFile.profile
              /\ stateFile.target \in Web!TabIds /\ owner'[stateFile.target] = stateFile.profile => t = stateFile.target
              /\ WebOwner' /\ opened' \in Nat /\ opened <= opened'
              /\ \A x \in Web!TabIds : x <= opened => owner'[x] = owner[x]
              /\ \A x \in Web!TabIds : owner'[x] # 0 => x <= opened'
<1>0. /\ opened \in Nat /\ conns[p] \in WebConn /\ stateFile \in WebFile /\ WebOwner /\ conns \in [Procs -> WebConn]
      /\ stateFile.target <= opened /\ (\A x \in Web!TabIds : owner[x] # 0 => x <= opened) /\ WebHolds(p)
      /\ stateFile.profile # 0 /\ stateFile.profile \in 0..MaxProfiles /\ stateFile.target \in 0..MaxTabs /\ opened \in 0..MaxTabs
  BY BrowserAssumption DEF WebInv, WebTypes, WebOwner, WebSnap, WebConns, WebTabs, WebProfiles, WebFile
<1>1. CASE Web!Cached(p)
  <2>1. conns[p] # Web!NoConn /\ conns[p].profile = stateFile.profile /\ conns[p].target = stateFile.target /\ t = conns[p].tab
    BY <1>1, Zenon DEF Web!Cached
  <2>2. conns[p].tab # 0 /\ (stateFile.target \in Web!TabIds /\ owner[stateFile.target] = stateFile.profile => conns[p].tab = stateFile.target)
    BY <1>0, <2>1 DEF WebHolds
  <2>3. t \in Web!TabIds
    BY <2>1, <2>2 DEF Web!TabIds
  <2>4. UNCHANGED <<owner, opened, conns>>
    BY <1>1
  <2>5. conns' = [conns EXCEPT ![p] = conns[p]]
    BY <2>4, <1>0
  <2>6. WebOwner'
    BY <2>4, <1>0 DEF WebOwner
  <2>7. QED
    BY <2>1, <2>2, <2>3, <2>4, <2>5, <2>6, <1>0
<1>2. CASE ~Web!Cached(p)
  <2> DEFINE c == [profile |-> stateFile.profile, target |-> stateFile.target, tab |-> t]
  <2>1. /\ IF stateFile.target \in Web!Open(stateFile.profile) THEN t = stateFile.target
           ELSE IF Web!Open(stateFile.profile) # {} THEN t \in Web!Open(stateFile.profile)
           ELSE opened < MaxTabs /\ t = opened + 1
        /\ IF t = opened + 1 THEN owner' = [owner EXCEPT ![t] = stateFile.profile] /\ opened' = t
           ELSE UNCHANGED <<owner, opened>>
        /\ conns' = [conns EXCEPT ![p] = c]
    BY <1>2 DEF Web!Attach, Web!Set
  <2>2. c \in WebConn /\ c.tab = t /\ c.target = stateFile.target /\ c.profile = stateFile.profile
    BY <1>0 DEF WebConn
  <2>3. \A x \in Web!Open(stateFile.profile) : x \in Web!TabIds /\ x <= opened /\ x # opened + 1 /\ owner[x] = stateFile.profile
    BY <1>0 DEF Web!Open, Web!TabIds
  <2>4. stateFile.target \notin Web!Open(stateFile.profile) => ~(stateFile.target \in Web!TabIds /\ owner[stateFile.target] = stateFile.profile)
    BY DEF Web!Open
  <2>5. CASE t = opened + 1
    <3>1. stateFile.target \notin Web!Open(stateFile.profile) /\ opened < MaxTabs /\ t \in Web!TabIds
      BY <2>1, <2>3, <2>5, <1>0 DEF Web!TabIds
    <3>2. owner' = [owner EXCEPT ![t] = stateFile.profile] /\ opened' = t
      BY <2>1, <2>5
    <3>3. /\ \A x \in Web!TabIds : owner'[x] = IF x = t THEN stateFile.profile ELSE owner[x]
          /\ opened' = opened + 1
      BY <3>2, <2>5, <1>0 DEF WebOwner
    <3>4. WebOwner'
      BY <3>1, <3>2, <1>0 DEF WebOwner, Web!TabIds
    <3>5. /\ \A x \in Web!TabIds : x <= opened => owner'[x] = owner[x]
          /\ \A x \in Web!TabIds : owner'[x] # 0 => x <= opened'
      BY <3>3, <2>5, <1>0 DEF Web!TabIds
    <3>6. stateFile.target \in Web!TabIds /\ owner'[stateFile.target] = stateFile.profile => t = stateFile.target
      BY <3>1, <3>3, <2>4
    <3>7. opened' \in Nat /\ opened <= opened'
      BY <3>3, <1>0
    <3>8. conns' = [conns EXCEPT ![p] = c]
      BY <2>1
    <3> HIDE DEF c
    <3>9. QED
      BY <2>2, <3>1, <3>4, <3>5, <3>6, <3>7, <3>8
  <2>6. CASE t # opened + 1
    <3>1. t \in Web!TabIds /\ UNCHANGED <<owner, opened>>
      BY <2>1, <2>3, <2>6
    <3>2. stateFile.target \in Web!TabIds /\ owner[stateFile.target] = stateFile.profile => t = stateFile.target
      BY <2>1, <2>4
    <3>3. WebOwner'
      BY <3>1, <1>0 DEF WebOwner
    <3>4. conns' = [conns EXCEPT ![p] = c]
      BY <2>1
    <3>5. opened' \in Nat /\ opened <= opened' /\ owner' = owner /\ opened' = opened
      BY <3>1, <1>0
    <3>6. \A x \in Web!TabIds : owner'[x] # 0 => x <= opened'
      BY <3>5, <1>0
    <3>7. stateFile.target \in Web!TabIds /\ owner'[stateFile.target] = stateFile.profile => t = stateFile.target
      BY <3>2, <3>5
    <3> HIDE DEF c
    <3>8. QED
      BY <2>2, <3>1, <3>3, <3>4, <3>5, <3>6, <3>7
  <2>7. QED
    BY <2>5, <2>6
<1>3. QED
  BY <1>1, <1>2

\* What one call does: to the tabs, and to the page it is about.
LEMMA WebEffect ==
    ASSUME WebInv, NEW p \in Procs, stage[p] = "work", ~Web!Wrong(p), Web!Effect(p)
    PROVE /\ WebOwner' /\ WebPages' /\ opened' \in Nat /\ opened <= opened'
          /\ \A x \in Web!TabIds : x <= opened => owner'[x] \in {0, owner[x]}
          /\ \A x \in Web!TabIds : owner'[x] # 0 => x <= opened'
          /\ kind[p] = "new" => opened' = opened + 1
          /\ kind[p] \notin Web!Pages => UNCHANGED <<place, field, clicks>>
          /\ kind[p] = "type" => field'[conns[p].tab] = field[conns[p].tab] + 1
          /\ kind[p] = "retype" => field'[conns[p].tab] = IF calls[p] = 0 THEN 0 ELSE field[conns[p].tab] + 1
          /\ kind[p] = "click" => clicks'[conns[p].tab] = clicks[conns[p].tab] + IF calls[p] = 2 THEN 1 ELSE 0
          /\ kind[p] = "back" => place'[conns[p].tab] = place[conns[p].tab] - IF calls[p] = 0 THEN 1 ELSE 0
          /\ kind[p] = "forward" => place'[conns[p].tab] = place[conns[p].tab] + IF calls[p] = 0 THEN 1 ELSE 0
<1> DEFINE t == conns[p].tab
<1>0. /\ opened \in 0..MaxTabs /\ opened \in Nat /\ conns[p] \in WebConn /\ WebOwner /\ WebPages
      /\ (\A x \in Web!TabIds : owner[x] # 0 => x <= opened) /\ conns[p] # Web!NoConn /\ t # 0 /\ tab[p] \in 0..MaxTabs
  BY BrowserAssumption DEF WebInv, WebTypes, WebOwner, WebConns, WebTabs, WebHolds, WebKind
<1>1. t \in Web!TabIds /\ conns[p].profile \in 0..MaxProfiles
  BY <1>0 DEF WebConn, Web!TabIds
<1>2. owner' = Web!OwnerAfter(p) /\ opened' = IF kind[p] = "new" THEN opened + 1 ELSE opened
  BY Zenon DEF Web!Effect
<1>3. place' = Web!PlaceAfter(p) /\ field' = Web!FieldAfter(p) /\ clicks' = Web!ClicksAfter(p)
  BY Zenon DEF Web!Effect
<1>4. /\ kind[p] = "back" /\ calls[p] = 0 => place[t] # 0
      /\ kind[p] = "forward" /\ calls[p] = 0 => place[t] # Web!Newest
      /\ kind[p] = "new" => opened # MaxTabs
  BY DEF Web!Wrong, Web!Here
<1>5. /\ WebOwner' /\ opened' \in Nat /\ opened <= opened'
      /\ \A x \in Web!TabIds : x <= opened => owner'[x] \in {0, owner[x]}
      /\ \A x \in Web!TabIds : owner'[x] # 0 => x <= opened'
      /\ kind[p] = "new" => opened' = opened + 1
  <2>1. CASE kind[p] = "new"
    <3>1. owner' = [owner EXCEPT ![opened + 1] = conns[p].profile] /\ opened' = opened + 1 /\ opened + 1 \in Web!TabIds
      BY <2>1, <1>2, <1>4, <1>0, BrowserAssumption DEF Web!OwnerAfter, Web!Set, Web!TabIds
    <3>2. \A x \in Web!TabIds : owner'[x] = IF x = opened + 1 THEN conns[p].profile ELSE owner[x]
      BY <3>1, <1>0 DEF WebOwner
    <3>3. WebOwner'
      BY <3>1, <1>0, <1>1 DEF WebOwner, Web!TabIds
    <3>4. QED
      BY <3>1, <3>2, <3>3, <1>0 DEF Web!TabIds
  <2>2. CASE kind[p] = "close" /\ tab[p] # Web!None
    <3>1. owner' = [owner EXCEPT ![tab[p]] = 0] /\ opened' = opened
      BY <2>2, <1>2 DEF Web!OwnerAfter, Web!Set, Web!None
    <3>2. \A x \in Web!TabIds : owner'[x] \in {0, owner[x]}
      BY <3>1, <1>0 DEF WebOwner
    <3>a. 0 \in 0..MaxProfiles /\ owner \in [Web!TabIds -> 0..MaxProfiles]
      BY <1>0, BrowserAssumption DEF WebOwner
    <3>b. owner' \in [Web!TabIds -> 0..MaxProfiles]
      BY <3>1, <3>a
    <3>3. WebOwner'
      BY <3>b, <3>1, <1>0 DEF WebOwner
    <3>4. QED
      BY <2>2, <3>1, <3>2, <3>3, <1>0
  <2>3. CASE kind[p] # "new" /\ ~(kind[p] = "close" /\ tab[p] # Web!None)
    <3>1. owner' = owner /\ opened' = opened
      BY <2>3, <1>2 DEF Web!OwnerAfter
    <3>2. WebOwner'
      BY <3>1, <1>0 DEF WebOwner
    <3>3. QED
      BY <2>3, <3>1, <3>2, <1>0
  <2>4. QED
    BY <2>1, <2>2, <2>3
<1>6. /\ place' \in [Web!TabIds -> 0..Web!Newest]
      /\ kind[p] \notin {"back", "forward"} => place' = place
      /\ kind[p] = "back" => place'[t] = place[t] - IF calls[p] = 0 THEN 1 ELSE 0
      /\ kind[p] = "forward" => place'[t] = place[t] + IF calls[p] = 0 THEN 1 ELSE 0
  <2>0. place \in [Web!TabIds -> 0..3] /\ place[t] \in 0..3 /\ Web!Newest = 3
    BY <1>0, <1>1 DEF WebPages, Web!Newest
  <2>1. CASE kind[p] = "back" /\ calls[p] = 0
    <3>1. place' = [place EXCEPT ![t] = place[t] - 1] /\ place[t] - 1 \in 0..3
      BY <2>0, <2>1, <1>3, <1>4 DEF Web!PlaceAfter, Web!Here, Web!Set
    <3>2. QED
      BY <3>1, <2>0, <2>1, <1>1
  <2>2. CASE kind[p] = "forward" /\ calls[p] = 0
    <3>1. place' = [place EXCEPT ![t] = place[t] + 1] /\ place[t] + 1 \in 0..3
      BY <2>0, <2>2, <1>3, <1>4 DEF Web!PlaceAfter, Web!Here, Web!Set
    <3>2. QED
      BY <3>1, <2>0, <2>2, <1>1
  <2>3. CASE ~(kind[p] \in {"back", "forward"} /\ calls[p] = 0)
    <3>1. place' = place
      BY <2>3, <1>3 DEF Web!PlaceAfter
    <3>2. QED
      BY <3>1, <2>0, <2>3
  <2>4. QED
    BY <2>1, <2>2, <2>3
<1>7. /\ field' \in [Web!TabIds -> Nat]
      /\ kind[p] \notin {"type", "retype"} => field' = field
      /\ kind[p] = "type" => field'[t] = field[t] + 1
      /\ kind[p] = "retype" => field'[t] = IF calls[p] = 0 THEN 0 ELSE field[t] + 1
  <2>0. field \in [Web!TabIds -> Nat] /\ field[t] \in Nat
    BY <1>0, <1>1 DEF WebPages
  <2>1. CASE kind[p] = "retype" /\ calls[p] = 0
    <3>1. field' = [field EXCEPT ![t] = 0]
      BY <2>1, <1>3 DEF Web!FieldAfter, Web!Here, Web!Set
    <3>2. QED
      BY <3>1, <2>0, <2>1, <1>1
  <2>2. CASE kind[p] = "type" \/ (kind[p] = "retype" /\ calls[p] # 0)
    <3>1. field' = [field EXCEPT ![t] = field[t] + 1]
      BY <2>2, <1>3 DEF Web!FieldAfter, Web!Here, Web!Set
    <3>2. QED
      BY <3>1, <2>0, <2>2, <1>1
  <2>3. CASE kind[p] \notin {"type", "retype"}
    <3>1. field' = field
      BY <2>3, <1>3 DEF Web!FieldAfter
    <3>2. QED
      BY <3>1, <2>0, <2>3
  <2>4. QED
    BY <2>1, <2>2, <2>3
<1>8. /\ clicks' \in [Web!TabIds -> Nat]
      /\ kind[p] # "click" => clicks' = clicks
      /\ kind[p] = "click" => clicks'[t] = clicks[t] + IF calls[p] = 2 THEN 1 ELSE 0
  <2>0. clicks \in [Web!TabIds -> Nat] /\ clicks[t] \in Nat
    BY <1>0, <1>1 DEF WebPages
  <2>1. CASE kind[p] = "click" /\ calls[p] = 2
    <3>1. clicks' = [clicks EXCEPT ![t] = clicks[t] + 1]
      BY <2>1, <1>3 DEF Web!ClicksAfter, Web!Here, Web!Set
    <3>2. QED
      BY <3>1, <2>0, <2>1, <1>1
  <2>2. CASE ~(kind[p] = "click" /\ calls[p] = 2)
    <3>1. clicks' = clicks
      BY <2>2, <1>3 DEF Web!ClicksAfter
    <3>2. QED
      BY <3>1, <2>0, <2>2
  <2>3. QED
    BY <2>1, <2>2
<1>9. kind[p] \notin Web!Pages => UNCHANGED <<place, field, clicks>>
  BY <1>6, <1>7, <1>8 DEF Web!Pages
<1>10. WebPages'
  BY <1>6, <1>7, <1>8 DEF WebPages
<1>11. QED
  BY <1>5, <1>6, <1>7, <1>8, <1>9, <1>10

\* What one more call adds to what a command has made.
LEMMA WebAdds ==
    ASSUME WebInv, NEW p \in Procs, stage[p] = "work", ~Web!Wrong(p), Web!Effect(p), kind[p] \in Web!Pages, kind' = kind \/ kind'[p] = kind[p],
           before' = before, NEW d \in Nat, NEW t, t = conns[p].tab, WebMade(p, t, d + WebShare(kind[p], calls[p])),
           NEW n \in Nat, n = d + WebShare(kind[p], calls[p] + 1)
    PROVE WebMade(p, t, n)'
<1>0. /\ calls[p] \in Nat /\ before[p] \in WebPage /\ calls[p] < Web!Calls(p) /\ t \in Web!TabIds /\ WebPages
      /\ kind'[p] = kind[p] /\ before'[p] = before[p]
  BY BrowserAssumption DEF WebInv, WebTypes, WebTry, WebMeant, WebHolds, WebDoes, WebPages
<1>1. /\ field[t] \in Nat /\ clicks[t] \in Nat /\ place[t] \in Nat
      /\ before[p].field \in Nat /\ before[p].clicks \in Nat /\ before[p].place \in Nat
  BY <1>0 DEF WebPages, WebPage, Web!Newest
<1>e. /\ kind[p] = "type" => field'[t] = field[t] + 1
      /\ kind[p] = "click" => clicks'[t] = clicks[t] + IF calls[p] = 2 THEN 1 ELSE 0
      /\ kind[p] = "back" => place'[t] = place[t] - IF calls[p] = 0 THEN 1 ELSE 0
      /\ kind[p] = "forward" => place'[t] = place[t] + IF calls[p] = 0 THEN 1 ELSE 0
  BY WebEffect
<1>2. CASE kind[p] = "type"
  <2>1. field[t] = before[p].field + (d + calls[p]) /\ n = d + (calls[p] + 1)
    BY <1>2 DEF WebMade, WebShare
  <2>2. field'[t] = before[p].field + n
    BY <2>1, <1>0, <1>1, <1>2, <1>e
  <2>3. QED
    BY <2>2, <1>0, <1>2 DEF WebMade
<1>3. CASE kind[p] = "click"
  <2>1. calls[p] < 3
    BY <1>0, <1>3 DEF Web!Calls
  <2>2. QED
    BY <2>1, <1>0, <1>1, <1>3, <1>e DEF WebMade, WebShare
<1>4. CASE kind[p] = "back"
  BY <1>0, <1>1, <1>4, <1>e DEF WebMade, WebShare
<1>5. CASE kind[p] = "forward"
  BY <1>0, <1>1, <1>5, <1>e DEF WebMade, WebShare
<1>6. CASE kind[p] = "retype"
  BY <1>0, <1>6 DEF WebMade
<1>7. QED
  BY <1>2, <1>3, <1>4, <1>5, <1>6 DEF Web!Pages

\* One attempt does what it does once at most.
LEMMA OnceEach ==
    ASSUME NEW p \in Procs, NEW c \in Nat, c <= Web!Calls(p), kind[p] \in Web!Pages \ {"retype"}
    PROVE WebShare(kind[p], c) \in 0..WebOnce(kind[p])
          /\ (c = Web!Calls(p) => WebShare(kind[p], c) = WebOnce(kind[p]))
BY BrowserAssumption DEF WebShare, WebOnce, Web!Calls, Web!Pages

\* A command that the state refuses.
LEMMA WebRefused ==
    ASSUME WebInv, NEW p \in Procs, Web!Refused(p)
    PROVE WebInv'
<1>0. /\ WebProfiles /\ WebOwner /\ WebPages /\ WebConns /\ WebStage /\ WebKind /\ WebSnap
      /\ WebTry /\ WebMeant /\ WebHit /\ WebTabs /\ WebSaved
      /\ \A q \in Procs : WebHolds(q) /\ WebDoes(q) /\ WebRuns(q)
  BY DEF WebInv, WebTypes
<1>h. WebHolds(p) /\ WebDoes(p) /\ WebRuns(p) /\ opened \in Nat /\ launched \in Nat /\ snap[p] \in WebFile /\ conns[p] \in WebConn /\ stateFile \in WebFile
  BY <1>0, BrowserAssumption DEF WebOwner, WebProfiles, WebSnap, WebConns
<1>a. /\ stage[p] = "work" /\ conns' = [conns EXCEPT ![p] = Web!NoConn] /\ hit' = [hit EXCEPT ![p] = TRUE]
      /\ IF try[p] = 1 THEN try' = [try EXCEPT ![p] = 2] /\ stage' = [stage EXCEPT ![p] = "act"]
         ELSE stage' = [stage EXCEPT ![p] = "idle"] /\ try' = try
  BY DEF Web!Refused, Web!Again, Web!Set
<1>x. PICK s \in {"act", "idle"}, n \in 0..2 :
      /\ stage' = [stage EXCEPT ![p] = s] /\ try' = [try EXCEPT ![p] = n] /\ (s = "act" => try[p] = 1 /\ n = 2)
  <2>1. CASE try[p] = 1
    BY <2>1, <1>a
  <2>2. CASE try[p] # 1
    <3>1. try[p] \in 0..2 /\ try' = [try EXCEPT ![p] = try[p]]
      BY <2>2, <1>0, <1>a DEF WebTry
    <3>2. QED
      BY <2>2, <3>1, <1>a
  <2>3. QED
    BY <2>1, <2>2
<1>u. UNCHANGED <<stateFile, profiles, launched, owner, opened, place, field, clicks, kind, tab, snap, calls, meant, before, commands, webFaults, tabRaced>>
  BY DEF Web!Refused, Web!Again, Web!browser, Web!tabsAndPages, Web!counters
<1>w. /\ conns'[p] = Web!NoConn /\ \A q \in Procs : q # p => conns'[q] = conns[q]
      /\ stage'[p] = s /\ \A q \in Procs : q # p => stage'[q] = stage[q]
      /\ try'[p] = n /\ \A q \in Procs : q # p => try'[q] = try[q]
      /\ hit'[p] = TRUE /\ \A q \in Procs : q # p => hit'[q] = hit[q]
  BY <1>0, <1>a, <1>x DEF WebConns, WebHit, WebStage, WebTry
<1>WebConns. WebConns'
  BY <1>0, <1>a, WebNone DEF WebConns
<1>WebStage. WebStage'
  BY <1>0, <1>x DEF WebStage, WebStages
<1>WebTry. WebTry'
  BY <1>0, <1>x, <1>u DEF WebTry
<1>WebHit. WebHit'
  BY <1>0, <1>a DEF WebHit
<1>t. WebTypes'
  BY <1>0, <1>u, WebFrames, <1>WebConns, <1>WebStage, <1>WebTry, <1>WebHit DEF WebTypes
<1>b. WebTabs'
  BY <1>0, <1>u DEF WebTabs
<1>s. WebSaved'
  <2>1. ASSUME ~tabRaced, NEW q \in profiles
        PROVE q = stateFile.profile \/ \E r \in Procs : stage'[r] = "save" /\ kind'[r] = "start" /\ snap'[r].profile = q
    <3>1. CASE \E r \in Procs : stage[r] = "save" /\ kind[r] = "start" /\ snap[r].profile = q
      <4>1. PICK r \in Procs : stage[r] = "save" /\ kind[r] = "start" /\ snap[r].profile = q
        BY <3>1
      <4>2. r # p
        BY <4>1, <1>a
      <4>3. QED
        BY <4>1, <4>2, <1>w, <1>u
    <3>2. QED
      BY <3>1, <2>1, <1>0 DEF WebSaved
  <2>2. QED
    BY <2>1, <1>0, <1>a, <1>u DEF WebSaved
<1>p. WebHolds(p)'
  BY <1>h, <1>u, <1>w, <1>x, WebNone DEF WebHolds
<1>d. WebDoes(p)'
  <2>1. SUFFICES ASSUME kind[p] \in Web!Pages PROVE WebDoes(p)'
    BY <1>u DEF WebDoes, Web!Pages
  <2>2. CASE s = "act"
    <3>1. /\ before[p].tab \in Web!TabIds /\ calls[p] < Web!Calls(p) /\ calls[p] \in Nat /\ try[p] = 1 /\ Web!Calls(p) \in Nat
          /\ WebMade(p, before[p].tab, 0 + WebShare(kind[p], calls[p]))
      BY <2>1, <2>2, <1>0, <1>h, <1>a, <1>x, FewCalls, BrowserAssumption DEF WebDoes, WebHolds, WebTry
    <3>2. \E d \in 0..WebOnce(kind[p]) : WebMade(p, before[p].tab, d)
      <4>1. CASE kind[p] = "retype"
        BY <4>1 DEF WebMade, WebOnce
      <4>2. CASE kind[p] # "retype"
        <5>1. WebShare(kind[p], calls[p]) \in 0..WebOnce(kind[p])
          BY <4>2, <2>1, <3>1, OnceEach
        <5>2. 0 + WebShare(kind[p], calls[p]) = WebShare(kind[p], calls[p])
          BY <5>1
        <5>3. QED
          BY <5>1, <5>2, <3>1
      <4>3. QED
        BY <4>1, <4>2
    <3>3. \A d : WebMade(p, before[p].tab, d)' <=> WebMade(p, before[p].tab, d)
      BY <1>u DEF WebMade
    <3>4. QED
      BY <2>1, <2>2, <3>1, <3>2, <3>3, <1>h, <1>u, <1>w, <1>x DEF WebDoes
  <2>3. CASE s = "idle"
    BY <2>1, <2>3, <1>h, <1>u, <1>w, <1>x DEF WebDoes
  <2>4. QED
    BY <2>2, <2>3
<1>r. WebRuns(p)'
  BY <1>h, <1>u, <1>w, <1>x DEF WebRuns
<1>o. ASSUME NEW q \in Procs, q # p PROVE (WebHolds(q) /\ WebDoes(q) /\ WebRuns(q))'
  BY <1>0, <1>h, <1>o, <1>u, <1>w, WebStay
<1>9. QED
  BY <1>t, <1>b, <1>s, <1>p, <1>d, <1>r, <1>o DEF WebInv

\* A command that ends says what it did.
LEMMA WebTold ==
    ASSUME WebInv, NEW p \in Procs, Web!Told(p)
    PROVE WebInv'
<1>0. /\ WebProfiles /\ WebOwner /\ WebPages /\ WebConns /\ WebStage /\ WebKind /\ WebSnap
      /\ WebTry /\ WebMeant /\ WebHit /\ WebTabs /\ WebSaved
      /\ \A q \in Procs : WebHolds(q) /\ WebDoes(q) /\ WebRuns(q)
  BY DEF WebInv, WebTypes
<1>h. WebHolds(p) /\ WebDoes(p) /\ WebRuns(p) /\ opened \in Nat /\ launched \in Nat /\ snap[p] \in WebFile /\ conns[p] \in WebConn /\ stateFile \in WebFile
  BY <1>0, BrowserAssumption DEF WebOwner, WebProfiles, WebSnap, WebConns
<1>a. stage[p] = "told" /\ stage' = [stage EXCEPT ![p] = "idle"]
  BY DEF Web!Told, Web!Set
<1>u. UNCHANGED <<stateFile, profiles, launched, owner, opened, place, field, clicks, conns, kind, tab, snap, try, calls, meant, before, hit, commands, webFaults, tabRaced>>
  BY DEF Web!Told, Web!browser, Web!tabsAndPages, Web!counters
<1>w. /\ stage'[p] = "idle" /\ \A q \in Procs : q # p => stage'[q] = stage[q]
  BY <1>0, <1>a DEF WebStage, Web!Set
<1>WebStage. WebStage'
  BY <1>0, <1>a DEF WebStage, WebStages, Web!Set
<1>t. WebTypes'
  BY <1>0, <1>u, WebFrames, <1>WebStage DEF WebTypes
<1>b. WebTabs'
  BY <1>0, <1>u DEF WebTabs
<1>s. WebSaved'
  <2>1. ASSUME ~tabRaced, NEW q \in profiles
        PROVE q = stateFile.profile \/ \E r \in Procs : stage'[r] = "save" /\ kind'[r] = "start" /\ snap'[r].profile = q
    <3>1. CASE \E r \in Procs : stage[r] = "save" /\ kind[r] = "start" /\ snap[r].profile = q
      <4>1. PICK r \in Procs : stage[r] = "save" /\ kind[r] = "start" /\ snap[r].profile = q
        BY <3>1
      <4>2. r # p
        BY <4>1, <1>a
      <4>3. QED
        BY <4>1, <4>2, <1>w, <1>u
    <3>2. QED
      BY <3>1, <2>1, <1>0 DEF WebSaved
  <2>2. QED
    BY <2>1, <1>0, <1>a, <1>u DEF WebSaved
<1>p. WebHolds(p)'
  BY <1>h, <1>u, <1>w DEF WebHolds
<1>d. WebDoes(p)'
  BY <1>h, <1>u, <1>w DEF WebDoes
<1>r. WebRuns(p)'
  BY <1>h, <1>u, <1>w DEF WebRuns
<1>o. ASSUME NEW q \in Procs, q # p PROVE (WebHolds(q) /\ WebDoes(q) /\ WebRuns(q))'
  BY <1>0, <1>h, <1>o, <1>u, <1>w, WebStay
<1>9. QED
  BY <1>t, <1>b, <1>s, <1>p, <1>d, <1>r, <1>o DEF WebInv

\* A command reads the file again.
LEMMA WebReload ==
    ASSUME WebInv, NEW p \in Procs, Web!Reload(p)
    PROVE WebInv'
<1>0. /\ WebProfiles /\ WebOwner /\ WebPages /\ WebConns /\ WebStage /\ WebKind /\ WebSnap
      /\ WebTry /\ WebMeant /\ WebHit /\ WebTabs /\ WebSaved
      /\ \A q \in Procs : WebHolds(q) /\ WebDoes(q) /\ WebRuns(q)
  BY DEF WebInv, WebTypes
<1>h. WebHolds(p) /\ WebDoes(p) /\ WebRuns(p) /\ opened \in Nat /\ launched \in Nat /\ snap[p] \in WebFile /\ conns[p] \in WebConn /\ stateFile \in WebFile
  BY <1>0, BrowserAssumption DEF WebOwner, WebProfiles, WebSnap, WebConns
<1>f. PICK f \in WebFile : /\ f = IF stateFile.profile \in profiles THEN stateFile ELSE Web!NoFile
                       /\ f.target <= opened /\ f.profile <= launched
  <2>1. stateFile.target <= opened /\ stateFile.profile <= launched
    BY <1>0 DEF WebTabs, WebSaved
  <2>2. CASE stateFile.profile \in profiles
    BY <2>1, <2>2, <1>h
  <2>3. CASE stateFile.profile \notin profiles
    BY <2>3, <1>h, <1>0, WebNone, BrowserAssumption DEF WebOwner, WebProfiles
  <2>4. QED
    BY <2>2, <2>3
<1>a. /\ stage[p] = "reload" /\ stateFile' = f /\ snap' = [snap EXCEPT ![p] = f]
      /\ stage' = [stage EXCEPT ![p] = IF f = Web!NoFile THEN "idle" ELSE "act"]
      /\ kind' = [kind EXCEPT ![p] = "switch"] /\ try' = [try EXCEPT ![p] = 1]
  BY <1>f DEF Web!Reload, Web!Set
<1>x. PICK s \in {"idle", "act"} : stage' = [stage EXCEPT ![p] = s]
  BY <1>a
<1>u. UNCHANGED <<profiles, launched, owner, opened, place, field, clicks, conns, tab, calls, meant, before, hit, commands, webFaults, tabRaced>>
  BY DEF Web!Reload, Web!browser, Web!tabsAndPages, Web!counters
<1>w. /\ stage'[p] = s /\ \A q \in Procs : q # p => stage'[q] = stage[q]
      /\ kind'[p] = "switch" /\ \A q \in Procs : q # p => kind'[q] = kind[q]
      /\ snap'[p] = f /\ \A q \in Procs : q # p => snap'[q] = snap[q]
      /\ try'[p] = 1 /\ \A q \in Procs : q # p => try'[q] = try[q]
  BY <1>0, <1>a, <1>x DEF WebKind, WebSnap, WebStage, WebTry
<1>WebStage. WebStage'
  BY <1>0, <1>x DEF WebStage, WebStages
<1>WebKind. WebKind'
  BY <1>0, <1>a, <1>u DEF WebKind, WebKinds
<1>WebSnap. WebSnap'
  BY <1>0, <1>a DEF WebSnap
<1>WebTry. WebTry'
  BY <1>0, <1>a, <1>u DEF WebTry
<1>t. WebTypes'
  BY <1>0, <1>u, WebFrames, <1>WebStage, <1>WebKind, <1>WebSnap, <1>WebTry DEF WebTypes
<1>b. WebTabs'
  BY <1>0, <1>f, <1>a, <1>u DEF WebTabs
<1>s. WebSaved'
  <2>1. ASSUME ~tabRaced, NEW q \in profiles
        PROVE q = f.profile \/ \E r \in Procs : stage'[r] = "save" /\ kind'[r] = "start" /\ snap'[r].profile = q
    <3>1. CASE \E r \in Procs : stage[r] = "save" /\ kind[r] = "start" /\ snap[r].profile = q
      <4>1. PICK r \in Procs : stage[r] = "save" /\ kind[r] = "start" /\ snap[r].profile = q
        BY <3>1
      <4>2. r # p
        BY <4>1, <1>a
      <4>3. QED
        BY <4>1, <4>2, <1>w, <1>u
    <3>2. QED
      BY <3>1, <2>1, <1>0, <1>f DEF WebSaved
  <2>2. QED
    BY <2>1, <1>0, <1>a, <1>u, <1>f DEF WebSaved
<1>p. WebHolds(p)'
  BY <1>h, <1>f, <1>u, <1>w, <1>x DEF WebHolds
<1>d. WebDoes(p)'
  BY <1>w DEF WebDoes, Web!Pages
<1>r. WebRuns(p)'
  BY <1>h, <1>f, <1>u, <1>w, <1>x DEF WebRuns
<1>o. ASSUME NEW q \in Procs, q # p PROVE (WebHolds(q) /\ WebDoes(q) /\ WebRuns(q))'
  BY <1>0, <1>h, <1>o, <1>u, <1>w, WebStay
<1>9. QED
  BY <1>t, <1>b, <1>s, <1>p, <1>d, <1>r, <1>o DEF WebInv

\* What a command changed is saved.
LEMMA WebSave ==
    ASSUME WebInv, NEW p \in Procs, Web!Save(p)
    PROVE WebInv'
<1>0. /\ WebProfiles /\ WebOwner /\ WebPages /\ WebConns /\ WebStage /\ WebKind /\ WebSnap
      /\ WebTry /\ WebMeant /\ WebHit /\ WebTabs /\ WebSaved
      /\ \A q \in Procs : WebHolds(q) /\ WebDoes(q) /\ WebRuns(q)
  BY DEF WebInv, WebTypes
<1>h. WebHolds(p) /\ WebDoes(p) /\ WebRuns(p) /\ opened \in Nat /\ launched \in Nat /\ snap[p] \in WebFile /\ conns[p] \in WebConn /\ stateFile \in WebFile
  BY <1>0, BrowserAssumption DEF WebOwner, WebProfiles, WebSnap, WebConns
<1>f. PICK f \in WebFile : /\ f = Web!Changed(p) /\ f.target <= opened /\ f.profile = snap[p].profile
                         /\ (kind[p] = "start" => f = snap[p])
  <2> DEFINE sp == snap[p]
  <2>1. sp \in WebFile /\ sp.target <= opened /\ tab[p] <= opened /\ tab[p] \in 0..MaxTabs /\ 0 \in 0..MaxTabs
    BY <1>0, <1>h, BrowserAssumption DEF WebHolds, WebKind
  <2>2. /\ [sp EXCEPT !.target = tab[p]] \in WebFile /\ [sp EXCEPT !.target = tab[p]].target = tab[p]
        /\ [sp EXCEPT !.target = tab[p]].profile = sp.profile
    BY <2>1 DEF WebFile
  <2>3. /\ [sp EXCEPT !.target = 0] \in WebFile /\ [sp EXCEPT !.target = 0].target = 0
        /\ [sp EXCEPT !.target = 0].profile = sp.profile
    BY <2>1 DEF WebFile
  <2>4. /\ [sp EXCEPT !.blocked = TRUE] \in WebFile /\ [sp EXCEPT !.blocked = TRUE].target = sp.target
        /\ [sp EXCEPT !.blocked = TRUE].profile = sp.profile
    BY <2>1 DEF WebFile
  <2>5. Web!Changed(p) = CASE kind[p] = "switch" -> [sp EXCEPT !.target = tab[p]]
                [] kind[p] = "close" -> [sp EXCEPT !.target = 0]
                [] kind[p] = "block" -> [sp EXCEPT !.blocked = TRUE]
                [] OTHER -> sp
    BY DEF Web!Changed, Web!None
  <2>6. Web!Changed(p) \in {[sp EXCEPT !.target = tab[p]], [sp EXCEPT !.target = 0], [sp EXCEPT !.blocked = TRUE], sp}
        /\ (kind[p] = "start" => Web!Changed(p) = sp)
    BY <2>5
  <2>7. Web!Changed(p) \in WebFile /\ Web!Changed(p).target <= opened /\ Web!Changed(p).profile = sp.profile
    <3>1. CASE Web!Changed(p) = [sp EXCEPT !.target = tab[p]]
      BY <3>1, <2>1, <2>2
    <3>2. CASE Web!Changed(p) = [sp EXCEPT !.target = 0]
      BY <3>2, <2>3, <1>h
    <3>3. CASE Web!Changed(p) = [sp EXCEPT !.blocked = TRUE]
      BY <3>3, <2>1, <2>4
    <3>4. CASE Web!Changed(p) = sp
      BY <3>4, <2>1
    <3>5. QED
      BY <2>6, <3>1, <3>2, <3>3, <3>4
  <2>8. QED
    BY <2>6, <2>7
<1>a. /\ stage[p] = "save" /\ stateFile' = f
      /\ tabRaced' = (tabRaced \/ stateFile # (IF kind[p] = "start" THEN Web!NoFile ELSE snap[p]))
      /\ stage' = [stage EXCEPT ![p] = IF kind[p] = "block" THEN "act" ELSE "told"]
      /\ conns' = IF kind[p] \in {"switch", "close"} THEN [conns EXCEPT ![p] = Web!NoConn] ELSE conns
  BY <1>f DEF Web!Save, Web!Set
<1>x. PICK s \in {"act", "told"}, c \in WebConn :
      stage' = [stage EXCEPT ![p] = s] /\ conns' = [conns EXCEPT ![p] = c] /\ (c = conns[p] \/ c = Web!NoConn)
  <2>1. \E s \in {"act", "told"} : stage' = [stage EXCEPT ![p] = s]
    BY <1>a
  <2>2. conns = [conns EXCEPT ![p] = conns[p]]
    BY <1>0 DEF WebConns
  <2>3. \E c \in WebConn : conns' = [conns EXCEPT ![p] = c] /\ (c = conns[p] \/ c = Web!NoConn)
    BY <2>2, <1>a, <1>h, WebNone
  <2>4. QED
    BY <2>1, <2>3
<1>u. UNCHANGED <<profiles, launched, owner, opened, place, field, clicks, kind, tab, snap, try, calls, meant, before, hit, commands, webFaults>>
  BY DEF Web!Save, Web!browser, Web!tabsAndPages, Web!counters
<1>w. /\ conns'[p] = c /\ \A q \in Procs : q # p => conns'[q] = conns[q]
      /\ stage'[p] = s /\ \A q \in Procs : q # p => stage'[q] = stage[q]
  BY <1>0, <1>a, <1>x DEF WebConns, WebStage
<1>WebConns. WebConns'
  BY <1>0, <1>x DEF WebConns
<1>WebStage. WebStage'
  BY <1>0, <1>x DEF WebStage, WebStages
<1>WebSnap. WebSnap'
  BY <1>0, <1>a, <1>u DEF WebSnap
<1>t. WebTypes'
  BY <1>0, <1>u, WebFrames, <1>WebConns, <1>WebStage, <1>WebSnap DEF WebTypes
<1>b. WebTabs'
  BY <1>0, <1>f, <1>a, <1>u DEF WebTabs
<1>s. WebSaved'
  <2>1. f.profile <= launched
    BY <1>f, <1>h DEF WebRuns
  <2>2. ASSUME ~tabRaced', NEW q \in profiles
        PROVE q = f.profile \/ \E r \in Procs : stage'[r] = "save" /\ kind'[r] = "start" /\ snap'[r].profile = q
    <3>1. ~tabRaced /\ stateFile = (IF kind[p] = "start" THEN Web!NoFile ELSE snap[p])
      BY <2>2, <1>a
    <3>2. q # 0
      BY <1>0 DEF WebProfiles
    <3>3. q = stateFile.profile => kind[p] # "start" /\ q = f.profile
      BY <3>1, <3>2, <1>f, WebNone
    <3>4. CASE \E r \in Procs : stage[r] = "save" /\ kind[r] = "start" /\ snap[r].profile = q
      <4>1. PICK r \in Procs : stage[r] = "save" /\ kind[r] = "start" /\ snap[r].profile = q
        BY <3>4
      <4>2. r = p => q = f.profile
        BY <4>1, <1>f
      <4>3. QED
        BY <4>1, <4>2, <1>w, <1>u
    <3>5. QED
      BY <3>1, <3>3, <3>4, <1>0 DEF WebSaved
  <2>3. QED
    BY <2>1, <2>2, <1>a, <1>u DEF WebSaved
<1>p. WebHolds(p)'
  <2>1. c.target <= opened /\ (c # Web!NoConn => c.tab # 0 /\ c.profile # 0)
        /\ (c.target \in Web!TabIds /\ c.profile # 0 /\ owner[c.target] = c.profile => c.tab = c.target)
    BY <1>h, <1>x, WebNone DEF WebHolds
  <2>2. QED
    BY <2>1, <1>h, <1>u, <1>w, <1>x DEF WebHolds
<1>d. WebDoes(p)'
  <2>1. kind[p] \notin Web!Pages
    BY <1>h, <1>a DEF WebDoes
  <2>2. QED
    BY <2>1, <1>u DEF WebDoes, Web!Pages
<1>r. WebRuns(p)'
  BY <1>h, <1>u, <1>w, <1>x DEF WebRuns
<1>o. ASSUME NEW q \in Procs, q # p PROVE (WebHolds(q) /\ WebDoes(q) /\ WebRuns(q))'
  BY <1>0, <1>h, <1>o, <1>u, <1>w, WebStay
<1>9. QED
  BY <1>t, <1>b, <1>s, <1>p, <1>d, <1>r, <1>o DEF WebInv

\* A command gets a session of the active tab.
LEMMA WebSession ==
    ASSUME WebInv, NEW p \in Procs, NEW t \in 0..MaxTabs, Web!Session(p, t)
    PROVE WebInv'
<1>0. /\ WebProfiles /\ WebOwner /\ WebPages /\ WebConns /\ WebStage /\ WebKind /\ WebSnap
      /\ WebTry /\ WebMeant /\ WebHit /\ WebTabs /\ WebSaved
      /\ \A q \in Procs : WebHolds(q) /\ WebDoes(q) /\ WebRuns(q)
  BY DEF WebInv, WebTypes
<1>h. WebHolds(p) /\ WebDoes(p) /\ WebRuns(p) /\ opened \in Nat /\ launched \in Nat /\ snap[p] \in WebFile /\ conns[p] \in WebConn /\ stateFile \in WebFile
  BY <1>0, BrowserAssumption DEF WebOwner, WebProfiles, WebSnap, WebConns
<1>a. stage[p] = "act"
  BY DEF Web!Session
<1>y. ASSUME stateFile.profile \notin profiles PROVE WebInv'
  <2>a. /\ stage' = [stage EXCEPT ![p] = "idle"] /\ stateFile' = Web!NoFile
        /\ UNCHANGED <<profiles, launched, owner, opened, place, field, clicks, conns, kind, tab, snap, try, calls, meant, before, hit, tabRaced>>
    BY <1>y DEF Web!Session, Web!Set, Web!browser
  <2>b. stage'[p] = "idle" /\ \A q \in Procs : q # p => stage'[q] = stage[q]
    BY <2>a, <1>0 DEF WebStage
  <2>1. WebStage' /\ WebSnap'
    BY <1>0, <2>a, WebNone DEF WebStage, WebStages, WebSnap
  <2>2. WebTypes'
    BY <1>0, <2>a, <2>1, WebFrames DEF WebTypes
  <2>3. WebTabs'
    BY <1>0, <1>h, <2>a, WebNone DEF WebTabs
  <2>4. WebSaved'
    <3>1. ASSUME ~tabRaced, NEW q \in profiles
          PROVE \E r \in Procs : stage'[r] = "save" /\ kind'[r] = "start" /\ snap'[r].profile = q
      <4>1. PICK r \in Procs : stage[r] = "save" /\ kind[r] = "start" /\ snap[r].profile = q
        BY <1>0, <1>y, <3>1 DEF WebSaved
      <4>2. r # p
        BY <4>1, <1>a
      <4>3. QED
        BY <4>1, <4>2, <2>a, <2>b
    <3>2. QED
      BY <3>1, <2>a, <1>h, WebNone DEF WebSaved
  <2>5. WebHolds(p)' /\ WebDoes(p)' /\ WebRuns(p)'
    BY <1>h, <2>a, <2>b DEF WebHolds, WebDoes, WebRuns
  <2>6. ASSUME NEW q \in Procs, q # p PROVE (WebHolds(q) /\ WebDoes(q) /\ WebRuns(q))'
    BY <1>0, <1>h, <2>a, <2>b, <2>6, WebStay
  <2>7. QED
    BY <2>2, <2>3, <2>4, <2>5, <2>6 DEF WebInv
<1>z. SUFFICES ASSUME stateFile.profile \in profiles PROVE WebInv'
  BY <1>y
<1>c. PICK c \in WebConn :
          /\ conns' = [conns EXCEPT ![p] = c] /\ c.tab = t /\ t \in Web!TabIds /\ c.target = stateFile.target /\ c.profile = stateFile.profile
          /\ stateFile.target \in Web!TabIds /\ owner'[stateFile.target] = stateFile.profile => t = stateFile.target
          /\ WebOwner' /\ opened' \in Nat /\ opened <= opened'
          /\ \A x \in Web!TabIds : x <= opened => owner'[x] = owner[x]
          /\ \A x \in Web!TabIds : owner'[x] # 0 => x <= opened'
  <2>1. IF Web!Cached(p) THEN t = conns[p].tab /\ UNCHANGED <<owner, opened, conns>> ELSE Web!Attach(p, t)
    BY <1>z DEF Web!Session
  <2>2. QED
    BY <1>z, <2>1, WebAttach
<1>e. /\ stage' = [stage EXCEPT ![p] = "work"]
      /\ meant' = [meant EXCEPT ![p] = stateFile.target]
      /\ calls' = [calls EXCEPT ![p] = 0]
      /\ before' = IF try[p] = 2 /\ before[p].tab = t THEN before
                         ELSE [before EXCEPT ![p] = [tab |-> t, place |-> place[t],
                                          field |-> field[t], clicks |-> clicks[t]]]
      /\ stateFile' = stateFile
  BY <1>z DEF Web!Session, Web!Set
<1>x. PICK b \in WebPage : /\ before' = [before EXCEPT ![p] = b] /\ b.tab = t
                           /\ \/ try[p] = 2 /\ b = before[p]
                              \/ b.place = place[t] /\ b.field = field[t] /\ b.clicks = clicks[t]
  <2>1. CASE try[p] = 2 /\ before[p].tab = t
    <3>1. before' = [before EXCEPT ![p] = before[p]] /\ before[p] \in WebPage
      BY <2>1, <1>e, <1>0 DEF WebMeant
    <3>2. QED
      BY <2>1, <3>1
  <2>2. CASE ~(try[p] = 2 /\ before[p].tab = t)
    <3> DEFINE b == [tab |-> t, place |-> place[t], field |-> field[t], clicks |-> clicks[t]]
    <3>1. b \in WebPage
      BY <1>0, <1>c DEF WebPage, WebPages
    <3>2. before' = [before EXCEPT ![p] = b]
      BY <2>2, <1>e
    <3>3. QED
      BY <3>1, <3>2
  <2>3. QED
    BY <2>1, <2>2
<1>f. stateFile.target \in Nat /\ stateFile.profile # 0 /\ stateFile.target \in 0..MaxTabs /\ stateFile.target <= opened
  BY <1>0, <1>h, <1>z DEF WebFile, WebProfiles, WebTabs
<1>u. UNCHANGED <<profiles, launched, place, field, clicks, kind, tab, snap, try, hit, commands, webFaults, tabRaced>>
  BY DEF Web!Session, Web!browser, Web!tabsAndPages, Web!counters
<1>w. /\ conns'[p] = c /\ \A q \in Procs : q # p => conns'[q] = conns[q]
      /\ stage'[p] = "work" /\ \A q \in Procs : q # p => stage'[q] = stage[q]
      /\ calls'[p] = 0 /\ \A q \in Procs : q # p => calls'[q] = calls[q]
      /\ meant'[p] = stateFile.target /\ \A q \in Procs : q # p => meant'[q] = meant[q]
      /\ before'[p] = b /\ \A q \in Procs : q # p => before'[q] = before[q]
  BY <1>0, <1>c, <1>e, <1>x DEF WebConns, WebMeant, WebStage, WebTry
<1>WebOwner. WebOwner'
  BY <1>c
<1>WebConns. WebConns'
  BY <1>0, <1>c DEF WebConns
<1>WebStage. WebStage'
  BY <1>0, <1>e DEF WebStage, WebStages
<1>WebSnap. WebSnap'
  BY <1>0, <1>e, <1>u DEF WebSnap
<1>WebTry. WebTry'
  BY <1>0, <1>e, <1>u, BrowserAssumption DEF WebTry
<1>WebMeant. WebMeant'
  BY <1>0, <1>e, <1>x, <1>f DEF WebMeant
<1>t. WebTypes'
  BY <1>0, <1>u, WebFrames, <1>WebOwner, <1>WebConns, <1>WebStage, <1>WebSnap, <1>WebTry, <1>WebMeant DEF WebTypes
<1>b. WebTabs'
  BY <1>c, <1>e, <1>f, <1>h DEF WebTabs
<1>s. WebSaved'
  <2>1. ASSUME ~tabRaced, NEW q \in profiles
        PROVE q = stateFile.profile \/ \E r \in Procs : stage'[r] = "save" /\ kind'[r] = "start" /\ snap'[r].profile = q
    <3>1. CASE \E r \in Procs : stage[r] = "save" /\ kind[r] = "start" /\ snap[r].profile = q
      <4>1. PICK r \in Procs : stage[r] = "save" /\ kind[r] = "start" /\ snap[r].profile = q
        BY <3>1
      <4>2. r # p
        BY <4>1, <1>a
      <4>3. QED
        BY <4>1, <4>2, <1>w, <1>u
    <3>2. QED
      BY <3>1, <2>1, <1>0 DEF WebSaved
  <2>2. QED
    BY <2>1, <1>0, <1>a, <1>u, <1>e DEF WebSaved
<1>p. WebHolds(p)'
  <2>1. Web!Calls(p)' = Web!Calls(p) /\ Web!Calls(p) > 0 /\ c # Web!NoConn
    BY <1>u, <1>c, <1>f, FewCalls, WebNone, BrowserAssumption DEF Web!Calls
  <2>2. tab[p] <= opened' /\ snap[p].target <= opened' /\ stateFile.target <= opened'
    BY <1>c, <1>f, <1>h, <1>0, BrowserAssumption DEF WebHolds, WebKind, WebFile
  <2>3. QED
    BY <2>1, <2>2, <1>c, <1>f, <1>u, <1>w DEF WebHolds, Web!TabIds
<1>d. WebDoes(p)'
  <2>1. SUFFICES ASSUME kind[p] \in Web!Pages PROVE WebDoes(p)'
    BY <1>u DEF WebDoes, Web!Pages
  <2>2. WebShare(kind[p], 0) = 0
    BY DEF WebShare
  <2>3. \E d \in 0..WebOnce(kind[p]) : (try[p] = 2 \/ d = 0) /\ WebMade(p, t, d)'
    <3>1. CASE try[p] = 2 /\ b = before[p]
      <4>1. PICK d \in 0..WebOnce(kind[p]) : WebMade(p, t, d)
        BY <3>1, <2>1, <1>h, <1>a, <1>x DEF WebDoes
      <4>2. WebMade(p, t, d)'
        BY <4>1, <3>1, <1>u, <1>w DEF WebMade
      <4>3. QED
        BY <4>2, <3>1
    <3>2. CASE b.place = place[t] /\ b.field = field[t] /\ b.clicks = clicks[t]
      <4>1. field[t] \in Nat /\ clicks[t] \in Nat /\ place[t] \in Nat
        BY <1>0, <1>c DEF WebPages, Web!Newest
      <4>2. WebMade(p, t, 0)'
        BY <4>1, <3>2, <1>u, <1>w DEF WebMade
      <4>3. 0 \in 0..WebOnce(kind[p])
        BY BrowserAssumption DEF WebOnce
      <4>4. QED
        BY <4>2, <4>3
    <3>3. QED
      BY <3>1, <3>2, <1>x
  <2>4. PICK d \in 0..WebOnce(kind[p]) : (try[p] = 2 \/ d = 0) /\ WebMade(p, t, d)'
    BY <2>3
  <2>5. d + WebShare(kind'[p], calls'[p]) = d
    <3>1. d \in Nat
      BY <2>4, BrowserAssumption DEF WebOnce
    <3>2. QED
      BY <3>1, <2>2, <1>u, <1>w
  <2>6. WebOnce(kind'[p]) = WebOnce(kind[p]) /\ kind'[p] = kind[p]
    BY <1>u
  <2>7. QED
    BY <2>1, <2>4, <2>5, <2>6, <1>c, <1>h, <1>a, <1>u, <1>w, <1>x DEF WebDoes
<1>r. WebRuns(p)'
  BY <1>h, <1>u, <1>w DEF WebRuns
<1>o. ASSUME NEW q \in Procs, q # p PROVE (WebHolds(q) /\ WebDoes(q) /\ WebRuns(q))'
  BY <1>0, <1>c, <1>h, <1>o, <1>u, <1>w, WebStay
<1>9. QED
  BY <1>t, <1>b, <1>s, <1>p, <1>d, <1>r, <1>o DEF WebInv

\* A command does its work, call by call.
LEMMA WebWork ==
    ASSUME WebInv, NEW p \in Procs, Web!Work(p)
    PROVE WebInv'
<1>0. /\ WebProfiles /\ WebOwner /\ WebPages /\ WebConns /\ WebStage /\ WebKind /\ WebSnap
      /\ WebTry /\ WebMeant /\ WebHit /\ WebTabs /\ WebSaved
      /\ \A q \in Procs : WebHolds(q) /\ WebDoes(q) /\ WebRuns(q)
  BY DEF WebInv, WebTypes
<1>h. WebHolds(p) /\ WebDoes(p) /\ WebRuns(p) /\ opened \in Nat /\ launched \in Nat /\ snap[p] \in WebFile /\ conns[p] \in WebConn /\ stateFile \in WebFile
  BY <1>0, BrowserAssumption DEF WebOwner, WebProfiles, WebSnap, WebConns
<1>a. /\ stage[p] = "work" /\ ~Web!Wrong(p) /\ Web!Effect(p)
      /\ calls' = [calls EXCEPT ![p] = calls[p] + 1]
      /\ tab' = IF kind[p] = "new" THEN [tab EXCEPT ![p] = opened + 1] ELSE tab
      /\ stage' = IF calls[p] + 1 < Web!Calls(p) THEN stage ELSE [stage EXCEPT ![p] = Web!AfterAct(p)]
  BY DEF Web!Work, Web!Set
<1>e. /\ WebOwner' /\ WebPages' /\ opened' \in Nat /\ opened <= opened'
      /\ \A x \in Web!TabIds : x <= opened => owner'[x] \in {0, owner[x]}
      /\ \A x \in Web!TabIds : owner'[x] # 0 => x <= opened'
      /\ kind[p] = "new" => opened' = opened + 1
      /\ kind[p] \notin Web!Pages => UNCHANGED <<place, field, clicks>>
  BY <1>a, WebEffect
<1>f. calls[p] \in Nat /\ calls[p] < Web!Calls(p) /\ Web!Calls(p) \in 1..(Letters + 1) /\ conns[p] # Web!NoConn
  BY <1>0, <1>h, <1>a, FewCalls DEF WebTry, WebHolds
<1>x. PICK s \in {"work", "told", "save", "reload"}, v \in 0..MaxTabs :
      /\ stage' = [stage EXCEPT ![p] = s] /\ tab' = [tab EXCEPT ![p] = v]
      /\ (s = "work" => calls[p] + 1 < Web!Calls(p)) /\ (s # "work" => calls[p] + 1 = Web!Calls(p))
      /\ (kind[p] \in Web!Pages => s \in {"work", "told"})
      /\ v <= opened' /\ v \in 0..MaxTabs
  <2>1. Web!AfterAct(p) \in {"told", "save", "reload"} /\ (kind[p] \in Web!Pages => Web!AfterAct(p) = "told")
    BY DEF Web!AfterAct, Web!Pages
  <2>2. stage = [stage EXCEPT ![p] = "work"] /\ tab = [tab EXCEPT ![p] = tab[p]] /\ tab[p] \in 0..MaxTabs /\ tab[p] <= opened
    BY <1>0, <1>h, <1>a DEF WebStage, WebKind, WebHolds
  <2>3. \E s \in {"work", "told", "save", "reload"} :
            /\ stage' = [stage EXCEPT ![p] = s]
            /\ (s = "work" => calls[p] + 1 < Web!Calls(p)) /\ (s # "work" => calls[p] + 1 = Web!Calls(p))
            /\ (kind[p] \in Web!Pages => s \in {"work", "told"})
    <3>1. CASE calls[p] + 1 < Web!Calls(p)
      BY <3>1, <2>2, <1>a
    <3>2. CASE ~(calls[p] + 1 < Web!Calls(p))
      <4>1. calls[p] + 1 = Web!Calls(p)
        BY <3>2, <1>f
      <4>2. stage' = [stage EXCEPT ![p] = Web!AfterAct(p)]
        BY <3>2, <1>a
      <4>3. QED
        BY <4>1, <4>2, <2>1
    <3>3. QED
      BY <3>1, <3>2
  <2>4. \E v : tab' = [tab EXCEPT ![p] = v] /\ v <= opened' /\ v \in 0..MaxTabs
    <3>1. CASE kind[p] = "new"
      <4>1. opened + 1 = opened' /\ opened + 1 \in 0..MaxTabs
        BY <3>1, <1>e, <1>h DEF WebOwner
      <4>2. tab' = [tab EXCEPT ![p] = opened + 1]
        BY <3>1, <1>a
      <4>3. opened' <= opened' /\ opened' \in 0..MaxTabs
        BY <4>1, <1>e
      <4>4. QED
        BY <4>1, <4>2, <4>3
    <3>2. CASE kind[p] # "new"
      BY <3>2, <2>2, <1>a, <1>e, <1>h
    <3>3. QED
      BY <3>1, <3>2
  <2>5. QED
    BY <2>3, <2>4
<1>u. UNCHANGED <<stateFile, profiles, launched, conns, kind, snap, try, meant, before, hit, commands, webFaults, tabRaced>>
  BY DEF Web!Work, Web!browser, Web!tabsAndPages, Web!counters
<1>w. /\ stage'[p] = s /\ \A q \in Procs : q # p => stage'[q] = stage[q]
      /\ tab'[p] = v /\ \A q \in Procs : q # p => tab'[q] = tab[q]
      /\ calls'[p] = calls[p] + 1 /\ \A q \in Procs : q # p => calls'[q] = calls[q]
  BY <1>0, <1>a, <1>x DEF WebKind, WebStage, WebTry
<1>WebOwner. WebOwner'
  BY <1>e
<1>WebPages. WebPages'
  BY <1>e
<1>WebStage. WebStage'
  BY <1>0, <1>x DEF WebStage, WebStages
<1>WebKind. WebKind'
  BY <1>0, <1>x, <1>u DEF WebKind
<1>WebTry. WebTry'
  BY <1>0, <1>a, <1>f, <1>u, BrowserAssumption DEF WebTry
<1>t. WebTypes'
  BY <1>0, <1>u, WebFrames, <1>WebOwner, <1>WebPages, <1>WebStage, <1>WebKind, <1>WebTry DEF WebTypes
<1>b. WebTabs'
  BY <1>0, <1>e, <1>h, <1>u DEF WebTabs, WebFile
<1>s. WebSaved'
  <2>1. ASSUME ~tabRaced, NEW q \in profiles
        PROVE q = stateFile.profile \/ \E r \in Procs : stage'[r] = "save" /\ kind'[r] = "start" /\ snap'[r].profile = q
    <3>1. CASE \E r \in Procs : stage[r] = "save" /\ kind[r] = "start" /\ snap[r].profile = q
      <4>1. PICK r \in Procs : stage[r] = "save" /\ kind[r] = "start" /\ snap[r].profile = q
        BY <3>1
      <4>2. r # p
        BY <4>1, <1>a
      <4>3. QED
        BY <4>1, <4>2, <1>w, <1>u
    <3>2. QED
      BY <3>1, <2>1, <1>0 DEF WebSaved
  <2>2. QED
    BY <2>1, <1>0, <1>a, <1>u DEF WebSaved
<1>p. WebHolds(p)'
  <2>1. Web!Calls(p)' = Web!Calls(p)
    BY <1>u DEF Web!Calls
  <2>2. snap[p].target <= opened' /\ conns[p].target <= opened'
    BY <1>e, <1>h DEF WebHolds, WebFile, WebConn
  <2>3. conns[p].target \in Web!TabIds /\ conns[p].profile # 0 /\ owner'[conns[p].target] = conns[p].profile => conns[p].tab = conns[p].target
    BY <1>e, <1>h DEF WebHolds
  <2>4. conns[p].tab # 0 /\ conns[p].profile # 0 /\ meant[p] = conns[p].target
    BY <1>a, <1>f, <1>h DEF WebHolds
  <2>5. QED
    BY <2>1, <2>2, <2>3, <2>4, <1>f, <1>u, <1>w, <1>x DEF WebHolds
<1>d. WebDoes(p)'
  <2>1. SUFFICES ASSUME kind[p] \in Web!Pages PROVE WebDoes(p)'
    BY <1>u DEF WebDoes, Web!Pages
  <2> DEFINE t == before[p].tab
  <2>2. t \in Web!TabIds /\ conns[p].tab = t /\ kind[p] \in Does[p] /\ (try[p] = 2 => hit[p])
    BY <2>1, <1>a, <1>h DEF WebDoes
  <2>3. PICK d \in 0..WebOnce(kind[p]) : (try[p] = 2 \/ d = 0) /\ WebMade(p, t, d + WebShare(kind[p], calls[p]))
    BY <2>1, <1>a, <1>h DEF WebDoes
  <2>4. d \in Nat /\ WebShare(kind[p], calls[p] + 1) \in Nat
    BY <1>f, BrowserAssumption DEF WebOnce, WebShare
  <2>5. PICK n \in Nat : n = d + WebShare(kind[p], calls[p] + 1)
    BY <2>4
  <2>6. PICK y : y = t
    OBVIOUS
  <2>7. WebMade(p, y, n)'
    BY <2>1, <2>2, <2>3, <2>4, <2>5, <2>6, <1>a, <1>u, WebAdds
  <2>8. /\ stage'[p] \in {"work", "told"} /\ (stage'[p] = "told" => calls'[p] = Web!Calls(p)') /\ conns'[p].tab = y
        /\ before'[p].tab = y /\ kind'[p] = kind[p] /\ try'[p] = try[p] /\ hit'[p] = hit[p] /\ calls'[p] = calls[p] + 1
    <3>1. Web!Calls(p)' = Web!Calls(p)
      BY <1>u DEF Web!Calls
    <3>2. QED
      BY <3>1, <2>1, <2>2, <2>6, <1>u, <1>w, <1>x
  <2>9. kind[p] = "retype" => field'[y] = calls[p]
    <3>1. SUFFICES ASSUME kind[p] = "retype" PROVE field'[y] = calls[p]
      OBVIOUS
    <3>2. field'[y] = IF calls[p] = 0 THEN 0 ELSE field[y] + 1
      BY <3>1, <2>2, <2>6, <1>a, WebEffect
    <3>3. calls[p] > 0 => field[y] = calls[p] - 1
      BY <3>1, <2>1, <2>6, <1>a, <1>h DEF WebDoes
    <3>4. QED
      BY <3>2, <3>3, <1>f
  <2>10. kind'[p] = "retype" /\ calls'[p] > 0 => field'[before'[p].tab] = calls'[p] - 1
    BY <2>8, <2>9, <1>f
  <2>11. (\E e \in 0..WebOnce(kind[p]) : (try[p] = 2 \/ e = 0) /\ WebMade(p, y, e + WebShare(kind[p], calls[p])))'
    <3>1. d \in 0..WebOnce(kind'[p]) /\ (try'[p] = 2 \/ d = 0) /\ n = d + WebShare(kind'[p], calls'[p])
      BY <2>3, <2>5, <2>8
    <3>2. WebMade(p, y, d + WebShare(kind[p], calls[p]))'
      BY <3>1, <2>7 DEF WebMade
    <3>3. QED
      BY <3>1, <3>2
  <2>12. QED
    BY <2>2, <2>6, <2>8, <2>10, <2>11 DEF WebDoes
<1>r. WebRuns(p)'
  BY <1>h, <1>u, <1>w, <1>x DEF WebRuns
<1>o. ASSUME NEW q \in Procs, q # p PROVE (WebHolds(q) /\ WebDoes(q) /\ WebRuns(q))'
  <2>1. kind[q] \in Web!Pages => UNCHANGED <<place, field, clicks>>
    <3>1. kind[q] \in Web!Pages => kind[q] \in Does[q]
      BY <1>0 DEF WebDoes
    <3>2. kind[p] \in Web!Pages => kind[p] \in Does[p]
      BY <1>0 DEF WebDoes
    <3>3. QED
      BY <3>1, <3>2, <1>e, <1>o, BrowserAssumption
  <2>2. QED
    BY <2>1, <1>e, <1>o, <1>u, <1>w, WebStay
<1>9. QED
  BY <1>t, <1>b, <1>s, <1>p, <1>d, <1>r, <1>o DEF WebInv

\* A call fails, or its answer is lost.
LEMMA WebFault ==
    ASSUME WebInv, NEW p \in Procs, NEW done \in BOOLEAN, Web!Fault(p, done)
    PROVE WebInv'
<1>0. /\ WebProfiles /\ WebOwner /\ WebPages /\ WebConns /\ WebStage /\ WebKind /\ WebSnap
      /\ WebTry /\ WebMeant /\ WebHit /\ WebTabs /\ WebSaved
      /\ \A q \in Procs : WebHolds(q) /\ WebDoes(q) /\ WebRuns(q)
  BY DEF WebInv, WebTypes
<1>h. WebHolds(p) /\ WebDoes(p) /\ WebRuns(p) /\ opened \in Nat /\ launched \in Nat /\ snap[p] \in WebFile /\ conns[p] \in WebConn /\ stateFile \in WebFile
  BY <1>0, BrowserAssumption DEF WebOwner, WebProfiles, WebSnap, WebConns
<1>a. /\ stage[p] = "work" /\ ~Web!Wrong(p) /\ (IF done THEN Web!Effect(p) ELSE UNCHANGED Web!tabsAndPages)
      /\ conns' = [conns EXCEPT ![p] = Web!NoConn] /\ hit' = [hit EXCEPT ![p] = TRUE]
      /\ IF try[p] = 1 THEN try' = [try EXCEPT ![p] = 2] /\ stage' = [stage EXCEPT ![p] = "act"]
         ELSE stage' = [stage EXCEPT ![p] = "idle"] /\ try' = try
  BY DEF Web!Fault, Web!Again, Web!Set
<1>e. /\ WebOwner' /\ WebPages' /\ opened' \in Nat /\ opened <= opened'
      /\ \A x \in Web!TabIds : x <= opened => owner'[x] \in {0, owner[x]}
      /\ \A x \in Web!TabIds : owner'[x] # 0 => x <= opened'
      /\ kind[p] \notin Web!Pages => UNCHANGED <<place, field, clicks>>
  <2>1. CASE done
    BY <2>1, <1>a, WebEffect
  <2>2. CASE ~done
    <3>1. UNCHANGED <<owner, opened, place, field, clicks>>
      BY <2>2, <1>a DEF Web!tabsAndPages
    <3>2. WebOwner' /\ WebPages'
      BY <3>1, <1>0 DEF WebOwner, WebPages
    <3>3. QED
      BY <3>1, <3>2, <1>0, <1>h DEF WebTabs
  <2>3. QED
    BY <2>1, <2>2
<1>x. PICK s \in {"act", "idle"}, n \in 0..2 :
      /\ stage' = [stage EXCEPT ![p] = s] /\ try' = [try EXCEPT ![p] = n] /\ (s = "act" => try[p] = 1 /\ n = 2)
  <2>1. CASE try[p] = 1
    BY <2>1, <1>a
  <2>2. CASE try[p] # 1
    <3>1. try[p] \in 0..2 /\ try' = [try EXCEPT ![p] = try[p]]
      BY <2>2, <1>0, <1>a DEF WebTry
    <3>2. QED
      BY <2>2, <3>1, <1>a
  <2>3. QED
    BY <2>1, <2>2
<1>u. UNCHANGED <<stateFile, profiles, launched, kind, tab, snap, calls, meant, before, commands, tabRaced>>
  BY DEF Web!Fault, Web!Again, Web!browser, Web!tabsAndPages, Web!counters
<1>w. /\ conns'[p] = Web!NoConn /\ \A q \in Procs : q # p => conns'[q] = conns[q]
      /\ stage'[p] = s /\ \A q \in Procs : q # p => stage'[q] = stage[q]
      /\ try'[p] = n /\ \A q \in Procs : q # p => try'[q] = try[q]
      /\ hit'[p] = TRUE /\ \A q \in Procs : q # p => hit'[q] = hit[q]
  BY <1>0, <1>a, <1>x DEF WebConns, WebHit, WebStage, WebTry
<1>WebOwner. WebOwner'
  BY <1>e
<1>WebPages. WebPages'
  BY <1>e
<1>WebConns. WebConns'
  BY <1>0, <1>a, WebNone DEF WebConns
<1>WebStage. WebStage'
  BY <1>0, <1>x DEF WebStage, WebStages
<1>WebTry. WebTry'
  BY <1>0, <1>x, <1>u DEF WebTry
<1>WebHit. WebHit'
  BY <1>0, <1>a DEF WebHit
<1>t. WebTypes'
  BY <1>0, <1>u, WebFrames, <1>WebOwner, <1>WebPages, <1>WebConns, <1>WebStage, <1>WebTry, <1>WebHit DEF WebTypes
<1>b. WebTabs'
  BY <1>0, <1>e, <1>h, <1>u DEF WebTabs, WebFile
<1>s. WebSaved'
  <2>1. ASSUME ~tabRaced, NEW q \in profiles
        PROVE q = stateFile.profile \/ \E r \in Procs : stage'[r] = "save" /\ kind'[r] = "start" /\ snap'[r].profile = q
    <3>1. CASE \E r \in Procs : stage[r] = "save" /\ kind[r] = "start" /\ snap[r].profile = q
      <4>1. PICK r \in Procs : stage[r] = "save" /\ kind[r] = "start" /\ snap[r].profile = q
        BY <3>1
      <4>2. r # p
        BY <4>1, <1>a
      <4>3. QED
        BY <4>1, <4>2, <1>w, <1>u
    <3>2. QED
      BY <3>1, <2>1, <1>0 DEF WebSaved
  <2>2. QED
    BY <2>1, <1>0, <1>a, <1>u DEF WebSaved
<1>p. WebHolds(p)'
  <2>1. tab[p] <= opened' /\ snap[p].target <= opened'
    BY <1>0, <1>e, <1>h, BrowserAssumption DEF WebHolds, WebKind, WebFile
  <2>2. QED
    BY <2>1, <1>e, <1>u, <1>w, <1>x, WebNone DEF WebHolds
<1>d. WebDoes(p)'
  <2>1. SUFFICES ASSUME kind[p] \in Web!Pages PROVE WebDoes(p)'
    BY <1>u DEF WebDoes, Web!Pages
  <2>2. CASE s = "act"
    <3>1. PICK y : y = before[p].tab
      OBVIOUS
    <3>2. /\ y \in Web!TabIds /\ calls[p] < Web!Calls(p) /\ calls[p] \in Nat /\ try[p] = 1 /\ Web!Calls(p) \in Nat /\ conns[p].tab = y
          /\ WebMade(p, y, 0 + WebShare(kind[p], calls[p]))
      BY <2>1, <2>2, <3>1, <1>0, <1>h, <1>a, <1>x, FewCalls, BrowserAssumption DEF WebDoes, WebHolds, WebTry
    <3>3. calls[p] <= Web!Calls(p) /\ calls[p] + 1 <= Web!Calls(p) /\ calls[p] + 1 \in Nat
      BY <3>2
    <3>4. WebShare(kind[p], calls[p]) \in Nat /\ WebShare(kind[p], calls[p] + 1) \in Nat
      BY <3>2 DEF WebShare
    <3>5. \E d \in Nat : d \in {WebShare(kind[p], calls[p]), WebShare(kind[p], calls[p] + 1)} /\ WebMade(p, y, d)'
      <4>1. CASE done
        <5>1. PICK d \in Nat : d = WebShare(kind[p], calls[p] + 1) /\ d = 0 + WebShare(kind[p], calls[p] + 1)
          BY <3>4
        <5>2. Web!Effect(p)
          BY <4>1, <1>a
        <5>3. WebMade(p, y, d)'
          BY <5>1, <5>2, <2>1, <3>2, <1>a, <1>u, WebAdds
        <5>4. QED
          BY <5>1, <5>3
      <4>2. CASE ~done
        <5>1. PICK d \in Nat : d = WebShare(kind[p], calls[p]) /\ d = 0 + WebShare(kind[p], calls[p])
          BY <3>4
        <5>2. UNCHANGED <<place, field, clicks>>
          BY <4>2, <1>a DEF Web!tabsAndPages
        <5>3. WebMade(p, y, d)
          BY <5>1, <3>2
        <5>4. WebMade(p, y, d)'
          BY <5>2, <5>3, <1>u DEF WebMade
        <5>5. QED
          BY <5>1, <5>4
      <4>3. QED
        BY <4>1, <4>2
    <3>6. (\E d \in 0..WebOnce(kind[p]) : WebMade(p, y, d))'
      <4>1. CASE kind[p] = "retype"
        BY <4>1, <1>u DEF WebMade, WebOnce
      <4>2. CASE kind[p] # "retype"
        <5>1. PICK d \in Nat : d \in {WebShare(kind[p], calls[p]), WebShare(kind[p], calls[p] + 1)} /\ WebMade(p, y, d)'
          BY <3>5
        <5>2. d \in 0..WebOnce(kind[p])
          BY <4>2, <5>1, <2>1, <3>2, <3>3, OnceEach
        <5>3. QED
          BY <5>1, <5>2, <1>u
      <4>3. QED
        BY <4>1, <4>2
    <3>7. QED
      BY <2>1, <2>2, <3>1, <3>2, <3>6, <1>h, <1>u, <1>w, <1>x DEF WebDoes
  <2>3. CASE s = "idle"
    BY <2>1, <2>3, <1>h, <1>u, <1>w, <1>x DEF WebDoes
  <2>4. QED
    BY <2>2, <2>3
<1>r. WebRuns(p)'
  BY <1>h, <1>u, <1>w, <1>x DEF WebRuns
<1>o. ASSUME NEW q \in Procs, q # p PROVE (WebHolds(q) /\ WebDoes(q) /\ WebRuns(q))'
  <2>1. kind[q] \in Web!Pages => UNCHANGED <<place, field, clicks>>
    <3>1. kind[q] \in Web!Pages => kind[q] \in Does[q]
      BY <1>0 DEF WebDoes
    <3>2. kind[p] \in Web!Pages => kind[p] \in Does[p]
      BY <1>0 DEF WebDoes
    <3>3. QED
      BY <3>1, <3>2, <1>e, <1>o, BrowserAssumption
  <2>2. QED
    BY <2>1, <1>e, <1>o, <1>u, <1>w, WebStay
<1>9. QED
  BY <1>t, <1>b, <1>s, <1>p, <1>d, <1>r, <1>o DEF WebInv

\* A tab closes itself.
LEMMA WebCloseItself ==
    ASSUME WebInv, NEW t \in Web!TabIds, Web!CloseItself(t)
    PROVE WebInv'
<1>0. /\ WebProfiles /\ WebOwner /\ WebPages /\ WebConns /\ WebStage /\ WebKind /\ WebSnap
      /\ WebTry /\ WebMeant /\ WebHit /\ WebTabs /\ WebSaved
      /\ \A q \in Procs : WebHolds(q) /\ WebDoes(q) /\ WebRuns(q)
  BY DEF WebInv, WebTypes
<1>a. owner' = [owner EXCEPT ![t] = 0]
  BY DEF Web!CloseItself, Web!Set, Web!None
<1>n. \A x \in Web!TabIds : owner'[x] \in {0, owner[x]}
  BY <1>0, <1>a DEF WebOwner
<1>h. opened \in Nat
  BY <1>0, BrowserAssumption DEF WebOwner
<1>u. UNCHANGED <<stateFile, profiles, launched, opened, place, field, clicks, conns, stage, kind, tab, snap, try, calls, meant, before, hit, commands, tabRaced>>
  BY DEF Web!CloseItself, Web!browser, Web!tabsAndPages, Web!counters
<1>WebOwner. WebOwner'
  <2>1. 0 \in 0..MaxProfiles /\ owner \in [Web!TabIds -> 0..MaxProfiles]
    BY <1>0, BrowserAssumption DEF WebOwner
  <2>2. owner' \in [Web!TabIds -> 0..MaxProfiles]
    BY <2>1, <1>a
  <2>3. QED
    BY <2>2, <1>0, <1>u DEF WebOwner
<1>t. WebTypes'
  BY <1>0, <1>u, WebFrames, <1>WebOwner DEF WebTypes
<1>b. WebTabs'
  BY <1>0, <1>n, <1>u DEF WebTabs
<1>s. WebSaved'
  BY <1>0, <1>u DEF WebSaved
<1>o. ASSUME NEW q \in Procs PROVE (WebHolds(q) /\ WebDoes(q) /\ WebRuns(q))'
  BY <1>0, <1>h, <1>n, <1>o, <1>u, WebStay
<1>9. QED
  BY <1>t, <1>b, <1>s, <1>o DEF WebInv

\* Every step keeps it.
LEMMA WebKeeps ==
    ASSUME WebInv, Web!Next
    PROVE WebInv'
<1>1. opened \in 0..MaxTabs
  BY DEF WebInv, WebTypes, WebOwner
<1>2. 0 \in 0..opened /\ \A t \in 1..opened : t \in 0..opened
  BY <1>1, BrowserAssumption
<1>3. ASSUME NEW p \in Procs, NEW k \in Does[p],
             \/ k \notin {"switch", "close"} /\ Web!Begin(p, k, Web!None)
             \/ k = "close" /\ Web!Begin(p, k, Web!None)
             \/ k \in {"switch", "close"} /\ \E t \in 1..opened : Web!Begin(p, k, t)
      PROVE WebInv'
  <2>1. PICK t \in 0..opened : Web!Begin(p, k, t)
    BY <1>2, <1>3 DEF Web!None
  <2>2. QED
    BY <2>1, WebBegin
<1>4. ASSUME NEW p \in Procs, NEW t \in 0..MaxTabs, Web!Session(p, t) PROVE WebInv'
  BY <1>4, WebSession
<1>5. ASSUME NEW p \in Procs,
             \/ Web!Launch(p) \/ Web!StopProfile(p) \/ Web!Forget(p) \/ Web!Work(p) \/ Web!Refused(p) \/ Web!Reload(p) \/ Web!Save(p) \/ Web!Told(p)
             \/ \E b \in BOOLEAN : Web!Fault(p, b)
      PROVE WebInv'
  BY <1>5, Zenon, WebLaunch, WebStopProfile, WebForget, WebWork, WebRefused, WebReload, WebSave, WebTold, WebFault
<1>6. ASSUME NEW t \in Web!TabIds, Web!CloseItself(t) PROVE WebInv'
  BY <1>6, WebCloseItself
<1>7. QED
  BY <1>3, <1>4, <1>5, <1>6, Zenon DEF Web!Next

\* A step of another module leaves it.
LEMMA WebRests == WebInv /\ UNCHANGED Web!vars => WebInv'
<1> SUFFICES ASSUME WebInv, UNCHANGED Web!vars PROVE WebInv'
  OBVIOUS
<1>1. UNCHANGED <<stateFile, profiles, launched, owner, opened, place, field, clicks, conns, stage, kind, tab, snap, try, calls, meant, before, hit, tabRaced>>
  BY DEF Web!vars
<1>2. WebTypes /\ WebTabs /\ WebSaved /\ opened \in Nat
  BY BrowserAssumption DEF WebInv, WebTypes, WebOwner
<1>3. WebTypes'
  BY <1>1, <1>2, WebFrames DEF WebTypes
<1>4. WebTabs' /\ WebSaved'
  BY <1>1, <1>2 DEF WebTabs, WebSaved
<1>5. ASSUME NEW q \in Procs PROVE (WebHolds(q) /\ WebDoes(q) /\ WebRuns(q))'
  BY <1>1, <1>2, WebStay
<1>6. QED
  BY <1>3, <1>4, <1>5 DEF WebInv

\* What it says of a command, of its page and of the file.
LEMMA WebTruth == WebInv => Web!TypeOK /\ Web!ActsOnActive /\ Web!DoneAsTold /\ Web!FileIsTrue
<1> SUFFICES ASSUME WebInv PROVE Web!TypeOK /\ Web!ActsOnActive /\ Web!DoneAsTold /\ Web!FileIsTrue
  OBVIOUS
<1>0. WebTypes /\ WebTabs /\ WebSaved /\ \A p \in Procs : WebHolds(p) /\ WebDoes(p) /\ WebRuns(p)
  BY DEF WebInv
<1>1. Web!TypeOK
  <2>1. stateFile \in WebFile /\ owner \in [Web!TabIds -> 0..MaxProfiles]
    BY <1>0 DEF WebTypes, WebSnap, WebOwner
  <2>2. \A p \in Procs : conns[p] \in WebConn /\ try[p] \in 0..2 /\ calls[p] \in 0..(Letters + 1)
    BY <1>0 DEF WebTypes, WebConns, WebTry
  <2>3. QED
    BY <2>1, <2>2 DEF Web!TypeOK, WebFile, WebConn
<1>2. Web!ActsOnActive
  <2>1. SUFFICES ASSUME NEW p \in Procs, stage[p] = "work", meant[p] \in Web!Open(conns[p].profile) PROVE conns[p].tab = meant[p]
    BY DEF Web!ActsOnActive
  <2>2. meant[p] = conns[p].target /\ conns[p].profile # 0
    BY <1>0, <2>1 DEF WebHolds
  <2>3. meant[p] \in Web!TabIds /\ owner[meant[p]] = conns[p].profile
    BY <2>1 DEF Web!Open
  <2>4. QED
    BY <1>0, <2>2, <2>3 DEF WebHolds
<1>3. Web!DoneAsTold
  <2>1. SUFFICES ASSUME NEW p \in Procs, stage[p] = "told", kind[p] \in Web!Pages
                 PROVE LET t == conns[p].tab
                           done == CASE kind[p] = "type" -> field[t] - before[p].field
                                     [] kind[p] = "click" -> clicks[t] - before[p].clicks
                                     [] kind[p] = "back" -> before[p].place - place[t]
                                     [] kind[p] = "forward" -> place[t] - before[p].place
                           once == IF kind[p] = "type" THEN Letters ELSE 1
                       IN  IF kind[p] = "retype" THEN field[t] = Letters
                           ELSE done \in once..(2 * once) /\ (~hit[p] => done = once)
    BY Zenon DEF Web!DoneAsTold
  <2> DEFINE t == conns[p].tab
  <2>2. /\ t \in Web!TabIds /\ before[p].tab = t /\ calls[p] = Web!Calls(p) /\ (try[p] = 2 => hit[p])
        /\ kind[p] = "retype" /\ calls[p] > 0 => field[t] = calls[p] - 1
    BY <1>0, <2>1 DEF WebDoes
  <2>3. PICK d \in 0..WebOnce(kind[p]) : (try[p] = 2 \/ d = 0) /\ WebMade(p, t, d + WebShare(kind[p], calls[p]))
    BY <1>0, <2>1, <2>2 DEF WebDoes
  <2>4. /\ field[t] \in Nat /\ clicks[t] \in Nat /\ place[t] \in Nat /\ Letters \in Nat
        /\ before[p].field \in Nat /\ before[p].clicks \in Nat /\ before[p].place \in Nat
    <3>1. WebPages /\ before[p] \in WebPage
      BY <1>0 DEF WebTypes, WebMeant
    <3>2. QED
      BY <3>1, <2>2, BrowserAssumption DEF WebPages, WebPage, Web!Newest
  <2>5. CASE kind[p] = "retype"
    BY <2>5, <2>2, <2>4, BrowserAssumption DEF Web!Calls
  <2>6. CASE kind[p] = "type"
    <3>1. d \in 0..Letters /\ field[t] = before[p].field + (d + Letters)
      BY <2>6, <2>2, <2>3 DEF Web!Calls, WebOnce, WebMade, WebShare
    <3>2. QED
      BY <3>1, <2>2, <2>3, <2>4, <2>6
  <2>7. CASE kind[p] = "click"
    <3>1. d \in 0..1 /\ clicks[t] = before[p].clicks + (d + 1)
      BY <2>7, <2>2, <2>3 DEF Web!Calls, WebOnce, WebMade, WebShare
    <3>2. QED
      BY <3>1, <2>2, <2>3, <2>4, <2>7
  <2>8. CASE kind[p] = "back"
    <3>1. d \in 0..1 /\ place[t] + (d + 1) = before[p].place
      BY <2>8, <2>2, <2>3 DEF Web!Calls, WebOnce, WebMade, WebShare
    <3>2. QED
      BY <3>1, <2>2, <2>3, <2>4, <2>8
  <2>9. CASE kind[p] = "forward"
    <3>1. d \in 0..1 /\ place[t] = before[p].place + (d + 1)
      BY <2>9, <2>2, <2>3 DEF Web!Calls, WebOnce, WebMade, WebShare
    <3>2. QED
      BY <3>1, <2>2, <2>3, <2>4, <2>9
  <2>10. QED
    BY <2>1, <2>5, <2>6, <2>7, <2>8, <2>9 DEF Web!Pages
<1>4. Web!FileIsTrue
  BY <1>0 DEF Web!FileIsTrue, WebSaved
<1>5. QED
  BY <1>1, <1>2, <1>3, <1>4

-----------------------------------------------------------------------------
(* The components together: each moves while it is on.                     *)

AgentIInv ==
    /\ on \in Texts => SayInv
    /\ on = "subagents" => SubInv
    /\ on = "ci" => CiInv
    /\ on = "keeper" => FleetInv
    /\ on = "donors" => DonorInv
    /\ on = "browser" => WebInv

\* A step of the whole is one of the component that is on.
LEMMA AgentGoesOn == [AgentNext]_allVars =>
    /\ on' = on
    /\ on \in Texts => [Next]_vars
    /\ on = "subagents" => [Sub!Next]_(Sub!vars)
    /\ on = "ci" => [Ci!Next]_(Ci!vars)
    /\ on = "keeper" => [Fleet!Next]_(Fleet!vars)
    /\ on = "donors" => [Donor!Next]_(Donor!vars)
    /\ on = "browser" => [Web!Next]_(Web!vars)
<1> SUFFICES ASSUME [AgentNext]_allVars
             PROVE  /\ on' = on
                    /\ on \in Texts => [Next]_vars
                    /\ on = "subagents" => [Sub!Next]_(Sub!vars)
                    /\ on = "ci" => [Ci!Next]_(Ci!vars)
                    /\ on = "keeper" => [Fleet!Next]_(Fleet!vars)
                    /\ on = "donors" => [Donor!Next]_(Donor!vars)
                    /\ on = "browser" => [Web!Next]_(Web!vars)
  OBVIOUS
<1>1. CASE AgentNext
  <2>1. /\ on' = on
        /\ \/ on \in Texts /\ Next
           \/ on = "subagents" /\ Sub!Next
           \/ on = "ci" /\ Ci!Next
           \/ on = "keeper" /\ Fleet!Next
           \/ on = "donors" /\ Donor!Next
           \/ on = "browser" /\ Web!Next
    BY <1>1 DEF AgentNext
  <2> QED BY <2>1, NamesAssumption
<1>2. CASE UNCHANGED allVars
  <2>1. on' = on /\ UNCHANGED <<vars, subVars, ciVars, fleetVars, donorVars, webVars>>
    BY <1>2 DEF allVars
  <2>2. UNCHANGED Sub!vars /\ UNCHANGED Ci!vars
    BY <2>1 DEF subVars, Sub!vars, ciVars, Ci!vars, Ci!github, Ci!pool, Ci!own, Ci!noted
  <2>3. UNCHANGED Fleet!vars /\ UNCHANGED Donor!vars
    BY <2>1 DEF fleetVars, Fleet!vars, Fleet!keeper, donorVars, Donor!vars, Donor!runs
  <2>4. UNCHANGED Web!vars
    BY <2>1 DEF webVars, Web!vars
  <2> QED BY <2>1, <2>2, <2>3, <2>4
<1> QED BY <1>1, <1>2

\* A sender that stays as it is keeps what is true of it.
LEMMA SayRests == SayInv /\ UNCHANGED vars => SayInv'
<1> SUFFICES ASSUME SayInv, UNCHANGED vars PROVE SayInv'
  OBVIOUS
<1>1. UNCHANGED <<chat, rows, replies, at, text, target, plain, sent, tries, found, overlaps, raced, troubles>>
  BY DEF vars, chatVars, callerVars, noted
<1>2. SayTypes'
  <2>1. SayChat' /\ (rows \in SayEntries)' /\ SayReplies' /\ SayCallers' /\ SayNoted'
    BY <1>1 DEF SayInv, SayTypes, SayChat, SayEntries, SayReplies, SayCallers, SayNoted
  <2>2. ASSUME NEW k \in Callers PROVE SayPlace(k)'
    BY <1>1 DEF SayInv, SayTypes, SayPlace
  <2> QED BY <2>1, <2>2 DEF SayTypes
<1>3. /\ \A k : Sending(k)' <=> Sending(k)
      /\ \A m : Held(m)' <=> Held(m)
      /\ \A i, m : Has(i, m)' <=> Has(i, m)
      /\ \A m : Alive(m)' <=> Alive(m)
      /\ \A k : Works(k)' <=> Works(k)
      /\ \A k : Edited(k)' = Edited(k)
  BY <1>1 DEF Sending, Held, Has, Alive, Works, Edited, Message
<1>4. SayApart' /\ SaySent'
  BY <1>1, <1>3 DEF SayInv, SayApart, SaySent
<1>5. SayQuiet => SayQuiet'
  BY <1>1, <1>3 DEF SayQuiet, SayHome, SayAlone, SayLeft, SayMet, SayWritten, SayTexts, SayMany
<1>6. ASSUME NEW t \in Texts PROVE Saying(t)' = Saying(t) /\ Copies(t)' = Copies(t)
  BY <1>1, Zenon DEF Saying, Copies
<1>7. SayOnce'
  BY <1>1, <1>6 DEF SayInv, SayOnce
<1> QED BY <1>1, <1>2, <1>4, <1>5, <1>7 DEF SayInv

\* So do subagents.
LEMMA SubStays == SubInv /\ UNCHANGED Sub!vars => SubInv'
  BY DEF Sub!vars, SubInv, Sub!TypeOK, Sub!Reasons, Sub!NoInstance, SubWaits, WaitsWell,
         Settled, Sub!At, SubEvents, SubChildren

\* So does the keeper.
LEMMA FleetStays == FleetInv /\ UNCHANGED Fleet!vars => FleetInv'
  BY DEF Fleet!vars, Fleet!keeper, FleetInv, Young, Fleet!Live, Fleet!Runs, Fleet!TypeOK

\* So do the donors.
LEMMA DonorStays == DonorInv /\ UNCHANGED Donor!vars => DonorInv'
  BY DEF Donor!vars, Donor!runs, DonorInv, Donor!TypeOK

\* The invariant holds at the start.
LEMMA AgentBegins == AgentInit => AgentIInv
<1>1. AgentInit => /\ Init
                   /\ on = "subagents" => Sub!Init
                   /\ on = "ci" => Ci!Init
                   /\ on = "keeper" => Fleet!Init
                   /\ on = "donors" => Donor!Init
                   /\ on = "browser" => Web!Init
  BY DEF AgentInit
<1> QED BY <1>1, SayBegins, SubBegins, CiBegins, FleetBegins, DonorBegins, WebBegins DEF AgentIInv

\* Every step keeps it.
LEMMA AgentKeeps == AgentIInv /\ [AgentNext]_allVars => AgentIInv'
<1> SUFFICES ASSUME AgentIInv, [AgentNext]_allVars PROVE AgentIInv'
  OBVIOUS
<1>1. ASSUME on \in Texts PROVE SayInv'
  BY <1>1, AgentGoesOn, SayKeeps, SayRests DEF AgentIInv
<1>2. ASSUME on = "subagents" PROVE SubInv'
  BY <1>2, AgentGoesOn, SubKeeps, SubStays DEF AgentIInv
<1>3. ASSUME on = "ci" PROVE CiInv'
  BY <1>3, AgentGoesOn, CiKeeps, CiRests DEF AgentIInv
<1>4. ASSUME on = "keeper" PROVE FleetInv'
  BY <1>4, AgentGoesOn, FleetKeeps, FleetStays DEF AgentIInv
<1>5. ASSUME on = "donors" PROVE DonorInv'
  BY <1>5, AgentGoesOn, DonorKeeps, DonorStays DEF AgentIInv
<1>6. ASSUME on = "browser" PROVE WebInv'
  BY <1>6, AgentGoesOn, WebKeeps, WebRests DEF AgentIInv
<1> QED BY <1>1, <1>2, <1>3, <1>4, <1>5, <1>6, AgentGoesOn DEF AgentIInv

\* Without trouble an answer is said once, and the rows are those of the messages,
\* whatever callers work together: sender.say, edit and their retries.
THEOREM ChatCorrect == AgentSpec => []ChatIsTrue
<1>1. AgentIInv => ChatIsTrue
  BY SayTruth DEF AgentIInv, ChatIsTrue
<1> QED BY <1>1, AgentBegins, AgentKeeps, PTL DEF AgentSpec

\* Who waited has waited for all, who left without them had a reason, and a stop is
\* heeded: subagents.spawn, wait and stop, on any number of instances.
THEOREM SubagentsCorrect == AgentSpec => []SubagentsAreTrue
<1>1. AgentIInv => SubagentsAreTrue
  BY SubTruth DEF AgentIInv, SubagentsAreTrue
<1> QED BY <1>1, AgentBegins, AgentKeeps, PTL DEF AgentSpec

\* Runners are as many as the jobs and the limit explain and no job that is offered
\* is forgotten; a repository has as many runs as it is to have, and the token they
\* are given: the controllers of scale sets, the keeper and the donors.
THEOREM RunnersCorrect == AgentSpec => []RunnersAreTrue
<1>1. AgentIInv => RunnersAreTrue
  BY CiTruth, FleetTruth, DonorTruth DEF AgentIInv, RunnersAreTrue
<1> QED BY <1>1, AgentBegins, AgentKeeps, PTL DEF AgentSpec

\* A command acts on the active tab and says what it did, and the file is that of
\* the browser: the commands of chrome, given by any number of programs.
THEOREM BrowserCorrect == AgentSpec => []BrowserIsTrue
<1>1. AgentIInv => BrowserIsTrue
  BY WebTruth DEF AgentIInv, BrowserIsTrue
<1> QED BY <1>1, AgentBegins, AgentKeeps, PTL DEF AgentSpec
=============================================================================
