------------------------------- MODULE Sender -------------------------------
(***************************************************************************)
(* What the bot says in a chat: calls of the CLI that send a text or a     *)
(* file, edit a message or delete one.  A text is cut into parts, a part   *)
(* is sent with retries, and what was sent is recorded as a response.  A   *)
(* call is remembered under a key, so that repeating it sends nothing.     *)
(*                                                                         *)
(* Sources: telegram/sender.py, telegram/retry.py,                         *)
(* database/repositories/response.py, api/routes/cli/chat.py.              *)
(*                                                                         *)
(* One chat.  A text stands for its content, its buttons and what it       *)
(* replies to, in one turn: the key of a call.  Messages have the numbers  *)
(* Telegram gives them, in the order of their arrival.                     *)
(***************************************************************************)
EXTENDS Naturals, Sequences, SequencesExt, FiniteSets

CONSTANTS
    Callers,    \* handlers of calls
    Texts,      \* what is said
    Edits,      \* what messages are edited to
    Parts,      \* of each: messages it takes, and as a document if it is media
    Attempts,   \* attempts of retry()
    MaxShown,   \* bound of the model: messages
    MaxTroubles \* bound of the model: see Trouble

VARIABLES
    chat,     \* the messages: text and part, part 0 of one that is deleted
    rows,     \* the table of responses
    replies,  \* of each text: the answer in Redis, or none
    at,       \* of each caller: where it is
    text,     \* of each caller: the text
    target,   \* of each caller: the message it edits or deletes
    plain,    \* of each caller: it is sent as a document
    sent,     \* of each caller: message_ids
    tries,    \* of each caller: attempts of the request it makes
    found,    \* of each caller: the row it has read
    overlaps, \* calls with a key that began while one with the same key was there
    raced,    \* messages two callers changed at a time
    troubles

chatVars == <<chat, rows, replies>>
callerVars == <<at, text, target, plain, sent, tries, found>>
noted == <<overlaps, raced>>
vars == <<chatVars, callerVars, noted, troubles>>

NoText == "notext"
NoReply == <<0>>

TypeOK ==
    /\ \A i \in 1..Len(chat) : chat[i] \in [text : Texts \cup Edits, part : Nat, keyed : BOOLEAN]
    /\ \A i \in 1..Len(rows) :
          rows[i].text \in Texts \cup Edits /\ rows[i].ids \subseteq 1..Len(chat)
    /\ \A t \in Texts : replies[t] = NoReply \/ ToSet(replies[t]) \subseteq 1..Len(chat)
    /\ at \in [Callers -> {"idle", "send", "record", "remember", "edit", "set", "delete", "find", "forget"}]
    /\ text \in [Callers -> Texts \cup Edits \cup {NoText}]
    /\ target \in [Callers -> 0..MaxShown]
    /\ plain \in [Callers -> BOOLEAN]
    /\ \A k \in Callers : ToSet(sent[k]) \subseteq 1..Len(chat)
    /\ tries \in [Callers -> 0..Attempts]
    /\ \A k \in Callers : found[k].row \in 0..Len(rows)
    /\ overlaps \in Nat
    /\ raced \subseteq 1..MaxShown
    /\ troubles \in 0..MaxTroubles

NotFound == [row |-> 0, ids |-> {}]

Init ==
    /\ chat = <<>> /\ rows = <<>> /\ replies = [t \in Texts |-> NoReply]
    /\ at = [k \in Callers |-> "idle"]
    /\ text = [k \in Callers |-> NoText]
    /\ target = [k \in Callers |-> 0]
    /\ plain = [k \in Callers |-> FALSE]
    /\ sent = [k \in Callers |-> <<>>]
    /\ tries = [k \in Callers |-> 0]
    /\ found = [k \in Callers |-> NotFound]
    /\ overlaps = 0 /\ raced = {} /\ troubles = 0

Trouble ==
    /\ troubles < MaxTroubles
    /\ troubles' = troubles + 1

Goto(k, p) == at' = [at EXCEPT ![k] = p]

\* The handler answers, or raises.
End(k) ==
    /\ Goto(k, "idle")
    /\ text' = [text EXCEPT ![k] = NoText]
    /\ target' = [target EXCEPT ![k] = 0]
    /\ plain' = [plain EXCEPT ![k] = FALSE]
    /\ sent' = [sent EXCEPT ![k] = <<>>]
    /\ tries' = [tries EXCEPT ![k] = 0]
    /\ found' = [found EXCEPT ![k] = NotFound]

-----------------------------------------------------------------------------
(* Sending.                                                                *)

Begin(k, t) ==
    /\ at[k] = "idle"
    /\ overlaps' = overlaps + (IF \E l \in Callers : text[l] = t THEN 1 ELSE 0)
    /\ Goto(k, "send")
    /\ text' = [text EXCEPT ![k] = t]
    /\ UNCHANGED <<chatVars, target, plain, sent, tries, found, raced, troubles>>

Media(t) == Parts[t].document > 0

\* say: a call that was answered is answered as before.
Say(k, t) ==
    /\ ~Media(t)
    /\ replies[t] = NoReply
    /\ Begin(k, t)

\* upload: a file is known by its name, its length and its caption.
Upload(k, t) ==
    /\ Media(t)
    /\ replies[t] = NoReply
    /\ Begin(k, t)

\* How many messages there are to be: a sticker has its caption apart.
Wanted(k) == IF plain[k] THEN Parts[text[k]].document ELSE Parts[text[k]].media

Message(t, part, keyed) == [text |-> t, part |-> part, keyed |-> keyed]
Appears(k) ==
    Len(chat) < MaxShown /\ chat' = Append(chat, Message(text[k], Len(sent[k]) + 1, TRUE))

\* A part is sent; after the last one the response is recorded.
SendPart(k) ==
    /\ at[k] = "send"
    /\ Appears(k)
    /\ sent' = [sent EXCEPT ![k] = Append(@, Len(chat'))]
    /\ tries' = [tries EXCEPT ![k] = 0]
    /\ Goto(k, IF Len(sent'[k]) = Wanted(k) THEN "record" ELSE "send")
    /\ UNCHANGED <<rows, replies, text, target, plain, found, noted, troubles>>

\* Media Telegram does not take is sent as a document.
Fallback(k) ==
    /\ at[k] = "send"
    /\ sent[k] = <<>> /\ ~plain[k]
    /\ Media(text[k])
    /\ plain' = [plain EXCEPT ![k] = TRUE]
    /\ tries' = [tries EXCEPT ![k] = 0]
    /\ UNCHANGED <<chatVars, at, text, target, sent, found, noted, troubles>>

\* retry: limited or an error of the network, before the last attempt.
Wait(k) ==
    /\ at[k] \in {"send", "edit", "delete"}
    /\ tries[k] + 1 < Attempts
    /\ tries' = [tries EXCEPT ![k] = @ + 1]
    /\ UNCHANGED <<chatVars, at, text, target, plain, sent, found, noted, troubles>>

\* An error of the network after Telegram did it.
SentUnheard(k) ==
    /\ at[k] = "send"
    /\ Trouble
    /\ tries[k] + 1 < Attempts
    /\ Appears(k)
    /\ tries' = [tries EXCEPT ![k] = @ + 1]
    /\ UNCHANGED <<rows, replies, at, text, target, plain, sent, found, noted>>

\* ResponseRepository.add: a response is one row for all its messages.
Add(k, ids) == rows' = Append(rows, [text |-> text[k], ids |-> ids])

\* Mutant: only the first part is recorded.
RecordFirst(k) ==
    /\ at[k] = "record"
    /\ Add(k, {Head(sent[k])})
    /\ Goto(k, "remember")
    /\ UNCHANGED <<chat, replies, text, target, plain, sent, tries, found, noted, troubles>>

\* _record.
Record(k) ==
    /\ at[k] = "record"
    /\ Add(k, ToSet(sent[k]))
    /\ Goto(k, "remember")
    /\ UNCHANGED <<chat, replies, text, target, plain, sent, tries, found, noted, troubles>>

\* The answer is put into Redis; that it cannot be is passed over.
Remember(k) ==
    /\ at[k] = "remember"
    /\ \/ replies' = [replies EXCEPT ![text[k]] = sent[k]] /\ UNCHANGED troubles
       \/ UNCHANGED replies /\ Trouble
    /\ End(k)
    /\ UNCHANGED <<chat, rows, noted>>

\* A request without a key and without retries, and the response.
Posts(k, t) ==
    /\ at[k] = "idle"
    /\ Len(chat) + Parts[t].media <= MaxShown
    /\ chat' = chat \o [i \in 1..Parts[t].media |-> Message(t, i, FALSE)]
    /\ text' = [text EXCEPT ![k] = t]
    /\ sent' = [sent EXCEPT ![k] = [i \in 1..Parts[t].media |-> Len(chat) + i]]
    /\ Goto(k, "record")
    /\ UNCHANGED <<rows, replies, target, plain, tries, found, noted, troubles>>

\* A poll, a dice, a place or a contact.
Once(k, t) == Parts[t].media = 1 /\ Posts(k, t)

\* An album.
Album(k, t) == Parts[t].media > 1 /\ Posts(k, t)

-----------------------------------------------------------------------------
(* Editing and deleting.                                                   *)

\* by_message: the last row that has the message.
RowsOf(m) == {i \in 1..Len(rows) : m \in rows[i].ids}
RowOf(m) == IF RowsOf(m) = {} THEN 0 ELSE CHOOSE i \in RowsOf(m) : \A j \in RowsOf(m) : j <= i

\* Two messages of a response are its row's too.
Company(m) == {m} \cup IF RowOf(m) = 0 THEN {} ELSE rows[RowOf(m)].ids
Meet(k, m) ==
    raced' = IF \E l \in Callers \ {k} : (ToSet(sent[l]) \cup {target[l]}) \cap Company(m) # {}
             THEN raced \cup Company(m) ELSE raced

\* edit: a text of one part.
StartEdit(k, m, t) ==
    /\ at[k] = "idle"
    /\ m \in 1..Len(chat)
    /\ Goto(k, "edit")
    /\ target' = [target EXCEPT ![k] = m]
    /\ text' = [text EXCEPT ![k] = t]
    /\ Meet(k, m)
    /\ UNCHANGED <<chatVars, plain, sent, tries, found, overlaps, troubles>>

Edited(k) == Message(text[k], 1, FALSE)
Shows(k) == chat[target[k]].text = text[k] /\ chat[target[k]].part = 1

\* Telegram does it and the row is next.
Edit(k) ==
    /\ at[k] = "edit"
    /\ ~Shows(k) /\ chat[target[k]].part # 0
    /\ chat' = [chat EXCEPT ![target[k]] = Edited(k)]
    /\ Goto(k, "set")
    /\ UNCHANGED <<rows, replies, text, target, plain, sent, tries, found, noted, troubles>>

EditUnheard(k) ==
    /\ at[k] = "edit"
    /\ ~Shows(k) /\ chat[target[k]].part # 0
    /\ Trouble
    /\ tries[k] + 1 < Attempts
    /\ chat' = [chat EXCEPT ![target[k]] = Edited(k)]
    /\ tries' = [tries EXCEPT ![k] = @ + 1]
    /\ UNCHANGED <<rows, replies, at, text, target, plain, sent, found, noted>>

\* "message is not modified" is an answer without a look at the row.
NotModified(k) ==
    /\ at[k] = "edit"
    /\ Shows(k)
    /\ End(k)
    /\ UNCHANGED <<chatVars, noted, troubles>>

\* set_content: for a response of one message, which is this one.
SetContent(k) ==
    LET i == RowOf(target[k]) IN
    /\ at[k] = "set"
    /\ rows' = IF i # 0 /\ rows[i].ids = {target[k]} THEN [rows EXCEPT ![i].text = text[k]] ELSE rows
    /\ End(k)
    /\ UNCHANGED <<chat, replies, noted, troubles>>

\* drop, and sender.delete.
StartDelete(k, m) ==
    /\ at[k] = "idle"
    /\ m \in 1..Len(chat)
    /\ Goto(k, "delete")
    /\ target' = [target EXCEPT ![k] = m]
    /\ Meet(k, m)
    /\ UNCHANGED <<chatVars, text, plain, sent, tries, found, overlaps, troubles>>

Delete(k) ==
    /\ at[k] = "delete"
    /\ chat[target[k]].part # 0
    /\ chat' = [chat EXCEPT ![target[k]].part = 0]
    /\ Goto(k, "find")
    /\ UNCHANGED <<rows, replies, text, target, plain, sent, tries, found, noted, troubles>>

\* The message was deleted, unheard: the next attempt finds none.
DeleteUnheard(k) ==
    /\ at[k] = "delete"
    /\ chat[target[k]].part # 0
    /\ Trouble
    /\ chat' = [chat EXCEPT ![target[k]].part = 0]
    /\ UNCHANGED <<rows, replies, callerVars, noted>>

\* forget reads the row,
Find(k) ==
    /\ at[k] = "find"
    /\ LET i == RowOf(target[k]) IN
          IF i = 0 THEN End(k)
          ELSE /\ found' = [found EXCEPT ![k] = [row |-> i, ids |-> rows[i].ids]]
               /\ Goto(k, "forget")
               /\ UNCHANGED <<text, target, plain, sent, tries>>
    /\ UNCHANGED <<chatVars, noted, troubles>>

\* ... and writes what it has read without the message.
Forget(k) ==
    /\ at[k] = "forget"
    /\ rows' = [rows EXCEPT ![found[k].row].ids = found[k].ids \ {target[k]}]
    /\ End(k)
    /\ UNCHANGED <<chat, replies, noted, troubles>>

\* Telegram refuses, attempts run out: the caller is told, and nothing is
\* recorded of what was sent so far.  Or the process ends.
Refused(k) ==
    /\ at[k] \in {"send", "edit", "delete"}
    /\ Trouble
    /\ End(k)
    /\ UNCHANGED <<chatVars, noted>>

\* A message that is gone is refused too.
Gone(k) ==
    /\ at[k] \in {"edit", "delete"}
    /\ chat[target[k]].part = 0
    /\ End(k)
    /\ UNCHANGED <<chatVars, noted, troubles>>

Crash(k) ==
    /\ at[k] # "idle"
    /\ Trouble
    /\ End(k)
    /\ UNCHANGED <<chatVars, noted>>

Work(k) ==
    \/ SendPart(k) \/ Fallback(k) \/ Wait(k) \/ SentUnheard(k) \/ Record(k) \/ Remember(k)
    \/ Edit(k) \/ EditUnheard(k) \/ NotModified(k) \/ SetContent(k)
    \/ Delete(k) \/ DeleteUnheard(k) \/ Find(k) \/ Forget(k)
    \/ Refused(k) \/ Gone(k) \/ Crash(k)

Next ==
    \E k \in Callers :
        \/ Work(k)
        \/ \E t \in Texts : Say(k, t) \/ Upload(k, t) \/ Once(k, t) \/ Album(k, t)
        \/ \E m \in 1..MaxShown : StartDelete(k, m) \/ \E t \in Edits : StartEdit(k, m, t)

Spec == Init /\ [][Next]_vars

-----------------------------------------------------------------------------
(* Properties.                                                             *)

Copies(t) == Cardinality({i \in 1..Len(chat) : chat[i] = Message(t, 1, TRUE)})

\* A call that is repeated says nothing twice, unless the two overlap or
\* something fails between Telegram and Redis.
SaidOnce == \A t \in Texts : Copies(t) <= 1 + overlaps + troubles

\* When nothing has failed and nobody is at work, the table knows what the
\* chat shows: every message there is in a row, a row has no message that is
\* gone, and a response of one message has its text; but for messages that two
\* callers changed at a time.
RowsAreTrue ==
    troubles = 0 /\ (\A k \in Callers : at[k] = "idle") =>
        \A m \in 1..Len(chat) \ raced :
            /\ chat[m].part # 0 <=> RowOf(m) # 0
            /\ RowOf(m) # 0 /\ (rows[RowOf(m)].text \in Texts => Parts[rows[RowOf(m)].text].media = 1) =>
                   rows[RowOf(m)].text = chat[m].text
=============================================================================
