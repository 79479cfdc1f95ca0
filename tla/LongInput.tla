----------------------------- MODULE LongInput ------------------------------
(***************************************************************************)
(* /long and /system_long: a user's messages are collected until a button  *)
(* under the prompt is pressed, and are then one message, or the system    *)
(* prompt of the chat.  A collection is in the memory of the process that  *)
(* handled the command, and expires.                                       *)
(*                                                                         *)
(* Sources: telegram/long_input.py, telegram/handlers/long.py.             *)
(*                                                                         *)
(* One user in one chat.  An update is handled by whichever instance       *)
(* claims it (module Inbox).  Collections are numbered as they are begun.  *)
(***************************************************************************)
EXTENDS Naturals, Sequences, FiniteSets

CONSTANTS
    Instances,
    MaxTexts,   \* bound of the model: messages of the user
    MaxBegun    \* bound of the model: commands

VARIABLES
    begun,    \* commands so far
    open,     \* of each instance: the collection it holds, 0 for none
    kept,     \* of each collection: its messages
    system,   \* collections for the system prompt
    prompts,  \* of each instance: commands whose prompt is on its way
    timers,   \* tasks of _expire: their instance, collection and whether they slept long enough
    timer,    \* of each collection: messages it had when its expiry was set
    texts,    \* messages of the user so far
    used,     \* of each message: how often it reached the agent or the prompt
    crossed   \* instances where two commands were on their way at a time

vars == <<begun, open, kept, system, prompts, timers, timer, texts, used, crossed>>

Collections == 1..MaxBegun
Messages(c) == {kept[c][n] : n \in 1..Len(kept[c])}
Timer(i, c, n, over) == [at |-> i, of |-> c, after |-> n, over |-> over]
Timers(over) == {Timer(i, c, n, over) : i \in Instances, c \in Collections, n \in 0..MaxTexts}

TypeOK ==
    /\ begun \in 0..MaxBegun
    /\ open \in [Instances -> 0..MaxBegun]
    /\ \A c \in Collections : Messages(c) \subseteq 1..texts
    /\ system \subseteq Collections
    /\ prompts \in [Instances -> SUBSET Collections]
    /\ timers \subseteq (Timers(TRUE) \cup Timers(FALSE))
    /\ timer \in [Collections -> 0..MaxTexts]
    /\ texts \in 0..MaxTexts
    /\ used \in [1..MaxTexts -> Nat]
    /\ crossed \subseteq Instances

Init ==
    /\ begun = 0
    /\ open = [i \in Instances |-> 0]
    /\ kept = [c \in Collections |-> <<>>]
    /\ system = {}
    /\ prompts = [i \in Instances |-> {}]
    /\ timers = {}
    /\ timer = [c \in Collections |-> 0]
    /\ texts = 0
    /\ used = [m \in 1..MaxTexts |-> 0]
    /\ crossed = {}

\* Its expiry, running or over; cancelled with the collection it was set for.
Own(i, c) == IF c = 0 THEN {} ELSE {Timer(i, c, timer[c], over) : over \in BOOLEAN}

Use(ms) == used' = [m \in 1..MaxTexts |-> used[m] + (IF m \in ms THEN 1 ELSE 0)]

\* start, as far as the prompt that is sent: what there was is cleared.  The
\* rest of the command's message is the first of the collection.
Command(i, forSystem, first) ==
    /\ begun < MaxBegun
    /\ begun' = begun + 1
    /\ open' = [open EXCEPT ![i] = 0]
    /\ timers' = timers \ Own(i, open[i])
    /\ prompts' = [prompts EXCEPT ![i] = @ \cup {begun'}]
    /\ crossed' = IF prompts[i] # {} THEN crossed \cup {i} ELSE crossed
    /\ system' = IF forSystem THEN system \cup {begun'} ELSE system
    /\ IF first
         THEN /\ texts < MaxTexts
              /\ texts' = texts + 1
              /\ kept' = [kept EXCEPT ![begun'] = <<texts'>>]
         ELSE UNCHANGED <<texts, kept>>
    /\ timer' = [timer EXCEPT ![begun'] = Len(kept'[begun'])]
    /\ UNCHANGED used

\* ... and from there: the collection is the one that counts now.
Prompted(i, c) ==
    /\ c \in prompts[i]
    /\ prompts' = [prompts EXCEPT ![i] = @ \ {c}]
    /\ open' = [open EXCEPT ![i] = c]
    /\ timers' = timers \cup {Timer(i, c, timer[c], FALSE)}
    /\ UNCHANGED <<begun, kept, system, timer, texts, used, crossed>>

\* A message: is_collecting, and append with a new expiry; or a turn of its own.
Text(i) ==
    LET c == open[i] IN
    /\ texts < MaxTexts
    /\ texts' = texts + 1
    /\ IF c # 0
         THEN /\ kept' = [kept EXCEPT ![c] = Append(@, texts')]
              /\ timer' = [timer EXCEPT ![c] = Len(kept[c]) + 1]
              /\ timers' = (timers \ Own(i, c)) \cup {Timer(i, c, Len(kept[c]) + 1, FALSE)}
              /\ UNCHANGED used
         ELSE Use({texts'}) /\ UNCHANGED <<kept, timer, timers>>
    /\ UNCHANGED <<begun, open, system, prompts, crossed>>

\* close: the collection is taken out of the table before it is used.
Close(i) ==
    /\ open[i] # 0
    /\ open' = [open EXCEPT ![i] = 0]
    /\ timers' = timers \ Own(i, open[i])
    /\ UNCHANGED <<begun, kept, system, prompts, timer, texts, crossed>>

\* The button that sends; who is no admin any more sets no system prompt.
Send(i) ==
    /\ Close(i)
    /\ \/ Use(Messages(open[i]))
       \/ open[i] \in system /\ UNCHANGED used

\* The button that throws it away.
Reset(i) == Close(i) /\ UNCHANGED used

\* The timeout of an expiry is over,
Sleep(t) ==
    /\ ~t.over
    /\ timers' = (timers \ {t}) \cup {[t EXCEPT !.over = TRUE]}
    /\ UNCHANGED <<begun, open, kept, system, prompts, timer, texts, used, crossed>>

\* ... and it takes out what is there.
Expire(t) ==
    /\ t.over
    /\ open' = [open EXCEPT ![t.at] = 0]
    /\ timers' = timers \ {t}
    /\ UNCHANGED <<begun, kept, system, prompts, timer, texts, used, crossed>>

\* A process ends with what it has collected.
Crash(i) ==
    /\ open[i] # 0 \/ prompts[i] # {}
    /\ open' = [open EXCEPT ![i] = 0]
    /\ prompts' = [prompts EXCEPT ![i] = {}]
    /\ timers' = {t \in timers : t.at # i}
    /\ crossed' = crossed \ {i}
    /\ UNCHANGED <<begun, kept, system, timer, texts, used>>

Next ==
    \/ \E i \in Instances :
        \/ Text(i) \/ Send(i) \/ Reset(i) \/ Crash(i)
        \/ \E b, f \in BOOLEAN : Command(i, b, f)
        \/ \E c \in Collections : Prompted(i, c)
    \/ \E t \in timers : Sleep(t) \/ Expire(t)

Spec == Init /\ [][Next]_vars

-----------------------------------------------------------------------------
(* Properties.                                                             *)

\* What the user wrote reaches the agent or the system prompt at most once,
\* whatever is pressed, expires or dies.
UsedOnce == \A m \in 1..MaxTexts : used[m] <= 1

\* What a step may do: a collection is thrown away by an expiry only when the
\* timeout has passed since its last message; but for two commands that were on their way at a
\* time, of which the first leaves its expiry behind.
ExpiresInTime ==
    \A t \in timers :
        Expire(t) /\ open[t.at] # 0 /\ t.at \notin crossed =>
            t.of = open[t.at] /\ t.after = Len(kept[open[t.at]])
=============================================================================
