---------------------------- MODULE ModelClient -----------------------------
(***************************************************************************)
(* The calls of the model for one turn: a stream that is read part by      *)
(* part, continued where it was cut off, retried with another session of   *)
(* Opal when it failed; and the sessions, which a turn that fails blames.  *)
(*                                                                         *)
(* Sources: agent/client.py, agent/opal.py, agent/credentials.py,          *)
(* agent/runtime.py (_execute, _punish), agent/loop.py (run),              *)
(* database/repositories/opal_session.py, api/routes/admin/credentials.py. *)
(*                                                                         *)
(* A reply is the sequence of its parts, numbered as the model sent them.  *)
(***************************************************************************)
EXTENDS Naturals, Sequences

CONSTANTS
    Sessions,
    Retries,    \* settings.gemini_retries
    MaxParts,   \* bound of the model: parts of one call
    MaxSteps    \* settings.agent_max_steps

\* What a request fails with.  limit and fault are tried again; for limit and
\* auth the session is blamed.
Retryable == {"limit", "fault"}
Blamed == {"limit", "auth"}
Errors == {"limit", "fault", "auth", "bad"}
None == "none"
NoSession == "nosession"
NoReply == [parts |-> <<>>, stop |-> None]
NoCall == [first |-> NoSession, session |-> NoSession, tried |-> {}, attempt |-> 0,
           started |-> FALSE, body |-> <<>>, ended |-> None, hollow |-> FALSE]

VARIABLES
    rows,    \* opal_sessions: is each enabled, and is it cooling down
    cached,  \* sessions with an access token in Redis
    run,     \* the turn: "off", "ready" for a call, "call", "stream", "failed"
    steps,
    session, \* credential_id: what the next call begins with
    blamed,  \* result.credential_id, or the session the turn was given
    error,   \* what the call failed with
    call,    \* send: the session it began with and the one it has come to, the
             \* tried ones, the attempt, whether a reply is kept, what was kept
             \* when it was sent, the last finish reason, and whether a stream
             \* of it finished without text
    reply,   \* the reply that is kept
    own,     \* the parts of a stream that has no reply to continue
    count,   \* parts of this call so far
    shown    \* parts in the live view since the last step.model

vars == <<rows, cached, run, steps, session, blamed, error, call, reply, own, count, shown>>

Usable == {s \in Sessions : rows[s].enabled /\ ~rows[s].cooling}
Kept == reply.parts \o own
HasText(parts) == \E i \in 1..Len(parts) : parts[i].text

TypeOK ==
    /\ rows \in [Sessions -> [enabled : BOOLEAN, cooling : BOOLEAN]]
    /\ cached \subseteq Sessions
    /\ run \in {"off", "ready", "call", "stream", "failed"}
    /\ steps \in 0..MaxSteps
    /\ {session, blamed, call.first, call.session} \subseteq Sessions \cup {NoSession}
    /\ error \in Errors \cup {None}
    /\ call.attempt \in 0..Retries
    /\ count \in 0..MaxParts /\ Len(Kept) <= MaxParts

Init ==
    /\ rows = [s \in Sessions |-> [enabled |-> TRUE, cooling |-> FALSE]]
    /\ cached = {} /\ run = "off" /\ steps = 0
    /\ session = NoSession /\ blamed = NoSession /\ error = None
    /\ call = NoCall /\ reply = NoReply /\ own = <<>> /\ count = 0 /\ shown = <<>>

Succeeded(s) == rows' = [rows EXCEPT ![s].cooling = FALSE]
Failed(s, e) ==
    rows' = [rows EXCEPT ![s] = [enabled |-> @.enabled /\ e # "auth", cooling |-> e = "limit"]]

\* get_access_token: from Redis, or a new one; refresh_access_token fails where
\* Opal refuses or the network fails.
GetToken(s) == cached' = cached \cup {s}
RefreshFails(s) == s \notin cached

PickRandom(exclude) == Usable \ exclude

\* pick_random, as often as a refresh fails: one that was not tried, unless
\* none of those gives a token; or none.
Picks(tried) ==
    {s \in Usable : s \in PickRandom(tried) \/ \A o \in PickRandom(tried) : RefreshFails(o)}
        \cup {NoSession}

\* _execute: pick, and an access token; a refresh that fails, be it that the
\* network failed, is held against the session as a refusal.
Execute(s) ==
    /\ run = "off" /\ s \in Usable
    /\ \/ /\ GetToken(s)
          /\ run' = "ready" /\ steps' = 0 /\ session' = s /\ blamed' = s
          /\ UNCHANGED rows
       \/ /\ RefreshFails(s)
          /\ Failed(s, "auth")
          /\ UNCHANGED <<cached, run, steps, session, blamed>>
    /\ call' = NoCall /\ reply' = NoReply /\ count' = 0 /\ shown' = <<>>
    /\ UNCHANGED <<error, own>>

\* A step of the loop, as far as send.
Send ==
    /\ run = "ready" /\ steps < MaxSteps
    /\ steps' = steps + 1
    /\ run' = "call"
    /\ call' = [NoCall EXCEPT !.first = session, !.session = session, !.tried = {session},
                              !.attempt = 1]
    /\ reply' = NoReply /\ count' = 0
    /\ UNCHANGED <<rows, cached, session, blamed, error, own, shown>>

\* The answer begins; the live view is told until a reply is kept.
Once ==
    /\ run = "call"
    /\ run' = "stream"
    /\ own' = <<>>
    /\ shown' = IF call.started THEN shown ELSE <<>>
    /\ UNCHANGED <<rows, cached, steps, session, blamed, error, call, reply, count>>

\* feed: into the reply that is continued, or into one of its own.
Feed(isText) ==
    LET part == [n |-> count + 1, text |-> isText] IN
    /\ run = "stream" /\ count < MaxParts
    /\ count' = count + 1
    /\ shown' = Append(shown, part)
    /\ IF call.started
         THEN reply' = [reply EXCEPT !.parts = Append(@, part)] /\ UNCHANGED own
         ELSE own' = Append(own, part) /\ UNCHANGED reply
    /\ UNCHANGED <<rows, cached, run, steps, session, blamed, error, call>>

\* Mutant: the one that answered is not noted in the result.
ReturnUnnoted ==
    /\ run' = "ready"
    /\ session' = call.session
    /\ UNCHANGED <<rows, cached, blamed, error>>

\* send returns: the loop goes on with the session that answered.
Return ==
    /\ run' = "ready"
    /\ session' = call.session /\ blamed' = call.session
    /\ UNCHANGED <<rows, cached, error>>

\* send raises: the turn fails, or the model is asked again.
Raise(e) ==
    /\ run' = IF e \in Blamed THEN "failed" ELSE "ready"
    /\ error' = IF e \in Blamed THEN e ELSE None
    /\ UNCHANGED <<rows, cached, session, blamed>>

\* _merge_parts: neighbours that are both text or both thought are one part.
Joined(m, part) ==
    IF m # <<>> /\ m[Len(m)].text = part.text
      THEN [m EXCEPT ![Len(m)].ns = Append(@, part.n)]
      ELSE Append(m, [text |-> part.text, ns |-> <<part.n>>])
MergedParts(parts) ==
    LET merged[i \in 0..Len(parts)] == IF i = 0 THEN <<>> ELSE Joined(merged[i - 1], parts[i])
    IN  merged[Len(parts)]

\* Mutant: after what was sent the last time.
ContinueOld(c, parts) == c

\* _continuation_body: the request, and after it what was kept of the answer.
Continue(c, parts) == [c EXCEPT !.body = MergedParts(parts)]

\* An error at any point: with another session, from what is kept.
Retry(c, e) ==
    IF e \notin Retryable \/ c.attempt = Retries
      THEN Raise(e) /\ call' = c
      ELSE \E s \in Picks(c.tried) :
             /\ call' = Continue([c EXCEPT !.attempt = @ + 1,
                                           !.session = IF s = NoSession THEN @ ELSE s,
                                           !.tried = @ \cup ({s} \ {NoSession})], reply'.parts)
             /\ IF s = NoSession THEN UNCHANGED cached ELSE GetToken(s)
             /\ run' = "call"
             /\ UNCHANGED <<rows, session, blamed, error>>

\* An answer that is an error; or none comes.
Refused(e) ==
    /\ run = "call"
    /\ UNCHANGED <<own, reply, steps, count, shown>>
    /\ Retry(call, e)

\* _read: an error in the stream, or its end before its time. What a reply that
\* is not kept had said is lost.
Broken(e) ==
    /\ run = "stream"
    /\ own' = <<>>
    /\ UNCHANGED <<reply, steps, count, shown>>
    /\ Retry(call, e)

\* The stream is over, with a finish reason or without.  A reason that was
\* kept from an earlier stream of the call counts as this one's.
Finish(reason) ==
    LET stop == IF reason = None THEN reply.stop ELSE reason
        c == [call EXCEPT !.started = TRUE, !.ended = reason,
                          !.hollow = @ \/ (stop = "STOP" /\ ~HasText(Kept))]
    IN
    /\ run = "stream"
    /\ reply' = [parts |-> Kept, stop |-> stop]
    /\ own' = <<>>
    /\ CASE stop = "SAFETY" \/ (stop = "STOP" /\ HasText(Kept)) -> Return /\ call' = c
         [] stop = "STOP" /\ ~HasText(Kept) -> Retry(c, "limit")
         [] stop = None /\ c.attempt < Retries ->
              /\ call' = Continue([c EXCEPT !.attempt = @ + 1], Kept)
              /\ run' = "call"
              /\ UNCHANGED <<rows, cached, session, blamed, error>>
         [] OTHER -> call' = c /\ IF Kept # <<>> THEN Return ELSE Raise("bad")
    /\ UNCHANGED <<steps, count, shown>>

\* The turn ends well, or its steps are used up; succeeded is for the former.
Done ==
    /\ run = "ready"
    /\ run' = "off"
    /\ \/ Succeeded(blamed)
       \/ UNCHANGED rows
    /\ UNCHANGED <<cached, steps, session, blamed, error, call, reply, own, count, shown>>

\* _punish
Punish ==
    /\ run = "failed"
    /\ run' = "off"
    /\ error' = None
    /\ cached' = cached \ {blamed}
    /\ Failed(blamed, error)
    /\ UNCHANGED <<steps, session, blamed, call, reply, own, count, shown>>

\* A cooldown is over; an administrator enables, resets, disables.
Cooled(s) ==
    /\ rows[s].cooling
    /\ rows' = [rows EXCEPT ![s].cooling = FALSE]
    /\ UNCHANGED <<cached, run, steps, session, blamed, error, call, reply, own, count, shown>>
Administer(s, enabled) ==
    /\ rows' = [rows EXCEPT ![s] = [enabled |-> enabled, cooling |-> FALSE]]
    /\ UNCHANGED <<cached, run, steps, session, blamed, error, call, reply, own, count, shown>>

\* The access tokens in Redis expire.
Expire(s) ==
    /\ s \in cached
    /\ cached' = cached \ {s}
    /\ UNCHANGED <<rows, run, steps, session, blamed, error, call, reply, own, count, shown>>

Next ==
    \/ \E s \in Sessions :
        \/ Execute(s) \/ Cooled(s) \/ Expire(s)
        \/ \E enabled \in BOOLEAN : Administer(s, enabled)
    \/ Send \/ Once \/ Done \/ Punish
    \/ \E isText \in BOOLEAN : Feed(isText)
    \/ \E e \in Errors : Refused(e) \/ Broken(e)
    \/ \E reason \in {None, "STOP", "SAFETY"} : Finish(reason)

Spec == Init /\ [][Next]_vars

-----------------------------------------------------------------------------
(* Properties.                                                             *)

\* The parts that a body holds, neighbours joined or not.
Flat(body) ==
    LET ns[i \in 0..Len(body)] == IF i = 0 THEN <<>> ELSE ns[i - 1] \o body[i].ns
    IN  ns[Len(body)]

\* A stream continues exactly what is kept of the answer.  What the live view
\* shows of a step is what is kept, but for a stream that is lost: then the
\* view begins again.  And a reply that is given back as finished was finished
\* by its last stream, but for one finished before without text.
RepliesAreWhole ==
    /\ run = "call" => Flat(call.body) = [i \in DOMAIN reply.parts |-> reply.parts[i].n]
    /\ call.started => shown = reply.parts
    /\ run = "ready" /\ reply.stop # None => call.ended = reply.stop \/ call.hollow

\* What a step may do: a session is disabled by a turn only for a refusal that it
\* was given, or that was given to one the same call had come to from it.
BlamesAUsedOne ==
    \A s \in Sessions :
        run = "failed" /\ run' = "off" /\ rows[s].enabled /\ ~rows'[s].enabled =>
            s \in {call.session, call.first}
=============================================================================
