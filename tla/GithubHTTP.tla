----------------------------- MODULE GithubHTTP -----------------------------
(***************************************************************************)
(* A client of GitHub: calls of one process that share an HTTP session,    *)
(* with a user's token, the app's as a spare, retries when GitHub limits   *)
(* the rate, lists that come in pages, and downloads.                      *)
(*                                                                         *)
(* Source: github/client/base.py.                                          *)
(*                                                                         *)
(* A call reads a list; one that is not paginated is a list of one page.   *)
(* What a call holds is fixed when it starts: what its two token providers *)
(* give and which of them may see what is asked for.                       *)
(***************************************************************************)
EXTENDS Naturals, Sequences, FiniteSets

CONSTANTS
    Requests,   \* the calls
    Size,       \* items of the list at GitHub
    PerPage,    \* PER_PAGE
    Wanted,     \* limit of all(), 0 for None
    Retries,    \* RETRIES
    MaxOpened,  \* bound of the model: sessions opened
    MaxChanges  \* bound of the model: items taken out while others read

VARIABLES
    list,     \* the list at GitHub
    changed,  \* items taken out of it
    holds,    \* of each call: what it was made with
    at,       \* of each call: where it is
    attempt,  \* of each call: attempt of the request it makes
    spare,    \* of each call: may_fall_back
    bearer,   \* of each call: whose token is in the header
    slept,    \* of each call: waits of the request it makes
    out,      \* of each call: items read
    page,     \* of each call: page asked for
    verdict,  \* of each call: how it ended
    using,    \* of each call: its session
    current, sessions, opened, \* _session, the open ones, how many there were
    closing,  \* close_session is on its way
    lost      \* it forgot a session that somebody had opened meanwhile

listVars == <<list, changed>>
callVars == <<holds, at, attempt, spare, bearer, slept, out, page, verdict>>
sessionVars == <<using, current, sessions, opened, closing, lost>>
vars == <<listVars, callVars, sessionVars>>

Nobody == "nobody"
Holds == [user : {"no token", "token", "asks"}, app : {"absent", "no token", "token"},
          sees : SUBSET {"user", "app", Nobody}, download : BOOLEAN, lenient : BOOLEAN]

TypeOK ==
    /\ \A i \in 1..Len(list) : list[i] \in 1..Size
    /\ changed \in 0..MaxChanges
    /\ holds \in [Requests -> Holds]
    /\ at \in [Requests -> {"new", "auth", "session", "send", "sleep", "ended"}]
    /\ attempt \in [Requests -> 1..Retries]
    /\ spare \in [Requests -> BOOLEAN]
    /\ bearer \in [Requests -> {"user", "app", Nobody}]
    /\ slept \in [Requests -> 0..Retries]
    /\ \A c \in Requests : \A i \in 1..Len(out[c]) : out[c][i] \in 1..Size
    /\ page \in [Requests -> Nat]
    /\ verdict \in [Requests -> {"none", "ok", "absent", "error", "refused", "exhausted"}]
    /\ using \in [Requests -> 0..MaxOpened]
    /\ sessions \subseteq 1..MaxOpened /\ current \in 0..MaxOpened /\ opened \in 0..MaxOpened
    /\ closing \in BOOLEAN /\ lost \in BOOLEAN

Init ==
    /\ list = [i \in 1..Size |-> i]
    /\ changed = 0
    /\ holds \in [Requests -> Holds]
    /\ at = [c \in Requests |-> "new"]
    /\ attempt = [c \in Requests |-> 1]
    /\ spare = [c \in Requests |-> FALSE]
    /\ bearer = [c \in Requests |-> Nobody]
    /\ slept = [c \in Requests |-> 0]
    /\ out = [c \in Requests |-> <<>>]
    /\ page = [c \in Requests |-> 1]
    /\ verdict = [c \in Requests |-> "none"]
    /\ using = [c \in Requests |-> 0]
    /\ current = 0 /\ sessions = {} /\ opened = 0
    /\ closing = FALSE /\ lost = FALSE

-----------------------------------------------------------------------------
(* The session of the process.                                             *)

Goto(c, p) == at' = [at EXCEPT ![c] = p]
End(c, how) == Goto(c, "ended") /\ verdict' = [verdict EXCEPT ![c] = how]

\* session: the one there is, or a new one; nothing in it waits, so that the
\* lock it takes is always free.
Session(c) ==
    /\ at[c] = "session"
    /\ IF current \in sessions
         THEN using' = [using EXCEPT ![c] = current] /\ UNCHANGED <<opened, current, sessions>>
         ELSE /\ opened < MaxOpened
              /\ opened' = opened + 1
              /\ current' = opened'
              /\ sessions' = sessions \cup {opened'}
              /\ using' = [using EXCEPT ![c] = opened']
    /\ Goto(c, "send")
    /\ UNCHANGED <<listVars, holds, attempt, spare, bearer, slept, out, page, verdict, closing, lost>>

\* close_session, until its await; and what it does after.
Close ==
    /\ ~closing
    /\ current \in sessions
    /\ sessions' = sessions \ {current}
    /\ closing' = TRUE
    /\ UNCHANGED <<listVars, callVars, using, current, opened, lost>>

Closed ==
    /\ closing
    /\ closing' = FALSE
    /\ lost' = (lost \/ current \in sessions)
    /\ current' = 0
    /\ UNCHANGED <<listVars, callVars, using, sessions, opened>>

-----------------------------------------------------------------------------
(* A request.                                                              *)

Call(c) ==
    /\ at[c] = "new"
    /\ Goto(c, "auth")
    /\ UNCHANGED <<listVars, holds, attempt, spare, bearer, slept, out, page, verdict, sessionVars>>

\* _auth: without a spare the user's token or none; a user who has none to
\* give is asked for one, or the spare is taken.
Auth(c) ==
    LET h == holds[c]
        of(token, who) == IF token = "token" THEN who ELSE Nobody
    IN  /\ at[c] = "auth"
        /\ IF h.app = "absent" /\ h.user = "asks"
             THEN End(c, "refused") /\ UNCHANGED <<bearer, spare>>
             ELSE /\ bearer' = [bearer EXCEPT ![c] =
                                   IF h.user = "asks" THEN of(h.app, "app") ELSE of(h.user, "user")]
                  /\ spare' = [spare EXCEPT ![c] = h.app # "absent" /\ h.user # "asks" /\ ~h.download]
                  /\ Goto(c, "session")
                  /\ UNCHANGED verdict
        /\ attempt' = [attempt EXCEPT ![c] = 1]
        /\ slept' = [slept EXCEPT ![c] = 0]
        /\ UNCHANGED <<listVars, holds, out, page, sessionVars>>

\* The next round of the loop, if there is one.
Again(c, where) ==
    IF attempt[c] < Retries
      THEN attempt' = [attempt EXCEPT ![c] = @ + 1] /\ Goto(c, where) /\ UNCHANGED verdict
      ELSE End(c, "exhausted") /\ UNCHANGED attempt

Sends(c) == at[c] = "send" /\ using[c] \in sessions
Sees(c) == bearer[c] \in holds[c].sees
FallsBack(c) == spare[c] /\ holds[c].app = "token"

\* 401, 403 or 404, of a rate limit too: once, it goes on as the app.
FallBack(c) ==
    /\ Sends(c)
    /\ FallsBack(c)
    /\ spare' = [spare EXCEPT ![c] = FALSE]
    /\ bearer' = [bearer EXCEPT ![c] = "app"]
    /\ Again(c, "send")
    /\ UNCHANGED <<listVars, holds, slept, out, page, sessionVars>>

\* Mutant: an answer is an error before the spare is thought of.
DeniedAtOnce(c) ==
    /\ Sends(c)
    /\ ~Sees(c)
    /\ spare' = [spare EXCEPT ![c] = FALSE]
    /\ \E how \in {"refused"} \cup (IF holds[c].lenient THEN {"absent"} ELSE {}) : End(c, how)
    /\ UNCHANGED <<listVars, holds, attempt, bearer, slept, out, page, sessionVars>>

\* 401, 403 or 404 as the last one asked; 404 may be what the caller expects.
Denied(c) ==
    /\ Sends(c)
    /\ ~Sees(c)
    /\ ~FallsBack(c)
    /\ spare' = [spare EXCEPT ![c] = FALSE]
    /\ \E how \in {"refused"} \cup (IF holds[c].lenient THEN {"absent"} ELSE {}) : End(c, how)
    /\ UNCHANGED <<listVars, holds, attempt, bearer, slept, out, page, sessionVars>>

\* Limited; the wait is what the headers say, and taken when it is short and
\* there is another attempt.  A download does not wait.
Limited(c, short) ==
    /\ Sends(c)
    /\ IF short /\ attempt[c] < Retries /\ ~holds[c].download
         THEN /\ slept' = [slept EXCEPT ![c] = @ + 1]
              /\ Goto(c, "sleep")
              /\ UNCHANGED verdict
         ELSE End(c, "error") /\ UNCHANGED slept
    /\ UNCHANGED <<listVars, holds, attempt, spare, bearer, out, page, sessionVars>>

Wake(c) ==
    /\ at[c] = "sleep"
    /\ Again(c, "send")
    /\ UNCHANGED <<listVars, holds, spare, bearer, slept, out, page, sessionVars>>

\* Any other error, or a session that was closed.
Broken(c) ==
    /\ at[c] = "send"
    /\ End(c, "error")
    /\ UNCHANGED <<listVars, holds, attempt, spare, bearer, slept, out, page, sessionVars>>

PageOf(n) ==
    [i \in 1..(IF Len(list) >= n * PerPage THEN PerPage
               ELSE IF Len(list) > (n - 1) * PerPage THEN Len(list) - (n - 1) * PerPage ELSE 0)
        |-> list[(n - 1) * PerPage + i]]
Cut(s) == IF Wanted > 0 /\ Len(s) > Wanted THEN SubSeq(s, 1, Wanted) ELSE s
Enough(s) == Wanted > 0 /\ Len(s) >= Wanted

\* A page of all(): the next one is a request of its own, unless this one is
\* short or there are enough.
Page(c) ==
    /\ Sends(c) /\ Sees(c) /\ ~holds[c].download
    /\ out' = [out EXCEPT ![c] = Cut(@ \o PageOf(page[c]))]
    /\ IF Len(PageOf(page[c])) < PerPage \/ Enough(out'[c])
         THEN End(c, "ok") /\ UNCHANGED page
         ELSE Goto(c, "auth") /\ page' = [page EXCEPT ![c] = @ + 1] /\ UNCHANGED verdict
    /\ UNCHANGED <<listVars, holds, attempt, spare, bearer, slept, sessionVars>>

\* stream: one attempt; what is over the limit is given up.
Download(c, fits) ==
    /\ Sends(c) /\ Sees(c) /\ holds[c].download
    /\ End(c, IF fits THEN "ok" ELSE "absent")
    /\ UNCHANGED <<listVars, holds, attempt, spare, bearer, slept, out, page, sessionVars>>

\* Somebody takes an item out at GitHub.
TakeOut(i) ==
    /\ changed < MaxChanges
    /\ changed' = changed + 1
    /\ i \in 1..Len(list)
    /\ list' = SubSeq(list, 1, i - 1) \o SubSeq(list, i + 1, Len(list))
    /\ UNCHANGED <<callVars, sessionVars>>

Request(c) ==
    \/ Call(c) \/ Auth(c) \/ Session(c) \/ Wake(c) \/ Broken(c)
    \/ FallBack(c) \/ Denied(c) \/ Page(c)
    \/ \E b \in BOOLEAN : Limited(c, b) \/ Download(c, b)

Next ==
    \/ \E c \in Requests : Request(c)
    \/ Close \/ Closed
    \/ \E i \in 1..Size : TakeOut(i)

Spec == Init /\ [][Next]_vars

-----------------------------------------------------------------------------
(* Properties.                                                             *)

\* Who may be seen as the app is not refused as the user; retries run out
\* without an error of GitHub only when every attempt before was a wait and
\* the last one was spent on falling back.
SpareIsTried ==
    \A c \in Requests :
        /\ verdict[c] = "refused" /\ ~holds[c].download /\ holds[c].app = "token" =>
               bearer[c] = "app" /\ "app" \notin holds[c].sees
        /\ verdict[c] = "exhausted" => bearer[c] = "app" /\ slept[c] = Retries - 1

\* A list that nobody changes is read whole and in order, as far as it was
\* wanted; one that changes loses at most an item for every one taken out.
ListIsWhole ==
    \A c \in Requests :
        verdict[c] = "ok" /\ ~holds[c].download =>
            /\ changed = 0 => out[c] = Cut([i \in 1..Size |-> i])
            /\ ~Enough(out[c]) => Len(out[c]) + 2 * changed >= Size

\* The calls of a process share one session, unless close_session forgets the
\* one that was opened while it waited.
OneSession == Cardinality(sessions) > 1 => lost
=============================================================================
