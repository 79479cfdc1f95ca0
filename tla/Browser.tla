------------------------------- MODULE Browser -------------------------------
(***************************************************************************)
(* The browser commands of the CLI (cli/browser.py): processes of one turn *)
(* that share the turn's state file (chrome/browser.py), each with a       *)
(* connection it keeps from command to command, and actions                *)
(* (chrome/actions.py) that _act tries once more when they fail.           *)
(*                                                                         *)
(* Outside the source: the engine that runs profiles, and the browser. It  *)
(* does a call when it gets it, and the answer may be lost all the same    *)
(* (module Devtools). Of a page there is the place in its history and how  *)
(* many letters its field holds.                                           *)
(***************************************************************************)
EXTENDS Integers, FiniteSets

CONSTANTS Procs,
          Does,          \* Does[p]: the commands p gives
          MaxTabs, MaxProfiles,
          Letters,       \* of a text that is typed
          MaxCommands,   \* bound: commands
          MaxFaults      \* bound: calls that fail or lose their answer

VARIABLES
    file,        \* the state file, or NoFile
    profiles,    \* profiles that run
    launched,
    owner,       \* owner[t]: the profile tab t is open in, 0 once closed
    opened,      \* how many tabs were ever opened
    place, field, clicks,    \* of the page of each tab
    conn,        \* conn[p]: what _open holds, and the tab it is attached to
    stage,       \* stage[p]: how far the command of p is
    kind, tab,   \* kind[p], tab[p]: the command, and the tab it is about
    snap,        \* snap[p]: the state it loaded
    try,         \* try[p]: the attempt of _act
    calls,       \* calls[p]: the calls of the action made in this attempt
    meant,       \* meant[p]: active_target_id when the attempt began
    before,      \* before[p]: the page it works on, as it was before
    hit,         \* hit[p]: a call of the command failed or lost its answer
    commands, faults,
    raced        \* a save wrote back a state that was no longer the file's

vars == <<file, profiles, launched, owner, opened, place, field, clicks, conn, stage, kind, tab,
          snap, try, calls, meant, before, hit, commands, faults, raced>>
browser == <<profiles, launched>>
tabsAndPages == <<owner, opened, place, field, clicks>>
counters == <<commands, faults>>

Newest == 3        \* the last entry of a page's history
TabIds == 1..MaxTabs
None == 0
NoFile == [profile |-> None, target |-> None, blocked |-> FALSE]
Unknown == [tab |-> None, place |-> 0, field |-> 0, clicks |-> 0]
NoConn == [profile |-> None, target |-> None, tab |-> None]

Open(q) == {t \in TabIds : owner[t] = q}
Set(f, p, v) == [f EXCEPT ![p] = v]

Init ==
    /\ file = NoFile /\ profiles = {} /\ launched = 0
    /\ owner = [t \in TabIds |-> None] /\ opened = 0
    /\ place = [t \in TabIds |-> 2]
    /\ field = [t \in TabIds |-> 0] /\ clicks = [t \in TabIds |-> 0]
    /\ conn = [p \in Procs |-> NoConn]
    /\ stage = [p \in Procs |-> "idle"]
    /\ kind = [p \in Procs |-> "none"] /\ tab = [p \in Procs |-> None]
    /\ snap = [p \in Procs |-> NoFile]
    /\ try = [p \in Procs |-> 0] /\ calls = [p \in Procs |-> 0]
    /\ meant = [p \in Procs |-> None]
    /\ before = [p \in Procs |-> Unknown]
    /\ hit = [p \in Procs |-> FALSE]
    /\ commands = 0 /\ faults = 0 /\ raced = FALSE

(* type_text without and with clear, click, back and forward. *)
Pages == {"type", "retype", "click", "back", "forward"}

(* A command begins: engine.load, which forgets a state whose profile does *)
(* not run. start is the one that wants none, stop and start bear none.    *)
Begin(p, k, t) ==
    /\ stage[p] = "idle" /\ commands < MaxCommands /\ k \in Does[p]
    /\ commands' = commands + 1
    /\ LET found == IF file.profile \in profiles THEN file ELSE NoFile IN
       /\ file' = found
       /\ snap' = Set(snap, p, found)
       /\ stage' = Set(stage, p,
              CASE k = "start" -> IF found = NoFile THEN "launch" ELSE "idle"
                [] k = "stop" -> IF found = NoFile THEN "idle" ELSE "stop"
                [] OTHER -> IF found = NoFile THEN "idle"
                            ELSE IF k = "block" THEN "save" ELSE "act")
       /\ tab' = Set(tab, p, IF k = "close" /\ t = None THEN found.target ELSE t)
    /\ kind' = Set(kind, p, k)
    /\ try' = Set(try, p, 1)
    /\ hit' = Set(hit, p, FALSE)
    /\ before' = Set(before, p, Unknown)
    /\ conn' = IF k \in {"start", "stop"} THEN Set(conn, p, NoConn) ELSE conn   \* detach
    /\ UNCHANGED <<browser, tabsAndPages, calls, meant, faults, raced>>

Launch(p) ==
    /\ stage[p] = "launch" /\ launched < MaxProfiles
    /\ launched' = launched + 1
    /\ profiles' = profiles \cup {launched + 1}
    /\ snap' = Set(snap, p, [NoFile EXCEPT !.profile = launched + 1])
    /\ stage' = Set(stage, p, "save")
    /\ UNCHANGED <<file, tabsAndPages, conn, kind, tab, try, calls, meant, before, hit,
                   counters, raced>>

(* stop: the profile, with its tabs, and then the file. *)
StopProfile(p) ==
    /\ stage[p] = "stop"
    /\ profiles' = profiles \ {snap[p].profile}
    /\ owner' = [t \in TabIds |-> IF owner[t] = snap[p].profile THEN None ELSE owner[t]]
    /\ stage' = Set(stage, p, "forget")
    /\ UNCHANGED <<file, launched, opened, place, field, clicks, conn, kind, tab, snap, try, calls,
                   meant, before, hit, counters, raced>>

Forget(p) ==
    /\ stage[p] = "forget"
    /\ file' = NoFile
    /\ stage' = Set(stage, p, "idle")
    /\ raced' = (raced \/ file \notin {snap[p], NoFile})
    /\ UNCHANGED <<browser, tabsAndPages, conn, kind, tab, snap, try, calls, meant, before,
                   hit, counters>>

(* As if the active tab were not looked at (the broken form). *)
CachedAnyTab(p) == conn[p] # NoConn /\ conn[p].profile = file.profile

(* The connection of _session is the kept one only if it is of this        *)
(* endpoint and of the tab that is active now.                             *)
Cached(p) == /\ conn[p] # NoConn
             /\ conn[p].profile = file.profile /\ conn[p].target = file.target

(* engine.session: attach to the active tab, or to some page, or to a new  *)
(* one when there is none.                                                 *)
Attach(p, t) ==
    /\ IF file.target \in Open(file.profile) THEN t = file.target
       ELSE IF Open(file.profile) # {} THEN t \in Open(file.profile)
       ELSE opened < MaxTabs /\ t = opened + 1
    /\ IF t = opened + 1
       THEN owner' = Set(owner, t, file.profile) /\ opened' = t
       ELSE UNCHANGED <<owner, opened>>
    /\ conn' = Set(conn, p, [profile |-> file.profile, target |-> file.target, tab |-> t])

(* The start of an attempt: _session. No state is an error _act does not   *)
(* catch, and so is an engine that cannot be reached.                      *)
Session(p, t) ==
    /\ stage[p] = "act"
    /\ IF file.profile \notin profiles
       THEN /\ t = None /\ stage' = Set(stage, p, "idle") /\ file' = NoFile
            /\ UNCHANGED <<owner, opened, conn, meant, calls, before>>
       ELSE /\ IF Cached(p) THEN t = conn[p].tab /\ UNCHANGED <<owner, opened, conn>>
               ELSE Attach(p, t)
            /\ stage' = Set(stage, p, "work")
            /\ meant' = Set(meant, p, file.target)
            /\ calls' = Set(calls, p, 0)
            /\ before' = IF try[p] = 2 /\ before[p].tab = t THEN before
                         ELSE Set(before, p, [tab |-> t, place |-> place[t],
                                          field |-> field[t], clicks |-> clicks[t]])
            /\ UNCHANGED file
    /\ UNCHANGED <<browser, place, field, clicks, kind, tab, snap, try, hit, counters, raced>>

Here(p) == conn[p].tab
Wrong(p) ==        \* the browser refuses the call
    \/ owner[Here(p)] # conn[p].profile
    \/ kind[p] \in {"switch", "close"} /\ tab[p] # None /\ tab[p] \notin Open(conn[p].profile)
    \/ kind[p] = "back" /\ place[Here(p)] = 0 /\ calls[p] = 0
    \/ kind[p] = "forward" /\ place[Here(p)] = Newest /\ calls[p] = 0
    \/ kind[p] = "new" /\ opened = MaxTabs

(* How many calls an action with an effect makes. *)
Calls(p) == CASE kind[p] = "type" -> Letters
              [] kind[p] = "retype" -> Letters + 1
              [] kind[p] \in {"back", "forward"} -> 2     \* go, and wait for the page
              [] kind[p] = "click" -> 3
              [] OTHER -> 1

(* What one call does to the browser: to its tabs, ... *)
OwnerAfter(p) == CASE kind[p] = "new" -> Set(owner, opened + 1, conn[p].profile)
                   [] kind[p] = "close" /\ tab[p] # None -> Set(owner, tab[p], None)
                   [] OTHER -> owner

(* ... to the place in the history, by its first call, ... *)
PlaceAfter(p) ==
    LET t == Here(p) IN
    CASE kind[p] = "back" /\ calls[p] = 0 -> Set(place, t, place[t] - 1)
      [] kind[p] = "forward" /\ calls[p] = 0 -> Set(place, t, place[t] + 1)
      [] OTHER -> place

(* ... to the field, letter by letter, ... *)
FieldAfter(p) ==
    LET t == Here(p) IN
    CASE kind[p] = "retype" /\ calls[p] = 0 -> Set(field, t, 0)
      [] kind[p] = "type" \/ (kind[p] = "retype" /\ calls[p] # 0) -> Set(field, t, field[t] + 1)
      [] OTHER -> field

(* ... and clicks: the mouse moves, goes down, and comes up. *)
ClicksAfter(p) == IF kind[p] = "click" /\ calls[p] = 2
                  THEN Set(clicks, Here(p), clicks[Here(p)] + 1) ELSE clicks

Effect(p) ==
    /\ owner' = OwnerAfter(p)
    /\ opened' = IF kind[p] = "new" THEN opened + 1 ELSE opened
    /\ place' = PlaceAfter(p) /\ field' = FieldAfter(p) /\ clicks' = ClicksAfter(p)

(* After the action: which commands go on to save the state. *)
AfterAct(p) == CASE kind[p] = "switch" -> "save"
                 [] kind[p] = "new" -> "reload"
                 [] kind[p] = "close" /\ snap[p].target = tab[p] /\ tab[p] # None -> "save"
                 [] OTHER -> "told"

(* A call that is answered. *)
Work(p) ==
    /\ stage[p] = "work" /\ ~Wrong(p)
    /\ Effect(p)
    /\ calls' = Set(calls, p, calls[p] + 1)
    /\ tab' = IF kind[p] = "new" THEN Set(tab, p, opened + 1) ELSE tab
    /\ stage' = IF calls[p] + 1 < Calls(p) THEN stage ELSE Set(stage, p, AfterAct(p))
    /\ UNCHANGED <<file, browser, conn, kind, snap, try, meant, before, hit, counters, raced>>

(* The second try, or the error to the caller; the connection is dropped.  *)
Again(p) ==
    /\ conn' = Set(conn, p, NoConn)
    /\ hit' = Set(hit, p, TRUE)
    /\ IF try[p] = 1 THEN try' = Set(try, p, 2) /\ stage' = Set(stage, p, "act")
       ELSE stage' = Set(stage, p, "idle") /\ UNCHANGED try

Refused(p) ==
    /\ stage[p] = "work" /\ Wrong(p)
    /\ Again(p)
    /\ UNCHANGED <<file, browser, tabsAndPages, kind, tab, snap, calls, meant, before,
                   counters, raced>>

(* A call that fails, or whose answer is lost after it took effect. *)
Fault(p, done) ==
    /\ stage[p] = "work" /\ ~Wrong(p) /\ faults < MaxFaults
    /\ faults' = faults + 1
    /\ IF done THEN Effect(p) ELSE UNCHANGED tabsAndPages
    /\ Again(p)
    /\ UNCHANGED <<file, browser, kind, tab, snap, calls, meant, before, commands, raced>>

(* tab_new goes on as tab_switch of the tab it opened. *)
Reload(p) ==
    /\ stage[p] = "reload"
    /\ LET found == IF file.profile \in profiles THEN file ELSE NoFile IN
       /\ file' = found
       /\ snap' = Set(snap, p, found)
       /\ stage' = Set(stage, p, IF found = NoFile THEN "idle" ELSE "act")
    /\ kind' = Set(kind, p, "switch")
    /\ try' = Set(try, p, 1)
    /\ UNCHANGED <<browser, tabsAndPages, conn, tab, calls, meant, before, hit, counters, raced>>

(* What a command makes of the state it loaded. *)
Changed(p) == CASE kind[p] = "switch" -> [snap[p] EXCEPT !.target = tab[p]]
                [] kind[p] = "close" -> [snap[p] EXCEPT !.target = None]
                [] kind[p] = "block" -> [snap[p] EXCEPT !.blocked = TRUE]
                [] OTHER -> snap[p]

(* engine.save: the whole file. block saves before it acts. *)
Save(p) ==
    /\ stage[p] = "save"
    /\ file' = Changed(p)
    /\ raced' = (raced \/ file # (IF kind[p] = "start" THEN NoFile ELSE snap[p]))
    /\ stage' = Set(stage, p, IF kind[p] = "block" THEN "act" ELSE "told")
    /\ conn' = IF kind[p] \in {"switch", "close"} THEN Set(conn, p, NoConn) ELSE conn
    /\ UNCHANGED <<browser, tabsAndPages, kind, tab, snap, try, calls, meant, before, hit, counters>>

(* The command's answer is given. *)
Told(p) ==
    /\ stage[p] = "told"
    /\ stage' = Set(stage, p, "idle")
    /\ UNCHANGED <<file, browser, tabsAndPages, conn, kind, tab, snap, try, calls, meant,
                   before, hit, counters, raced>>

(* A page closes its own tab. *)
CloseItself(t) ==
    /\ owner[t] # None /\ faults < MaxFaults
    /\ faults' = faults + 1
    /\ owner' = Set(owner, t, None)
    /\ UNCHANGED <<file, browser, opened, place, field, clicks, conn, stage, kind, tab, snap, try,
                   calls, meant, before, hit, commands, raced>>

Next ==
    \/ \E p \in Procs :
           \/ \E k \in Does[p] : \/ k \notin {"switch", "close"} /\ Begin(p, k, None)
                                 \/ k = "close" /\ Begin(p, k, None)
                                 \/ k \in {"switch", "close"} /\ \E t \in 1..opened : Begin(p, k, t)
           \/ Launch(p) \/ StopProfile(p) \/ Forget(p)
           \/ \E t \in 0..MaxTabs : Session(p, t)
           \/ Work(p) \/ Refused(p) \/ Reload(p) \/ Save(p) \/ Told(p)
           \/ \E b \in BOOLEAN : Fault(p, b)
    \/ \E t \in TabIds : CloseItself(t)

Spec == Init /\ [][Next]_vars
-----------------------------------------------------------------------------
TypeOK ==
    /\ file.profile \in 0..MaxProfiles /\ file.target \in 0..MaxTabs
    /\ owner \in [TabIds -> 0..MaxProfiles]
    /\ \A p \in Procs : /\ conn[p].tab \in 0..MaxTabs
                        /\ try[p] \in 0..2 /\ calls[p] \in 0..(Letters + 1)

(* An attempt works on the tab that was active when it began, if that tab  *)
(* is open, though another process of the turn switched tabs behind the    *)
(* kept connection (cli/browser.py:32, _session).                          *)
ActsOnActive ==
    \A p \in Procs : stage[p] = "work" /\ meant[p] \in Open(conn[p].profile) =>
                         conn[p].tab = meant[p]

(* What a command that reports success did to its page: text typed into an *)
(* emptied field is exact although the action was tried twice; an action   *)
(* that does not begin by undoing is exact only when no call of it failed, *)
(* and is done at most twice (cli/browser.py:62, _act).                    *)
DoneAsTold ==
    \A p \in Procs : stage[p] = "told" /\ kind[p] \in Pages =>
        LET t == conn[p].tab
            done == CASE kind[p] = "type" -> field[t] - before[p].field
                      [] kind[p] = "click" -> clicks[t] - before[p].clicks
                      [] kind[p] = "back" -> before[p].place - place[t]
                      [] kind[p] = "forward" -> place[t] - before[p].place
            once == IF kind[p] = "type" THEN Letters ELSE 1
        IN  IF kind[p] = "retype" THEN field[t] = Letters
            ELSE done \in once..(2 * once) /\ (~hit[p] => done = once)

(* The state file is a whole of what the commands did, as long as none     *)
(* saved over another's: the profile in it is the one that runs, and no    *)
(* other does once nobody is at work.                                      *)
FileIsTrue ==
    ~raced /\ (\A p \in Procs : stage[p] = "idle") =>
        profiles \subseteq {file.profile}
=============================================================================
