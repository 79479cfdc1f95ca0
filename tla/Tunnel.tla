------------------------------- MODULE Tunnel -------------------------------
(***************************************************************************)
(* A desktop or a terminal of a machine in a browser: two WebSockets, at   *)
(* two instances of the service, joined by two channels of Redis that      *)
(* deliver to who listens and keep nothing.                                *)
(*                                                                         *)
(* Sources: pool/tunnels.py, api/routes/public/machine.py,                 *)
(* api/routes/machines.py, machine/tunnel.py, chrome/ws.py.                *)
(*                                                                         *)
(* One tunnel.  What a side says is numbered; 0 ends it.                   *)
(***************************************************************************)
EXTENDS Naturals, Sequences

CONSTANTS MaxSaid   \* bound of the model: messages of a side

VARIABLES
    asked,     \* keys.tunnel exists
    ready,     \* keys.tunnel_ready
    pc,        \* of each side: its handler
    listens,   \* of each side: it has subscribed
    inbox,     \* of each side: what its subscription holds
    said,      \* of each side: messages published
    heard,     \* of each side: messages its socket was given
    socket,    \* of each side: its WebSocket is open
    done,      \* of each side: the event of pump
    early,     \* the machine's side said something before the browser listened
    failed     \* an instance died

vars == <<asked, ready, pc, listens, inbox, said, heard, socket, done, early, failed>>

Sides == {"browser", "machine"}
Other(s) == IF s = "browser" THEN "machine" ELSE "browser"
Eof == 0

TypeOK ==
    /\ asked \in BOOLEAN
    /\ \A k \in 1..Len(ready) : ready[k] \in {"yes", "no"}
    /\ pc["browser"] \in {"none", "asked", "waits", "pumps", "ended", "refused", "silent"}
    /\ pc["machine"] \in {"none", "told", "dials", "listens", "pumps", "ended", "refused"}
    /\ listens \in [Sides -> BOOLEAN] /\ socket \in [Sides -> BOOLEAN] /\ done \in [Sides -> BOOLEAN]
    /\ said \in [Sides -> 0..MaxSaid]
    /\ \A s \in Sides : \A k \in 1..Len(heard[s]) : heard[s][k] \in 1..MaxSaid
    /\ \A s \in Sides : \A k \in 1..Len(inbox[s]) : inbox[s][k] \in 0..MaxSaid
    /\ early \in BOOLEAN /\ failed \in BOOLEAN

Both(x) == [s \in Sides |-> x]

Init ==
    /\ asked = FALSE /\ ready = <<>>
    /\ pc = Both("none") /\ listens = Both(FALSE) /\ inbox = Both(<<>>)
    /\ said = Both(0) /\ heard = Both(<<>>)
    /\ socket = Both(FALSE) /\ done = Both(FALSE)
    /\ early = FALSE /\ failed = FALSE

Goto(s, p) == pc' = [pc EXCEPT ![s] = p]

\* A message for the other side, if it listens.
Publish(s, x) ==
    inbox' = [inbox EXCEPT ![Other(s)] = IF listens[Other(s)] THEN Append(@, x) ELSE @]

\* It is the browser's that may not yet do so.
Deaf(s) == early' = (early \/ (s = "machine" /\ pc["browser"] = "asked"))

\* Bridge.close.
Quit(s) == listens' = [listens EXCEPT ![s] = FALSE]

-----------------------------------------------------------------------------
(* The two handlers.                                                       *)

\* stream, open_channel: the machine is told,
Ask ==
    /\ pc["browser"] = "none"
    /\ asked' = TRUE
    /\ pc' = [pc EXCEPT !["browser"] = "asked", !["machine"] = "told"]
    /\ socket' = [socket EXCEPT !["browser"] = TRUE]
    /\ UNCHANGED <<ready, listens, inbox, said, heard, done, early, failed>>

\* ... and the browser's side listens.
Listen ==
    /\ pc["browser"] = "asked"
    /\ listens' = [listens EXCEPT !["browser"] = TRUE]
    /\ Goto("browser", "waits")
    /\ UNCHANGED <<asked, ready, inbox, said, heard, socket, done, early, failed>>

\* serve_tunnel: what it is for answers on the machine, and it dials.
Dial ==
    /\ pc["machine"] = "told"
    /\ IF asked
         THEN Goto("machine", "dials") /\ socket' = [socket EXCEPT !["machine"] = TRUE]
         ELSE Goto("machine", "refused") /\ UNCHANGED socket
    /\ UNCHANGED <<asked, ready, listens, inbox, said, heard, done, early, failed>>

\* Nothing answers there.
TunnelFailed ==
    /\ pc["machine"] = "told"
    /\ ready' = IF asked THEN Append(ready, "no") ELSE ready
    /\ Goto("machine", "refused")
    /\ UNCHANGED <<asked, listens, inbox, said, heard, socket, done, early, failed>>

\* tunnel: the machine's side listens,
Accept ==
    /\ pc["machine"] = "dials"
    /\ listens' = [listens EXCEPT !["machine"] = TRUE]
    /\ Goto("machine", "listens")
    /\ UNCHANGED <<asked, ready, inbox, said, heard, socket, done, early, failed>>

\* Mutant: it says that it is there before it listens.
AnnounceFirst ==
    /\ pc["machine"] \in {"dials", "listens"}
    /\ ready' = Append(ready, "yes")
    /\ Goto("machine", "pumps")
    /\ UNCHANGED <<asked, listens, inbox, said, heard, socket, done, early, failed>>

\* ... and says so.
Announce ==
    /\ pc["machine"] = "listens"
    /\ ready' = Append(ready, "yes")
    /\ Goto("machine", "pumps")
    /\ UNCHANGED <<asked, listens, inbox, said, heard, socket, done, early, failed>>

\* wait_for_machine.
MachineReady ==
    /\ pc["browser"] = "waits"
    /\ ready # <<>> /\ Head(ready) = "yes"
    /\ ready' = Tail(ready)
    /\ Goto("browser", "pumps")
    /\ UNCHANGED <<asked, listens, inbox, said, heard, socket, done, early, failed>>

\* It was refused, or the time is over: nothing is said to the machine's side.
GiveUp ==
    /\ pc["browser"] = "waits"
    /\ Goto("browser", IF ready # <<>> /\ Head(ready) = "no" THEN "refused" ELSE "silent")
    /\ ready' = <<>> /\ asked' = FALSE
    /\ Quit("browser")
    /\ socket' = [socket EXCEPT !["browser"] = FALSE]
    /\ UNCHANGED <<inbox, said, heard, done, early, failed>>

-----------------------------------------------------------------------------
(* pump.                                                                   *)

Pumps(s) == pc[s] = "pumps" /\ ~done[s]

\* outward: a message of the socket.
Say(s) ==
    /\ Pumps(s) /\ socket[s]
    /\ said[s] < MaxSaid
    /\ said' = [said EXCEPT ![s] = @ + 1]
    /\ Publish(s, said'[s])
    /\ Deaf(s)
    /\ UNCHANGED <<asked, ready, pc, listens, heard, socket, done, failed>>

\* inward.
Hear(s) ==
    /\ Pumps(s) /\ socket[s]
    /\ inbox[s] # <<>> /\ Head(inbox[s]) # Eof
    /\ heard' = [heard EXCEPT ![s] = Append(@, Head(inbox[s]))]
    /\ inbox' = [inbox EXCEPT ![s] = Tail(@)]
    /\ UNCHANGED <<asked, ready, pc, listens, said, socket, done, early, failed>>

HearEnd(s) ==
    /\ Pumps(s)
    /\ inbox[s] # <<>> /\ Head(inbox[s]) = Eof
    /\ done' = [done EXCEPT ![s] = TRUE]
    /\ UNCHANGED <<asked, ready, pc, listens, inbox, said, heard, socket, early, failed>>

\* The browser or the program on the machine ends its connection,
Hangup(s) ==
    /\ socket[s]
    /\ socket' = [socket EXCEPT ![s] = FALSE]
    /\ UNCHANGED <<asked, ready, pc, listens, inbox, said, heard, done, early, failed>>

\* ... which ends outward, or inward, that writes to it.
Disconnected(s) ==
    /\ Pumps(s) /\ ~socket[s]
    /\ done' = [done EXCEPT ![s] = TRUE]
    /\ UNCHANGED <<asked, ready, pc, listens, inbox, said, heard, socket, early, failed>>

\* The end of outward, done or cancelled, is passed on, and the handler ends.
End(s) ==
    /\ pc[s] = "pumps" /\ done[s]
    /\ Publish(s, Eof) /\ Deaf(s)
    /\ Goto(s, "ended") /\ Quit(s)
    /\ socket' = [socket EXCEPT ![s] = FALSE]
    /\ asked' = (asked /\ s # "browser") /\ ready' = IF s = "browser" THEN <<>> ELSE ready
    /\ UNCHANGED <<said, heard, done, failed>>

\* The instance dies, and with it the socket and the subscription.
Crash(s) ==
    /\ pc[s] \in {"asked", "waits", "dials", "listens", "pumps"}
    /\ Goto(s, "ended") /\ Quit(s)
    /\ socket' = [socket EXCEPT ![s] = FALSE]
    /\ failed' = TRUE
    /\ UNCHANGED <<asked, ready, inbox, said, heard, done, early>>

\* keys.tunnel and keys.tunnel_ready expire.
Expire ==
    /\ asked \/ ready # <<>>
    /\ asked' = FALSE /\ ready' = <<>>
    /\ UNCHANGED <<pc, listens, inbox, said, heard, socket, done, early, failed>>

Next ==
    \/ Ask \/ Listen \/ Dial \/ TunnelFailed \/ Accept \/ Announce \/ MachineReady \/ GiveUp \/ Expire
    \/ \E s \in Sides :
        Say(s) \/ Hear(s) \/ HearEnd(s) \/ Hangup(s) \/ Disconnected(s) \/ End(s) \/ Crash(s)

Spec == Init /\ [][Next]_vars

-----------------------------------------------------------------------------
(* Properties.                                                             *)

\* A side hears what the other has said from the first message on, in order
\* and without a gap, but for what a machine says before the browser's side
\* listens; and who ends a tunnel that was joined tells the other side, so
\* that it does not wait for ever, unless an instance died.
TunnelIsWhole ==
    \A s \in Sides :
        /\ s = "machine" \/ ~early => heard[s] = [k \in 1..Len(heard[s]) |-> k]
        /\ pc[s] = "ended" /\ pc[Other(s)] = "pumps" /\ ~failed /\ ~early =>
               done[Other(s)] \/ \E k \in 1..Len(inbox[Other(s)]) : inbox[Other(s)][k] = Eof
=============================================================================
