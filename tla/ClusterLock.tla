----------------------------- MODULE ClusterLock -----------------------------
(***************************************************************************)
(* The distributed lock of cluster.py: SET NX PX with a token of its own,  *)
(* EXTEND and RELEASE scripts that compare the token, and the keeper task  *)
(* that extends the lock every ttl / 3 and reports it lost.                *)
(*                                                                         *)
(* Source: cluster.py.  Its users (telegram/engine.py, pool/keeper.py,     *)
(* pool/ci/controller.py, github/bulk.py, github/workspace.py) differ in   *)
(* whether they renew.                                                     *)
(*                                                                         *)
(* Time is discrete and passes with Tick.  A command to Redis is a message *)
(* in net until it is executed; its answer may come later still.           *)
(***************************************************************************)
EXTENDS Integers, TLAPS

CONSTANTS
    Clients,    \* tasks that want the lock, on any instance
    NoToken,    \* the key does not exist
    Nap,        \* ticks the keeper sleeps between two extensions: ttl / 3
    Timeout,    \* ticks a call to Redis takes at most, unless faulty
    Renew,      \* the renew parameter of lock and try_lock
    MaxTakes    \* bound of the model: acquisitions of a client

Ttl == 3 * Nap

ASSUME LockAssumption ==
    /\ Nap \in Nat /\ Timeout \in Nat
    /\ Timeout < Nap       \* redis_timeout < ttl / 3 for every ttl in settings.py
    /\ Renew \in BOOLEAN
    /\ MaxTakes \in Nat
    /\ NoToken \notin [client : Clients, take : Nat]

VARIABLES
    key,        \* the token the key holds
    left,       \* ticks until the key expires
    net,        \* commands on their way to Redis
    pc,         \* of each client
    take,       \* of each client: its current acquisition
    answer,     \* of each client: the answer to its SET or RELEASE
    lost,       \* of each client: Held.lost
    keeper,     \* of each client: the keeper task
    heard,      \* of each client: the answer to its keeper's EXTEND
    waited,     \* of each client: ticks since its SET was sent
    napped,     \* of each client: ticks since its keeper fell asleep or called
    faulty      \* calls and loops may be held up by now, and commands be lost

vars == <<key, left, net, pc, take, answer, lost, keeper, heard, waited, napped, faulty>>

Token(c) == [client |-> c, take |-> take[c]]
Tokens == [client : Clients, take : 0..MaxTakes]
Commands == [op : {"set", "extend", "release"}, token : Tokens]
Command(op, c) == [op |-> op, token |-> Token(c)]

TypeOK ==
    /\ key \in Tokens \cup {NoToken}
    /\ left \in 0..Ttl
    /\ net \in SUBSET Commands
    /\ pc \in [Clients -> {"idle", "taking", "inside", "leaving"}]
    /\ take \in [Clients -> 0..MaxTakes]
    /\ answer \in [Clients -> {"none", "yes", "no"}]
    /\ lost \in [Clients -> BOOLEAN]
    /\ keeper \in [Clients -> {"off", "asleep", "calling"}]
    /\ heard \in [Clients -> {"none", "yes", "no"}]
    /\ waited \in [Clients -> 0..Timeout]
    /\ napped \in [Clients -> 0..(Nap + Timeout)]
    /\ faulty \in BOOLEAN

Init ==
    /\ key = NoToken
    /\ left = 0
    /\ net = {}
    /\ pc = [c \in Clients |-> "idle"]
    /\ take = [c \in Clients |-> 0]
    /\ answer = [c \in Clients |-> "none"]
    /\ lost = [c \in Clients |-> FALSE]
    /\ keeper = [c \in Clients |-> "off"]
    /\ heard = [c \in Clients |-> "none"]
    /\ waited = [c \in Clients |-> 0]
    /\ napped = [c \in Clients |-> 0]
    /\ faulty = FALSE

-----------------------------------------------------------------------------
(* Redis.                                                                  *)

\* The client and its keeper still wait for this command's answer.
Awaited(m) ==
    LET c == m.token.client IN
    /\ m.token = Token(c)
    /\ \/ m.op = "set" /\ pc[c] = "taking" /\ answer[c] = "none"
       \/ m.op = "release" /\ pc[c] = "leaving" /\ answer[c] = "none"
       \/ m.op = "extend" /\ keeper[c] = "calling" /\ heard[c] = "none"

Answered(m, a) ==
    LET c == m.token.client IN
    /\ net' = net \ {m}
    /\ answer' = IF Awaited(m) /\ m.op # "extend" THEN [answer EXCEPT ![c] = a] ELSE answer
    /\ heard' = IF Awaited(m) /\ m.op = "extend" THEN [heard EXCEPT ![c] = a] ELSE heard
    /\ UNCHANGED <<pc, take, lost, keeper, waited, napped, faulty>>

\* SET key token NX PX ttl, on a free key.
ExecuteSet(m) ==
    /\ m \in net
    /\ m.op = "set"
    /\ key = NoToken
    /\ key' = m.token
    /\ left' = Ttl
    /\ Answered(m, "yes")

\* Mutant: RELEASE does not compare the token.
ReleaseAny(m) == m.op = "release" /\ key # NoToken

ReleaseMatches(m) == m.op = "release" /\ key = m.token
ExtendMatches(m) == m.op = "extend" /\ key = m.token

ExecuteRelease(m) ==
    /\ m \in net
    /\ ReleaseMatches(m)
    /\ key' = NoToken
    /\ left' = 0
    /\ Answered(m, "yes")

ExecuteExtend(m) ==
    /\ m \in net
    /\ ExtendMatches(m)
    /\ left' = Ttl
    /\ Answered(m, "yes")
    /\ UNCHANGED key

\* The key exists (SET), or holds another token (RELEASE, EXTEND).
ExecuteVain(m) ==
    /\ m \in net
    /\ IF m.op = "set" THEN key # NoToken ELSE key # m.token
    /\ Answered(m, "no")
    /\ UNCHANGED <<key, left>>

\* A command that never arrives.
Drop(m) ==
    /\ faulty
    /\ m \in net
    /\ net' = net \ {m}
    /\ UNCHANGED <<key, left, pc, take, answer, lost, keeper, heard, waited, napped, faulty>>

\* From now on Redis, the network and the event loops may misbehave.
GoWrong ==
    /\ ~faulty
    /\ faulty' = TRUE
    /\ UNCHANGED <<key, left, net, pc, take, answer, lost, keeper, heard, waited, napped>>

Execute(m) == ExecuteSet(m) \/ ExecuteRelease(m) \/ ExecuteExtend(m) \/ ExecuteVain(m)

-----------------------------------------------------------------------------
(* The client: acquire, the body, _holding's finally.                      *)

Send(op, c) == net' = net \cup {Command(op, c)}

\* acquire: a token of its own, and SET NX.
Take(c) ==
    /\ pc[c] = "idle"
    /\ take[c] < MaxTakes
    /\ take' = [take EXCEPT ![c] = @ + 1]
    /\ net' = net \cup {[op |-> "set", token |-> [client |-> c, take |-> take[c] + 1]]}
    /\ pc' = [pc EXCEPT ![c] = "taking"]
    /\ answer' = [answer EXCEPT ![c] = "none"]
    /\ waited' = [waited EXCEPT ![c] = 0]
    /\ UNCHANGED <<key, left, lost, keeper, heard, napped, faulty>>

\* Mutant: renew is ignored and no keeper is started.
TakenDrowsy(c) ==
    /\ pc[c] = "taking"
    /\ answer[c] = "yes"
    /\ pc' = [pc EXCEPT ![c] = "inside"]
    /\ lost' = [lost EXCEPT ![c] = FALSE]
    /\ keeper' = [keeper EXCEPT ![c] = "off"]
    /\ heard' = [heard EXCEPT ![c] = "none"]
    /\ napped' = [napped EXCEPT ![c] = 0]
    /\ UNCHANGED <<key, left, net, take, answer, waited, faulty>>

\* SET answered OK: the body starts, and with renew the keeper.
Taken(c) ==
    /\ pc[c] = "taking"
    /\ answer[c] = "yes"
    /\ pc' = [pc EXCEPT ![c] = "inside"]
    /\ lost' = [lost EXCEPT ![c] = FALSE]
    /\ keeper' = [keeper EXCEPT ![c] = IF Renew THEN "asleep" ELSE "off"]
    /\ heard' = [heard EXCEPT ![c] = "none"]
    /\ napped' = [napped EXCEPT ![c] = 0]
    /\ UNCHANGED <<key, left, net, take, answer, waited, faulty>>

\* The key is held: SET is sent again after lock_retry, with the same token.
Retry(c) ==
    /\ pc[c] = "taking"
    /\ answer[c] = "no"
    /\ Send("set", c)
    /\ answer' = [answer EXCEPT ![c] = "none"]
    /\ waited' = [waited EXCEPT ![c] = 0]
    /\ UNCHANGED <<key, left, pc, take, lost, keeper, heard, napped, faulty>>

\* The deadline has passed: Busy, or None from try_lock.
GiveUp(c) ==
    /\ pc[c] = "taking"
    /\ answer[c] = "no"
    /\ pc' = [pc EXCEPT ![c] = "idle"]
    /\ UNCHANGED <<key, left, net, take, answer, lost, keeper, heard, waited, napped, faulty>>

\* The call raises, although the SET may have been or may yet be executed.
TakeFails(c) ==
    /\ faulty
    /\ pc[c] = "taking"
    /\ answer[c] # "no"
    /\ pc' = [pc EXCEPT ![c] = "idle"]
    /\ UNCHANGED <<key, left, net, take, answer, lost, keeper, heard, waited, napped, faulty>>

\* The body is over: the keeper is cancelled and RELEASE is sent.
Leave(c) ==
    /\ pc[c] = "inside"
    /\ pc' = [pc EXCEPT ![c] = "leaving"]
    /\ Send("release", c)
    /\ answer' = [answer EXCEPT ![c] = "none"]
    /\ keeper' = [keeper EXCEPT ![c] = "off"]
    /\ UNCHANGED <<key, left, take, lost, heard, waited, napped, faulty>>

\* RELEASE was answered, or raised, which is suppressed.
Left(c) ==
    /\ pc[c] = "leaving"
    /\ answer[c] # "none" \/ faulty
    /\ pc' = [pc EXCEPT ![c] = "idle"]
    /\ UNCHANGED <<key, left, net, take, answer, lost, keeper, heard, waited, napped, faulty>>

\* The process dies; what it sent may still arrive.
Crash(c) ==
    /\ pc[c] # "idle"
    /\ pc' = [pc EXCEPT ![c] = "idle"]
    /\ keeper' = [keeper EXCEPT ![c] = "off"]
    /\ UNCHANGED <<key, left, net, take, answer, lost, heard, waited, napped, faulty>>

-----------------------------------------------------------------------------
(* The keeper: _keep.                                                      *)

Wake(c) ==
    /\ keeper[c] = "asleep"
    /\ napped[c] >= Nap
    /\ keeper' = [keeper EXCEPT ![c] = "calling"]
    /\ napped' = [napped EXCEPT ![c] = 0]
    /\ heard' = [heard EXCEPT ![c] = "none"]
    /\ Send("extend", c)
    /\ UNCHANGED <<key, left, pc, take, answer, lost, waited, faulty>>

Extended(c) ==
    /\ keeper[c] = "calling"
    /\ heard[c] = "yes"
    /\ keeper' = [keeper EXCEPT ![c] = "asleep"]
    /\ napped' = [napped EXCEPT ![c] = 0]
    /\ UNCHANGED <<key, left, net, pc, take, answer, lost, heard, waited, faulty>>

\* Mutant: a refused extension ends the keeper and tells nobody.
LoseQuietly(c) ==
    /\ keeper[c] = "calling"
    /\ heard[c] = "no" \/ (faulty /\ heard[c] = "none")
    /\ keeper' = [keeper EXCEPT ![c] = "off"]
    /\ UNCHANGED <<key, left, net, pc, take, answer, lost, heard, waited, napped, faulty>>

\* EXTEND was refused or raised: lost is set and the keeper returns.
Lose(c) ==
    /\ keeper[c] = "calling"
    /\ heard[c] = "no" \/ (faulty /\ heard[c] = "none")
    /\ lost' = [lost EXCEPT ![c] = TRUE]
    /\ keeper' = [keeper EXCEPT ![c] = "off"]
    /\ UNCHANGED <<key, left, net, pc, take, answer, heard, waited, napped, faulty>>

-----------------------------------------------------------------------------
(* Time.  Without faults a call is answered within Timeout and the keeper  *)
(* wakes when its nap is over.                                             *)

InTime(c) ==
    /\ pc[c] = "taking" => waited[c] < Timeout
    /\ keeper[c] = "asleep" => napped[c] < Nap
    /\ keeper[c] = "calling" => napped[c] < Timeout

Later(n, cap) == IF n < cap THEN n + 1 ELSE n

Tick ==
    /\ faulty \/ \A c \in Clients : InTime(c)
    /\ left' = IF left > 0 THEN left - 1 ELSE 0
    /\ key' = IF left > 1 THEN key ELSE NoToken
    /\ waited' = [c \in Clients |-> IF pc[c] = "taking" THEN Later(waited[c], Timeout) ELSE 0]
    /\ napped' = [c \in Clients |-> IF keeper[c] # "off" THEN Later(napped[c], Nap + Timeout) ELSE 0]
    /\ UNCHANGED <<net, pc, take, answer, lost, keeper, heard, faulty>>

Client(c) ==
    \/ Take(c) \/ Taken(c) \/ Retry(c) \/ GiveUp(c) \/ TakeFails(c)
    \/ Leave(c) \/ Left(c) \/ Crash(c)

Keeper(c) == Wake(c) \/ Extended(c) \/ Lose(c)

Next ==
    \/ \E m \in net : Execute(m) \/ Drop(m)
    \/ \E c \in Clients : Client(c) \/ Keeper(c)
    \/ Tick \/ GoWrong

Spec == Init /\ [][Next]_vars

\* Redis executes what arrives, tasks go on when they are answered and when
\* their naps are over, time passes.
FairSpec ==
    /\ Spec
    /\ WF_vars(Tick)
    /\ WF_vars(\E m \in net : Execute(m))
    /\ \A c \in Clients : WF_vars(Taken(c) \/ Retry(c) \/ GiveUp(c)) /\ WF_vars(Keeper(c))

-----------------------------------------------------------------------------
(* Properties.                                                             *)

\* With renew, and calls that take less than two thirds of the ttl together,
\* two bodies never run at once.
Exclusive ==
    (Renew /\ ~faulty) =>
        \A c, d \in Clients : (pc[c] = "inside" /\ pc[d] = "inside") => c = d

\* No command that arrives late, from a body long over or a process long
\* dead, frees a key that a running body still holds: only time does.
NotFreedByOthers ==
    [][\A c \in Clients :
          (pc[c] = "inside" /\ key = Token(c) /\ left > 1) => key' = key \/ pc'[c] # "inside"]_vars

\* A body whose key is gone learns it, with renew.
LossIsNoticed ==
    Renew => \A c \in Clients :
        (pc[c] = "inside" /\ key # Token(c)) ~> (lost[c] \/ pc[c] # "inside")

-----------------------------------------------------------------------------
(* Proofs about the lock, for every number of clients, every ttl and every  *)
(* bound on the calls to Redis.  Two facts carry them: a RELEASE on its way  *)
(* belongs to an acquisition that is over, whatever is delayed or lost; and  *)
(* with renew and calls shorter than a nap, the time left on the key and the *)
(* time since the keeper last acted add up to a positive bound.              *)

\* No RELEASE is on its way for an acquisition that is being made or held.
Releases ==
    \A m \in net :
        /\ m.token.take <= take[m.token.client]
        /\ (m.op = "release" /\ m.token.take = take[m.token.client])
              => pc[m.token.client] \notin {"taking", "inside"}

\* What the key owes to a client that was told it has it.
Entering(c) ==
    (pc[c] = "taking" /\ answer[c] = "yes") =>
        /\ key = Token(c)
        /\ left + waited[c] >= Ttl

Resting(c) ==
    (pc[c] = "inside" /\ keeper[c] = "asleep") =>
        /\ napped[c] <= Nap
        /\ left + napped[c] >= Ttl - Timeout

Extending(c) ==
    (pc[c] = "inside" /\ keeper[c] = "calling") =>
        /\ napped[c] <= Timeout
        /\ heard[c] = "none" => left + napped[c] >= Ttl - Timeout - Nap
        /\ heard[c] = "yes" => left + napped[c] >= Ttl
        /\ heard[c] # "no"

Holding(c) ==
    pc[c] = "inside" =>
        /\ key = Token(c)
        /\ keeper[c] \in {"asleep", "calling"}

Held(c) == Entering(c) /\ Resting(c) /\ Extending(c) /\ Holding(c)

Timely == Renew /\ ~faulty

IInv == TypeOK /\ Releases /\ (Timely => \A c \in Clients : Held(c))

\* The variables keep their types.
LEMMA TypeStep == TypeOK /\ [Next]_vars => TypeOK'
<1> SUFFICES ASSUME TypeOK, [Next]_vars PROVE TypeOK'
  OBVIOUS
<1> USE LockAssumption DEF TypeOK, Tokens, Commands, Ttl
<1>1. ASSUME NEW m \in net, ExecuteSet(m) PROVE TypeOK'
  BY <1>1 DEF ExecuteSet, Answered
<1>2. ASSUME NEW m \in net, ExecuteRelease(m) PROVE TypeOK'
  BY <1>2 DEF ExecuteRelease, Answered
<1>3. ASSUME NEW m \in net, ExecuteExtend(m) PROVE TypeOK'
  BY <1>3 DEF ExecuteExtend, Answered
<1>4. ASSUME NEW m \in net, ExecuteVain(m) PROVE TypeOK'
  BY <1>4 DEF ExecuteVain, Answered
<1>5. ASSUME NEW m \in net, Drop(m) PROVE TypeOK'
  BY <1>5 DEF Drop
<1>6. ASSUME NEW c \in Clients, Take(c) PROVE TypeOK'
  BY <1>6 DEF Take
<1>7. ASSUME NEW c \in Clients, Taken(c) PROVE TypeOK'
  BY <1>7 DEF Taken
<1>8. ASSUME NEW c \in Clients, Retry(c) PROVE TypeOK'
  BY <1>8 DEF Retry, Send, Command, Token
<1>9. ASSUME NEW c \in Clients, GiveUp(c) PROVE TypeOK'
  BY <1>9 DEF GiveUp
<1>10. ASSUME NEW c \in Clients, TakeFails(c) PROVE TypeOK'
  BY <1>10 DEF TakeFails
<1>11. ASSUME NEW c \in Clients, Leave(c) PROVE TypeOK'
  BY <1>11 DEF Leave, Send, Command, Token
<1>12. ASSUME NEW c \in Clients, Left(c) PROVE TypeOK'
  BY <1>12 DEF Left
<1>13. ASSUME NEW c \in Clients, Crash(c) PROVE TypeOK'
  BY <1>13 DEF Crash
<1>14. ASSUME NEW c \in Clients, Wake(c) PROVE TypeOK'
  BY <1>14 DEF Wake, Send, Command, Token
<1>15. ASSUME NEW c \in Clients, Extended(c) PROVE TypeOK'
  BY <1>15 DEF Extended
<1>16. ASSUME NEW c \in Clients, Lose(c) PROVE TypeOK'
  BY <1>16 DEF Lose
<1>17. CASE Tick
  <2>1. left' \in 0..Ttl /\ key' \in Tokens \cup {NoToken}
    BY <1>17 DEF Tick
  <2>2. waited' \in [Clients -> 0..Timeout] /\ napped' \in [Clients -> 0..(Nap + Timeout)]
    BY <1>17 DEF Tick, Later
  <2> QED BY <1>17, <2>1, <2>2 DEF Tick
<1>18. CASE GoWrong
  BY <1>18 DEF GoWrong
<1>19. CASE UNCHANGED vars
  BY <1>19 DEF vars
<1> QED
  BY <1>1, <1>2, <1>3, <1>4, <1>5, <1>6, <1>7, <1>8, <1>9, <1>10, <1>11, <1>12,
     <1>13, <1>14, <1>15, <1>16, <1>17, <1>18, <1>19 DEF Next, Execute, Client, Keeper

\* A RELEASE is sent once the body is over, and the next acquisition has a
\* token of its own.
LEMMA ReleasesStep == TypeOK /\ Releases /\ [Next]_vars => Releases'
<1> SUFFICES ASSUME TypeOK, Releases, [Next]_vars PROVE Releases'
  OBVIOUS
<1> USE DEF TypeOK, Releases, Tokens, Commands
<1>1. ASSUME NEW m \in net, Execute(m) \/ Drop(m) PROVE Releases'
  <2>1. net' = net \ {m} /\ pc' = pc /\ take' = take
    BY <1>1 DEF Execute, ExecuteSet, ExecuteRelease, ExecuteExtend, ExecuteVain, Answered, Drop
  <2> QED BY <2>1
<1>2. ASSUME NEW c \in Clients, Take(c) PROVE Releases'
  BY <1>2 DEF Take
<1>3. ASSUME NEW c \in Clients, Taken(c) PROVE Releases'
  BY <1>3 DEF Taken
<1>4. ASSUME NEW c \in Clients, Retry(c) PROVE Releases'
  BY <1>4 DEF Retry, Send, Command, Token
<1>5. ASSUME NEW c \in Clients, GiveUp(c) \/ TakeFails(c) PROVE Releases'
  BY <1>5 DEF GiveUp, TakeFails
<1>6. ASSUME NEW c \in Clients, Leave(c) PROVE Releases'
  BY <1>6 DEF Leave, Send, Command, Token
<1>7. ASSUME NEW c \in Clients, Left(c) \/ Crash(c) PROVE Releases'
  BY <1>7 DEF Left, Crash
<1>8. ASSUME NEW c \in Clients, Wake(c) PROVE Releases'
  BY <1>8 DEF Wake, Send, Command, Token
<1>9. ASSUME NEW c \in Clients, Extended(c) \/ Lose(c) PROVE Releases'
  BY <1>9 DEF Extended, Lose
<1>10. CASE Tick
  BY <1>10 DEF Tick
<1>11. CASE GoWrong
  BY <1>11 DEF GoWrong
<1>12. CASE UNCHANGED vars
  BY <1>12 DEF vars
<1> QED
  BY <1>1, <1>2, <1>3, <1>4, <1>5, <1>6, <1>7, <1>8, <1>9, <1>10, <1>11, <1>12
     DEF Next, Client, Keeper

\* A client that was told the key is its own still has it, with time to spare.
LEMMA HeldStep ==
  ASSUME TypeOK, Releases, Timely, [Next]_vars, NEW d \in Clients, Held(d)
  PROVE  Held(d)'
<1> USE LockAssumption DEF Timely, Ttl
<1>a. /\ key \in Tokens \cup {NoToken} /\ left \in 0..Ttl
      /\ waited[d] \in 0..Timeout /\ napped[d] \in 0..(Nap + Timeout)
      /\ Token(d) \in Tokens /\ NoToken \notin Tokens
      /\ \A c, e \in Clients : Token(c) = Token(e) => c = e
  BY DEF TypeOK, Tokens, Token
<1>1. ASSUME NEW m \in net, ExecuteSet(m) PROVE Held(d)'
  <2>1. /\ key = NoToken /\ key' = m.token /\ left' = Ttl
        /\ pc' = pc /\ take' = take /\ keeper' = keeper /\ waited' = waited
        /\ napped' = napped
    BY <1>1 DEF ExecuteSet, Answered
  <2>2. heard' = heard
    BY <1>1 DEF ExecuteSet, Answered
  <2>3. pc[d] # "inside"
    BY <2>1, <1>a DEF Held, Holding
  <2>4. ~(pc[d] = "taking" /\ answer[d] = "yes")
    BY <2>1, <1>a DEF Held, Entering
  <2>5. (pc'[d] = "taking" /\ answer'[d] = "yes") => m.token = Token(d)
    BY <1>1, <2>1, <2>4 DEF ExecuteSet, Answered, Awaited, TypeOK, Commands, Tokens, Token
  <2> QED
    BY <2>1, <2>2, <2>3, <2>5, <1>a DEF Held, Entering, Resting, Extending, Holding, Token
<1>2. ASSUME NEW m \in net, ExecuteRelease(m) PROVE Held(d)'
  <2>1. /\ key = m.token /\ m.op = "release" /\ pc' = pc /\ take' = take
        /\ keeper' = keeper /\ waited' = waited /\ napped' = napped /\ heard' = heard
    BY <1>2 DEF ExecuteRelease, ReleaseMatches, Answered
  <2>2. pc[d] \in {"taking", "inside"} => key # Token(d)
    BY <2>1 DEF Releases, Token, TypeOK, Commands, Tokens
  <2>3. (pc[d] = "taking" /\ answer'[d] = "yes") => answer[d] = "yes"
    BY <1>2, <2>1, <2>2 DEF ExecuteRelease, Answered, Awaited, TypeOK, Commands, Tokens, Token
  <2> QED
    BY <2>1, <2>2, <2>3 DEF Held, Entering, Resting, Extending, Holding, Token
<1>3. ASSUME NEW m \in net, ExecuteExtend(m) PROVE Held(d)'
  <2>1. /\ key = m.token /\ m.op = "extend" /\ pc' = pc /\ take' = take /\ key' = key
        /\ left' = Ttl
        /\ keeper' = keeper /\ waited' = waited /\ napped' = napped /\ answer' = answer
    BY <1>3 DEF ExecuteExtend, ExtendMatches, Answered
  <2>2. heard'[d] \in {heard[d], "yes"}
    BY <1>3 DEF ExecuteExtend, Answered, TypeOK, Commands, Tokens
  <2> QED
    BY <2>1, <2>2, <1>a DEF Held, Entering, Resting, Extending, Holding, Token
<1>4. ASSUME NEW m \in net, ExecuteVain(m) PROVE Held(d)'
  <2>1. /\ pc' = pc /\ take' = take /\ key' = key /\ left' = left
        /\ keeper' = keeper /\ waited' = waited /\ napped' = napped
    BY <1>4 DEF ExecuteVain, Answered
  <2>2. answer'[d] \in {answer[d], "no"}
    BY <1>4 DEF ExecuteVain, Answered, TypeOK, Commands, Tokens
  <2>3. pc[d] = "inside" /\ keeper[d] = "calling" => heard'[d] = heard[d]
    BY <1>4 DEF ExecuteVain, Answered, Awaited, TypeOK, Commands, Tokens, Held, Holding, Token
  <2> QED
    BY <2>1, <2>2, <2>3, <1>a DEF Held, Entering, Resting, Extending, Holding, Token
<1>5. ASSUME NEW m \in net, Drop(m) PROVE Held(d)'
  BY <1>5 DEF Drop
<1>6. ASSUME NEW c \in Clients, Take(c) PROVE Held(d)'
  <2>1. CASE c = d
    BY <1>6, <2>1 DEF Take, TypeOK, Held, Entering, Resting, Extending, Holding
  <2>2. CASE c # d
    BY <1>6, <2>2 DEF Take, TypeOK, Held, Entering, Resting, Extending, Holding, Token
  <2> QED BY <2>1, <2>2
<1>7. ASSUME NEW c \in Clients, Taken(c) PROVE Held(d)'
  <2>1. CASE c = d
    <3>1. /\ pc'[d] = "inside" /\ keeper'[d] = "asleep" /\ napped'[d] = 0
          /\ key' = key /\ left' = left /\ take' = take
      BY <1>7, <2>1 DEF Taken, TypeOK
    <3>2. key = Token(d) /\ left + waited[d] >= Ttl
      BY <1>7, <2>1 DEF Taken, Held, Entering
    <3> QED BY <3>1, <3>2, <1>a DEF Held, Entering, Resting, Extending, Holding, Token
  <2>2. CASE c # d
    BY <1>7, <2>2 DEF Taken, TypeOK, Held, Entering, Resting, Extending, Holding, Token
  <2> QED BY <2>1, <2>2
<1>8. ASSUME NEW c \in Clients, Retry(c) \/ GiveUp(c) \/ Leave(c) \/ Left(c) \/ Crash(c)
      PROVE Held(d)'
  <2>1. CASE c = d
    BY <1>8, <2>1 DEF Retry, GiveUp, Leave, Left, Crash, TypeOK, Held, Entering, Resting,
                      Extending, Holding
  <2>2. CASE c # d
    BY <1>8, <2>2 DEF Retry, GiveUp, Leave, Left, Crash, TypeOK, Held, Entering, Resting,
                      Extending, Holding, Token
  <2> QED BY <2>1, <2>2
<1>9. ASSUME NEW c \in Clients, TakeFails(c) PROVE Held(d)'
  BY <1>9 DEF TakeFails
<1>10. ASSUME NEW c \in Clients, Wake(c) PROVE Held(d)'
  <2>1. CASE c = d
    <3>1. /\ keeper[d] = "asleep" /\ keeper'[d] = "calling" /\ napped'[d] = 0
          /\ heard'[d] = "none" /\ key' = key /\ left' = left /\ take' = take
          /\ pc' = pc /\ answer' = answer /\ waited' = waited
      BY <1>10, <2>1 DEF Wake, TypeOK
    <3> QED BY <3>1, <1>a DEF Held, Entering, Resting, Extending, Holding, Token
  <2>2. CASE c # d
    BY <1>10, <2>2 DEF Wake, TypeOK, Held, Entering, Resting, Extending, Holding, Token
  <2> QED BY <2>1, <2>2
<1>11. ASSUME NEW c \in Clients, Extended(c) PROVE Held(d)'
  <2>1. CASE c = d
    <3>1. /\ keeper[d] = "calling" /\ heard[d] = "yes" /\ keeper'[d] = "asleep"
          /\ napped'[d] = 0 /\ key' = key /\ left' = left /\ take' = take
          /\ pc' = pc /\ answer' = answer /\ waited' = waited
      BY <1>11, <2>1 DEF Extended, TypeOK
    <3> QED BY <3>1, <1>a DEF Held, Entering, Resting, Extending, Holding, Token
  <2>2. CASE c # d
    BY <1>11, <2>2 DEF Extended, TypeOK, Held, Entering, Resting, Extending, Holding, Token
  <2> QED BY <2>1, <2>2
<1>12. ASSUME NEW c \in Clients, Lose(c) PROVE Held(d)'
  <2>1. pc[c] = "inside" => c # d
    BY <1>12 DEF Lose, Held, Extending
  <2>2. CASE c = d
    BY <1>12, <2>1, <2>2 DEF Lose, TypeOK, Held, Entering, Resting, Extending, Holding, Token
  <2>3. CASE c # d
    BY <1>12, <2>3 DEF Lose, TypeOK, Held, Entering, Resting, Extending, Holding, Token
  <2> QED BY <2>2, <2>3
<1>13. CASE Tick
  <2>1. /\ InTime(d)
        /\ left' = IF left > 0 THEN left - 1 ELSE 0
        /\ key' = IF left > 1 THEN key ELSE NoToken
        /\ pc' = pc /\ take' = take /\ answer' = answer /\ keeper' = keeper /\ heard' = heard
    BY <1>13 DEF Tick
  <2>2. pc[d] = "taking" => waited'[d] = waited[d] + 1
    BY <1>13, <2>1, <1>a DEF Tick, InTime, Later
  <2>3. keeper[d] \in {"asleep", "calling"} => napped'[d] = napped[d] + 1
    BY <1>13, <2>1, <1>a DEF Tick, InTime, Later
  <2>4. Entering(d)'
    BY <2>1, <2>2, <1>a DEF Held, Entering, InTime, Token
  <2>5. pc[d] = "inside" => left > 1
    BY <2>1, <1>a DEF Held, Resting, Extending, Holding, InTime, TypeOK
  <2>6. Resting(d)' /\ Extending(d)' /\ Holding(d)'
    BY <2>1, <2>3, <2>5, <1>a DEF Held, Resting, Extending, Holding, InTime, Token
  <2> QED BY <2>4, <2>6 DEF Held
<1>14. CASE GoWrong
  BY <1>14 DEF GoWrong, Held, Entering, Resting, Extending, Holding, Token
<1>15. CASE UNCHANGED vars
  BY <1>15 DEF vars, Held, Entering, Resting, Extending, Holding, Token
<1> QED
  BY <1>1, <1>2, <1>3, <1>4, <1>5, <1>6, <1>7, <1>8, <1>9, <1>10, <1>11, <1>12,
     <1>13, <1>14, <1>15 DEF Next, Execute, Client, Keeper

\* Once faulty, always faulty: a state without faults has a past without them.
LEMMA TimelyBefore == TypeOK /\ [Next]_vars /\ Timely' => Timely
BY DEF TypeOK, Timely, Next, vars, Execute, ExecuteSet, ExecuteRelease, ExecuteExtend,
       ExecuteVain, Answered, Drop, Client, Take, Taken, Retry, GiveUp, TakeFails, Leave, Left,
       Crash, Keeper, Wake, Extended, Lose, Tick, GoWrong

\* The inductive invariant of the lock.
THEOREM Invariance == Spec => []IInv
<1>1. Init => IInv
  <2>1. Init => TypeOK
    <3>1. 0 \in 0..Ttl /\ 0 \in 0..MaxTakes /\ 0 \in 0..Timeout /\ 0 \in 0..(Nap + Timeout)
      BY LockAssumption DEF Ttl
    <3>2. Init => faulty \in BOOLEAN
      BY Zenon DEF Init
    <3>3. Init => lost \in [Clients -> BOOLEAN]
      BY DEF Init
    <3>4. ASSUME Init PROVE TypeOK
      BY <3>1, <3>2, <3>3, <3>4 DEF Init, TypeOK
    <3> QED BY <3>4
  <2>2. Init => Releases /\ \A c \in Clients : Held(c)
    BY DEF Init, Releases, Held, Entering, Resting, Extending, Holding
  <2> QED BY <2>1, <2>2 DEF IInv
<1>2. IInv /\ [Next]_vars => IInv'
  <2> SUFFICES ASSUME IInv, [Next]_vars PROVE IInv'
    OBVIOUS
  <2>1. TypeOK' /\ Releases'
    BY TypeStep, ReleasesStep DEF IInv
  <2>2. ASSUME Timely', NEW d \in Clients PROVE Held(d)'
    <3>1. Timely
      BY <2>2, TimelyBefore DEF IInv
    <3> QED BY <3>1, HeldStep DEF IInv
  <2> QED BY <2>1, <2>2 DEF IInv
<1> QED BY <1>1, <1>2, PTL DEF Spec

\* The variables keep their types.
THEOREM TypeCorrect == Spec => []TypeOK
<1>1. IInv => TypeOK
  BY DEF IInv
<1> QED BY <1>1, Invariance, PTL

\* With renew, and calls to Redis shorter than a nap of the keeper, two
\* bodies never run at once.
THEOREM ExclusiveCorrect == Spec => []Exclusive
<1>1. IInv => Exclusive
  BY DEF IInv, Timely, Exclusive, Held, Holding, Token
<1> QED BY <1>1, Invariance, PTL

\* A key is not freed under a running body, except by time.
THEOREM NotFreedCorrect == Spec => NotFreedByOthers
<1>1. ASSUME IInv, [Next]_vars, NEW c \in Clients,
             pc[c] = "inside", key = Token(c), left > 1
      PROVE  key' = key
  <2>1. TypeOK /\ Releases
    BY <1>1 DEF IInv
  <2>2. key # NoToken
    BY <1>1, <2>1, LockAssumption DEF TypeOK, Token
  <2>3. ASSUME NEW m \in net, ExecuteRelease(m) PROVE FALSE
    BY <1>1, <2>1, <2>3 DEF ExecuteRelease, ReleaseMatches, Releases, Token, TypeOK, Commands, Tokens
  <2> QED
    BY <1>1, <2>2, <2>3 DEF Next, vars, Execute, ExecuteSet, ExecuteExtend, ExecuteVain, Drop,
       Client, Take, Taken, Retry, GiveUp, TakeFails, Leave, Left, Crash,
       Keeper, Wake, Extended, Lose, Tick, GoWrong
<1>2. IInv /\ [Next]_vars =>
        [\A c \in Clients : (pc[c] = "inside" /\ key = Token(c) /\ left > 1)
                                => key' = key \/ pc'[c] # "inside"]_vars
  BY <1>1
<1> QED BY <1>2, Invariance, PTL DEF Spec, NotFreedByOthers
=============================================================================
