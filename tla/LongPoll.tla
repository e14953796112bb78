----------------------------- MODULE LongPoll -----------------------------
(***************************************************************************)
(* The requests that wait for a reveal (src/internal/room/service.go,      *)
(* WaitForReveal, behind the REST long-poll and the MCP tool): look the    *)
(* room up, subscribe, read the state, and unless it is revealed wait for  *)
(* an event, a periodic recheck, the timeout or the client's departure.    *)
(***************************************************************************)
EXTENDS Fanout

VARIABLES
  pc,      \* where each request is
  why,     \* what it reads the state for: "first", "recheck" or "timeout"
  since,   \* the round it found at its first look, 0 before that
  answer   \* the snapshot it was answered with, if any

pollVars == <<pc, why, since, answer>>
vars == <<roomVars, chanVars, pollVars>>

Init ==
  /\ FanoutInit
  /\ pc = [c \in Clients |-> "start"]
  /\ why = [c \in Clients |-> "first"]
  /\ since = [c \in Clients |-> 0]
  /\ answer = [c \in Clients |-> {}]

Goto(c, label) == pc' = [pc EXCEPT ![c] = label]

Answer(c, what) ==
  /\ answer' = [answer EXCEPT ![c] = {what}]
  /\ Goto(c, "leaving")

\* Subscribe looks the room up; without it the answer is an error
Find(c) ==
  /\ pc[c] = "start"
  /\ Goto(c, IF stored THEN "found" ELSE "gone")
  /\ UNCHANGED <<roomVars, chanVars, why, since, answer>>

\* and registers the channel, before the first look at the state.
Join(c) ==
  /\ pc[c] = "found"
  /\ Subscribe(c)
  /\ Goto(c, "looking")
  /\ UNCHANGED <<why, since, answer>>

\* Every look at the state finds the room in the store first; an error ends
\* the wait.
Look(c) ==
  /\ pc[c] = "looking"
  /\ Goto(c, IF stored THEN "reading" ELSE "leaving")
  /\ UNCHANGED <<roomVars, chanVars, why, since, answer>>

\* Mutant: the first look never answers.
ReadPatiently(c) ==
  /\ pc[c] = "reading"
  /\ LockFree
  /\ since' = [since EXCEPT ![c] = IF why[c] = "first" THEN seq ELSE @]
  /\ \/ /\ why[c] = "timeout" \/ (why[c] = "recheck" /\ phase = "revealed")
        /\ Answer(c, Snapshot)
     \/ /\ why[c] = "first" \/ (why[c] = "recheck" /\ phase = "voting")
        /\ Goto(c, "waiting")
        /\ UNCHANGED answer
  /\ UNCHANGED <<roomVars, chanVars, why>>

\* A revealed round is the answer; so is any state once the time is up, which
\* a request with timeout zero says at its first look.
Read(c) ==
  /\ pc[c] = "reading"
  /\ LockFree
  /\ since' = [since EXCEPT ![c] = IF why[c] = "first" THEN seq ELSE @]
  /\ \/ /\ phase = "revealed" \/ why[c] \in {"first", "timeout"}
        /\ Answer(c, Snapshot)
     \/ /\ phase = "voting"
        /\ why[c] # "timeout"
        /\ Goto(c, "waiting")
        /\ UNCHANGED answer
  /\ UNCHANGED <<roomVars, chanVars, why>>

\* The ticker, or the timer.
LookAgain(c, reason) ==
  /\ pc[c] = "waiting"
  /\ why' = [why EXCEPT ![c] = reason]
  /\ Goto(c, "looking")
  /\ UNCHANGED <<roomVars, chanVars, since, answer>>

\* An event arrives: the first revealed snapshot is the answer.
Take(c) ==
  /\ pc[c] = "waiting"
  /\ Receive(c)
  /\ LET revealed == {s \in Head(queue[c]).state : s.phase = "revealed"} IN
       \/ \E s \in revealed : Answer(c, s)
       \/ revealed = {} /\ UNCHANGED <<pc, answer>>
  /\ UNCHANGED <<why, since>>

RoomGone(c) ==
  /\ pc[c] = "waiting"
  /\ SeesClosed(c)
  /\ Goto(c, "leaving")
  /\ UNCHANGED <<roomVars, chanVars, why, since, answer>>

\* The client goes away.
Abandon(c) ==
  /\ pc[c] = "waiting"
  /\ Goto(c, "leaving")
  /\ UNCHANGED <<roomVars, chanVars, why, since, answer>>

\* The deferred cancel.
Leave(c) ==
  /\ pc[c] = "leaving"
  /\ Cancel(c)
  /\ Goto(c, "gone")
  /\ UNCHANGED <<why, since, answer>>

Handle(c) ==
  Join(c) \/ Look(c) \/ Read(c) \/ Take(c) \/ RoomGone(c) \/ Leave(c)

RoomOperate == Operate /\ UNCHANGED pollVars
RoomDeliver == Deliver /\ UNCHANGED pollVars
RoomExpire == Expire /\ UNCHANGED pollVars
RoomClose == Close /\ UNCHANGED pollVars

Next ==
  \/ RoomOperate \/ RoomDeliver \/ RoomExpire \/ RoomClose
  \/ \E c \in Clients :
       \/ Find(c) \/ Handle(c) \/ Abandon(c)
       \/ LookAgain(c, "recheck") \/ LookAgain(c, "timeout")

\* As in EventStream, and select chooses a ready channel sooner or later.
\* Neither the ticker nor the timer is assumed to fire:
\* what the events alone guarantee is the question.
Fairness ==
  /\ WF_vars(RoomDeliver)
  /\ WF_vars(RoomClose)
  /\ \A c \in Clients : WF_vars(Handle(c)) /\ SF_vars(Take(c))

Spec == Init /\ [][Next]_vars /\ Fairness

---------------------------------------------------------------------------
(* Properties.                                                             *)

\* No reveal slips between the subscription and the first look, or out of a
\* full channel: a request that waits although the round is revealed has the
\* snapshot of this reveal in its channel.
RevealIsOnItsWay ==
  LockFree /\ phase = "revealed" =>
    \A c \in subs \cup shut : pc[c] = "waiting" =>
      \E i \in DOMAIN queue[c] : \E s \in queue[c][i].state :
        s.seq = seq /\ s.phase = "revealed"

\* If the round stays revealed, nobody waits for ever, even if neither timer
\* fires.
RevealEndsTheWait ==
  \A c \in Clients : <>[](phase = "revealed") => []<>(pc[c] # "waiting")

\* Nobody waits for a room that is gone.
WaitsEndWithTheRoom ==
  \A c \in Clients : (closed /\ pc[c] # "start") ~> (pc[c] = "gone")

\* What service.go:184 says of the answer: a request that waits for the
\* current round is not answered with an earlier one.
AnswersTheRoundItFound ==
  \A c \in Clients : \A a \in answer[c] : a.seq >= since[c]

\* What service.go:184 says of the wait: it ends with the reveal of the round
\* the request found, so nobody waits with nothing in the channel for a round
\* that is over.
WaitEndsWithItsRound ==
  \A c \in subs :
    LockFree /\ pc[c] = "waiting" /\ queue[c] = <<>> =>
      seq = since[c] /\ phase = "voting"
===========================================================================
