------------------------- MODULE LiveConnection -------------------------
(***************************************************************************)
(* A page of the browser client: RoomConnection of src/web/live.js, and    *)
(* what src/web/app.js does with it.  The page follows its room over an    *)
(* event stream that may be slow, silent or broken, over polls, and over   *)
(* the answers to its own actions.                                         *)
(*                                                                         *)
(* JavaScript runs a callback to its end, so a callback is one step.  The  *)
(* calls it makes are functions from a connection to a connection.  A      *)
(* snapshot is its revision.  Clock values are what the code compares them *)
(* for: connectDue is now >= nextConnect, pollDue is now >= nextPoll, and  *)
(* overdue is the expiry of the stream's deadline (5 s for its first       *)
(* snapshot, 35 s of silence later).                                       *)
(***************************************************************************)
EXTENDS Integers

CONSTANTS
  MaxRevision,   \* the room stops changing after this many events
  Streams,       \* EventSource objects
  Polls,         \* GET requests of refresh
  Buttons,       \* reveal, settle, next round: each disabled while it waits
  None

\* A poll can be replaced while its request is in flight.
ASSUME LiveConnectionAssumption ==
  /\ MaxRevision \in Nat
  /\ Streams # {}
  /\ \E p, q \in Polls : p # q
  /\ None \notin Streams \cup Polls

Revisions == 0..MaxRevision

VARIABLES
  rev,      \* the server: the room's revision,
  gone,     \* and whether the room has expired
  page,     \* "loading", "open", "missing", or "failed" if it never loaded
  shown,    \* the revision of the state the page shows
  actions,  \* per button: Idle, Sent, or the snapshot of the answer
  conn      \* the RoomConnection

vars == <<rev, gone, page, shown, actions, conn>>

\* The states of a request that waits for no snapshot of the room as it was
\* when the request was sent, or later.
Idle == -1
Sent == -2      \* an action the server has not performed
TooLate == -2   \* a poll sent when the room had expired

Connections ==
  [stopped : BOOLEAN,
   hidden : BOOLEAN,                         \* document.hidden
   es : Streams \cup {None},
   open : SUBSET Streams,                    \* streams not closed
   last : {-1} \cup Revisions,               \* the last snapshot es delivered
   healthy : BOOLEAN,
   overdue : BOOLEAN,
   connectDue : BOOLEAN,
   pollDue : BOOLEAN,
   pending : Polls \cup {None},
   polls : [Polls -> {Idle, TooLate} \cup Revisions], \* rev when it was sent
   live : BOOLEAN]                           \* the dot the page shows

\* The constructor, in a document that may be hidden.
NewConnection(h) ==
  [stopped |-> TRUE, hidden |-> h, es |-> None, open |-> {}, last |-> -1,
   healthy |-> FALSE, overdue |-> FALSE, connectDue |-> TRUE, pollDue |-> TRUE,
   pending |-> None, polls |-> [p \in Polls |-> Idle], live |-> FALSE]

Init ==
  /\ rev = 0
  /\ gone = FALSE
  /\ page = "loading"
  /\ shown = -1
  /\ actions = [b \in Buttons |-> Idle]
  /\ conn \in {NewConnection(h) : h \in BOOLEAN}

-----------------------------------------------------------------------------
(* The methods of RoomConnection.                                          *)

\* Mutant: the stream is forgotten and not closed.
Forget(c) ==
  [c EXCEPT !.es = None, !.healthy = FALSE, !.overdue = FALSE]

Disconnect(c) ==
  [c EXCEPT !.open = @ \ {c.es}, !.es = None, !.healthy = FALSE,
            !.overdue = FALSE]

\* Both delays, 30 s for a stalled stream and at least 0.5 s for a broken
\* one, put the next attempt in the future.
Degrade(c) ==
  [Disconnect(c) EXCEPT !.live = FALSE, !.connectDue = FALSE, !.pollDue = TRUE]

\* The aborted poll may still be in flight; its answer no longer counts.
Pause(c) ==
  [Disconnect(c) EXCEPT !.pending = None, !.live = FALSE]

Connect(c) ==
  LET s == CHOOSE s \in Streams : s \notin c.open
  IN  [c EXCEPT !.es = s, !.open = @ \cup {s}, !.last = -1, !.overdue = FALSE]

\* A request object for the next poll: not the pending one, and if possible
\* not an aborted one in flight.
NextPoll(c) ==
  LET others == Polls \ {c.pending}
      free == {p \in others : c.polls[p] = Idle}
  IN  CHOOSE p \in others : p \in free \/ free = {}

StartPoll(c) ==
  [c EXCEPT !.pending = NextPoll(c),
            !.polls[NextPoll(c)] = IF gone THEN TooLate ELSE rev]

\* Mutant: an action that ends in a hidden tab starts a poll.
RefreshAlways(c, replace) ==
  IF c.stopped \/ (c.pending # None /\ ~replace) THEN c ELSE StartPoll(c)

Refresh(c, replace) ==
  IF c.stopped \/ c.hidden \/ (c.pending # None /\ ~replace)
  THEN c ELSE StartPoll(c)

\* What each branch of tick returns, in their order.
CheckStream(c) ==
  IF c.es # None /\ c.overdue THEN Degrade(c) ELSE c

Reconnect(c) ==
  IF c.es = None /\ c.connectDue THEN Connect(c) ELSE c

\* Mutant: a page with a healthy stream does not poll.
PollDegraded(c) ==
  IF c.pollDue /\ ~c.healthy THEN Refresh(c, FALSE) ELSE c

Poll(c) ==
  IF c.pollDue THEN Refresh(c, FALSE) ELSE c

TickOf(c) ==
  IF c.stopped \/ c.hidden THEN c ELSE Poll(Reconnect(CheckStream(c)))

Resume(c) ==
  IF c.stopped THEN c
  ELSE TickOf([Pause(c) EXCEPT !.connectDue = TRUE, !.pollDue = TRUE])

Start(c) ==
  LET started == [c EXCEPT !.stopped = FALSE]
  IN  IF c.hidden THEN started ELSE Resume(started)

Stop(c) ==
  [Pause(c) EXCEPT !.stopped = TRUE]

Heard(c) ==
  [c EXCEPT !.overdue = FALSE, !.healthy = TRUE, !.live = TRUE]

\* Mutant: whichever poll ends, the page no longer waits.
SettledAny(c, p) ==
  [c EXCEPT !.polls[p] = Idle, !.pending = None, !.pollDue = FALSE]

\* The finally of refresh: a poll that was replaced or aborted leaves the
\* newer one alone.
Settled(c, p) ==
  IF c.pending = p
  THEN [c EXCEPT !.polls[p] = Idle, !.pending = None, !.pollDue = FALSE]
  ELSE [c EXCEPT !.polls[p] = Idle]

-----------------------------------------------------------------------------
(* app.js: the state the page shows.                                       *)

\* applyState: equal and older snapshots are ignored.
ApplyState(r) ==
  shown' = IF r > shown THEN r ELSE shown

\* The first GET of the page.  It is handled at some moment before it is
\* answered.
Load(r) ==
  /\ page = "loading"
  /\ r <= rev
  /\ page' = "open"
  /\ shown' = r
  /\ conn' = Start(conn)
  /\ UNCHANGED <<rev, gone, actions>>

LoadFails ==
  /\ page = "loading"
  /\ page' \in {"failed"} \cup (IF gone THEN {"missing"} ELSE {})
  /\ UNCHANGED <<rev, gone, shown, actions, conn>>

-----------------------------------------------------------------------------
(* The room, as far as the page can tell.                                  *)

Change ==
  /\ ~gone
  /\ rev < MaxRevision
  /\ rev' = rev + 1
  /\ UNCHANGED <<gone, page, shown, actions, conn>>

Expire ==
  /\ ~gone
  /\ gone' = TRUE
  /\ UNCHANGED <<rev, page, shown, actions, conn>>

-----------------------------------------------------------------------------
(* Timers and the window.                                                  *)

Tick ==
  /\ conn' = TickOf(conn)
  /\ UNCHANGED <<rev, gone, page, shown, actions>>

PollTimePasses ==
  /\ ~conn.pollDue
  /\ conn' = [conn EXCEPT !.pollDue = TRUE]
  /\ UNCHANGED <<rev, gone, page, shown, actions>>

RetryTimePasses ==
  /\ ~conn.connectDue
  /\ conn' = [conn EXCEPT !.connectDue = TRUE]
  /\ UNCHANGED <<rev, gone, page, shown, actions>>

\* Nothing is heard until the deadline of the stream.
Silence ==
  /\ conn.es # None
  /\ ~conn.overdue
  /\ conn' = [conn EXCEPT !.overdue = TRUE]
  /\ UNCHANGED <<rev, gone, page, shown, actions>>

\* The listeners are registered between start and stop.
Hide ==
  /\ ~conn.hidden
  /\ LET away == [conn EXCEPT !.hidden = TRUE]
     IN  conn' = IF conn.stopped THEN away ELSE Pause(away)
  /\ UNCHANGED <<rev, gone, page, shown, actions>>

Show ==
  /\ conn.hidden
  /\ conn' = Resume([conn EXCEPT !.hidden = FALSE])
  /\ UNCHANGED <<rev, gone, page, shown, actions>>

Online ==
  /\ ~conn.stopped
  /\ ~conn.hidden
  /\ conn' = Resume(conn)
  /\ UNCHANGED <<rev, gone, page, shown, actions>>

-----------------------------------------------------------------------------
(* The event stream.  EventStream shows that what it delivers moves        *)
(* forward; here it may also be cut, stall, or lose what it was given.     *)

StreamState(r) ==
  /\ conn.es # None
  /\ r > conn.last
  /\ r <= rev
  /\ conn' = [Heard(conn) EXCEPT !.last = r]
  /\ ApplyState(r)
  /\ UNCHANGED <<rev, gone, page, actions>>

\* Mutant: a ping proves that the stream delivers.
PingProves ==
  /\ conn.es # None
  /\ conn' = Heard(conn)
  /\ UNCHANGED <<rev, gone, page, shown, actions>>

Ping ==
  /\ conn.es # None
  /\ conn.healthy
  /\ conn' = Heard(conn)
  /\ UNCHANGED <<rev, gone, page, shown, actions>>

\* Mutant: an event that is no snapshot of the room is shown.
StreamBreaksUnseen ==
  /\ conn.es # None
  /\ conn' = Heard(conn)
  /\ shown' = None
  /\ UNCHANGED <<rev, gone, page, actions>>

\* An error of the stream, or an event that is no snapshot.
StreamBreaks ==
  /\ conn.es # None
  /\ conn' = Degrade(conn)
  /\ UNCHANGED <<rev, gone, page, shown, actions>>

-----------------------------------------------------------------------------
(* Polls: the callbacks of refresh.                                        *)

PollAnswers(p, r) ==
  /\ conn.polls[p] \in Revisions
  /\ r \in conn.polls[p]..rev
  /\ IF conn.pending = p THEN ApplyState(r) ELSE UNCHANGED shown
  /\ conn' = Settled(conn, p)
  /\ UNCHANGED <<rev, gone, page, actions>>

\* Mutant: a failed poll stays pending, and no other poll is sent.
PollFailsPending(p) ==
  /\ conn.polls[p] # Idle
  /\ conn' = IF conn.pending = p THEN [conn EXCEPT !.live = FALSE, !.polls[p] = Idle]
             ELSE Settled(conn, p)
  /\ UNCHANGED <<rev, gone, page, shown, actions>>

\* An error, or the deadline of request.
PollFails(p) ==
  /\ conn.polls[p] # Idle
  /\ conn' = IF conn.pending = p
             THEN [Settled(conn, p) EXCEPT !.live = FALSE]
             ELSE Settled(conn, p)
  /\ UNCHANGED <<rev, gone, page, shown, actions>>

\* Mutant: a missing room is one more error.
PollMissesAsError(p) ==
  /\ gone
  /\ PollFails(p)

\* The answer is 404.
PollMisses(p) ==
  /\ gone
  /\ conn.polls[p] # Idle
  /\ IF conn.pending = p
     THEN /\ conn' = [Stop(conn) EXCEPT !.polls[p] = Idle]
          /\ page' = "missing"
     ELSE /\ conn' = Settled(conn, p)
          /\ UNCHANGED page
  /\ UNCHANGED <<rev, gone, shown, actions>>

-----------------------------------------------------------------------------
(* Actions of the user, whose buttons the page shows while it is open.     *)

\* mutate
Press(b) ==
  /\ page = "open"
  /\ actions[b] = Idle
  /\ actions' = [actions EXCEPT ![b] = Sent]
  /\ UNCHANGED <<rev, gone, page, shown, conn>>

ServerActs(b) ==
  /\ actions[b] = Sent
  /\ ~gone
  /\ rev < MaxRevision
  /\ rev' = rev + 1
  /\ actions' = [actions EXCEPT ![b] = rev + 1]
  /\ UNCHANGED <<gone, page, shown, conn>>

ActionAnswered(b) ==
  /\ actions[b] >= 0
  /\ ApplyState(actions[b])
  /\ actions' = [actions EXCEPT ![b] = Idle]
  /\ UNCHANGED <<rev, gone, page, conn>>

\* Refused, failed or timed out, after the server acted or before.
ActionFails(b) ==
  /\ actions[b] # Idle
  /\ actions' = [actions EXCEPT ![b] = Idle]
  /\ conn' = Refresh(conn, TRUE)
  /\ UNCHANGED <<rev, gone, page, shown>>

\* castVote ends in refreshAfterAction whatever the answer, the join form when
\* it is accepted.
VoteOrJoinEnds ==
  /\ page = "open"
  /\ conn' = Refresh(conn, TRUE)
  /\ UNCHANGED <<rev, gone, page, shown, actions>>

-----------------------------------------------------------------------------
PollSettles(p) ==
  \/ \E r \in Revisions : PollAnswers(p, r)
  \/ PollFails(p)
  \/ PollMisses(p)

Next ==
  \/ \E r \in Revisions : Load(r) \/ StreamState(r)
  \/ LoadFails
  \/ Change
  \/ Expire
  \/ Tick
  \/ PollTimePasses
  \/ RetryTimePasses
  \/ Silence
  \/ Hide
  \/ Show
  \/ Online
  \/ Ping
  \/ StreamBreaks
  \/ \E p \in Polls : PollSettles(p)
  \/ \E b \in Buttons :
       Press(b) \/ ServerActs(b) \/ ActionAnswered(b) \/ ActionFails(b)
  \/ VoteOrJoinEnds

\* The poll the page waits for is answered by the server.
ServerAnswers ==
  \/ \E r \in Revisions : conn.pending # None /\ PollAnswers(conn.pending, r)
  \/ conn.pending # None /\ PollMisses(conn.pending)

\* Timers fire; a request is settled, if only by its deadline; and of polls
\* that are sent for ever one is answered.  Nothing is assumed of streams.
Fairness ==
  /\ WF_vars(Tick)
  /\ WF_vars(PollTimePasses)
  /\ \A p \in Polls : WF_vars(PollSettles(p))
  /\ SF_vars(ServerAnswers)

Spec == Init /\ [][Next]_vars /\ Fairness

-----------------------------------------------------------------------------
TypeOK ==
  /\ rev \in Revisions
  /\ gone \in BOOLEAN
  /\ page \in {"loading", "open", "missing", "failed"}
  /\ shown \in {-1} \cup Revisions
  /\ actions \in [Buttons -> {Idle, Sent} \cup Revisions]
  /\ conn \in Connections

\* However streams break, stall and are replaced, no stream but the current
\* one is left open (connect and disconnect; performance-review.md promises
\* one-stream ownership).
OneStream ==
  conn.open = {conn.es} \ {None}

\* A hidden page and one whose room is missing neither hold a stream nor wait
\* for a poll, though actions may end there (pause, stop and the guard of
\* refresh): they do not keep the room alive.
QuietPages ==
  conn.hidden \/ conn.stopped => conn.open = {} /\ conn.pending = None

\* The dot says live only while a stream is connected that has delivered a
\* snapshot since: headers and pings alone prove nothing (heard).
LiveMeansDelivered ==
  conn.live => conn.es # None /\ conn.last >= 0

\* The wait for a poll ends with that poll, with a poll sent now in its place,
\* or because the page is hidden or stopped.
KeepsWaiting(p) ==
  conn.pending = p /\ conn'.pending # p =>
    \/ conn'.polls[p] = Idle
    \/ conn'.hidden \/ conn'.stopped
    \/ /\ conn'.pending # None
       /\ conn'.polls[conn'.pending] = IF gone THEN TooLate ELSE rev

\* Whatever arrives late or twice - events, polls that were replaced, answers
\* to actions - neither takes the page back to an older state nor ends its
\* wait for another poll (applyState, and the finally of refresh).
LateAnswersAreHarmless ==
  [][shown' >= shown /\ \A p \in Polls : KeepsWaiting(p)]_vars

\* A change reaches every page that stays open and visible, by polls alone if
\* need be: streams may stay silent, or deliver pings and lose snapshots.
PageCatchesUp ==
  \A r \in Revisions :
    (page = "open" /\ rev >= r) ~> (shown >= r \/ conn.hidden \/ gone)

\* A page whose room expires says so, unless it is hidden.
ExpiryIsNoticed ==
  (page = "open" /\ gone) ~> (page = "missing" \/ conn.hidden)
=============================================================================
