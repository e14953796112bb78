# Verification of point.vote

point.vote is a planning-poker server in Go with a browser client: people and
agents join a room, vote blind, reveal, argue and vote again. It promises that
nobody sees a vote before the reveal and that everybody sees the reveal. This
directory holds TLA+ models of the server and the client, the TLC configurations that check them on small
instances, and theorems about them that TLAPS checks for every instance.

## The system

| part | source | state | operations |
|---|---|---|---|
| room | `internal/room/room.go`, `state.go` | participants, current round (number, phase, ballots, results), history ring, settlement, time of last use, subscribers, event number, closed flag; one mutex | `Join`, `CastVote`, `Reveal`, `StartRound`, `Leave`, `React`, `Settle`, `Snapshot`, `Subscribe`, `Close` |
| service | `internal/room/service.go` | none of its own | a wrapper per room method, `CreateRoom`, `WaitForReveal`, `SweepExpired`, `RunGC` |
| store | `internal/room/memstore.go` | map of live rooms; one RWMutex | `Put`, `Get`, `Count`, `Expire` |
| SSE handler | `internal/api/stream.go` | per request: the channel, the last event id | `handleEvents` |
| long-poll | `internal/api/stream.go`, MCP `wait_for_reveal` | per request: channel, timer, ticker | `WaitForReveal` |
| rate limit | `internal/api/ratelimit.go` | token buckets per address; one mutex | `allow`, `prune` |
| numbers | `internal/room/stats.go`, `awards.go` | none | `computeStats`, `computeAwards` |
| identifiers | `internal/room/ids.go` | none | `RandomID`, `newParticipantID`, `newToken` |
| REST, MCP, text, static | `internal/api`, `internal/mcp` | none | decode, one service call, encode |
| browser | `web/live.js`, `web/app.js` | connection, poll in flight, last snapshot, identity, pending vote | connect, degrade, poll, apply a snapshot, actions |
| process | `cmd/pointvote/main.go` | none | starts the server and the sweep |

How they interact:

* A request looks its room up in the store (store lock), reads the clock, and
  calls one method of the room (room lock). It holds no lock in between.
* A room method changes the room and, still under its lock, offers an event
  with a full snapshot to every subscriber's buffered channel. A full channel
  loses reactions; for a snapshot it is emptied, one receive at a time, and
  then takes the snapshot alone.
* An SSE handler subscribes, then reads the state, sends it, then sends what it
  receives, skipping what is not newer. A long-poll subscribes, reads the
  state, and waits for an event, a recheck every two seconds, its timeout or
  its client's departure.
* The sweep takes the idle rooms out of the store under the store's lock, and
  closes them, and with them their channels, after it has released it.
* A page of the browser follows its room over an SSE stream and over polls, and
  shows the answers to its own actions; whichever snapshot is the newest wins.
* Creating a room over REST first asks the rate limit of the address.
* Nothing is persisted: a restart is an empty store.

What makes it hard: departures and votes that trigger reveals, double events
under one lock, channels emptied while their receiver receives, requests that
hold a room the sweep is about to close, streams and polls that start in the
middle of a sequence of events, and the blindness of everything public.
`PROJECT.json` lists these hazards one by one, at the lines where they bite,
with the properties that cover them.

What makes each part correct:

* room: blindness; a reveal is complete, prompt and final; history and verdict
  belong to the right rounds; every change is published once, in order.
* fan-out and streams: no stream misses the last change, none goes back, none
  outlives its room, and no subscriber stops the room.
* long-poll: a reveal that lasts ends every wait; answers belong to the round
  that was waited for (they do not always: see the findings).
* store: no room is lost, replaced or expired while in use; quiet rooms die.
* rate limit: an address is granted no more than its burst and what accrues,
  and that full buckets are forgotten cannot be noticed.
* browser: the page ends up with the room's latest state, never goes back, and
  holds one stream while it is visible and none while it is not.
* numbers: they agree with their definition and stay finite.

## Modules

| module | models | built on |
|---|---|---|
| `RoomFeed` | what a room promises its watchers, abstractly | |
| `Room` | one room, a method per action | `Maps`; implements `RoomFeed` (`FeedSpec`) |
| `RoomBlind` | two rooms that differ only in secret ballots | `Room` twice |
| `Fanout` | subscription, delivery, draining, closing | `RoomFeed` |
| `WatchedRoom` | what the streams of a room promise their clients, abstractly | `RoomFeed` |
| `EventStream` | the SSE handlers | `Fanout`; implements `WatchedRoom` (`WatchedSpec`) |
| `LongPoll` | the requests that wait for a reveal | `Fanout` |
| `RoomStore` | creation, lookup, use, expiry of rooms | `Maps` |
| `Stats` | what is computed of a round's votes: top, median, mean, spread | |
| `Awards` | what is computed of the retained rounds at a settlement | `Stats` |
| `Deliberation` | rounds of votes, revealed, archived and settled | `Awards` |
| `LiveConnection` | a page: its connection, polls, actions and state | |
| `TokenBucket` | what the rate limit promises, abstractly | |
| `RateLimit` | the rate limit, with buckets that are forgotten | `Maps`; implements `TokenBucket` (`PruningIsInvisible`) |
| `Maps` | Go maps as functions | |
| `RoomProofs` | theorems about `Room` and `RoomBlind` | both, `DataTheorems` |
| `RoomStoreProofs`, `LiveConnectionProofs`, `RateLimitProofs`, `EventStreamProofs`, `LongPollProofs`, `DeliberationProofs` | theorems | the module each is named after |
| `DataTheorems` | lemmas about maps, channels as short sequences, and finite sets | `Maps` |
| `MC*` | instances for TLC | |

An operator whose comment begins with *Mutant* is a plausible mistake in the
definition that follows it. Nothing uses these operators; `PROJECT.json` pairs
each with a property it breaks.

### Room

A method of `Room` holds `r.mu` from its first read to its last write, so it is
one action. Its guard (`CanJoin`, `CanVote`, ...) is the conjunction of the
method's early returns, and a call that returns an error changes nothing here
and is no step. `kind` is the
participants map (present participants to their kinds), `votes` the ballots of
the round, `results`, `settled` are sets of at most one element where Go has a
pointer that may be nil. `outbox` holds the events of the last method, each
with the snapshot it carries. `CastVote` and `Leave` end in
`BroadcastMaybeReveal`, which publishes one event, or two if the call also
reveals the round; both leave the method under the same lock, so they are one
step with two events.

Abstracted: a bearer token is the participant it authenticates, so a request
of somebody who is not in the room is refused. Names, subjects, rationales and
times are left out: no guard reads them, except the cooldown of reactions,
which is the set `cooling` and the action `Cool`. Statistics and awards are
functions of ballots the model keeps (`Stats` and `Awards` say which): a
settlement keeps the rounds its awards are computed from. A participant who left may get its identifier again, as
`newParticipantID` only avoids those present.

### RoomBlind

Blindness is not a property of one behaviour. `RoomBlind` runs two rooms
through the same requests, except that each vote may have one value in the
first room and another in the second, for as long as the published results are
the same. The two rooms must then agree on their snapshots, on the events that
show no revealed round, and on which requests they accept, that is on the
guards of the methods.

### Fanout, EventStream, LongPoll

`Fanout` takes the room from `RoomFeed`, which `Room` is shown to implement, so
the interleavings of delivery are checked without the ballots. The room's lock
is held while `sending` is not empty. `Send`, `Drop`, `MakeRoom`, `DrainOne`
and `SendAfterDrain` are the branches of the two `select` statements in
`fanoutLocked`; between any two of them receivers may receive. What needs the
lock (`Operate`, `Close`, `Expire`'s look at the room, `Subscribe`, `Cancel`,
reading the state) waits until it is free.

`EventStream` and `LongPoll` add the requests, one process each, with a program
counter at the points where they touch the room, the store or the client.
`Find` and `FindAgain`/`Look` are the lookups in the store, which may fail at
any time once the room has expired.

`WatchedRoom` says what all this is for: every event reaches every client that
watches at once, a client takes what is on its way in order, and nothing is
lost on the way but reactions and snapshots that a later one replaces
(`Coalesce`). `EventStream` implements it under this mapping: a client has been
sent the snapshot its handler wrote last or is writing (`Sent`), and on its way
to it is what the holder of the lock still owes it and what its channel holds,
without what its first snapshot covers (`OnTheWay`).

### RoomStore

One step per lock: a request mints an identifier, puts its room, or gets a
room, then reads the clock, then uses the room it found. A use is a method of
the room (refused when the room is closed) or a snapshot (which does not look).
The sweep computes its cutoff, takes the store's lock, visits each room,
releases the lock and closes the expired rooms one by one. A room is named by
the request that created it.

`lastActive` is not when a room was last used: a request writes the time it
read before it took the room's lock, so a slow one sets the field back
(`room.go:231`). The model therefore records two things that the code does not:
`usedAt`, when a room was last used, and `slowest`, the longest any use of it
took since it read the clock (a creation included). No guard reads them. What
the sweep may take is said in their terms (`Quiet`): a room nobody has used for
its time to live, less `slowest`. The allowance is the code's: with it the
property holds, and without it a room used this very moment may leave.

### Stats, Awards, Deliberation

`Stats` and `Awards` are `stats.go` and `awards.go`, function by function. A
round is the sequence of its revealed votes in the order `buildResultsLocked`
gives them, a vote a name and a value. `Deliberation` is the part of a room
that feeds them: a round ends with any sequence of votes (who may vote, and that the
sequence is complete, is `Room`'s concern), revealed rounds go to the ring, and
a settlement is computed from the ring and the round on display, so from one
round more than the ring holds. `past` records every finished round, those that
have fallen off the ring included; no action reads it. `AccuracyIsAnchored`
takes from it the round that should decide, and says who of its voters may and
must get an accuracy award, so it would notice a ring that keeps the wrong
rounds as well as awards that look at the wrong one.

A `float64` is an integer, counted in half the finest step of the deck, so that
the mean of two is one; results beyond `MaxFloat` are infinite. Overflow is modelled,
rounding is not: nothing is said of the mean but that it may overflow. `ParseFloat` is the
function `Number`; different options may have one number. The order of
`Top.Values` is the deck's and is left out, as are the wording of an award and
the order and repetition of its names: participants are their names, as in
`awards.go`, and several may vote under one. Distances are steps in the deck; on a deck that is not in ascending
order "below" in the awards means earlier in the deck, as in the code.

### LiveConnection

JavaScript runs a callback to its end, so each callback of `live.js` and
`app.js` is one action: the tick of the interval, the listeners of the window
and of the stream, the continuations of a poll and of an action. The methods
they call (`Pause`, `Resume`, `Refresh`, `TickOf`, ...) are functions from a
connection to a connection, named after the methods and composed as the code
composes them. A connection is a record of the fields of `RoomConnection`; the
record also has the set of streams that are open, which the code cannot see but
the server can, and for every request the revision the room had when it was
sent. Clocks are abstracted to what they are compared for: `connectDue`,
`pollDue` and `overdue` become true by actions of their own at any time.

The room is its revision and whether it has expired. An answer to a request
shows the room at some moment between the sending and the answer; a stream
delivers revisions in increasing order (`StreamsMoveForward`), but may lose
them, stall, break, or deliver pings alone, as behind a proxy. A replaced poll
stays in flight, as its abort may come too late to stop its answer.

Abstracted: the doubling of the retry delay, which only makes reconnecting
later; reactions, which pass through; and which request of the user it is that
refreshes the page. The page's identity is not modelled.

### TokenBucket, RateLimit

`TokenBucket` has a bucket for every address, filled up by the clock.
`RateLimit` is `allow` and `prune`: a bucket holds what it held when it was
last used, and full ones are dropped when an unknown address arrives at a table
of `PruneAt` buckets. The refinement maps a bucket that is kept to what it
would hold by now, and one that is not to a full one. A bucket is counted in
the ticks it takes to fill, so that fractions of a token are integers; the
rounding of `float64` is left out, and the two readings of the clock in `allow`
and `prune`, under one lock, are taken as one. The address (`clientIP`) is a
model value. A bucket starts with 30 tokens, so 30 rooms an hour, as
`openapi.yaml` puts it, is the sustained rate: `GrantsAreBounded` allows up to
twice that to an address that spends its burst first. The MCP tool that
creates rooms does not ask the limiter, which is outside this module.

## Runs

| run | question | instance |
|---|---|---|
| `room` | consistency of a room over all orders of requests, and `FeedSpec` | 4 identifiers, cap 3, humans and observers, 2 values, ring of 2, 10 events |
| `room_blind` | blindness | 3 identifiers, 2 values, ring of 1, 9 events |
| `event_stream` | a stream has the last change on its way, never goes back, shows every change, ends; the lock is released; and `WatchedSpec` | 2 clients, buffer 2, 3 events |
| `long_poll` | no lasting reveal is missed, no wait outlives its room | 1 client, buffer 2, 6 events |
| `long_poll_stale` | violation: a wait answered with an earlier round | 1 client, buffer 2, 4 events |
| `long_poll_missed` | violation: a wait that goes on after its round was revealed | 1 client, buffer 2, 4 events |
| `room_store` | no room lost or replaced, none expires while in use; quiet rooms die | 3 requests, 2 identifiers, cap 1, 2 tries, clock to 2, time to live 1 |
| `room_store_race` | violation: a room closed right after an accepted request, slow or not | the same |
| `deliberation` | top, median and awards say what the ballots say | 2 names, deck `1 2 ? 3`, ring of 2, 4 rounds, 4 votes in all |
| `stats_overflow` | violation: finite votes with infinite statistics | 2 names, deck `-1e308 0 1e308`, ring of 1, 2 rounds, 2 votes in all |
| `live_connection` | one stream, quiet when hidden, never back, waits until its own poll ends, catches up by polls | 2 streams, 2 polls, 2 buttons, 2 revisions |
| `rate_limit` | grants are bounded, pruning is invisible | 3 addresses, burst 2, 2 ticks a token, clock to 4, pruning at 2 buckets |

What the properties say is in the comment above each of them.

Bounds. `MaxRevision` ends a room's behaviour after that many events, `MaxTime`
stops the clock; both are guards and named constants. Ten events are enough to
join three voters, vote, reveal, settle, start the next round, vote and reveal
again, so that the ring of two fills and the two revealed rounds differ; with
one participant the ring overflows. Four identifiers against a cap of three let
the cap be hit and a participant come back. Agents are left out of the
instances because no guard tells them from humans. Three events against a
buffer of two reach a full channel, emptying it while its receiver receives, and the delivery to a second
client that waits for it. Clients are interchangeable, so `ChangesAreShown` and
`StreamsEnd` speak of one of them. In `long_poll` one client is enough as
waiters share nothing with each other but the room's lock, which
`event_stream` covers with two. Six events make a reveal, a new round and a
reveal again behind a full channel. One identifier more than the cap makes
both refusals of `Put` happen, and three requests let one use a room, one
create another and one look up, around a sweep. A room can then be created
slowly, used late and swept at a clock of two; requests are alike, so
`QuietRoomsEvaporate` speaks of the room of one of them. Four votes in all
rounds allow four in one, where a majority, a tie and an even number of numbers
occur, and rounds of one to three votes in sequence, with several votes under
one name; empty rounds are free. Four rounds are one more than a ring of two and
the round on display, so that the first falls off it before a settlement.
The deck has a card that is no number between numbers, so
that steps in the deck and differences of numbers are not the same. For the
overflow a number counts in 10^307, of which `float64` holds 17. Two streams let one be left
open while another is connected, two polls let one be replaced while it is in
flight, and with two buttons two answers may come in the wrong order; two
revisions are enough for an older and a newer snapshot of either kind. Three
addresses reach the pruning at two buckets with one full and one not, and four
ticks fill an empty bucket.

The runs of rooms, streams, polls, pages and the rate limit switch deadlock
checking off: the room stops at its last event, the clock of the limiter at its
last tick, and clients need not come back. `room_store` and the two runs of
`Deliberation` check for deadlock. Symmetry is used where only invariants and
action properties are checked.

Fairness. The holder of the room's lock delivers (`RoomDeliver`): every branch
of `fanoutLocked` is non-blocking, and Go schedules every runnable goroutine.
Each handler proceeds when it can (`Handle(c)`): Go's mutex hands the lock over
to a waiter it has starved for a millisecond, and a write to a client is
bounded by the ten-second deadline in `sendSSE`, after which it fails. The
sweep proceeds to `Close` once it has called `Expire`. In `LongPoll` a receive
is strongly fair: `select` chooses among its ready cases at random, so a waiter
whose channel stays ready does not take its ticker for ever. In `RoomStore` the
clock ticks and the sweep runs, from `RunGC`'s ticker. In `LiveConnection` the
interval's tick comes, `nextPoll` is reached, and a request is settled, by its
8-second deadline if by nothing else; and of polls sent for ever one is
answered by the server (strong fairness), without which no client catches up.
Of streams nothing is assumed, so `PageCatchesUp` and `ExpiryIsNoticed` show
that polls suffice; nor that the page is visible, so both allow for its being
hidden. Nothing is assumed of
clients: they need not send requests, receive, go away or stay; nor that the
poll's timers fire, so `RevealEndsTheWait` shows that events alone suffice.

## Proofs

| theorem | states |
|---|---|
| `RoomProofs!TypeCorrect` | `TypeOK` of a room, with its cap and its ring |
| `BallotsHaveVoters`, `AutoRevealIsPrompt`, `RevealIsComplete`, `SettlementStaysCurrent`, `HistoryStaysRecent` | the invariants of the run `room` |
| `RevealsAreFinal`, `VerdictsAreKept`, `ChangesStayPublished` | its action properties |
| `RoomIsFeed` | `Room` implements `RoomFeed` |
| `BlindSnapshots`, `BlindEvents`, `BlindAnswers` (of `BothSpec`) | blindness of snapshots, of events, and of which requests are accepted |
| `RoomStoreProofs!StoreTypeCorrect`, `RoomsAreSomewhere`, `ActiveRoomsStay` | the safety of the store |
| `LiveConnectionProofs!LiveTypeCorrect`, `StreamsAreOwned`, `HiddenPagesAreQuiet`, `LiveIsEarned`, `LateAnswersDoNoHarm` | the safety of the page |
| `RateLimitProofs!LimiterTypeCorrect`, `GrantsStayBounded` | the types of the rate limit, and what it grants at most |
| `RateLimitProofs!LimiterIsIdeal` | `RateLimit` implements `TokenBucket` |
| `EventStreamProofs!StreamTypeCorrect`, `StreamsAreUpToDate`, `StreamsStayForward` | the safety of the streams |
| `EventStreamProofs!StreamsAgree` | no two clients are shown two histories |
| `EventStreamProofs!StreamsImplementWatching` | `EventStream` implements `WatchedRoom` |
| `EventStreamProofs!HolderProceeds`, `LockHoldsAreBounded` | no subscriber holds the room's lock up |
| `LongPollProofs!PollTypeCorrect` | the types of the long-polls, and that no channel overflows |
| `LongPollProofs!RevealsAreOnTheirWay` | no reveal slips past a request that waits for it |
| `DeliberationProofs!DeliberationTypeCorrect` | the types of `Deliberation`, and its ring |
| `DeliberationProofs!TopsAreHonest` | what the top of a round says |
| `DeliberationProofs!MediansSplitTheVotes` | what the median, the extremes and the spread of a round say |
| `DeliberationProofs!SmallRoundsStayFinite` | when no statistic overflows |
| `DeliberationProofs!AwardsStayConsistent` | the awards contradict neither each other nor the votes |
| `DeliberationProofs!AccuracyStaysAnchored` | the earliest round the ring retained, of all there were, decides who was accurate |

They hold for every set of identifiers, kinds, values, requests, clients, streams,
addresses and names, every deck and every limit, under the assumption each module names
(`RoomAssumption`, `RoomStoreAssumption`, `FanoutAssumption`,
`LiveConnectionAssumption`, `RateLimitAssumption`, `StatsAssumption`,
`DeliberationAssumption`): the limits are natural numbers, the ring and a
channel have at least one place, at least one identifier is tried, a token
takes at least one tick, the kinds are those `Join` accepts, there are two
request objects, so that a poll can be replaced while it is in flight, a deck
repeats no option, and its numbers are finite. Two theorems say more about the
deck, because the run `stats_overflow` shows that they must:
`MediansSplitTheVotes` that the sum of two numbers of the deck is finite
(`SumsAreFinite`), and `SmallRoundsStayFinite` bounds the size of the numbers
by some `b` and speaks of the rounds whose votes, times `b`, stay below
`MaxFloat`.

`RoomProofs`. The inductive invariant `Inv` is `TypeOK` with the five
invariants. They need each other: what a reveal publishes is built from the
participants present, so `ResultsAreTheBallots` is preserved by a reveal only
because `VotesBelongToVoters` held while the round was open; `RevealIsFinal` follows
from `ResultsAreTheBallots` (what a second reveal would write is excluded by
the guard, and what `StartRound` archives is what was public) together with
`HistoryIsRecent`, which tells where in the ring the round is; and
`SettlementIsCurrent` needs `ResultsAreTheBallots` to say that the awards come
from the ballots on display. There is one lemma per action and, for the
two-event reveal, lemmas about the snapshots it publishes. The refinement maps
each action of `Room` to an action of `RoomFeed` or to a stutter of it
(`Quiet`).

Blindness, in the same module, is about `BothSpec`. The invariant is that the
two rooms agree on everything but `votes`, and on the domain of `votes`; and
once the results agree, a revealed round's ballots do too, by
`ResultsAreTheBallots` of both rooms. A blind snapshot is a function of what
they agree on, and so is every guard: no method asks how somebody voted before
it accepts a request.

`RoomStoreProofs`. `EveryRoomIsSomewhere` needs that a request whose room is
not stored yet never had one stored (`NewRoomsAreNew`). `ActiveRoomsStay` needs
two facts more: that the cutoff of a running sweep is not in the future of the
clock minus the time to live (`SweepIsOrdered`), and that a room's `lastActive`
is behind its last use by no more than its slowest request took
(`UsesAreRecorded`), which in turn needs that no request has read a time to
come. So `lastActive` below the cutoff means that the room is `Quiet`. The
invariant has two parts, proved side by side: where the rooms are (`Placed`),
and their times.

`LiveConnectionProofs`. The inductive invariant adds to the properties what
makes them hold: that a connection is sound (the open stream is the current
one, a healthy one has delivered), that it is quiet when hidden or stopped,
and that it has not started before the page is open. As callbacks nest the
methods, there is a lemma for each method (a sound connection stays sound),
which the lemmas of the callbacks cite; so a step is proved along the code's
own calls. That nothing but its own end, a pause or a newer poll takes the wait
for a poll away (`StepWaits`) follows from it: a tick sends a poll only when
none is waited for (`TickAsks`), and whoever resumes sends one (`ResumeAsks`).

`RateLimitProofs`. That the limiter implements the ideal one needs that no
bucket was used in the future, and that filling up twice is filling up once;
pruning drops what the mapping shows as full anyway. `GrantsAreBounded` is not
inductive: it follows from what the tokens paid for (`Accounts`), that from any
grant until now no more was granted than the burst and what has accrued, less
what the bucket still holds.

`EventStreamProofs`. A change that is published is in one of three places for
each running stream: still to be sent by the holder of the lock, in the
channel, or taken (`OnItsWay`). This is inductive only together with the order
of the numbers (what is to be sent comes after what is queued, and that after
what was taken, so that a handler skips no event it needs), and with `Owed`:
whoever loses snapshots because its channel is being emptied is still to be
sent the last change. As a snapshot carries its room's revision, that the
newest one shows the room as it is needs that all snapshots, wherever they are,
belong to one history (`OneHistory`): the same fact gives
`StreamsMoveForward`. There is one lemma for each action of the room and, for
the handlers, `HandlerStep`, which says what one of them must show to have
disturbed no other.

That the streams implement `WatchedRoom` is shown step by step from the same
invariant. An operation of the room puts its events on their way to whoever
watches, because a handler that has read its first snapshot is subscribed. A
send moves an event from what is owed to the channel, which the mapping does
not tell apart. Whatever is dropped or drained may be lost, which is `Coalesce`: a reaction always, a snapshot because whoever loses
one is still to be sent a later one (`Owed` and the order of the numbers). The
handler takes the event with the least number, again by that order; one that it
skips, as its first snapshot covers it, was not on its way, and reading the
first snapshot starts the stream with nothing on its way, as all that is queued
then is older.

The same module has the part of `LockIsReleased` that is safety. While the lock
is held some delivery is due and no channel but its own is being emptied
(`HolderProceeds`): a least event number exists because the deliveries are
finitely many. Sending, dropping or emptying by one then is possible, whichever
way the receivers went. `Work`, which counts `SubBuffer + 2` turns for a delivery less the
emptying done, is zero exactly when the lock is free, shrinks with every turn
of the holder, and is never added to meanwhile; a receiver that races for the
same events only shortens it (`LockHoldsAreBounded`). What TLC adds is that
the holder's turns come.

`LongPollProofs`. A request that waits while the round is revealed has the
reveal in its channel or is still to be sent it by the holder of the lock
(`OnItsWay`). When it starts to wait the round is open, because it read the
state under the lock, and it subscribed before that (`Subscribed`), so a later
reveal is sent to it. A full channel loses that reveal only to a snapshot that
is newer: `Owed` says that whoever is still to be sent a snapshot, or is having
its channel emptied, is still to be sent the last one, which shows the room as
it is. As reactions carry no snapshot and are dropped, not drained for, none of
them can push a reveal out.

`DeliberationProofs`. The data here are sequences of votes of any length, and
the sums and maxima the code computes of them. The library's induction theorems
cannot be used (they take an operator), so each fact about all sets of votes is
shown by its smallest counterexample: of any set of subsets of a finite set one
has no smaller one in it (`SmallestSubset`). So a set of bounded numbers has a
largest and a finite one a least; a fold is what its defining equation says
(`FoldExists`, `FoldUnique`, from which `SumIs` and `TotalIs`), a sum has the
sign of its summands (`SumSign`), and a sum of n numbers of size b stays below
n * b at every partial sum (`TotalIsBounded`).

That a majority is alone on top, needs that two options share no vote. The
sorted numbers are defined by rank, the k-th being the least that k votes are up
to, because the operators of the libraries that sort cannot be expanded by the
prover; that at least k votes are up to it and all but k - 1 are from it
(`NumsAreSorted`) is what the median needs. The awards need the invariant that
a settlement's are those of the rounds retained now (`SettledOfRounds`), which
holds because a new round clears it; that the distance of an option is zero to
itself only; and that a sum with a sign has a summand with that sign, so whoever
leans has voted on that side (`LeaningIsVoted`). Which round decides needs one
invariant more (`RingIsRecent`): the ring holds the last of all finished rounds,
as many as it can, the i-th of them being the one that many places from the
end. So the first of the rounds retained is the one that should decide
(`FirstRetainedDecides`), and what it gives to whom is a fact about distances
(`AccuracyOfTheFirst`).

Only model-checked: everything under fairness (`ChangesAreShown`, `StreamsEnd`,
`LockIsReleased`, `RevealEndsTheWait`, `WaitsEndWithTheRoom`,
`QuietRoomsEvaporate`, `PageCatchesUp`, `ExpiryIsNoticed`), which is outside
this prover, though of `LockIsReleased` all but the fairness is proved. Every
invariant and action property of a passing run, and every refinement, is
stated by a theorem.

## Findings

* `long_poll_stale` (`service.go:229`). `WaitForReveal` subscribes, then reads
  the state. If the round is revealed and the next one started between the two,
  the state it reads is a voting round, it waits, and the first event it
  receives is the reveal of the round before: it answers at once with that old
  snapshot. `service.go:184` promises to block until the current round is
  revealed. The SSE handler, in the same position, skips events that are not
  newer than its first snapshot (`stream.go:63-67`).
* `long_poll_missed` (`service.go:222`, `room.go:613-622`). If a round is
  revealed and the next one started before the waiter receives, a full channel
  keeps only `round_started`; the waiter, and its recheck of the current state,
  see a voting round and wait on. `stream.go:111` says it blocks until the
  current round is revealed.
* `room_store_race` (`service.go:257`). Between `Expire` and `Close` a request
  that found the room earlier may still use it, and is accepted; the room then
  closes although it was just used. In TLC's trace a room that was created slowly
  is looked up, expires, is used, and closes; the property allows for slow
  requests (`Quiet`), so it is not their delay that closes the room.
  `README.md:105` says rooms evaporate after two hours of quiet. The
  interval is short, and the cost is one room whose users must start again.

* `stats_overflow` (`stats.go:35`). Votes that are no finite numbers are kept
  out of the statistics because `encoding/json` cannot marshal what would come
  of them (`stats.go:11-14`); but finite votes can add up to an infinity. With a
  deck that has `1e308` and `-1e308`, two equal votes overflow the sum
  (line 35) and the sum of the middle two (line 42), two opposite ones the spread (line 49). From the
  reveal on `writeJSON` answers with an empty body and streams end, until the
  round has left the ring. `TestNaNDeckStillSerializes` covers parses that are
  infinite, not results.

## Not modelled

Rendering, static files, decoding and encoding, logging, the MCP protocol of
the SDK, deployment, the experiment and its analysis: no state that interacts
with the rest. The identity of a page (its token, the join form, the remembered
vote) is left out: `LiveConnection` shows which state a page displays, not on
whose behalf it acts, and two hazards in `PROJECT.json` stay without a
property for it. The process that analyses the experiment shares no code with the server. Security of tokens and identifiers is out of scope: they are
drawn nondeterministically. Graceful shutdown is left out, as every stream ends
with its connection.

## Possible extensions

All the modules above are complete, with their proofs. Two things would add to
them:

1. The identity of a page: token, join form and remembered vote in several
   interleaved requests, over a room that may refuse or expire; that no page
   acts under a forgotten identity and none joins twice.
2. `LiveConnection` over `WatchedRoom`, which the streams are shown to
   implement, instead of over a server of its own.
