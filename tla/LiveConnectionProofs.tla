----------------------- MODULE LiveConnectionProofs -----------------------
(***************************************************************************)
(* Theorems about LiveConnection, for every number of streams, requests,   *)
(* buttons and events.                                                     *)
(***************************************************************************)
EXTENDS LiveConnection, TLAPS

\* What every callback preserves of a connection: it has at most one stream,
\* and it is healthy or shown as live only after a snapshot.
Sound(c) ==
  /\ c \in Connections
  /\ c.open = {c.es} \ {None}
  /\ c.healthy => c.es # None /\ c.last >= 0
  /\ c.live => c.es # None /\ c.last >= 0

Quiet(c) ==
  c.hidden \/ c.stopped => c.open = {} /\ c.pending = None

\* A page that is loading has not started its connection.
NotStarted ==
  page = "loading" =>
    /\ conn.stopped
    /\ shown = -1
    /\ \A b \in Buttons : actions[b] = Idle

\* The inductive invariant.
Inv ==
  /\ TypeOK
  /\ Sound(conn)
  /\ Quiet(conn)
  /\ NotStarted

-----------------------------------------------------------------------------
(* The methods of RoomConnection.                                          *)

LEMMA DegradeSound ==
  ASSUME NEW c, Sound(c)
  PROVE  /\ Sound(Degrade(c))
         /\ Quiet(c) => Quiet(Degrade(c))
         /\ Degrade(c).hidden = c.hidden /\ Degrade(c).stopped = c.stopped
  BY DEF Sound, Quiet, Degrade, Disconnect, Connections

LEMMA PauseSound ==
  ASSUME NEW c, Sound(c)
  PROVE  /\ Sound(Pause(c)) /\ Quiet(Pause(c))
         /\ Pause(c).hidden = c.hidden /\ Pause(c).stopped = c.stopped
  BY DEF Sound, Quiet, Pause, Disconnect, Connections

LEMMA ConnectSound ==
  ASSUME NEW c, Sound(c), c.es = None, ~c.hidden, ~c.stopped
  PROVE  /\ Sound(Connect(c)) /\ Quiet(Connect(c))
         /\ Connect(c).hidden = c.hidden /\ Connect(c).stopped = c.stopped
<1>1. c.open = {} /\ \E t \in Streams : t \notin c.open
  BY LiveConnectionAssumption DEF Sound
<1>2. PICK s \in Streams : s = CHOOSE t \in Streams : t \notin c.open
  BY <1>1
<1>3. s # None
  BY LiveConnectionAssumption
<1>4. PICK d \in {Connect(c)} :
        d = [c EXCEPT !.es = s, !.open = c.open \cup {s}, !.last = -1, !.overdue = FALSE]
  BY <1>2 DEF Connect
<1>5. d \in Connections
  BY <1>4 DEF Sound, Connections
<1>6. /\ d.es = s /\ d.open = c.open \cup {s}
      /\ d.healthy = c.healthy /\ d.live = c.live
      /\ d.hidden = c.hidden /\ d.stopped = c.stopped
  BY <1>4 DEF Sound, Connections
<1>7. ~c.healthy /\ ~c.live
  BY DEF Sound
<1>. QED
  BY <1>1, <1>3, <1>5, <1>6, <1>7 DEF Sound, Quiet

LEMMA NextPollType ==
  ASSUME NEW c \in Connections
  PROVE  NextPoll(c) \in Polls
<1>. DEFINE others == Polls \ {c.pending}
           free == {p \in others : c.polls[p] = Idle}
<1>1. \E p \in others : p \in free \/ free = {}
  BY LiveConnectionAssumption
<1>. QED
  BY <1>1 DEF NextPoll

LEMMA RefreshSound ==
  ASSUME NEW c, Sound(c), Quiet(c), rev \in Revisions, NEW replace \in BOOLEAN
  PROVE  /\ Sound(Refresh(c, replace)) /\ Quiet(Refresh(c, replace))
         /\ Refresh(c, replace).hidden = c.hidden
         /\ Refresh(c, replace).stopped = c.stopped
<1>1. CASE Refresh(c, replace) = c
  BY <1>1
<1>2. CASE Refresh(c, replace) = StartPoll(c) /\ ~c.hidden /\ ~c.stopped
  <2>1. PICK p \in Polls : p = NextPoll(c)
    BY NextPollType DEF Sound
  <2>2. PICK v \in {Idle, TooLate} \cup Revisions : v = IF gone THEN TooLate ELSE rev
    OBVIOUS
  <2>3. PICK d \in {StartPoll(c)} : d = [c EXCEPT !.pending = p, !.polls[p] = v]
    BY <2>1, <2>2 DEF StartPoll
  <2>4. d \in Connections
    BY <2>3 DEF Sound, Connections
  <2>5. /\ d.es = c.es /\ d.open = c.open /\ d.last = c.last
        /\ d.healthy = c.healthy /\ d.live = c.live
        /\ d.hidden = c.hidden /\ d.stopped = c.stopped
    BY <2>3 DEF Sound, Connections
  <2>. QED
    BY <1>2, <2>4, <2>5 DEF Sound, Quiet
<1>. QED
  BY <1>1, <1>2 DEF Refresh

LEMMA TickSound ==
  ASSUME NEW c, Sound(c), Quiet(c), rev \in Revisions
  PROVE  /\ Sound(TickOf(c)) /\ Quiet(TickOf(c))
         /\ TickOf(c).hidden = c.hidden /\ TickOf(c).stopped = c.stopped
<1>1. CASE c.stopped \/ c.hidden
  BY <1>1 DEF TickOf
<1>2. CASE ~c.stopped /\ ~c.hidden
  <2>1. PICK c1 \in {CheckStream(c)} :
          /\ Sound(c1) /\ Quiet(c1) /\ ~c1.stopped /\ ~c1.hidden
    BY <1>2, DegradeSound DEF CheckStream
  <2>2. PICK c2 \in {Reconnect(c1)} :
          /\ Sound(c2) /\ Quiet(c2) /\ ~c2.stopped /\ ~c2.hidden
    BY <2>1, ConnectSound DEF Reconnect
  <2>3. /\ Sound(Poll(c2)) /\ Quiet(Poll(c2))
        /\ ~Poll(c2).stopped /\ ~Poll(c2).hidden
    BY <2>2, RefreshSound DEF Poll
  <2>4. TickOf(c) = Poll(c2)
    BY <1>2, <2>1, <2>2 DEF TickOf
  <2>. QED
    BY <1>2, <2>3, <2>4 DEF Sound, Connections
<1>. QED
  BY <1>1, <1>2

LEMMA ResumeSound ==
  ASSUME NEW c, Sound(c), Quiet(c), rev \in Revisions
  PROVE  /\ Sound(Resume(c)) /\ Quiet(Resume(c))
         /\ Resume(c).hidden = c.hidden /\ Resume(c).stopped = c.stopped
<1>1. CASE c.stopped
  BY <1>1 DEF Resume
<1>2. CASE ~c.stopped
  <2>1. PICK d \in {Pause(c)} : /\ Sound(d) /\ Quiet(d)
                                /\ d.hidden = c.hidden /\ d.stopped = c.stopped
    BY PauseSound
  <2>2. PICK e \in {[d EXCEPT !.connectDue = TRUE, !.pollDue = TRUE]} :
          /\ Sound(e) /\ Quiet(e)
          /\ e.hidden = c.hidden /\ e.stopped = c.stopped
    BY <2>1 DEF Sound, Quiet, Connections
  <2>3. Resume(c) = TickOf(e)
    BY <1>2, <2>1, <2>2 DEF Resume
  <2>. QED
    BY <2>2, <2>3, TickSound
<1>. QED
  BY <1>1, <1>2

LEMMA StartSound ==
  ASSUME NEW c, Sound(c), Quiet(c), rev \in Revisions
  PROVE  Sound(Start(c)) /\ Quiet(Start(c))
<1>1. CASE c.hidden
  BY <1>1 DEF Start, Sound, Quiet, Connections
<1>2. CASE ~c.hidden
  <2>1. PICK d \in {[c EXCEPT !.stopped = FALSE]} : Sound(d) /\ Quiet(d)
    BY <1>2 DEF Sound, Quiet, Connections
  <2>2. Start(c) = Resume(d)
    BY <1>2, <2>1 DEF Start
  <2>. QED
    BY <2>1, <2>2, ResumeSound
<1>. QED
  BY <1>1, <1>2

LEMMA HeardSound ==
  ASSUME NEW c, Sound(c), Quiet(c), c.es # None,
         NEW r \in Revisions
  PROVE  LET d == [Heard(c) EXCEPT !.last = r] IN Sound(d) /\ Quiet(d)
<1>1. r >= 0
  BY LiveConnectionAssumption DEF Revisions
<1>. QED
  BY <1>1 DEF Heard, Sound, Quiet, Connections

LEMMA SettledSound ==
  ASSUME NEW c, Sound(c), Quiet(c), NEW p \in Polls
  PROVE  Sound(Settled(c, p)) /\ Quiet(Settled(c, p))
  BY DEF Settled, Sound, Quiet, Connections

-----------------------------------------------------------------------------
(* The steps.                                                              *)

LEMMA RevisionsType == Revisions \subseteq Nat /\ 0 \in Revisions
  BY LiveConnectionAssumption DEF Revisions

LEMMA InitInv == Init => Inv
<1>. SUFFICES ASSUME Init PROVE Inv
  OBVIOUS
<1>1. PICK h \in BOOLEAN : conn = NewConnection(h)
  BY DEF Init
<1>2. Sound(conn) /\ Quiet(conn) /\ conn.stopped
  BY <1>1, LiveConnectionAssumption
     DEF NewConnection, Sound, Quiet, Connections, Idle, TooLate
<1>3. TypeOK
  BY <1>2, RevisionsType DEF Init, TypeOK, Sound
<1>. QED
  BY <1>2, <1>3 DEF Init, Inv, NotStarted

\* What arrives moves the page forward, or leaves it where it is.
LEMMA ApplyForward ==
  ASSUME TypeOK, NEW r \in Revisions, ApplyState(r)
  PROVE  shown' \in {-1} \cup Revisions /\ shown' >= shown
<1>1. shown \in {-1} \cup Revisions /\ shown \in Int /\ r \in Int
  BY RevisionsType DEF TypeOK
<1>. QED
  BY <1>1 DEF ApplyState

LEMMA ConnType == ASSUME Inv PROVE conn \in Connections /\ shown \in Int
  BY RevisionsType DEF Inv, TypeOK

LEMMA LoadStep ==
  ASSUME Inv, NEW r \in Revisions, Load(r)
  PROVE  Inv' /\ shown' >= shown
<1>1. Sound(conn)' /\ Quiet(conn)'
  BY StartSound DEF Load, Inv, TypeOK
<1>2. shown' = r /\ page' = "open" /\ UNCHANGED <<rev, gone, actions>>
  BY DEF Load
<1>3. shown = -1 /\ r >= -1
  BY RevisionsType DEF Load, Inv, NotStarted
<1>4. TypeOK'
  BY <1>1, <1>2 DEF Inv, TypeOK, Sound
<1>. QED
  BY <1>1, <1>2, <1>3, <1>4 DEF Inv, NotStarted

LEMMA LoadFailsStep ==
  ASSUME Inv, LoadFails
  PROVE  Inv' /\ shown' >= shown
<1>1. page' \in {"failed", "missing"} /\ UNCHANGED <<rev, gone, shown, actions, conn>>
  BY DEF LoadFails
<1>2. TypeOK' /\ Sound(conn)' /\ Quiet(conn)' /\ NotStarted'
  BY <1>1 DEF Inv, TypeOK, Sound, Quiet, NotStarted
<1>. QED
  BY <1>1, <1>2, ConnType DEF Inv

\* Steps that leave the page and its connection alone.
LEMMA RoomStep ==
  ASSUME Inv, Change \/ Expire
  PROVE  Inv' /\ shown' >= shown
<1>1. /\ UNCHANGED <<page, shown, actions, conn>>
      /\ rev' \in Revisions /\ gone' \in BOOLEAN
  <2>1. rev \in Revisions /\ gone \in BOOLEAN
    BY DEF Inv, TypeOK
  <2>2. CASE Change
    BY <2>1, <2>2, LiveConnectionAssumption DEF Change, Revisions
  <2>3. CASE Expire
    BY <2>1, <2>3 DEF Expire
  <2>. QED
    BY <2>2, <2>3
<1>2. TypeOK' /\ Sound(conn)' /\ Quiet(conn)' /\ NotStarted'
  BY <1>1 DEF Inv, TypeOK, Sound, Quiet, NotStarted
<1>. QED
  BY <1>1, <1>2, ConnType DEF Inv

\* Steps of the connection alone, which do not start it.
LEMMA ConnectionStep ==
  ASSUME Inv, UNCHANGED <<rev, gone, page, shown, actions>>,
         Sound(conn'), Quiet(conn'), conn'.stopped = conn.stopped
  PROVE  Inv' /\ shown' >= shown
<1>1. TypeOK' /\ NotStarted'
  BY DEF Inv, TypeOK, NotStarted, Sound
<1>. QED
  BY <1>1, ConnType DEF Inv

LEMMA TimerStep ==
  ASSUME Inv, Tick \/ PollTimePasses \/ RetryTimePasses \/ Silence
  PROVE  Inv' /\ shown' >= shown
<1>1. UNCHANGED <<rev, gone, page, shown, actions>>
  BY DEF Tick, PollTimePasses, RetryTimePasses, Silence
<1>2. Sound(conn) /\ Quiet(conn) /\ rev \in Revisions
  BY DEF Inv, TypeOK
<1>3. CASE Tick
  BY <1>1, <1>2, <1>3, TickSound, ConnectionStep DEF Tick
<1>4. CASE PollTimePasses \/ RetryTimePasses \/ Silence
  <2>1. Sound(conn') /\ Quiet(conn') /\ conn'.stopped = conn.stopped
    BY <1>2, <1>4
       DEF PollTimePasses, RetryTimePasses, Silence, Sound, Quiet, Connections
  <2>. QED
    BY <1>1, <2>1, ConnectionStep
<1>. QED
  BY <1>3, <1>4

LEMMA WindowStep ==
  ASSUME Inv, Hide \/ Show \/ Online
  PROVE  Inv' /\ shown' >= shown
<1>1. UNCHANGED <<rev, gone, page, shown, actions>>
  BY DEF Hide, Show, Online
<1>2. Sound(conn) /\ Quiet(conn) /\ rev \in Revisions
  BY DEF Inv, TypeOK
<1>3. CASE Hide
  <2>1. PICK c \in {[conn EXCEPT !.hidden = TRUE]} :
          /\ Sound(c) /\ c.stopped = conn.stopped /\ (c.stopped => Quiet(c))
    BY <1>2 DEF Sound, Quiet, Connections
  <2>2. conn' = IF conn.stopped THEN c ELSE Pause(c)
    BY <1>3, <2>1 DEF Hide
  <2>3. Sound(conn') /\ Quiet(conn') /\ conn'.stopped = conn.stopped
    BY <2>1, <2>2, PauseSound
  <2>. QED
    BY <1>1, <2>3, ConnectionStep
<1>4. CASE Show
  <2>1. PICK c \in {[conn EXCEPT !.hidden = FALSE]} :
          Sound(c) /\ Quiet(c) /\ c.stopped = conn.stopped
    BY <1>2 DEF Sound, Quiet, Connections
  <2>2. conn' = Resume(c)
    BY <1>4, <2>1 DEF Show
  <2>. QED
    BY <1>1, <1>2, <2>1, <2>2, ResumeSound, ConnectionStep
<1>5. CASE Online
  BY <1>1, <1>2, <1>5, ResumeSound, ConnectionStep DEF Online
<1>. QED
  BY <1>3, <1>4, <1>5

\* An event finds a stream, so the page has been loaded.
LEMMA StreamStep ==
  ASSUME Inv, NEW r \in Revisions, StreamState(r) \/ Ping \/ StreamBreaks
  PROVE  Inv' /\ shown' >= shown
<1>1. Sound(conn) /\ Quiet(conn)
  BY DEF Inv
<1>2. CASE StreamState(r)
  <2>1. Sound(conn') /\ Quiet(conn')
    BY <1>1, <1>2, HeardSound DEF StreamState
  <2>2. shown' \in {-1} \cup Revisions /\ shown' >= shown
    BY <1>2, ApplyForward DEF StreamState, Inv
  <2>3. page # "loading" /\ page' = page
    <3>1. ~conn.stopped
      BY <1>1, <1>2 DEF StreamState, Sound, Quiet
    <3>. QED
      BY <1>2, <3>1 DEF StreamState, Inv, NotStarted
  <2>4. TypeOK'
    BY <1>2, <2>1, <2>2 DEF StreamState, Inv, TypeOK, Sound
  <2>. QED
    BY <2>1, <2>2, <2>3, <2>4 DEF Inv, NotStarted
<1>3. CASE Ping
  <2>1. /\ UNCHANGED <<rev, gone, page, shown, actions>>
        /\ conn' = Heard(conn) /\ conn.es # None /\ conn.healthy
    BY <1>3 DEF Ping
  <2>2. Sound(conn') /\ Quiet(conn') /\ conn'.stopped = conn.stopped
    BY <1>1, <2>1 DEF Heard, Sound, Quiet, Connections
  <2>. QED
    BY <2>1, <2>2, ConnectionStep
<1>4. CASE StreamBreaks
  BY <1>1, <1>4, DegradeSound, ConnectionStep DEF StreamBreaks
<1>. QED
  BY <1>2, <1>3, <1>4

LEMMA SettledStopped ==
  ASSUME NEW c \in Connections, NEW p \in Polls
  PROVE  Settled(c, p).stopped = c.stopped
  BY DEF Settled, Connections

LEMMA PollStep ==
  ASSUME Inv, NEW p \in Polls, NEW r \in Revisions, PollAnswers(p, r)
  PROVE  Inv' /\ shown' >= shown
<1>1. /\ conn' = Settled(conn, p)
      /\ UNCHANGED <<rev, gone, page, actions>>
  BY DEF PollAnswers
<1>2. Sound(conn') /\ Quiet(conn') /\ conn'.stopped = conn.stopped
  BY <1>1, SettledSound, SettledStopped, ConnType DEF Inv
<1>3. CASE conn.pending = p
  <2>1. shown' \in {-1} \cup Revisions /\ shown' >= shown
    BY <1>3, ApplyForward DEF PollAnswers, Inv
  <2>2. ~conn.stopped
    BY <1>3, LiveConnectionAssumption DEF Inv, Quiet
  <2>3. page # "loading"
    BY <2>2 DEF Inv, NotStarted
  <2>4. TypeOK'
    BY <1>1, <1>2, <2>1 DEF Inv, TypeOK, Sound
  <2>. QED
    BY <1>1, <1>2, <2>1, <2>3, <2>4 DEF Inv, NotStarted
<1>4. CASE conn.pending # p
  <2>1. shown' = shown
    BY <1>4 DEF PollAnswers
  <2>. QED
    BY <1>1, <1>2, <2>1, ConnectionStep
<1>. QED
  BY <1>3, <1>4

LEMMA PollFailsStep ==
  ASSUME Inv, NEW p \in Polls, PollFails(p)
  PROVE  Inv' /\ shown' >= shown
<1>1. UNCHANGED <<rev, gone, page, shown, actions>>
  BY DEF PollFails
<1>2. PICK c \in {Settled(conn, p)} : Sound(c) /\ Quiet(c) /\ c.stopped = conn.stopped
  BY SettledSound, SettledStopped, ConnType DEF Inv
<1>3. conn' = c \/ conn' = [c EXCEPT !.live = FALSE]
  BY <1>2 DEF PollFails
<1>4. Sound(conn') /\ Quiet(conn') /\ conn'.stopped = conn.stopped
  BY <1>2, <1>3 DEF Sound, Quiet, Connections
<1>. QED
  BY <1>1, <1>4, ConnectionStep

LEMMA PollMissesStep ==
  ASSUME Inv, NEW p \in Polls, PollMisses(p)
  PROVE  Inv' /\ shown' >= shown
<1>1. UNCHANGED <<rev, gone, shown, actions>>
  BY DEF PollMisses
<1>2. CASE conn.pending = p
  <2>1. PICK c \in {Pause(conn)} : Sound(c) /\ Quiet(c)
    BY PauseSound DEF Inv
  <2>2. c.open = {} /\ c.pending = None
    BY <2>1 DEF Pause, Disconnect, Inv, Sound, Connections
  <2>3. conn' = [c EXCEPT !.stopped = TRUE, !.polls[p] = Idle] /\ page' = "missing"
    BY <1>2, <2>1 DEF PollMisses, Stop
  <2>4. Sound(conn') /\ Quiet(conn')
    BY <2>1, <2>2, <2>3 DEF Sound, Quiet, Connections
  <2>5. TypeOK'
    BY <1>1, <2>3, <2>4 DEF Inv, TypeOK, Sound
  <2>. QED
    BY <1>1, <2>3, <2>4, <2>5, ConnType DEF Inv, NotStarted
<1>3. CASE conn.pending # p
  <2>1. conn' = Settled(conn, p) /\ page' = page
    BY <1>3 DEF PollMisses
  <2>2. Sound(conn') /\ Quiet(conn') /\ conn'.stopped = conn.stopped
    BY <2>1, SettledSound, SettledStopped, ConnType DEF Inv
  <2>. QED
    BY <1>1, <2>1, <2>2, ConnectionStep
<1>. QED
  BY <1>2, <1>3

LEMMA ButtonStep ==
  ASSUME Inv, NEW b \in Buttons,
         Press(b) \/ ServerActs(b) \/ ActionAnswered(b) \/ ActionFails(b)
  PROVE  Inv' /\ shown' >= shown
<1>1. /\ Sound(conn) /\ Quiet(conn) /\ rev \in Revisions
      /\ actions \in [Buttons -> {Idle, Sent} \cup Revisions]
  BY DEF Inv, TypeOK
<1>2. CASE Press(b)
  <2>1. /\ UNCHANGED <<rev, gone, page, shown, conn>> /\ page # "loading"
        /\ actions' \in [Buttons -> {Idle, Sent} \cup Revisions]
    BY <1>1, <1>2 DEF Press
  <2>2. TypeOK' /\ Sound(conn)' /\ Quiet(conn)' /\ NotStarted'
    BY <2>1 DEF Inv, TypeOK, Sound, Quiet, NotStarted
  <2>. QED
    BY <2>1, <2>2, ConnType DEF Inv
<1>3. CASE ServerActs(b)
  <2>1. rev' \in Revisions /\ rev' = rev + 1
    BY <1>1, <1>3, LiveConnectionAssumption DEF ServerActs, Revisions
  <2>2. page # "loading"
    BY <1>3 DEF ServerActs, Inv, NotStarted, Idle, Sent
  <2>3. /\ UNCHANGED <<gone, page, shown, conn>>
        /\ actions' \in [Buttons -> {Idle, Sent} \cup Revisions]
    BY <1>1, <1>3, <2>1 DEF ServerActs
  <2>4. TypeOK' /\ Sound(conn)' /\ Quiet(conn)' /\ NotStarted'
    BY <2>1, <2>2, <2>3 DEF Inv, TypeOK, Sound, Quiet, NotStarted
  <2>. QED
    BY <2>3, <2>4, ConnType DEF Inv
<1>4. CASE ActionAnswered(b)
  <2>1. actions[b] \in Revisions
    BY <1>1, <1>4 DEF ActionAnswered, Idle, Sent
  <2>2. shown' \in {-1} \cup Revisions /\ shown' >= shown
    BY <1>4, <2>1, ApplyForward DEF ActionAnswered, Inv
  <2>3. page # "loading"
    BY <1>4 DEF ActionAnswered, Inv, NotStarted, Idle
  <2>4. /\ UNCHANGED <<rev, gone, page, conn>>
        /\ actions' \in [Buttons -> {Idle, Sent} \cup Revisions]
    BY <1>1, <1>4 DEF ActionAnswered
  <2>5. TypeOK' /\ Sound(conn)' /\ Quiet(conn)' /\ NotStarted'
    BY <2>2, <2>3, <2>4 DEF Inv, TypeOK, Sound, Quiet, NotStarted
  <2>. QED
    BY <2>2, <2>5 DEF Inv
<1>5. CASE ActionFails(b)
  <2>1. Sound(conn') /\ Quiet(conn')
    BY <1>1, <1>5, RefreshSound DEF ActionFails
  <2>2. page # "loading"
    BY <1>5 DEF ActionFails, Inv, NotStarted
  <2>3. /\ UNCHANGED <<rev, gone, page, shown>>
        /\ actions' \in [Buttons -> {Idle, Sent} \cup Revisions]
    BY <1>1, <1>5 DEF ActionFails
  <2>4. TypeOK' /\ NotStarted'
    BY <2>1, <2>2, <2>3 DEF Inv, TypeOK, Sound, NotStarted
  <2>. QED
    BY <2>1, <2>3, <2>4, ConnType DEF Inv
<1>. QED
  BY <1>2, <1>3, <1>4, <1>5

LEMMA VoteOrJoinStep ==
  ASSUME Inv, VoteOrJoinEnds
  PROVE  Inv' /\ shown' >= shown
<1>1. UNCHANGED <<rev, gone, page, shown, actions>>
  BY DEF VoteOrJoinEnds
<1>2. /\ Sound(conn') /\ Quiet(conn') /\ conn'.stopped = conn.stopped
  BY RefreshSound DEF VoteOrJoinEnds, Inv, TypeOK
<1>. QED
  BY <1>1, <1>2, ConnectionStep

LEMMA StutterStep ==
  ASSUME Inv, UNCHANGED vars
  PROVE  Inv' /\ shown' >= shown
<1>1. TypeOK' /\ Sound(conn)' /\ Quiet(conn)' /\ NotStarted' /\ shown' = shown
  BY DEF vars, Inv, TypeOK, Sound, Quiet, NotStarted
<1>. QED
  BY <1>1, ConnType DEF Inv

LEMMA Step ==
  ASSUME Inv, [Next]_vars
  PROVE  Inv' /\ shown' >= shown
<1>1. ASSUME NEW r \in Revisions, Load(r) \/ StreamState(r)
      PROVE  Inv' /\ shown' >= shown
  BY <1>1, LoadStep, StreamStep
<1>2. CASE LoadFails \/ Change \/ Expire
  BY <1>2, LoadFailsStep, RoomStep
<1>3. CASE Tick \/ PollTimePasses \/ RetryTimePasses \/ Silence
  BY <1>3, TimerStep
<1>4. CASE Hide \/ Show \/ Online
  BY <1>4, WindowStep
<1>5. CASE Ping \/ StreamBreaks
  BY <1>5, StreamStep, RevisionsType
<1>6. ASSUME NEW p \in Polls, PollSettles(p)
      PROVE  Inv' /\ shown' >= shown
  BY <1>6, PollStep, PollFailsStep, PollMissesStep DEF PollSettles
<1>7. ASSUME NEW b \in Buttons,
             Press(b) \/ ServerActs(b) \/ ActionAnswered(b) \/ ActionFails(b)
      PROVE  Inv' /\ shown' >= shown
  BY <1>7, ButtonStep
<1>8. CASE VoteOrJoinEnds \/ UNCHANGED vars
  BY <1>8, VoteOrJoinStep, StutterStep
<1>. QED
  BY <1>1, <1>2, <1>3, <1>4, <1>5, <1>6, <1>7, <1>8 DEF Next

\* The connection, its requests and the page fit together in every state: the
\* only open stream is the current one and a connection that must not run
\* holds nothing.  The theorems below read their properties off this one.
THEOREM LiveInv == Spec => []Inv
<1>1. Inv /\ [Next]_vars => Inv'
  BY Step
<1>. QED
  BY <1>1, InitInv, PTL DEF Spec

\* The connection's fields keep their types through every nest of callbacks.
THEOREM LiveTypeCorrect == Spec => []TypeOK
<1>1. Inv => TypeOK
  BY DEF Inv
<1>. QED
  BY <1>1, LiveInv, PTL

\* A page never holds a stream that it does not listen to.
THEOREM StreamsAreOwned == Spec => []OneStream
<1>1. Inv => OneStream
  BY DEF Inv, Sound, OneStream
<1>. QED
  BY <1>1, LiveInv, PTL

\* A page that is hidden, or whose room is missing, leaves the server alone.
THEOREM HiddenPagesAreQuiet == Spec => []QuietPages
<1>1. Inv => QuietPages
  BY DEF Inv, Quiet, QuietPages
<1>. QED
  BY <1>1, LiveInv, PTL

\* The dot is lit by snapshots only.
THEOREM LiveIsEarned == Spec => []LiveMeansDelivered
<1>1. Inv => LiveMeansDelivered
  BY DEF Inv, Sound, LiveMeansDelivered
<1>. QED
  BY <1>1, LiveInv, PTL

-----------------------------------------------------------------------------
(* What ends the wait for a poll.                                          *)

\* A poll that is sent is waited for, and it asks for the room as it is now.
Asked(c) ==
  c.pending # None /\ c.polls[c.pending] = IF gone THEN TooLate ELSE rev

LEMMA RefreshAsks ==
  ASSUME NEW c \in Connections, NEW replace \in BOOLEAN
  PROVE  /\ Refresh(c, replace) = c \/ Asked(Refresh(c, replace))
         /\ ~c.stopped /\ ~c.hidden /\ c.pending = None => Asked(Refresh(c, replace))
<1>1. Asked(StartPoll(c))
  <2>1. PICK p \in Polls : p = NextPoll(c)
    BY NextPollType
  <2>2. PICK d \in {StartPoll(c)} :
          d = [c EXCEPT !.pending = p, !.polls[p] = IF gone THEN TooLate ELSE rev]
    BY <2>1 DEF StartPoll
  <2>3. d.pending = p /\ d.polls[p] = IF gone THEN TooLate ELSE rev
    BY <2>2 DEF Connections
  <2>4. p # None
    BY LiveConnectionAssumption
  <2>. QED
    BY <2>2, <2>3, <2>4 DEF Asked
<1>. QED
  BY <1>1 DEF Refresh

\* A tick sends a poll only if none is waited for,
LEMMA TickAsks ==
  ASSUME NEW c, Sound(c), ~c.stopped, ~c.hidden
  PROVE  /\ c.pending # None => TickOf(c).pending = c.pending
         /\ c.pending = None /\ c.pollDue => Asked(TickOf(c))
<1>1. PICK c1 \in {CheckStream(c)} :
        /\ Sound(c1) /\ c1.pending = c.pending /\ ~c1.stopped /\ ~c1.hidden
        /\ c.pollDue => c1.pollDue
  <2>1. CheckStream(c) = c \/ CheckStream(c) = Degrade(c)
    BY DEF CheckStream
  <2>2. Degrade(c).pending = c.pending /\ Degrade(c).pollDue
    BY DEF Degrade, Disconnect, Sound, Connections
  <2>. QED
    BY <2>1, <2>2, DegradeSound
<1>2. PICK c2 \in {Reconnect(c1)} :
        /\ Sound(c2) /\ c2.pending = c.pending /\ ~c2.stopped /\ ~c2.hidden
        /\ c.pollDue => c2.pollDue
  <2>1. Connect(c1).pending = c1.pending /\ Connect(c1).pollDue = c1.pollDue
    BY <1>1 DEF Connect, Sound, Connections
  <2>2. Reconnect(c1) = c1 \/ (Reconnect(c1) = Connect(c1) /\ c1.es = None)
    BY DEF Reconnect
  <2>. QED
    BY <1>1, <2>1, <2>2, ConnectSound
<1>3. TickOf(c) = Poll(c2)
  BY <1>1, <1>2 DEF TickOf
<1>4. c.pending # None => Poll(c2) = c2
  BY <1>2 DEF Poll, Refresh
<1>5. c.pending = None /\ c.pollDue => Poll(c2) = Refresh(c2, FALSE)
  BY <1>2 DEF Poll
<1>. QED
  BY <1>2, <1>3, <1>4, <1>5, RefreshAsks DEF Sound

\* and whoever resumes sends one.
LEMMA ResumeAsks ==
  ASSUME NEW c, Sound(c), ~c.stopped, ~c.hidden
  PROVE  Asked(Resume(c))
<1>1. PICK d \in {Pause(c)} : /\ Sound(d) /\ d.pending = None
                              /\ ~d.hidden /\ ~d.stopped
  <2>1. Pause(c).pending = None
    BY DEF Pause, Disconnect, Sound, Connections
  <2>. QED
    BY <2>1, PauseSound
<1>2. PICK e \in {[d EXCEPT !.connectDue = TRUE, !.pollDue = TRUE]} :
        /\ Sound(e) /\ e.pending = None /\ e.pollDue /\ ~e.hidden /\ ~e.stopped
  BY <1>1 DEF Sound, Connections
<1>3. Resume(c) = TickOf(e)
  BY <1>1, <1>2 DEF Resume
<1>. QED
  BY <1>2, <1>3, TickAsks

\* Only its own end takes a settled poll's wait away.
LEMMA SettledWaits ==
  ASSUME NEW c \in Connections, NEW p \in Polls
  PROVE  /\ Settled(c, p).pending = IF c.pending = p THEN None ELSE c.pending
         /\ Settled(c, p).polls[p] = Idle
  BY DEF Settled, Connections

LEMMA StepWaits ==
  ASSUME Inv, [Next]_vars, NEW p \in Polls
  PROVE  KeepsWaiting(p)
<1>. SUFFICES ASSUME conn.pending = p, conn'.pending # p
              PROVE  \/ conn'.polls[p] = Idle
                     \/ conn'.hidden \/ conn'.stopped
                     \/ Asked(conn')
  BY DEF KeepsWaiting, Asked
<1>1. conn \in Connections /\ Sound(conn) /\ Quiet(conn) /\ p # None
  BY LiveConnectionAssumption DEF Inv, TypeOK
<1>2. ~conn.stopped /\ ~conn.hidden /\ page # "loading"
  BY <1>1 DEF Quiet, Inv, NotStarted
<1>3. ASSUME NEW r \in Revisions, Load(r) \/ StreamState(r)
      PROVE  FALSE
  BY <1>1, <1>2, <1>3 DEF Load, StreamState, Heard, Connections
<1>4. CASE Tick
  BY <1>1, <1>2, <1>4, TickAsks DEF Tick
<1>5. CASE Hide
  <2>1. PICK c \in {[conn EXCEPT !.hidden = TRUE]} : Sound(c) /\ c.hidden
    BY <1>1 DEF Sound, Connections
  <2>2. conn' = Pause(c)
    BY <1>2, <1>5, <2>1 DEF Hide
  <2>. QED
    BY <2>1, <2>2, PauseSound
<1>6. CASE Show
  BY <1>2, <1>6 DEF Show
<1>7. CASE Online
  BY <1>1, <1>2, <1>7, ResumeAsks DEF Online
<1>8. CASE PollTimePasses \/ RetryTimePasses \/ Silence \/ Ping
  BY <1>1, <1>8 DEF PollTimePasses, RetryTimePasses, Silence, Ping, Heard, Connections
<1>9. CASE StreamBreaks
  BY <1>1, <1>9 DEF StreamBreaks, Degrade, Disconnect, Connections
<1>10. ASSUME NEW q \in Polls, NEW r \in Revisions, PollAnswers(q, r)
       PROVE  conn'.polls[p] = Idle
  BY <1>1, <1>10, SettledWaits DEF PollAnswers
<1>11. ASSUME NEW q \in Polls, PollFails(q)
       PROVE  conn'.polls[p] = Idle
  <2>1. PICK c \in {Settled(conn, q)} :
          /\ c \in Connections /\ c.polls[q] = Idle
          /\ c.pending = IF conn.pending = q THEN None ELSE conn.pending
    BY <1>1, SettledWaits, SettledSound DEF Sound
  <2>2. conn' = c \/ conn' = [c EXCEPT !.live = FALSE]
    BY <1>11, <2>1 DEF PollFails
  <2>3. conn'.polls = c.polls /\ conn'.pending = c.pending
    BY <2>1, <2>2 DEF Connections
  <2>. QED
    BY <2>1, <2>3
<1>12. ASSUME NEW q \in Polls, PollMisses(q)
       PROVE  conn'.stopped
  <2>1. CASE conn.pending = q
    <3>1. PICK c \in {Pause(conn)} : c \in Connections
      BY <1>1, PauseSound DEF Sound
    <3>2. conn' = [c EXCEPT !.stopped = TRUE, !.polls[q] = Idle]
      BY <1>12, <2>1, <3>1 DEF PollMisses, Stop
    <3>. QED
      BY <3>1, <3>2 DEF Connections
  <2>2. CASE conn.pending # q
    BY <1>1, <1>12, <2>2, SettledWaits DEF PollMisses
  <2>. QED
    BY <2>1, <2>2
<1>13. ASSUME NEW b \in Buttons, ActionFails(b)
       PROVE  Asked(conn')
  BY <1>1, <1>13, RefreshAsks DEF ActionFails
<1>14. CASE VoteOrJoinEnds
  BY <1>1, <1>14, RefreshAsks DEF VoteOrJoinEnds
<1>15. CASE UNCHANGED conn
  BY <1>15
<1>16. ASSUME \/ LoadFails \/ Change \/ Expire \/ UNCHANGED vars
              \/ \E b \in Buttons : Press(b) \/ ServerActs(b) \/ ActionAnswered(b)
       PROVE  UNCHANGED conn
  BY <1>16 DEF LoadFails, Change, Expire, vars, Press, ServerActs, ActionAnswered
<1>. QED
  BY <1>3, <1>4, <1>5, <1>6, <1>7, <1>8, <1>9, <1>10, <1>11, <1>12, <1>13,
     <1>14, <1>15, <1>16 DEF Next, PollSettles

\* No order of events, polls and answers takes the page back, and no poll that
\* was replaced or aborted ends the wait for another.
THEOREM LateAnswersDoNoHarm == Spec => LateAnswersAreHarmless
<1>1. Inv /\ [Next]_vars => [shown' >= shown /\ \A p \in Polls : KeepsWaiting(p)]_vars
  BY Step, StepWaits
<1>. QED
  BY <1>1, LiveInv, PTL DEF Spec, LateAnswersAreHarmless
=============================================================================
