---------------------------- MODULE WatchedRoom ----------------------------
(***************************************************************************)
(* What a room promises to the clients of its event streams                *)
(* (src/internal/api/stream.go, handleEvents), as if nothing took time and *)
(* no channel were limited: a stream starts with the present state, what   *)
(* the room says is on its way to every stream at once, and a stream takes *)
(* it in order.  The one thing a slow client has to put up with is that    *)
(* what is on its way is coalesced: a snapshot may be missing where a      *)
(* later one is to come, and a reaction may be missing anyway.             *)
(*                                                                         *)
(* EventStream implements this, with a handler per client, a channel of    *)
(* limited length, deliveries one by one and the draining of a channel     *)
(* that races with its receiver.                                           *)
(***************************************************************************)
EXTENDS Integers

CONSTANT Clients   \* the clients that may watch

VARIABLES
  seq, phase, closed, eventSeq, outbox,   \* the room, as in RoomFeed
  seen,      \* the last snapshot each client was sent; none unless it watches
  onItsWay   \* the events on their way to each client

Feed == INSTANCE RoomFeed

vars == <<seq, phase, closed, eventSeq, outbox, seen, onItsWay>>
feed == <<seq, phase, closed, eventSeq, outbox>>

Init ==
  /\ Feed!Init
  /\ seen = [c \in Clients |-> {}]
  /\ onItsWay = [c \in Clients |-> {}]

Watching(c) == seen[c] # {}

\* The room does something and says so to all who watch.
Operate ==
  /\ Feed!Next
  /\ onItsWay' = [c \in Clients |->
                    onItsWay[c] \cup IF Watching(c) THEN outbox' ELSE {}]
  /\ UNCHANGED seen

\* A stream starts with the present state and nothing on its way.
Start(c) ==
  /\ ~Watching(c)
  /\ seen' = [seen EXCEPT ![c] =
                {[revision |-> eventSeq, seq |-> seq, phase |-> phase]}]
  /\ UNCHANGED <<feed, onItsWay>>

\* It is sent the next event.
Take(c) ==
  /\ Watching(c)
  /\ \E e \in onItsWay[c] :
       /\ \A f \in onItsWay[c] : e.id <= f.id
       /\ onItsWay' = [onItsWay EXCEPT ![c] = @ \ {e}]
       /\ seen' = [seen EXCEPT ![c] = IF e.state = {} THEN @ ELSE e.state]
  /\ UNCHANGED feed

\* An event it can do without is lost.
Coalesce(c) ==
  /\ \E e \in onItsWay[c] :
       /\ \/ e.state = {}
          \/ \E f \in onItsWay[c] : f.state # {} /\ e.id < f.id
       /\ onItsWay' = [onItsWay EXCEPT ![c] = @ \ {e}]
  /\ UNCHANGED <<feed, seen>>

End(c) ==
  /\ Watching(c)
  /\ seen' = [seen EXCEPT ![c] = {}]
  /\ onItsWay' = [onItsWay EXCEPT ![c] = {}]
  /\ UNCHANGED feed

Next ==
  \/ Operate
  \/ \E c \in Clients : Start(c) \/ Take(c) \/ Coalesce(c) \/ End(c)

Spec == Init /\ [][Next]_vars
=============================================================================
