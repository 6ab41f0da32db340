--------------------------- MODULE DashboardStream ---------------------------
(***************************************************************************)
(* The aggregator's frames (FrameSource) on their way to one browser: the  *)
(* pub/sub channel, the gateway that backfills a subscriber from the ring  *)
(* buffer and then relays to it, and the dashboard hook that applies       *)
(* frames by number and fetches a snapshot when it sees a gap.             *)
(*                                                                         *)
(* What the client shows is the number of the frame its data goes back to. *)
(***************************************************************************)
EXTENDS FrameSource, FiniteSets, SequencesExt

CONSTANTS
    MaxSeq,   \* bound on the counter
    MaxLag,   \* bound on the frames the gateway is behind
    MaxDrops  \* bound on lost sockets and sleeping tabs

ASSUME BoundsAssumption == MaxSeq \in Nat /\ MaxLag \in Nat /\ MaxDrops \in Nat

VARIABLES
    channel,   \* frames published and not yet relayed by the gateway
    sock,      \* the gateway's wrapper of the client's socket
    wire,      \* what the gateway sent and the client has not yet handled
    client,    \* the hook's state
    drops      \* sockets lost so far

streamVars == <<channel, sock, wire, client, drops>>
vars == <<sourceVars, streamVars>>

SnapshotRequired == [type |-> "snapshot_required"]

Closed == [state |-> "closed", lastSeq |-> 0, read |-> <<>>, delivered |-> 0]

Init ==
    /\ SourceInit
    /\ channel = <<>> /\ wire = <<>> /\ drops = 0
    /\ sock = Closed
    /\ client = [joined |-> FALSE, seq |-> 0, no |-> 0]

(* PUBLISH belongs to the script that stores the frame.                    *)
Source ==
    /\ SourceNext
    /\ channel' = IF count' = count THEN channel
                                    ELSE Append(channel, Last(ring'))
    /\ seq' <= MaxSeq /\ Len(channel') <= MaxLag
    /\ UNCHANGED <<sock, wire, client, drops>>

-----------------------------------------------------------------------------
(* The client.                                                             *)

Leave == /\ client' = [client EXCEPT !.joined = FALSE]
         /\ sock' = Closed
         /\ wire' = <<>>

(* The snapshot's data and number are the aggregates' current ones; the    *)
(* socket subscribes with that number.                                     *)
FetchSnapshot ==
    /\ ~client.joined
    /\ client' = [joined |-> TRUE, seq |-> seq, no |-> count]
    /\ sock' = [Closed EXCEPT !.state = "subscribing", !.lastSeq = seq]
    /\ wire' = <<>>
    /\ UNCHANGED <<sourceVars, channel, drops>>

(* The socket closes, or the tab wakes from a long sleep.                  *)
Disconnect ==
    /\ client.joined /\ drops < MaxDrops
    /\ drops' = drops + 1
    /\ Leave
    /\ UNCHANGED <<sourceVars, channel>>

(* applyFrame: snapshots replace everything; a delta already seen is       *)
(* ignored, one that does not follow on is a gap.                          *)
Seen(f) == f.type = "delta" /\ f.seq <= client.seq

(* Wrong: only an overlap counts as a gap.                                 *)
Gap_Behind(f) == f.type = "delta" /\ ~Seen(f) /\ f.prev < client.seq

Gap(f) == f.type = "delta" /\ ~Seen(f) /\ f.prev # client.seq

Applies(f) == f.type \in {"delta", "snapshot"} /\ ~Seen(f) /\ ~Gap(f)

Handle(f) ==
    \/ /\ Applies(f)
       /\ client' = [client EXCEPT !.seq = f.seq, !.no = f.no]
       /\ wire' = Tail(wire)
       /\ UNCHANGED sock
    \/ /\ Seen(f)
       /\ wire' = Tail(wire)
       /\ UNCHANGED <<sock, client>>
    \/ /\ f.type = "snapshot_required" \/ Gap(f)
       /\ Leave

HandleFrame ==
    /\ wire # <<>>
    /\ Handle(Head(wire))
    /\ UNCHANGED <<sourceVars, channel, drops>>

-----------------------------------------------------------------------------
(* The gateway.                                                            *)

(* LRANGE, awaited: the socket is not subscribed yet.                      *)
ReadRing ==
    /\ sock.state = "subscribing"
    /\ sock' = [sock EXCEPT !.state = "backfilling", !.read = ring]
    /\ UNCHANGED <<sourceVars, channel, wire, client, drops>>

Missed == {f \in ToSet(sock.read) : f.seq > sock.lastSeq}

Oldest == CHOOSE n \in {f.seq : f \in ToSet(sock.read)} :
              \A f \in ToSet(sock.read) : n <= f.seq

OutOfWindow == Missed # {} /\ sock.lastSeq < Oldest - 1

(* Wrong: an up-to-date subscriber is refused like one that is too late.   *)
Refuse_UpToDate ==
    /\ Missed = {} \/ OutOfWindow
    /\ wire' = Append(wire, SnapshotRequired)
    /\ sock' = [sock EXCEPT !.state = "refused", !.read = <<>>]

Refuse ==
    /\ sock.read = <<>> \/ OutOfWindow
    /\ wire' = Append(wire, SnapshotRequired)
    /\ sock' = [sock EXCEPT !.state = "refused", !.read = <<>>]

Before(f, g) == f.seq < g.seq \/ (f.seq = g.seq /\ f.no < g.no)

CaughtUp ==
    /\ sock.read # <<>> /\ Missed = {}
    /\ sock' = [sock EXCEPT !.state = "live", !.read = <<>>]
    /\ UNCHANGED wire

(* In the order of their numbers; frames of one number stay in the order   *)
(* of the ring.                                                            *)
SendMissed ==
    /\ Missed # {} /\ ~OutOfWindow
    /\ \E frames \in [1 .. Cardinality(Missed) -> Missed] :
          /\ \A i, j \in DOMAIN frames : i < j => Before(frames[i], frames[j])
          /\ wire' = wire \o frames
          /\ sock' = [sock EXCEPT !.state = "live", !.read = <<>>,
                                  !.delivered = Last(frames).seq]

Backfill ==
    /\ sock.state = "backfilling"
    /\ Refuse \/ CaughtUp \/ SendMissed
    /\ UNCHANGED <<sourceVars, channel, client, drops>>

(* A frame reaches the gateway: sockets that are not subscribed are passed *)
(* over, and what a socket was already sent is not repeated.               *)
Relay ==
    /\ channel # <<>>
    /\ channel' = Tail(channel)
    /\ LET f == Head(channel)
       IN IF sock.state = "live" /\ f.seq > sock.delivered
          THEN /\ wire' = Append(wire, f)
               /\ sock' = [sock EXCEPT !.delivered = f.seq]
          ELSE UNCHANGED <<wire, sock>>
    /\ UNCHANGED <<sourceVars, client, drops>>

-----------------------------------------------------------------------------
Gateway == ReadRing \/ Backfill \/ Relay

(* Frames on the wire concern nobody but the client: they are handled      *)
(* before anything else goes on.                                           *)
Next ==
    \/ HandleFrame
    \/ wire = <<>> /\ (Source \/ FetchSnapshot \/ Disconnect \/ Gateway)

Spec == Init /\ [][Next]_vars

(* The client and the gateway answer; the source need not do anything.     *)
Fairness ==
    /\ WF_vars(HandleFrame)
    /\ WF_vars(wire = <<>> /\ FetchSnapshot)
    /\ WF_vars(wire = <<>> /\ Gateway)

FairSpec == Spec /\ Fairness

-----------------------------------------------------------------------------
(* Source, gateway and client keep the types of their state; the ring      *)
(* never holds more than it retains (publish-frame.lua, LTRIM).            *)
TypeOK ==
    /\ seq \in Nat /\ count \in Nat
    /\ reading \in [Readers -> Position \cup {None}]
    /\ ring \in Seq(Frame) /\ Len(ring) <= Retention
    /\ channel \in Seq(Frame)
    /\ wire \in Seq(Frame \cup {SnapshotRequired})
    /\ sock \in [state : {"closed", "subscribing", "backfilling", "live", "refused"},
                 lastSeq : Nat, read : Seq(Frame), delivered : Nat]
    /\ client \in [joined : BOOLEAN, seq : Nat, no : Nat]
    /\ drops \in 0 .. MaxDrops

(* A client that misses a frame, in the hole between the read of the ring  *)
(* and the subscription or on a lost socket, holds a sequence number that  *)
(* the counter has left behind: no later frame can seem to follow on.      *)
MissedIsNoticeable ==
    client.no < count => client.seq < seq

(* A delta is accepted only by a client that has every frame published     *)
(* before the counter was read for the delta.  A frame that another tick   *)
(* publishes between that reading and the delta is not covered: it may be  *)
(* part of what the delta was computed from and bear the delta's own       *)
(* number, and a client that missed it sees no gap                         *)
(* (delta-publisher.service.ts:124-126, 181-193).                          *)
NoSkippedDelta ==
    wire # <<>> =>
        LET f == Head(wire)
        IN f.type = "delta" /\ Applies(f) => client.no >= f.base

(* Refusals, gaps and lost sockets end once the source rests: when neither *)
(* events nor frames come any more, and the ring buffer does not stay      *)
(* empty, the client comes to rest on a live subscription.  While events   *)
(* go on it need not: each moves the counter (apply-event.lua:61), so that *)
(* the next delta is a gap and the client fetches a snapshot again.        *)
ClientSettles ==
    /\ <>[][FALSE]_seq
    /\ <>[](ring # <<>>)
    => <>[](client.joined /\ sock.state = "live")
=============================================================================
