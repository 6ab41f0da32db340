------------------------ MODULE DashboardStreamProofs ------------------------
(***************************************************************************)
(* What DashboardStream promises, for any ring buffer, any bounds, any     *)
(* number of frames and of ticks at once.  Frames and the client are alike *)
(* in what they say: a number of frames seen, and a sequence number that   *)
(* goes with it.  The argument compares any of the two: who lacks a frame  *)
(* holds a number too low for the frames of the ticks that read the        *)
(* counter after the one it lacks.                                         *)
(***************************************************************************)
EXTENDS DashboardStream, FiniteSetTheorems, SequenceTheorems, TLAPS

-----------------------------------------------------------------------------
(* The inductive invariant.                                                *)

Sockets ==
  [state : {"closed", "subscribing", "backfilling", "live", "refused"},
   lastSeq : Nat, read : Seq(Frame), delivered : Nat]

(* The frames that the client may still receive.                           *)
Flying ==
  ToSet(ring) \cup ToSet(channel) \cup ToSet(sock.read)
    \cup {f \in ToSet(wire) : f.type # "snapshot_required"}

(* A position, of a frame or of the client, that lacks published frames is *)
(* behind the counter, and behind the counter as it was read by a tick     *)
(* that a frame it lacks came before.                                      *)
Placed(p) ==
  /\ p.no \in Nat /\ p.seq \in Nat
  /\ p.no <= count /\ p.seq <= seq
  /\ p.no < count => p.seq < seq
  /\ \A r \in Readers :
        reading[r] # None /\ p.no < reading[r].base => p.seq < reading[r].prev

(* ... and does not seem to be what a later frame follows on from.         *)
NotBefore(p, g) == p.no < g.base => p.seq < g.prev

ReadingIsOld ==
  \A r \in Readers :
     reading[r] # None => reading[r].prev <= seq /\ reading[r].base <= count

FramesAreOld == \A g \in Flying : g.base <= count

AllPlaced == Placed(client) /\ \A f \in Flying : Placed(f)

NoneSeemsNext ==
  \A g \in Flying : NotBefore(client, g) /\ \A f \in Flying : NotBefore(f, g)

IInv == TypeOK /\ ReadingIsOld /\ FramesAreOld /\ AllPlaced /\ NoneSeemsNext

-----------------------------------------------------------------------------
(* The elements of a sequence, as the steps move them.                     *)

LEMMA ElementsEmpty == ToSet(<<>>) = {}
BY DEF ToSet

LEMMA ElementsOfSeq ==
  ASSUME NEW S, NEW s \in Seq(S)
  PROVE  /\ ToSet(s) \subseteq S
         /\ \A i \in 1 .. Len(s) : s[i] \in ToSet(s)
BY DEF ToSet

LEMMA ElementsAppend ==
  ASSUME NEW S, NEW s \in Seq(S), NEW x \in S
  PROVE  ToSet(Append(s, x)) \subseteq ToSet(s) \cup {x}
BY DEF ToSet

LEMMA ElementsTail ==
  ASSUME NEW S, NEW s \in Seq(S), s # <<>>
  PROVE  /\ Head(s) \in ToSet(s)
         /\ Tail(s) \in Seq(S)
         /\ ToSet(Tail(s)) \subseteq ToSet(s)
BY DEF ToSet

LEMMA ElementsConcat ==
  ASSUME NEW S, NEW s \in Seq(S), NEW t \in Seq(S)
  PROVE  ToSet(s \o t) \subseteq ToSet(s) \cup ToSet(t)
BY DEF ToSet

LEMMA ClosedSocket ==
  ASSUME NEW n \in Nat
  PROVE  /\ Closed \in Sockets
         /\ [Closed EXCEPT !.state = "subscribing", !.lastSeq = n] \in Sockets
<1>1. <<>> \in Seq(Frame)
  OBVIOUS
<1>2. /\ Closed.state = "closed" /\ Closed.lastSeq = 0 /\ Closed.read = <<>>
      /\ Closed.delivered = 0
  BY DEF Closed
<1>3. DOMAIN Closed = {"state", "lastSeq", "read", "delivered"}
  BY DEF Closed
<1>4. Closed \in Sockets
  BY <1>1, Zenon DEF Closed, Sockets
<1> QED
  BY <1>4 DEF Sockets

LEMMA ElementsFinite ==
  ASSUME NEW S, NEW s \in Seq(S)
  PROVE  IsFiniteSet(ToSet(s))
<1>1. DOMAIN s = 1 .. Len(s) /\ Len(s) \in Nat
  OBVIOUS
<1>2. IsFiniteSet(1 .. Len(s))
  BY <1>1, FS_Interval
<1>3. s \in Surjection(1 .. Len(s), ToSet(s))
  BY <1>1 DEF Surjection, ToSet
<1> QED
  BY <1>2, <1>3, FS_Surjection

LEMMA FlyingAreFrames ==
  ASSUME TypeOK
  PROVE  /\ Flying \subseteq Frame
         /\ wire # <<>> /\ Head(wire).type # "snapshot_required" =>
              Head(wire) \in Flying
<1>1. ToSet(ring) \subseteq Frame /\ ToSet(channel) \subseteq Frame
  BY ElementsOfSeq DEF TypeOK
<1>2. ToSet(sock.read) \subseteq Frame
  BY ElementsOfSeq DEF TypeOK
<1>3. ToSet(wire) \subseteq Frame \cup {SnapshotRequired}
  BY ElementsOfSeq DEF TypeOK
<1>4. wire # <<>> => Head(wire) \in ToSet(wire)
  BY ElementsTail DEF TypeOK
<1> QED
  BY <1>1, <1>2, <1>3, <1>4 DEF Flying, SnapshotRequired

(* What only moves frames, and sets the client to where one of them is or  *)
(* to where the source is, keeps everything comparable.                    *)
LEMMA MovingFrames ==
  ASSUME TypeOK, ReadingIsOld, FramesAreOld, AllPlaced, NoneSeemsNext,
         UNCHANGED sourceVars, Flying' \subseteq Flying,
         \/ client'.no = count /\ client'.seq = seq
         \/ \E p \in Flying \cup {client} :
               client'.no = p.no /\ client'.seq = p.seq
  PROVE  ReadingIsOld' /\ FramesAreOld' /\ AllPlaced' /\ NoneSeemsNext'
<1>1. Flying \subseteq Frame
  BY FlyingAreFrames
<1>2. ReadingIsOld' /\ FramesAreOld'
  BY DEF ReadingIsOld, FramesAreOld, sourceVars
<1>3. Placed(client')
  <2>1. CASE client'.no = count /\ client'.seq = seq
    <3>1. ASSUME NEW r \in Readers, reading[r] # None
          PROVE  reading[r].base \in Nat /\ reading[r].base <= count
      BY <3>1 DEF ReadingIsOld, TypeOK, Position
    <3>2. seq \in Nat /\ count \in Nat
      BY DEF TypeOK
    <3> QED
      BY <2>1, <3>1, <3>2 DEF Placed
  <2>2. CASE \E p \in Flying \cup {client} :
               client'.no = p.no /\ client'.seq = p.seq
    BY <2>2 DEF Placed, AllPlaced
  <2> QED
    BY <2>1, <2>2
<1>4. AllPlaced'
  BY <1>3 DEF AllPlaced, Placed, sourceVars
<1>5. \A g \in Flying : NotBefore(client', g)
  <2>1. CASE client'.no = count /\ client'.seq = seq
    BY <2>1, <1>1 DEF NotBefore, FramesAreOld, TypeOK, Frame
  <2>2. CASE \E p \in Flying \cup {client} :
               client'.no = p.no /\ client'.seq = p.seq
    BY <2>2 DEF NotBefore, NoneSeemsNext
  <2> QED
    BY <2>1, <2>2
<1>6. NoneSeemsNext'
  BY <1>5 DEF NoneSeemsNext, NotBefore
<1> QED
  BY <1>2, <1>4, <1>6

(* A new frame follows on from the counter as it was read, and comes after *)
(* every other.                                                            *)
LEMMA NewFrame ==
  ASSUME TypeOK, ReadingIsOld, FramesAreOld, AllPlaced, NoneSeemsNext,
         NEW r \in Readers, reading[r] # None,
         reading' = [reading EXCEPT ![r] = None],
         seq' = seq + 1, count' = count + 1, client' = client,
         NEW n, n.no = count + 1, n.seq = reading[r].prev + 1,
         n.prev = reading[r].prev, n.base = reading[r].base,
         Flying' \subseteq Flying \cup {n}
  PROVE  ReadingIsOld' /\ FramesAreOld' /\ AllPlaced' /\ NoneSeemsNext'
<1>. USE NoneAssumption
<1>1. Flying \subseteq Frame
  BY FlyingAreFrames
<1>2. /\ seq \in Nat /\ count \in Nat
      /\ \A q \in Readers : reading[q] # None =>
           /\ reading[q].prev \in Nat /\ reading[q].prev <= seq
           /\ reading[q].base \in Nat /\ reading[q].base <= count
  BY DEF TypeOK, ReadingIsOld, Position
<1>3. \A q \in Readers : reading'[q] # None => reading'[q] = reading[q]
  BY DEF TypeOK
<1>4. ASSUME NEW p, Placed(p)
      PROVE  Placed(p)' /\ NotBefore(p, n)
  BY <1>2, <1>3, <1>4 DEF Placed, NotBefore
<1>5. Placed(n)'
  BY <1>2, <1>3 DEF Placed
<1>6. \A g \in Flying \cup {n} : g.base \in Nat /\ g.base <= count
  BY <1>1, <1>2 DEF FramesAreOld, Frame
<1>7. \A g \in Flying \cup {n} : NotBefore(n, g)
  BY <1>2, <1>6 DEF NotBefore
<1>8. AllPlaced'
  BY <1>4, <1>5 DEF AllPlaced, Placed
<1>9. NoneSeemsNext'
  BY <1>4, <1>7 DEF AllPlaced, NoneSeemsNext, NotBefore
<1>10. ReadingIsOld'
  BY <1>2, <1>3 DEF ReadingIsOld
<1>11. FramesAreOld'
  BY <1>2, <1>6 DEF FramesAreOld
<1> QED
  BY <1>8, <1>9, <1>10, <1>11

-----------------------------------------------------------------------------
THEOREM InitInvariant == Init => IInv
<1> SUFFICES ASSUME Init PROVE IInv
  OBVIOUS
<1>. USE NoneAssumption, RetentionAssumption, BoundsAssumption DEF Init, SourceInit, Closed
<1>1. TypeOK
  <2>1. <<>> \in Seq(Frame) /\ <<>> \in Seq(Frame \cup {SnapshotRequired})
        /\ Len(<<>>) = 0
    OBVIOUS
  <2> QED
    BY <2>1 DEF TypeOK
<1>2. Flying = {}
  BY ElementsEmpty DEF Flying
<1> QED
  BY <1>1, <1>2 DEF IInv, ReadingIsOld, FramesAreOld, AllPlaced, Placed, NoneSeemsNext

(* What the script does to the ring, and to the channel.                   *)
LEMMA Trimming ==
  ASSUME TypeOK, NEW n \in Frame
  PROVE  LET kept == Trimmed(Append(ring, n))
         IN  /\ kept \in Seq(Frame) /\ Len(kept) <= Retention /\ kept # <<>>
             /\ ToSet(kept) \subseteq ToSet(ring) \cup {n}
             /\ Last(kept) = n
<1>. DEFINE all == Append(ring, n)
<1>. USE RetentionAssumption DEF TypeOK
<1>1. /\ all \in Seq(Frame) /\ all # <<>> /\ Len(all) = Len(ring) + 1
      /\ all[Len(all)] = n
  <2>1. ring \in Seq(Frame)
    OBVIOUS
  <2> QED
    BY <2>1, AppendProperties
<1>2. ToSet(all) \subseteq ToSet(ring) \cup {n}
  BY ElementsAppend
<1>3. CASE Len(all) > Retention
  <2>1. Trimmed(all) = Tail(all)
    BY <1>3 DEF Trimmed
  <2>2. ToSet(Tail(all)) \subseteq ToSet(all) /\ Tail(all) \in Seq(Frame)
    BY <1>1, ElementsTail
  <2>3. Len(Tail(all)) = Len(ring) /\ Len(ring) = Retention
    BY <1>1, <1>3
  <2>4. Tail(all)[Len(Tail(all))] = n
    BY <1>1, <2>3
  <2> QED
    BY <2>1, <2>2, <2>3, <2>4, <1>2 DEF Last
<1>4. CASE ~(Len(all) > Retention)
  BY <1>1, <1>2, <1>4 DEF Trimmed, Last
<1> QED
  BY <1>3, <1>4

LEMMA SourceStep ==
  ASSUME IInv, Source
  PROVE  IInv'
<1>. USE NoneAssumption, RetentionAssumption
<1>1. TypeOK /\ seq \in Nat /\ count \in Nat
  BY DEF IInv, TypeOK
<1>2. CASE count' = count
  <2>1. /\ channel' = channel /\ UNCHANGED <<sock, wire, client, drops>>
        /\ count' = count
    BY <1>2 DEF Source
  <2>2. Bump \/ Expire \/ \E r \in Readers : Read(r) \/ GiveUp(r)
    BY <1>1, <1>2 DEF Source, SourceNext, Publish
  <2>3. /\ seq' \in Nat /\ seq' >= seq /\ ring' \in {ring, <<>>}
        /\ reading' \in [Readers -> Position \cup {None}]
        /\ \A r \in Readers : reading'[r] # None =>
             \/ reading'[r] = reading[r]
             \/ reading'[r].prev = seq /\ reading'[r].base = count
    <3>1. CASE Bump \/ Expire
      BY <1>1, <3>1 DEF TypeOK, Bump, Expire
    <3>2. CASE \E r \in Readers : Read(r)
      BY <1>1, <3>2 DEF TypeOK, Read, Position
    <3>3. CASE \E r \in Readers : GiveUp(r)
      BY <1>1, <3>3 DEF TypeOK, GiveUp
    <3> QED
      BY <2>2, <3>1, <3>2, <3>3
  <2>4. TypeOK'
    <3>1. ring' \in Seq(Frame) /\ Len(ring') <= Retention
      <4>1. <<>> \in Seq(Frame) /\ Len(<<>>) = 0
        OBVIOUS
      <4>2. CASE ring' = ring
        BY <1>1, <4>2 DEF TypeOK
      <4>3. CASE ring' = <<>>
        <5>1. ring' \in Seq(Frame) /\ Len(ring') = 0
          BY <4>1, <4>3, Zenon
        <5> QED
          BY <5>1
      <4> QED
        BY <2>3, <4>2, <4>3
    <3> QED
      BY <1>1, <2>1, <2>3, <3>1 DEF TypeOK
  <2>5. Flying' \subseteq Flying
    BY <2>1, <2>3, ElementsEmpty DEF Flying
  <2>6. ASSUME NEW p, Placed(p)
        PROVE  Placed(p)'
    BY <1>1, <2>1, <2>3, <2>6 DEF Placed
  <2>7. AllPlaced'
    <3>1. Placed(client) /\ \A f \in Flying : Placed(f)
      BY DEF IInv, AllPlaced
    <3>2. Placed(client)'
      BY <2>1, <2>6, <3>1 DEF Placed
    <3>3. \A f \in Flying : Placed(f)'
      BY <2>6, <3>1 DEF Placed
    <3> QED
      BY <2>5, <3>2, <3>3 DEF AllPlaced, Placed
  <2>8. NoneSeemsNext'
    BY <2>1, <2>5 DEF IInv, NoneSeemsNext, NotBefore
  <2>9. ReadingIsOld' /\ FramesAreOld'
    <3>1. ReadingIsOld'
      <4> SUFFICES ASSUME NEW r \in Readers, reading'[r] # None
                   PROVE  reading'[r].prev <= seq' /\ reading'[r].base <= count
        BY <2>1 DEF ReadingIsOld
      <4>1. CASE reading'[r] = reading[r]
        <5>1. /\ reading[r].prev <= seq /\ reading[r].base <= count
              /\ reading[r].prev \in Nat
          BY <4>1 DEF IInv, ReadingIsOld, TypeOK, Position
        <5> QED
          BY <1>1, <2>3, <4>1, <5>1
      <4>2. CASE reading'[r].prev = seq /\ reading'[r].base = count
        BY <1>1, <2>3, <4>2
      <4> QED
        BY <2>3, <4>1, <4>2
    <3>2. FramesAreOld'
      BY <2>1, <2>5 DEF IInv, FramesAreOld
    <3> QED
      BY <3>1, <3>2
  <2> QED
    BY <2>4, <2>7, <2>8, <2>9 DEF IInv
<1>3. CASE count' # count
  <2>1. PICK r \in Readers, type \in {"delta", "snapshot"} : Publish(r, type)
    BY <1>3 DEF Source, SourceNext, Bump, Read, GiveUp, Expire
  <2>. DEFINE n == Numbered(r, type)
  <2>2. /\ n \in Frame
        /\ n.no = count + 1 /\ n.seq = reading[r].prev + 1
        /\ n.prev = reading[r].prev /\ n.base = reading[r].base
    <3>1. reading[r] \in Position
      BY <1>1, <2>1 DEF TypeOK, Publish
    <3> QED
      BY <1>1, <3>1 DEF Numbered, Frame, Position
  <2>3. /\ ring' \in Seq(Frame) /\ Len(ring') <= Retention
        /\ ToSet(ring') \subseteq ToSet(ring) \cup {n} /\ Last(ring') = n
    <3>1. ring' = Trimmed(Append(ring, n))
      BY <2>1 DEF Publish
    <3> QED
      BY <1>1, <2>2, <3>1, Trimming
  <2>4. channel' = Append(channel, n) /\ UNCHANGED <<sock, wire, client, drops>>
    BY <1>3, <2>3 DEF Source
  <2>5. channel' \in Seq(Frame) /\ ToSet(channel') \subseteq ToSet(channel) \cup {n}
    BY <1>1, <2>2, <2>4, ElementsAppend DEF TypeOK
  <2>6. Flying' \subseteq Flying \cup {n}
    BY <2>3, <2>4, <2>5 DEF Flying
  <2>7. TypeOK'
    <3>1. reading' \in [Readers -> Position \cup {None}] /\ seq' \in Nat /\ count' \in Nat
      BY <1>1, <2>1 DEF TypeOK, Publish
    <3> QED
      BY <1>1, <2>3, <2>4, <2>5, <3>1 DEF TypeOK
  <2>8. ReadingIsOld' /\ FramesAreOld' /\ AllPlaced' /\ NoneSeemsNext'
    <3>1. /\ reading[r] # None /\ reading' = [reading EXCEPT ![r] = None]
          /\ seq' = seq + 1 /\ count' = count + 1
      BY <2>1 DEF Publish
    <3>. HIDE DEF n
    <3> QED
      BY <2>2, <2>4, <2>6, <3>1, NewFrame DEF IInv
  <2> QED
    BY <2>7, <2>8 DEF IInv
<1> QED
  BY <1>2, <1>3

LEMMA ClientStep ==
  ASSUME IInv, FetchSnapshot \/ Disconnect
  PROVE  IInv'
<1>1. TypeOK
  BY DEF IInv
<1>2. /\ UNCHANGED <<sourceVars, channel>> /\ wire' = <<>>
      /\ sock'.read = <<>>
  <2>1. CASE FetchSnapshot
    BY <2>1 DEF FetchSnapshot, Closed
  <2>2. CASE Disconnect
    BY <2>2 DEF Disconnect, Leave, Closed
  <2> QED
    BY <2>1, <2>2
<1>3. TypeOK'
  <2>1. <<>> \in Seq(Frame) /\ <<>> \in Seq(Frame \cup {SnapshotRequired})
    OBVIOUS
  <2>2. sock' \in Sockets
    <3>1. sock' = Closed \/ sock' = [Closed EXCEPT !.state = "subscribing", !.lastSeq = seq]
      BY DEF FetchSnapshot, Disconnect, Leave
    <3>2. seq \in Nat
      BY <1>1 DEF TypeOK
    <3> QED
      BY <3>1, <3>2, ClosedSocket
  <2>3. client' \in [joined : BOOLEAN, seq : Nat, no : Nat]
    <3>1. CASE FetchSnapshot
      BY <1>1, <3>1 DEF TypeOK, FetchSnapshot
    <3>2. CASE Disconnect
      BY <1>1, <3>2 DEF TypeOK, Disconnect, Leave
    <3> QED
      BY <3>1, <3>2
  <2>4. drops' \in 0 .. MaxDrops
    BY <1>1, BoundsAssumption DEF TypeOK, FetchSnapshot, Disconnect
  <2> QED
    BY <1>1, <1>2, <2>1, <2>2, <2>3, <2>4 DEF Sockets, TypeOK, sourceVars
<1>4. Flying' \subseteq Flying
  BY <1>2, ElementsEmpty DEF Flying, sourceVars
<1>5. \/ client'.no = count /\ client'.seq = seq
      \/ client'.no = client.no /\ client'.seq = client.seq
  BY <1>1 DEF FetchSnapshot, Disconnect, Leave, TypeOK
<1> QED
  BY <1>2, <1>3, <1>4, <1>5, MovingFrames DEF IInv

LEMMA HandleFrameStep ==
  ASSUME IInv, HandleFrame
  PROVE  IInv'
<1>. DEFINE f == Head(wire)
<1>1. TypeOK /\ wire # <<>>
  BY DEF IInv, HandleFrame
<1>2. UNCHANGED <<sourceVars, channel, drops>>
  BY DEF HandleFrame
<1>3. /\ wire' \in Seq(Frame \cup {SnapshotRequired})
      /\ ToSet(wire') \subseteq ToSet(wire)
  <2>1. wire' = Tail(wire) \/ wire' = <<>>
    BY DEF HandleFrame, Handle, Leave
  <2> QED
    <3>1. wire \in Seq(Frame \cup {SnapshotRequired})
      BY <1>1 DEF TypeOK
    <3>2. <<>> \in Seq(Frame \cup {SnapshotRequired})
      OBVIOUS
    <3> QED
      BY <1>1, <2>1, <3>1, <3>2, ElementsTail, ElementsEmpty
<1>4. sock' = sock \/ sock' = Closed
  BY DEF HandleFrame, Handle, Leave
<1>5. sock' \in Sockets
  BY <1>1, <1>4, ClosedSocket DEF TypeOK, Sockets
<1>6. Flying' \subseteq Flying
  BY <1>2, <1>3, <1>4, ElementsEmpty DEF Flying, sourceVars, Closed
<1>7. /\ client' \in [joined : BOOLEAN, seq : Nat, no : Nat]
      /\ \E p \in Flying \cup {client} :
            client'.no = p.no /\ client'.seq = p.seq
  <2>1. CASE client' = client \/ client' = [client EXCEPT !.joined = FALSE]
    BY <1>1, <2>1 DEF TypeOK
  <2>2. CASE Applies(f) /\ client' = [client EXCEPT !.seq = f.seq, !.no = f.no]
    <3>1. f \in Flying /\ f \in Frame
      BY <1>1, <2>2, FlyingAreFrames DEF Applies
    <3> QED
      BY <1>1, <2>2, <3>1 DEF TypeOK, Frame
  <2> QED
    BY <2>1, <2>2 DEF HandleFrame, Handle, Leave
<1>8. TypeOK'
  BY <1>1, <1>2, <1>3, <1>5, <1>7 DEF Sockets, TypeOK, sourceVars
<1> QED
  BY <1>2, <1>6, <1>7, <1>8, MovingFrames DEF IInv

LEMMA ReadRingStep ==
  ASSUME IInv, ReadRing
  PROVE  IInv'
<1>1. TypeOK
  BY DEF IInv
<1>2. UNCHANGED <<sourceVars, channel, wire, client, drops>>
  BY DEF ReadRing
<1>3. TypeOK' /\ sock'.read = ring
  BY <1>1, <1>2 DEF TypeOK, ReadRing, sourceVars
<1>4. Flying' \subseteq Flying
  BY <1>2, <1>3 DEF Flying, sourceVars
<1> QED
  BY <1>2, <1>3, <1>4, MovingFrames DEF IInv

(* What a gateway may put on the wire.                                     *)
LEMMA Sending ==
  ASSUME TypeOK, NEW sent \in Seq(Frame \cup {SnapshotRequired}),
         ToSet(sent) \subseteq Flying \cup {SnapshotRequired}
  PROVE  /\ wire \o sent \in Seq(Frame \cup {SnapshotRequired})
         /\ {f \in ToSet(wire \o sent) : f.type # "snapshot_required"}
              \subseteq Flying
<1>1. ToSet(wire \o sent) \subseteq ToSet(wire) \cup ToSet(sent)
  BY ElementsConcat DEF TypeOK
<1>2. SnapshotRequired.type = "snapshot_required"
  BY DEF SnapshotRequired
<1>3. wire \o sent \in Seq(Frame \cup {SnapshotRequired})
  BY ConcatProperties DEF TypeOK
<1> QED
  BY <1>1, <1>2, <1>3 DEF Flying

LEMMA BackfillStep ==
  ASSUME IInv, Backfill
  PROVE  IInv'
<1>1. TypeOK /\ UNCHANGED <<sourceVars, channel, client, drops>>
  BY DEF IInv, Backfill
<1>2. <<>> \in Seq(Frame)
  OBVIOUS
<1>3. ToSet(sock.read) \subseteq Frame
  BY <1>1, ElementsOfSeq DEF TypeOK
<1>4. /\ sock'.read = <<>>
      /\ sock' \in Sockets
      /\ wire' \in Seq(Frame \cup {SnapshotRequired})
      /\ {f \in ToSet(wire') : f.type # "snapshot_required"} \subseteq Flying
  <2>1. CASE Refuse
    <3>1. Append(wire, SnapshotRequired) \in Seq(Frame \cup {SnapshotRequired})
      BY <1>1 DEF TypeOK
    <3>2. ToSet(Append(wire, SnapshotRequired)) \subseteq ToSet(wire) \cup {SnapshotRequired}
      <4>1. wire \in Seq(Frame \cup {SnapshotRequired})
        BY <1>1 DEF TypeOK
      <4> QED
        BY <4>1, ElementsAppend
    <3>3. SnapshotRequired.type = "snapshot_required"
      BY DEF SnapshotRequired
    <3>4. sock \in Sockets
      BY <1>1 DEF TypeOK, Sockets
    <3>5. sock' \in Sockets /\ sock'.read = <<>>
      BY <1>2, <2>1, <3>4 DEF Sockets, Refuse
    <3>6. wire' = Append(wire, SnapshotRequired)
      BY <2>1 DEF Refuse
    <3> QED
      BY <3>1, <3>2, <3>3, <3>5, <3>6 DEF Flying
  <2>2. CASE CaughtUp
    BY <1>1, <1>2, <2>2 DEF Sockets, CaughtUp, TypeOK, Flying
  <2>3. CASE SendMissed
    <3>1. PICK frames \in [1 .. Cardinality(Missed) -> Missed] :
            /\ wire' = wire \o frames
            /\ sock' = [sock EXCEPT !.state = "live", !.read = <<>>,
                                    !.delivered = Last(frames).seq]
      BY <2>3 DEF SendMissed
    <3>2. Missed \subseteq ToSet(sock.read) /\ Missed # {}
      BY <2>3 DEF Missed, SendMissed
    <3>3. IsFiniteSet(Missed)
      BY <1>1, <3>2, ElementsFinite, FS_Subset DEF TypeOK
    <3>4. Cardinality(Missed) \in Nat \ {0}
      BY <3>2, <3>3, FS_CardinalityType, FS_EmptySet
    <3>5. /\ frames \in Seq(Missed) /\ Len(frames) = Cardinality(Missed)
      BY <3>4
    <3>6. Last(frames) \in Missed
      BY <3>4, <3>5 DEF Last
    <3>7. ToSet(frames) \subseteq Flying
      BY <3>2, <3>5, ElementsOfSeq DEF Flying
    <3>8. frames \in Seq(Frame \cup {SnapshotRequired})
      BY <3>2, <3>5, <1>3, SeqMonotonic
    <3>9. Last(frames).seq \in Nat
      BY <1>3, <3>2, <3>6 DEF Frame
    <3> QED
      BY <1>1, <1>2, <3>1, <3>7, <3>8, <3>9, Sending DEF Sockets, TypeOK
  <2> QED
    BY <2>1, <2>2, <2>3 DEF Backfill
<1>5. TypeOK'
  BY <1>1, <1>4 DEF Sockets, TypeOK, sourceVars
<1>6. Flying' \subseteq Flying
  BY <1>1, <1>4, ElementsEmpty DEF Flying, sourceVars
<1> QED
  BY <1>1, <1>5, <1>6, MovingFrames DEF IInv

LEMMA RelayStep ==
  ASSUME IInv, Relay
  PROVE  IInv'
<1>. DEFINE f == Head(channel)
<1>1. /\ TypeOK /\ UNCHANGED <<sourceVars, client, drops>>
      /\ channel # <<>> /\ channel' = Tail(channel)
  BY DEF IInv, Relay
<1>2. /\ f \in ToSet(channel) /\ channel' \in Seq(Frame)
      /\ ToSet(channel') \subseteq ToSet(channel)
  BY <1>1, ElementsTail DEF TypeOK
<1>3. f \in Flying /\ f \in Frame
  BY <1>1, <1>2, FlyingAreFrames DEF Flying
<1>4. /\ sock'.read = sock.read
      /\ sock' \in Sockets
      /\ wire' \in Seq(Frame \cup {SnapshotRequired})
      /\ ToSet(wire') \subseteq ToSet(wire) \cup {f}
  <2>1. CASE UNCHANGED <<wire, sock>>
    BY <1>1, <2>1 DEF Sockets, TypeOK
  <2>2. CASE wire' = Append(wire, f) /\ sock' = [sock EXCEPT !.delivered = f.seq]
    <3>1. wire \in Seq(Frame \cup {SnapshotRequired}) /\ f \in Frame \cup {SnapshotRequired}
      BY <1>1, <1>3 DEF TypeOK
    <3>2. wire' \in Seq(Frame \cup {SnapshotRequired})
      BY <2>2, <3>1
    <3>3. ToSet(wire') \subseteq ToSet(wire) \cup {f}
      BY <2>2, <3>1, ElementsAppend
    <3>4. f.seq \in Nat
      BY <1>3 DEF Frame
    <3> QED
      BY <1>1, <2>2, <3>2, <3>3, <3>4 DEF Sockets, TypeOK
  <2> QED
    BY <2>1, <2>2 DEF Relay
<1>5. TypeOK'
  BY <1>1, <1>2, <1>4 DEF Sockets, TypeOK, sourceVars
<1>6. Flying' \subseteq Flying
  BY <1>1, <1>2, <1>3, <1>4 DEF Flying, sourceVars
<1> QED
  BY <1>1, <1>5, <1>6, MovingFrames DEF IInv

-----------------------------------------------------------------------------
THEOREM NextInvariant == IInv /\ [Next]_vars => IInv'
<1> SUFFICES ASSUME IInv, [Next]_vars PROVE IInv'
  OBVIOUS
<1>1. CASE HandleFrame
  BY <1>1, HandleFrameStep
<1>2. CASE Source
  BY <1>2, SourceStep
<1>3. CASE FetchSnapshot \/ Disconnect
  BY <1>3, ClientStep
<1>4. CASE ReadRing
  BY <1>4, ReadRingStep
<1>5. CASE Backfill
  BY <1>5, BackfillStep
<1>6. CASE Relay
  BY <1>6, RelayStep
<1>7. CASE UNCHANGED vars
  BY <1>7 DEF vars, sourceVars, streamVars, IInv, TypeOK, ReadingIsOld, AllPlaced,
              FramesAreOld, Placed, NoneSeemsNext, NotBefore, Flying
<1> QED
  BY <1>1, <1>2, <1>3, <1>4, <1>5, <1>6, <1>7 DEF Next, Gateway

THEOREM Invariance == Spec => []IInv
BY InitInvariant, NextInvariant, PTL DEF Spec

(* Source, gateway and client keep the types of their state, and the ring  *)
(* its length (publish-frame.lua, LTRIM).                                  *)
THEOREM TypeCorrect == Spec => []TypeOK
<1>1. IInv => TypeOK
  BY DEF IInv
<1> QED
  BY <1>1, Invariance, PTL

(* A client that misses a frame holds a number that the counter has left   *)
(* behind, whatever frames it missed and however it came to.               *)
THEOREM MissedAlwaysNoticeable == Spec => []MissedIsNoticeable
<1>1. IInv => MissedIsNoticeable
  BY DEF IInv, AllPlaced, Placed, MissedIsNoticeable
<1> QED
  BY <1>1, Invariance, PTL

(* No delta is applied to data that lacks a frame published before the     *)
(* counter was read for it.                                                *)
THEOREM NeverSkipsDelta == Spec => []NoSkippedDelta
<1>1. IInv => NoSkippedDelta
  <2> SUFFICES ASSUME IInv, wire # <<>>, Head(wire).type = "delta", Applies(Head(wire))
               PROVE  client.no >= Head(wire).base
    BY DEF NoSkippedDelta
  <2>. DEFINE f == Head(wire)
  <2>1. f \in Flying /\ f \in Frame
    BY FlyingAreFrames DEF IInv
  <2>2. f.prev = client.seq
    BY DEF Applies, Gap, Seen
  <2>3. ~(client.no < f.base)
    BY <2>1, <2>2 DEF IInv, NoneSeemsNext, NotBefore, AllPlaced, Placed, Frame
  <2> QED
    BY <2>1, <2>3 DEF IInv, TypeOK, Frame
<1> QED
  BY <1>1, Invariance, PTL
=============================================================================
