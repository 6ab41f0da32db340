----------------------------- MODULE FrameSource -----------------------------
(***************************************************************************)
(* What the dashboard's consumers may rely on from the aggregator: a       *)
(* counter that only grows, bumped by events and by frames; frames that    *)
(* follow on from a value of the counter read a little earlier; a ring     *)
(* buffer of the latest ones.  Several frames may be under way at once:    *)
(* two of them may have read the same value, and then carry the same       *)
(* number.                                                                 *)
(***************************************************************************)
EXTENDS Integers, Sequences

CONSTANTS
    Readers,      \* the frames that may be under way at once
    Retention,    \* frames the ring buffer keeps
    None

(* What a frame under way has read: the counter, and (history) how many    *)
(* frames had been published by then.                                      *)
Position == [prev : Nat, base : Nat]

ASSUME RetentionAssumption == Retention \in Nat \ {0}
ASSUME NoneAssumption      == None \notin Position

VARIABLES
    seq,          \* meta.seq
    reading,      \* [Readers -> what the frame under way has read, or None]
    ring,         \* the frames retained
    count         \* frames published so far (history)

sourceVars == <<seq, reading, ring, count>>

(* A frame remembers its place in the order of publication, and how many   *)
(* frames there were when the counter was read for it (history).           *)
Frame == [type : {"delta", "snapshot"}, seq : Nat, prev : Nat,
          no : Nat, base : Nat]

SourceInit ==
    /\ seq = 0 /\ ring = <<>> /\ count = 0
    /\ reading = [r \in Readers |-> None]

Bump == /\ seq' = seq + 1
        /\ UNCHANGED <<reading, ring, count>>

Read(r) == /\ reading[r] = None
           /\ reading' = [reading EXCEPT ![r] = [prev |-> seq, base |-> count]]
           /\ UNCHANGED <<seq, ring, count>>

GiveUp(r) == /\ reading[r] # None
             /\ reading' = [reading EXCEPT ![r] = None]
             /\ UNCHANGED <<seq, ring, count>>

(* Wrong: one frame too many is kept.                                      *)
Trimmed_OneMore(frames) ==
    IF Len(frames) > Retention + 1 THEN Tail(frames) ELSE frames

Trimmed(frames) == IF Len(frames) > Retention THEN Tail(frames) ELSE frames

(* The frame's number is fixed before the script counts it.                *)
Numbered(r, type) ==
    [type |-> type, seq |-> reading[r].prev + 1, prev |-> reading[r].prev,
     no |-> count + 1, base |-> reading[r].base]

(* Wrong: the counter is written back from the value read before.          *)
Publish_Sets(r, type) ==
    /\ reading[r] # None
    /\ count = 0 => type = "snapshot"
    /\ seq' = reading[r].prev + 1
    /\ ring' = Trimmed(Append(ring, Numbered(r, type)))
    /\ count' = count + 1
    /\ reading' = [reading EXCEPT ![r] = None]

(* The first frame of all is a snapshot.                                   *)
Publish(r, type) ==
    /\ reading[r] # None
    /\ count = 0 => type = "snapshot"
    /\ seq' = seq + 1
    /\ ring' = Trimmed(Append(ring, Numbered(r, type)))
    /\ count' = count + 1
    /\ reading' = [reading EXCEPT ![r] = None]

(* The ring's time to live ends.                                           *)
Expire == /\ ring' = <<>>
          /\ UNCHANGED <<seq, reading, count>>

SourceNext ==
    \/ Bump \/ Expire
    \/ \E r \in Readers :
          \/ Read(r) \/ GiveUp(r)
          \/ \E type \in {"delta", "snapshot"} : Publish(r, type)

SourceSpec == SourceInit /\ [][SourceNext]_sourceVars
=============================================================================
