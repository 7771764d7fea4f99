----------------------------- MODULE TokenBucket -----------------------------
(***************************************************************************)
(* The relay's limit on the frames of a room (server/src/relay-server.ts,  *)
(* forwardMotion and refillMotionTokens): a bucket of tokens that refills  *)
(* with the time, a whole token for each forwarded frame.                  *)
(*                                                                         *)
(* The bucket is a part of the room's record.  A room that is created anew *)
(* under its name gets a record with a full one, which the relay takes up  *)
(* when the host binds the room.  In memory a host that binds it again     *)
(* finds the record it has used before; over Redis it reads the stored one,*)
(* whose bucket is as full as on the day of its creation, for nothing      *)
(* writes the tokens back.                                                 *)
(*                                                                         *)
(* The clock counts the units of which one token has FrameCost.  Between a *)
(* lost connection and the next binding there is no host; that its frames  *)
(* are dropped then is left out, which only adds frames.                   *)
(***************************************************************************)
EXTENDS Naturals, Sequences

CONSTANTS
    FrameCost,     \* one token, in units of the clock
    Burst,         \* burstFrames, in the same units
    MaxCreations,  \* bound on rooms created anew
    MaxFills,      \* bound on buckets that a binding brings
    MaxTime        \* bound on the time

ASSUME BucketAssumption ==
    /\ FrameCost \in Nat \ {0} /\ Burst \in Nat /\ FrameCost <= Burst
    /\ MaxCreations \in Nat /\ MaxFills \in Nat /\ MaxTime \in Nat

VARIABLES
    time,
    tokens,       \* motionTokens of the active record
    refilledAt,   \* lastTokenRefillAt of the active record
    createdAt,    \* lastTokenRefillAt of the registry's record as it was created
    current,      \* whether the active record is the one created last
    overRedis,    \* HAPTIC_ROOM_REGISTRY_DRIVER
    forwarded,    \* history: when frames were forwarded, over all the records
    bucketOf,     \* history: the bucket each of them was paid from
    creations,    \* history: how often the room was created anew
    fills         \* history: how often a binding brought a full bucket

bucketVars == <<time, tokens, refilledAt, createdAt, current, overRedis,
                forwarded, bucketOf, creations, fills>>

BucketTypeOK ==
    /\ time \in 0..MaxTime /\ refilledAt \in 0..time /\ createdAt \in 0..time
    /\ tokens \in 0..Burst /\ current \in BOOLEAN /\ overRedis \in BOOLEAN
    /\ forwarded \in Seq(0..MaxTime) /\ bucketOf \in Seq(0..MaxFills)
    /\ Len(forwarded) = Len(bucketOf)
    /\ creations \in 0..MaxCreations /\ fills \in 0..MaxFills

\* The room is created and bound by its host.
BucketInit ==
    /\ time = 0 /\ tokens = Burst /\ refilledAt = 0 /\ createdAt = 0
    /\ current = TRUE /\ overRedis \in BOOLEAN
    /\ forwarded = <<>> /\ bucketOf = <<>> /\ creations = 0 /\ fills = 0

TimePasses ==
    /\ time < MaxTime /\ time' = time + 1
    /\ UNCHANGED <<tokens, refilledAt, createdAt, current, overRedis,
                   forwarded, bucketOf, creations, fills>>

\* Mutant: the bucket has no size.
RefilledWithoutCap == tokens + (time - refilledAt)

\* refillMotionTokens
Refilled == LET refill == tokens + (time - refilledAt)
            IN  IF refill < Burst THEN refill ELSE Burst

\* forwardMotion by the host that has the room
HostFrame ==
    /\ \/ Refilled < FrameCost /\ tokens' = Refilled /\ UNCHANGED <<forwarded, bucketOf>>
       \/ /\ Refilled >= FrameCost /\ tokens' = Refilled - FrameCost
          /\ forwarded' = Append(forwarded, time) /\ bucketOf' = Append(bucketOf, fills)
    /\ refilledAt' = time
    /\ UNCHANGED <<time, createdAt, current, overRedis, creations, fills>>

\* POST /api/rooms: the registry has a new record, the relay uses the old one.
CreateAgain ==
    /\ creations < MaxCreations /\ creations' = creations + 1
    /\ createdAt' = time /\ current' = FALSE
    /\ UNCHANGED <<time, tokens, refilledAt, overRedis, forwarded, bucketOf, fills>>

\* room:create: the relay takes up the record that attachHost answers.
BindHost ==
    /\ fills < MaxFills
    /\ current' = TRUE
    /\ IF overRedis \/ ~current
       THEN tokens' = Burst /\ refilledAt' = createdAt /\ fills' = fills + 1
       ELSE UNCHANGED <<tokens, refilledAt, fills>>
    /\ UNCHANGED <<time, createdAt, overRedis, forwarded, bucketOf, creations>>

BucketNext == TimePasses \/ HostFrame \/ CreateAgain \/ BindHost

BucketSpec == BucketInit /\ [][BucketNext]_bucketVars

(***************************************************************************)
(* Properties.                                                             *)
(***************************************************************************)
\* The frames forwarded in any span of time are paid for by one full bucket, one
\* more for each that a binding brought within the span, and the length of the
\* span.  In memory a host gets no other bucket by connecting again: there are
\* no more of them than rooms created.
RateIsBounded ==
    /\ \A i, j \in DOMAIN forwarded : i <= j =>
          FrameCost * (j - i + 1) <=
              Burst * (1 + bucketOf[j] - bucketOf[i]) + (forwarded[j] - forwarded[i])
    /\ ~overRedis => fills <= creations

(***************************************************************************)
(* The inductive invariant of the proofs.                                  *)
(***************************************************************************)
\* The frames since any of them, and the tokens there are, are paid for.
TokensArePaid ==
    \A i \in DOMAIN forwarded :
        FrameCost * (Len(forwarded) - i + 1) + Refilled
            <= Burst * (1 + fills - bucketOf[i]) + (time - forwarded[i])

\* in memory every creation is taken up at most once
CreationsAreUsedOnce ==
    ~overRedis => fills + (IF current THEN 0 ELSE 1) <= creations

BucketInv == BucketTypeOK /\ TokensArePaid /\ CreationsAreUsedOnce /\ RateIsBounded
=============================================================================
