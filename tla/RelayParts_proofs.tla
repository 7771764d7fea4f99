--------------------------- MODULE RelayParts_proofs ---------------------------
(***************************************************************************)
(* Theorems about the parts of the relay and of the way to it that do not  *)
(* depend on each other: the limit on a room's frames (TokenBucket), the   *)
(* list of live rooms (RoomDirectory), the packet of a frame               *)
(* (MotionPacket), the buffer of a viewer's delay (MotionDelay) and the    *)
(* limit on control requests (RateLimiter).                                *)
(***************************************************************************)
EXTENDS TokenBucket, RoomDirectory, MotionPacket, MotionDelay, RateLimiter,
        FiniteSetTheorems, TLAPS

(***************************************************************************)
(* The token bucket.                                                       *)
(***************************************************************************)
LEMMA InitBucket == BucketInit => BucketInv
  BY BucketAssumption DEF BucketInit, BucketInv, BucketTypeOK, TokensArePaid,
                          CreationsAreUsedOnce, RateIsBounded

\* the numbers that the steps below count with
LEMMA BucketNumbers ==
    ASSUME BucketInv
    PROVE  /\ FrameCost \in Nat \ {0} /\ Burst \in Nat /\ FrameCost <= Burst
           /\ MaxTime \in Nat /\ MaxFills \in Nat
           /\ time \in Nat /\ tokens \in Nat /\ refilledAt \in 0..time /\ fills \in Nat
           /\ Refilled \in 0..Burst /\ Len(forwarded) \in Nat
           /\ DOMAIN forwarded = 1..Len(forwarded) /\ DOMAIN bucketOf = 1..Len(forwarded)
           /\ \A i \in DOMAIN forwarded : forwarded[i] \in Nat /\ bucketOf[i] \in Nat
  BY BucketAssumption DEF BucketInv, BucketTypeOK, Refilled

\* products of a cost and of a number of buckets
LEMMA Products ==
    ASSUME NEW b \in Nat, NEW m \in Int, NEW k \in Int
    PROVE  /\ b * k \in Int /\ (m \in Nat => b * m \in Nat)
           /\ b * (k + m) = b * k + b * m
  OBVIOUS

\* What a bucket holds after a step, and how much more has been paid in: then the
\* frames that were paid for still are.
LEMMA StaysPaid ==
    ASSUME BucketInv, NEW more \in Nat, NEW passed \in Nat, NEW i \in DOMAIN forwarded,
           UNCHANGED <<forwarded, bucketOf>>, fills' = fills + more, time' = time + passed,
           Refilled' \in Nat, Refilled' <= Refilled + Burst * more + passed
    PROVE  FrameCost * (Len(forwarded') - i + 1) + Refilled'
              <= Burst * (1 + fills' - bucketOf'[i]) + (time' - forwarded'[i])
  <1>a. /\ FrameCost \in Nat /\ Burst \in Nat /\ fills \in Nat /\ time \in Nat
        /\ Refilled \in 0..Burst /\ Len(forwarded) \in Nat
        /\ DOMAIN forwarded = 1..Len(forwarded)
    BY BucketNumbers
  <1>0. i \in Nat /\ Len(forwarded) - i + 1 \in Int
    BY <1>a
  <1>1. PICK cost \in Int : cost = FrameCost * (Len(forwarded) - i + 1)
    BY <1>0, <1>a, Products
  <1>2. PICK at \in Nat, bucket \in Nat : at = forwarded[i] /\ bucket = bucketOf[i]
    BY BucketNumbers
  <1>3. PICK extra \in Nat : extra = Burst * more
    BY BucketNumbers
  <1>n. Burst \in Nat /\ fills \in Int /\ 1 + fills - bucket \in Int /\ more \in Int
    BY <1>2, <1>a
  <1>4. PICK paid \in Int : paid = Burst * (1 + fills - bucket)
    BY <1>n, Products
  <1>5. Burst * (1 + (fills + more) - bucket) = paid + extra
    <2>1. 1 + (fills + more) - bucket = (1 + fills - bucket) + more
      BY <1>n, <1>2
    <2>2. Burst * ((1 + fills - bucket) + more) = Burst * (1 + fills - bucket) + Burst * more
      BY <1>n, Products
    <2> QED BY <1>3, <1>4, <2>1, <2>2
  <1>6. cost + Refilled <= paid + (time - at)
    BY <1>1, <1>2, <1>4 DEF BucketInv, TokensArePaid
  <1>7. PICK before \in Nat, after \in Nat, instant \in Nat :
           before = Refilled /\ after = Refilled' /\ instant = time
    BY <1>a
  <1>8. cost + after <= (paid + extra) + ((instant + passed) - at)
    <2>1. cost + before <= paid + (instant - at) /\ after <= before + extra + passed
      BY <1>3, <1>6, <1>7
    <2>2. /\ cost \in Int /\ at \in Nat /\ extra \in Nat /\ paid \in Int /\ passed \in Nat
          /\ before \in Nat /\ after \in Nat /\ instant \in Nat
      BY <1>1, <1>2, <1>3, <1>4, <1>7
    <2> QED BY <2>1, <2>2
  <1> QED BY <1>1, <1>2, <1>5, <1>7, <1>8

LEMMA TimePassesKeeps ==
    ASSUME BucketInv, TimePasses
    PROVE  BucketInv'
  <1>1. Refilled' \in Nat /\ Refilled' <= Refilled + Burst * 0 + 1
    BY BucketNumbers DEF TimePasses, Refilled
  <1>2. BucketTypeOK'
    BY BucketNumbers DEF TimePasses, BucketInv, BucketTypeOK
  <1>3. TokensArePaid'
    <2> SUFFICES ASSUME NEW i \in DOMAIN forwarded
                 PROVE  FrameCost * (Len(forwarded') - i + 1) + Refilled'
                           <= Burst * (1 + fills' - bucketOf'[i]) + (time' - forwarded'[i])
      BY DEF TimePasses, TokensArePaid
    <2>1. fills' = fills + 0 /\ time' = time + 1 /\ UNCHANGED <<forwarded, bucketOf>>
      BY BucketNumbers DEF TimePasses
    <2> QED BY <1>1, <2>1, StaysPaid
  <1>4. CreationsAreUsedOnce' /\ RateIsBounded'
    BY DEF TimePasses, BucketInv, CreationsAreUsedOnce, RateIsBounded
  <1> QED BY <1>2, <1>3, <1>4 DEF BucketInv

LEMMA CreateAgainKeeps ==
    ASSUME BucketInv, CreateAgain
    PROVE  BucketInv'
  <1>1. BucketTypeOK'
    <2>1. creations' \in 0..MaxCreations
      BY BucketAssumption DEF CreateAgain, BucketInv, BucketTypeOK
    <2>2. time \in 0..time
      BY BucketNumbers
    <2> QED BY <2>1, <2>2 DEF CreateAgain, BucketInv, BucketTypeOK
  <1>2. TokensArePaid' /\ RateIsBounded'
    <2>1. Refilled' = Refilled
      BY DEF CreateAgain, Refilled
    <2>2. TokensArePaid'
      BY <2>1 DEF CreateAgain, BucketInv, TokensArePaid
    <2>3. fills \in Nat /\ creations \in Nat /\ creations' = creations + 1
      BY BucketAssumption DEF CreateAgain, BucketInv, BucketTypeOK
    <2>4. ~overRedis' => fills' <= creations'
      BY <2>3 DEF CreateAgain, BucketInv, RateIsBounded
    <2> QED BY <2>2, <2>4 DEF CreateAgain, BucketInv, RateIsBounded
  <1>3. CreationsAreUsedOnce'
    <2>1. fills \in Nat /\ creations \in Nat /\ creations' = creations + 1 /\ ~current'
      BY BucketAssumption DEF CreateAgain, BucketInv, BucketTypeOK
    <2>2. ~overRedis => fills <= creations
      BY DEF BucketInv, RateIsBounded
    <2> QED BY <2>1, <2>2 DEF CreateAgain, CreationsAreUsedOnce
  <1> QED BY <1>1, <1>2, <1>3 DEF BucketInv

LEMMA BindHostKeeps ==
    ASSUME BucketInv, BindHost
    PROVE  BucketInv'
  <1>1. CASE ~(overRedis \/ ~current)
    <2>1. UNCHANGED bucketVars
      BY <1>1 DEF BindHost, BucketInv, BucketTypeOK, bucketVars
    <2> QED BY <2>1 DEF bucketVars, BucketInv, BucketTypeOK, TokensArePaid, Refilled,
                        CreationsAreUsedOnce, RateIsBounded
  <1>2. CASE overRedis \/ ~current
    <2>1. /\ tokens' = Burst /\ refilledAt' = createdAt /\ fills' = fills + 1 /\ current'
          /\ UNCHANGED <<time, createdAt, overRedis, forwarded, bucketOf, creations>>
          /\ fills < MaxFills
      BY <1>2 DEF BindHost
    <2>2. BucketTypeOK'
      BY <2>1, BucketNumbers DEF BindHost, BucketInv, BucketTypeOK
    <2>3. createdAt \in 0..time
      BY DEF BucketInv, BucketTypeOK
    <2>4. Refilled' \in Nat /\ Refilled' <= Refilled + Burst * 1 + 0
      BY <2>1, <2>3, BucketNumbers DEF Refilled
    <2>5. TokensArePaid'
      <3> SUFFICES ASSUME NEW i \in DOMAIN forwarded
                   PROVE  FrameCost * (Len(forwarded') - i + 1) + Refilled'
                             <= Burst * (1 + fills' - bucketOf'[i]) + (time' - forwarded'[i])
        BY <2>1 DEF TokensArePaid
      <3>1. time' = time + 0
        BY <2>1, BucketNumbers
      <3> QED BY <2>1, <2>4, <3>1, StaysPaid
    <2>6. ~overRedis => fills + 1 <= creations
      BY <1>2 DEF BucketInv, CreationsAreUsedOnce
    <2>7. CreationsAreUsedOnce'
      BY <2>1, <2>6, BucketNumbers DEF CreationsAreUsedOnce
    <2>8. RateIsBounded'
      BY <2>1, <2>6 DEF BucketInv, RateIsBounded
    <2> QED BY <2>2, <2>5, <2>7, <2>8 DEF BucketInv
  <1> QED BY <1>1, <1>2

LEMMA HostFrameKeeps ==
    ASSUME BucketInv, HostFrame
    PROVE  BucketInv'
  <1>1. /\ refilledAt' = time
        /\ UNCHANGED <<time, createdAt, current, overRedis, creations, fills>>
    BY DEF HostFrame
  <1>n. PICK n \in Nat : n = Len(forwarded) /\ DOMAIN forwarded = 1..n
    BY BucketNumbers
  <1>2. CreationsAreUsedOnce'
    BY <1>1 DEF BucketInv, CreationsAreUsedOnce
  <1>3. CASE Refilled < FrameCost /\ tokens' = Refilled /\ UNCHANGED <<forwarded, bucketOf>>
    <2>1. Refilled' = Refilled
      BY <1>1, <1>3, BucketNumbers DEF Refilled
    <2>2. BucketTypeOK'
      BY <1>1, <1>3, BucketNumbers DEF BucketInv, BucketTypeOK
    <2>3. TokensArePaid' /\ RateIsBounded'
      BY <1>1, <1>3, <2>1 DEF BucketInv, TokensArePaid, RateIsBounded
    <2> QED BY <1>2, <2>2, <2>3 DEF BucketInv
  <1>4. CASE /\ Refilled >= FrameCost /\ tokens' = Refilled - FrameCost
             /\ forwarded' = Append(forwarded, time) /\ bucketOf' = Append(bucketOf, fills)
    <2>1. /\ forwarded' \in Seq(0..MaxTime) /\ bucketOf' \in Seq(0..MaxFills)
          /\ Len(forwarded') = n + 1 /\ Len(bucketOf') = n + 1 /\ DOMAIN forwarded' = 1..n + 1
          /\ forwarded'[n + 1] = time /\ bucketOf'[n + 1] = fills
          /\ \A i \in 1..n : forwarded'[i] = forwarded[i] /\ bucketOf'[i] = bucketOf[i]
      BY <1>n, <1>4 DEF BucketInv, BucketTypeOK
    <2>2. PICK left \in 0..Burst : left = Refilled
      BY BucketNumbers
    <2>3. PICK rest \in 0..Burst : rest = tokens' /\ rest + FrameCost = left
      BY <1>4, <2>2, BucketNumbers
    <2>4. Refilled' = rest
      BY <1>1, <2>3, BucketNumbers DEF Refilled
    <2>5. BucketTypeOK'
      BY <1>1, <2>1, <2>3, BucketNumbers DEF BucketInv, BucketTypeOK
    <2>6. PICK instant \in Nat, bucket \in Nat : instant = time /\ bucket = fills
      BY BucketNumbers
    <2>7. ASSUME NEW i \in 1..n + 1
          PROVE  /\ forwarded'[i] \in Nat /\ bucketOf'[i] \in Nat
                 /\ FrameCost * ((n + 1) - i + 1) + rest
                       <= Burst * (1 + bucket - bucketOf'[i]) + (instant - forwarded'[i])
      <3>1. CASE i \in 1..n
        <4>1. PICK cost \in Int : cost = FrameCost * (n - i + 1)
          BY BucketNumbers
        <4>2. FrameCost * ((n + 1) - i + 1) = cost + FrameCost
          BY <4>1, BucketNumbers
        <4>3. PICK at \in Nat : at = forwarded[i] /\ bucketOf[i] \in Nat
          BY <1>n, <3>1, BucketNumbers
        <4>4. PICK paid \in Int : paid = Burst * (1 + fills - bucketOf[i])
          <5>1. bucketOf[i] \in Nat /\ fills \in Nat /\ Burst \in Nat
            BY <1>n, <3>1, BucketNumbers
          <5>2. 1 + fills - bucketOf[i] \in Int
            BY <5>1
          <5> QED BY <5>1, <5>2, Products
        <4>5. cost + left <= paid + (instant - at)
          BY <1>n, <2>2, <2>6, <3>1, <4>1, <4>3, <4>4 DEF BucketInv, TokensArePaid
        <4>6. cost + FrameCost + rest <= paid + (instant - at)
          BY <2>2, <2>3, <2>6, <4>1, <4>3, <4>4, <4>5, BucketNumbers
        <4> QED BY <2>1, <2>6, <3>1, <4>2, <4>3, <4>4, <4>6
      <3>2. CASE i = n + 1
        <4>1. /\ (n + 1) - i + 1 = 1 /\ bucketOf'[i] = bucket /\ forwarded'[i] = instant
          BY <2>1, <2>6, <3>2
        <4>2. FrameCost * 1 + rest <= Burst * (1 + bucket - bucket) + (instant - instant)
          BY <2>3, <2>6, BucketNumbers
        <4> QED BY <2>6, <4>1, <4>2
      <3> QED BY <3>1, <3>2
    <2>8. TokensArePaid'
      BY <1>1, <2>1, <2>4, <2>6, <2>7 DEF TokensArePaid
    <2>9. RateIsBounded'
      <3>1. ASSUME NEW i \in 1..n + 1, NEW j \in 1..n + 1, i <= j
            PROVE  FrameCost * (j - i + 1)
                      <= Burst * (1 + bucketOf'[j] - bucketOf'[i]) + (forwarded'[j] - forwarded'[i])
        <4>1. CASE j \in 1..n
          <5>1. i \in 1..n
            BY <3>1, <4>1
          <5> QED BY <1>n, <2>1, <3>1, <4>1, <5>1 DEF BucketInv, RateIsBounded
        <4>2. CASE j = n + 1
          <5>1. PICK cost \in Int : cost = FrameCost * (j - i + 1)
            BY BucketNumbers
          <5>2. PICK allowed \in Int : allowed = Burst * (1 + bucket - bucketOf'[i])
                                                    + (instant - forwarded'[i])
            <6>1. bucketOf'[i] \in Nat /\ forwarded'[i] \in Nat /\ Burst \in Nat
              BY <2>7, BucketNumbers
            <6>2. PICK more \in Int : more = 1 + bucket - bucketOf'[i]
              BY <6>1
            <6>3. Burst * more \in Int
              BY <6>1, <6>2, Products
            <6> QED BY <6>1, <6>2, <6>3
          <5>3. cost + rest <= allowed
            BY <2>7, <4>2, <5>1, <5>2
          <5>4. rest \in Nat
            BY <2>3, BucketNumbers
          <5>5. cost <= allowed
            BY <5>1, <5>2, <5>3, <5>4
          <5> QED BY <2>1, <2>6, <4>2, <5>1, <5>2, <5>5
        <4> QED BY <4>1, <4>2
      <3> QED BY <1>1, <2>1, <3>1 DEF BucketInv, RateIsBounded
    <2> QED BY <1>2, <2>5, <2>8, <2>9 DEF BucketInv
  <1> QED BY <1>3, <1>4 DEF HostFrame

LEMMA NextBucket ==
    ASSUME BucketInv, [BucketNext]_bucketVars
    PROVE  BucketInv'
  <1>1. CASE UNCHANGED bucketVars
    BY <1>1 DEF bucketVars, BucketInv, BucketTypeOK, TokensArePaid, Refilled,
                CreationsAreUsedOnce, RateIsBounded
  <1> QED BY <1>1, TimePassesKeeps, HostFrameKeeps, CreateAgainKeeps, BindHostKeeps
          DEF BucketNext

\* Whenever frames come, however often the room is created anew and its host binds
\* it: what was forwarded and the tokens that are left are paid for.
THEOREM BucketInductive == BucketSpec => []BucketInv
  BY InitBucket, NextBucket, PTL DEF BucketSpec

\* The frames forwarded in any span of time are paid for by one full bucket, one
\* more for each that a binding brought within it, and its length; in memory there
\* are no more of these than rooms created.
THEOREM RateStaysBounded == BucketSpec => []RateIsBounded
  <1>1. BucketInv => RateIsBounded
    BY DEF BucketInv
  <1> QED BY <1>1, BucketInductive, PTL

(***************************************************************************)
(* The packet of a frame.                                                  *)
(***************************************************************************)
LEMMA ClampTyped == ASSUME NEW v \in Int PROVE Clamp01(v) \in 0..Fine
  BY PacketAssumption DEF Clamp01

\* A position that is rounded to the packet's units is off by at most half of one.
LEMMA RoundedNear ==
    ASSUME NEW v \in Int
    PROVE  /\ ToUint16(v) \in 0..Scale
           /\ 2 * (ToUint16(v) * Fine - Clamp01(v) * Scale) \in -Fine..Fine
  <1>1. PICK f \in Nat \ {0}, s \in Nat \ {0} : f = Fine /\ s = Scale
    BY PacketAssumption
  <1>2. PICK c \in 0..f : c = Clamp01(v)
    BY <1>1, ClampTyped
  <1>3. PICK p \in Int : p = (2 * s * c + f) \div (2 * f)
    BY <1>1
  <1>4. PICK target \in Nat : target = s * c /\ target <= s * f
    <2>1. PICK rest \in Nat : rest = f - c
      BY <1>2
    <2>2. s * rest >= 0 /\ s * rest = s * f - s * c
      BY <2>1
    <2> QED BY <2>2
  <1>5. PICK reached \in Int : reached = p * f
    OBVIOUS
  <1>6. 2 * reached <= 2 * target + f /\ 2 * target + f < 2 * reached + 2 * f
    <2>1. PICK a \in Int, b \in Nat \ {0} : a = 2 * s * c + f /\ b = 2 * f
      OBVIOUS
    <2>2. b * p <= a /\ a < b * p + b
      BY <1>3, <2>1
    <2>3. b * p = 2 * reached /\ a = 2 * target + f
      BY <1>4, <1>5, <2>1
    <2> QED BY <2>1, <2>2, <2>3
  <1>7. p \in 0..s
    <2>1. CASE p < 0
      <3>1. f * (p + 1) <= 0
        BY <2>1
      <3>2. f * (p + 1) = reached + f
        BY <1>5
      <3> QED BY <1>4, <1>6, <3>1, <3>2
    <2>2. CASE p > s
      <3>1. f * (p - s) >= f
        BY <2>2
      <3>2. f * (p - s) = reached - s * f
        BY <1>5
      <3> QED BY <1>4, <1>6, <3>1, <3>2
    <2> QED BY <2>1, <2>2
  <1>8. 2 * (reached - target) \in -f..f
    BY <1>6
  <1>9. ToUint16(v) = p
    BY <1>1, <1>2, <1>3 DEF ToUint16
  <1>10. c * s = target
    BY <1>4
  <1> QED BY <1>1, <1>2, <1>5, <1>7, <1>8, <1>9, <1>10

\* One that was read is rounded to itself.
LEMMA ReEncodedSame == ASSUME NEW p \in 0..Scale PROVE ReEncoded(p * Fine) = p
  <1>1. PICK f \in Nat \ {0}, s \in Nat \ {0} : f = Fine /\ s = Scale
    BY PacketAssumption
  <1>2. PICK v \in Nat : v = p * f /\ v <= f * s
    <2>1. PICK rest \in Nat : rest = s - p
      BY <1>1
    <2>2. rest * f >= 0 /\ rest * f = f * s - p * f
      BY <1>1, <2>1
    <2> QED BY <1>1, <2>2
  <1>3. (2 * v + f) \div (2 * f) = p
    <2>1. PICK a \in Int, b \in Nat \ {0} : a = 2 * v + f /\ b = 2 * f
      OBVIOUS
    <2>2. b * p = 2 * v /\ p \in Int
      BY <1>1, <1>2, <2>1
    <2>3. b * p <= a /\ a < b * p + b
      BY <2>1, <2>2
    <2>4. b * (p + 1) = b * p + b
      BY <2>2
    <2>5. a \div b = p
      BY <2>2, <2>3, <2>4
    <2> QED BY <2>1, <2>5
  <1>4. PICK edge \in Nat : edge = f * s
    OBVIOUS
  <1> QED BY <1>1, <1>2, <1>3, <1>4 DEF ReEncoded

LEMMA NarrowTyped ==
    /\ \A v \in Int : Narrow(v) \in 0..Widest
    /\ \A v \in 0..Widest : Narrow(v) = v
  BY PacketAssumption DEF Narrow

LEMMA AbsentApart == Absent \notin SourceTimes /\ Absent \in Int /\ \A t \in SourceTimes : t # Absent
  BY PacketAssumption DEF Absent

LEMMA NothingApart == ASSUME NEW m \in Published PROVE m # NothingSent /\ m.version \in {1, 2}
  BY DEF Published, NothingSent

LEMMA InitPacket == PacketInit => PacketInv
  BY DEF PacketInit, PacketInv, FrameSurvives

LEMMA SendFrameKeeps ==
    ASSUME PacketInv, SendFrame
    PROVE  PacketInv'
  <1>1. /\ motion = NothingSent /\ motion' \in Published
        /\ UNCHANGED <<relayedOn, relayClock, handedOn>>
    BY DEF SendFrame
  <1>2. relayedOn = NothingSent /\ handedOn = NothingSent /\ relayClock \in SourceTimes
    <2>1. motion \notin Published
      BY <1>1, NothingApart
    <2> QED BY <2>1 DEF PacketInv
  <1>3. PICK m \in Published : m = motion'
    BY <1>1
  <1>4. /\ m.position \in Int /\ m.version \in {1, 2} /\ m.flags \in Int
        /\ m.sourceTime \in SourceTimes \cup {Absent} /\ m.duration \in Int
        /\ m.position \in -1..Fine + 1 /\ m.flags \in {Absent, 1} /\ m.duration \in Wide
    BY PacketAssumption, AbsentApart DEF Published, Wide
  <1>5. PICK p \in 0..Scale : /\ p = ToUint16(m.position)
                              /\ 2 * (p * Fine - Clamp01(m.position) * Scale) \in -Fine..Fine
    BY <1>4, RoundedNear
  <1>6. CASE m.version = 2
    <2>1. PICK timestamp \in SourceTimes :
             toRelayed' = EncodeMotionPacket([m EXCEPT
                     !.sourceTime = Given(m.sourceTime, timestamp),
                     !.duration = Given(m.duration, 1)])
      BY <1>3, <1>6 DEF SendFrame
    <2>2. PICK moment \in SourceTimes :
             /\ moment = Given(m.sourceTime, timestamp)
             /\ m.sourceTime # Absent => moment = m.sourceTime
      BY <1>4, <2>1 DEF Given
    <2>3. PICK given \in Int \ {Absent} : /\ given = Given(m.duration, 1)
                                          /\ m.duration # Absent => given = m.duration
      BY <1>4, <2>1 DEF Given, Absent
    <2>4. PICK marks \in Int : marks = Given(m.flags, 0)
      BY <1>4 DEF Given
    <2>5. PICK full \in [version : {2}, position : Int, flags : {Absent, 1}, sourceTime : SourceTimes,
                         duration : Int] :
             /\ full = [m EXCEPT !.sourceTime = moment, !.duration = given]
             /\ full.flags = m.flags /\ full.sourceTime = moment /\ full.duration = given
             /\ full.position = m.position
      <3>1. m \in [version : {2}, position : Int, flags : {Absent, 1},
                   sourceTime : SourceTimes \cup {Absent}, duration : Int]
        BY <1>4, <1>6 DEF Published
      <3>2. PICK full : full = [m EXCEPT !.sourceTime = moment, !.duration = given]
        OBVIOUS
      <3>3. /\ full.flags = m.flags /\ full.sourceTime = moment /\ full.duration = given
            /\ full.position = m.position
        BY <3>1, <3>2
      <3>4. full \in [version : {2}, position : Int, flags : {Absent, 1}, sourceTime : SourceTimes,
                     duration : Int]
        BY <3>1, <3>2
      <3> QED BY <3>2, <3>3, <3>4
    <2>6. toRelayed' = [version |-> 2, flags |-> Narrow(marks), sourceTime |-> moment,
                        duration |-> Narrow(given), position |-> p]
      <3>1. Given(full.duration, 0) = given
        BY <2>3, <2>5 DEF Given
      <3>2. full = [m EXCEPT !.sourceTime = Given(m.sourceTime, timestamp),
                             !.duration = Given(m.duration, 1)]
        <4>1. full = [m EXCEPT !.sourceTime = moment, !.duration = given]
          BY <2>5
        <4>2. moment = Given(m.sourceTime, timestamp) /\ given = Given(m.duration, 1)
          BY <2>2, <2>3
        <4> QED BY <4>1, <4>2
      <3>3. toRelayed' = EncodeMotionPacket(full)
        BY <2>1, <3>2, Zenon
      <3>4. /\ Given(full.flags, 0) = marks /\ full.sourceTime = moment
            /\ ToUint16(full.position) = p
        <4>1. full.flags = m.flags /\ full.sourceTime = moment /\ full.position = m.position
          BY <2>5
        <4> QED BY <1>5, <2>4, <4>1, Zenon
      <3> QED BY <3>1, <3>3, <3>4, Zenon DEF EncodeMotionPacket
    <2>7. Narrow(marks) \in 0..Widest /\ Narrow(given) \in 0..Widest
      BY NarrowTyped
    <2>8. toRelayed' \in CurrentPackets
      BY <1>5, <2>2, <2>6, <2>7 DEF CurrentPackets
    <2>9. /\ toRelayed'.version = 2 /\ toRelayed'.sourceTime = moment
          /\ toRelayed'.duration = Narrow(given) /\ toRelayed'.position = p
      BY <2>6
    <2>10. CarriesFrame(toRelayed)'
      <3>1. NearPublished(toRelayed.position)'
        BY <1>3, <1>5, <2>9 DEF NearPublished
      <3>2. motion'.sourceTime # Absent => toRelayed'.sourceTime = motion'.sourceTime
        <4>1. /\ m.sourceTime # Absent => moment = m.sourceTime
              /\ toRelayed'.sourceTime = moment
          BY <2>2, <2>9, Zenon
        <4> QED BY <1>3, <4>1
      <3>3. motion'.duration # Absent => toRelayed'.duration = Narrow(motion'.duration)
        BY <1>3, <2>3, <2>9, Zenon
      <3> QED BY <2>8, <3>1, <3>2, <3>3, Zenon DEF CarriesFrame
    <2> QED BY <1>1, <1>2, <1>3, <1>6, <2>9, <2>10 DEF PacketInv, FrameSurvives
  <1>7. CASE m.version = 1
    <2>1. toRelayed' = [version |-> 1, position |-> p]
      BY <1>3, <1>5, <1>7 DEF SendFrame
    <2>2. toRelayed'.version = 1 /\ toRelayed'.position = p
      BY <2>1
    <2>3. CarriesFrame(toRelayed)'
      BY <1>3, <1>5, <2>2 DEF CarriesFrame, NearPublished
    <2> QED BY <1>1, <1>2, <1>3, <1>7, <2>2, <2>3 DEF PacketInv, FrameSurvives
  <1> QED BY <1>4, <1>6, <1>7

LEMMA ForwardFrameKeeps ==
    ASSUME PacketInv, ForwardFrame
    PROVE  PacketInv'
  <1>1. /\ motion \in Published /\ motion' = motion /\ toRelayed.version = motion.version
        /\ CarriesFrame(toRelayed) /\ motion.version \in {1, 2}
        /\ toRelayed' = NothingSent /\ handedOn' = handedOn /\ relayClock' \in SourceTimes
        /\ relayClock \in SourceTimes
    BY NothingApart DEF PacketInv, ForwardFrame
  <1>2. PICK p \in 0..Scale : p = toRelayed.position /\ NearPublished(p)
    BY <1>1 DEF CarriesFrame, NearPublished
  <1>3. ReEncoded(p * Fine) = p
    BY ReEncodedSame
  <1>4. ASSUME NEW frame, /\ frame.position = p * Fine
                          /\ frame \in [version : {1, 2}, flags : 0..Widest \cup {Absent},
                                        sourceTime : SourceTimes, duration : 0..Widest,
                                        position : {p * Fine}],
               relayedOn' = [version |-> 2, flags |-> Narrow(Given(SafeFrame(frame, relayClock').flags, 0)),
                             sourceTime |-> SafeFrame(frame, relayClock').sourceTime,
                             duration |-> Narrow(SafeFrame(frame, relayClock').duration),
                             position |-> ReEncoded(SafeFrame(frame, relayClock').position)],
               motion.version = 2 => /\ motion.sourceTime # Absent => frame.sourceTime = motion.sourceTime
                                     /\ motion.duration # Absent => frame.duration = Narrow(motion.duration)
        PROVE  PacketInv'
    <2>1. Given(frame.sourceTime, relayClock') = frame.sourceTime /\ frame.sourceTime \in SourceTimes
      BY <1>4, AbsentApart DEF Given
    <2>2. /\ SafeFrame(frame, relayClock').flags = frame.flags
          /\ SafeFrame(frame, relayClock').sourceTime = frame.sourceTime
          /\ SafeFrame(frame, relayClock').duration = frame.duration
          /\ SafeFrame(frame, relayClock').position = p * Fine
      BY <1>4, <2>1 DEF SafeFrame
    <2>3. Narrow(frame.duration) = frame.duration /\ frame.duration \in 0..Widest
      BY <1>4, NarrowTyped
    <2>4. PICK marks \in 0..Widest : marks = Narrow(Given(frame.flags, 0))
      <3>1. Given(frame.flags, 0) \in Int
        BY <1>4, AbsentApart, PacketAssumption DEF Given
      <3> QED BY <3>1, NarrowTyped
    <2>5. relayedOn' = [version |-> 2, flags |-> marks, sourceTime |-> frame.sourceTime,
                        duration |-> frame.duration, position |-> p]
      BY <1>3, <1>4, <2>2, <2>3, <2>4
    <2>6. relayedOn' \in CurrentPackets
      BY <2>1, <2>3, <2>4, <2>5 DEF CurrentPackets
    <2>7. /\ relayedOn'.version = 2 /\ relayedOn'.sourceTime = frame.sourceTime
          /\ relayedOn'.duration = frame.duration /\ relayedOn'.position = p
      BY <2>5
    <2>8. CarriesFrame(relayedOn)'
      BY <1>1, <1>2, <1>4, <2>6, <2>7 DEF CarriesFrame, NearPublished
    <2> QED BY <1>1, <2>7, <2>8 DEF PacketInv, FrameSurvives
  <1>5. CASE toRelayed.version = 2
    <2>1. toRelayed \in CurrentPackets
      BY <1>1, <1>5 DEF CarriesFrame
    <2>2. PICK frame : frame = [toRelayed EXCEPT !.position = p * Fine]
      OBVIOUS
    <2>3. frame \in [version : {1, 2}, flags : 0..Widest \cup {Absent}, sourceTime : SourceTimes,
                     duration : 0..Widest, position : {p * Fine}]
      BY <2>1, <2>2 DEF CurrentPackets
    <2>4. /\ frame.position = p * Fine /\ frame.sourceTime = toRelayed.sourceTime
          /\ frame.duration = toRelayed.duration
      BY <2>1, <2>2 DEF CurrentPackets
    <2>5. frame = DecodedV2(toRelayed)
      BY <1>2, <2>2 DEF DecodedV2
    <2> QED BY <1>1, <1>4, <1>5, <2>3, <2>4, <2>5 DEF ForwardFrame, CarriesFrame
  <1>6. CASE toRelayed.version = 1
    <2>1. PICK frame : frame = [version |-> 1, flags |-> Absent, sourceTime |-> relayClock,
                                duration |-> 0, position |-> p * Fine]
      OBVIOUS
    <2>2. frame \in [version : {1, 2}, flags : 0..Widest \cup {Absent}, sourceTime : SourceTimes,
                     duration : 0..Widest, position : {p * Fine}]
      BY <1>1, <2>1, PacketAssumption
    <2>3. frame.position = p * Fine
      BY <2>1
    <2>4. frame = DecodedV1(toRelayed, relayClock)
      BY <1>2, <2>1 DEF DecodedV1
    <2> QED BY <1>1, <1>4, <1>6, <2>2, <2>3, <2>4 DEF ForwardFrame
  <1> QED BY <1>1, <1>5, <1>6

LEMMA ReadFrameKeeps ==
    ASSUME PacketInv, ReadFrame
    PROVE  PacketInv'
  <1>1. /\ motion \in Published /\ CarriesFrame(relayedOn) /\ relayedOn \in CurrentPackets
        /\ relayedOn' = NothingSent /\ UNCHANGED <<motion, toRelayed, relayClock>>
        /\ handedOn' = [relayedOn EXCEPT !.position = relayedOn.position * Fine]
    BY DEF PacketInv, ReadFrame, CarriesFrame, DecodedV2
  <1>2. /\ handedOn'.position = relayedOn.position * Fine
        /\ handedOn'.sourceTime = relayedOn.sourceTime
        /\ handedOn'.duration = relayedOn.duration
        /\ relayedOn.version = 2
    BY <1>1 DEF CurrentPackets
  <1>3. FrameSurvives'
    BY <1>1, <1>2 DEF FrameSurvives, CarriesFrame, NearPublished
  <1> QED BY <1>1, <1>3 DEF PacketInv, CarriesFrame, NearPublished

LEMMA NextPacket ==
    ASSUME PacketInv, [PacketNext]_packetVars
    PROVE  PacketInv'
  <1>1. CASE UNCHANGED packetVars
    BY <1>1 DEF packetVars, PacketInv, CarriesFrame, NearPublished, FrameSurvives
  <1> QED BY <1>1, SendFrameKeeps, ForwardFrameKeeps, ReadFrameKeeps DEF PacketNext

\* Every packet that is under way carries the frame that was published.
THEOREM PacketInductive == PacketSpec => []PacketInv
  BY InitPacket, NextPacket, PTL DEF PacketSpec

\* A frame reaches the viewer with its position to within half a unit of the packet,
\* and one of a current host with the host's time and duration.
THEOREM FrameIsCarried == PacketSpec => []FrameSurvives
  <1>1. PacketInv => FrameSurvives
    BY DEF PacketInv
  <1> QED BY <1>1, PacketInductive, PTL

(***************************************************************************)
(* The list of live rooms.                                                 *)
(***************************************************************************)
\* Taking out one that is not the last leaves the last where it was, at the end.
LEMMA WithoutKeepsLast ==
    ASSUME NEW S, NEW s \in Seq(S), NEW i \in DOMAIN s
    PROVE  /\ Without(s, i) \in Seq(S) /\ Len(Without(s, i)) = Len(s) - 1
           /\ i # Len(s) => /\ Without(s, i) # <<>>
                            /\ Without(s, i)[Len(Without(s, i))] = s[Len(s)]
  <1>1. PICK n \in Nat : n = Len(s) /\ i \in 1..n
    OBVIOUS
  <1>2. PICK before \in Seq(S) : /\ before = SubSeq(s, 1, i - 1) /\ Len(before) = i - 1
    <2>1. SubSeq(s, 1, i - 1) \in Seq(S) /\ Len(SubSeq(s, 1, i - 1)) = i - 1
      BY <1>1
    <2> QED BY <2>1
  <1>3. PICK after \in Seq(S) :
           /\ after = SubSeq(s, i + 1, n) /\ Len(after) = n - i
           /\ \A j \in 1..n - i : after[j] = s[i + j]
    <2>1. /\ SubSeq(s, i + 1, n) \in Seq(S) /\ Len(SubSeq(s, i + 1, n)) = n - i
          /\ \A j \in 1..n - i : SubSeq(s, i + 1, n)[j] = s[i + j]
      BY <1>1
    <2> QED BY <2>1
  <1>4. Without(s, i) = before \o after
    BY <1>1, <1>2, <1>3 DEF Without
  <1>5. before \o after \in Seq(S) /\ Len(before \o after) = n - 1
    <2>1. before \o after \in Seq(S)
      BY <1>2, <1>3
    <2>2. Len(before \o after) = Len(before) + Len(after)
      BY <1>2, <1>3
    <2> QED BY <1>1, <1>2, <1>3, <2>1, <2>2
  <1>6. ASSUME i # n
        PROVE  (before \o after)[n - 1] = s[n] /\ before \o after # <<>>
    <2>1. n - i \in 1..n - i /\ n - 1 = Len(before) + (n - i)
      <3>1. Len(before) = i - 1
        BY <1>2
      <3> QED BY <1>1, <1>6, <3>1
    <2>2. (before \o after)[n - 1] = after[n - i]
      <3>1. PICK m \in Nat \ {0} : m = n - i
        BY <1>1, <1>6
      <3>2. (before \o after)[Len(before) + m] = after[m]
        <4>1. m \in 1..Len(after)
          BY <1>3, <3>1
        <4> QED BY <4>1
      <3> QED BY <2>1, <3>1, <3>2
    <2>3. after[n - i] = s[n]
      <3>1. PICK m \in 1..n - i : m = n - i /\ i + m = n
        BY <1>1, <2>1
      <3>2. after[m] = s[i + m]
        BY <1>3, <3>1, Zenon
      <3> QED BY <3>1, <3>2, Zenon
    <2>4. Len(before \o after) # 0
      BY <1>1, <1>5, <1>6
    <2> QED BY <2>2, <2>3, <2>4
  <1> QED BY <1>1, <1>4, <1>5, <1>6

LEMMA DirectoryTypes ==
    ASSUME DirectoryInv
    PROVE  /\ MaxChanges \in Nat /\ MaxAsked \in Nat \ {0}
           /\ state \in [Servers -> 0..MaxChanges] /\ selected \in Servers
           /\ inFlight \in Seq(ListRequests) /\ Len(inFlight) \in Nat /\ Len(inFlight) <= MaxAsked
           /\ rooms.server \in Servers /\ rooms.change \in -1..MaxChanges
           /\ rooms.change <= state[rooms.server]
           /\ \A i \in 1..Len(inFlight) :
                 /\ inFlight[i].server \in Servers /\ inFlight[i].silent \in BOOLEAN
                 /\ inFlight[i].answer \in -2..MaxChanges /\ inFlight[i] \in ListRequests
                 /\ inFlight[i].answer <= state[inFlight[i].server]
  <1>1. /\ MaxChanges \in Nat /\ MaxAsked \in Nat \ {0}
        /\ state \in [Servers -> 0..MaxChanges] /\ selected \in Servers
        /\ inFlight \in Seq(ListRequests) /\ Len(inFlight) <= MaxAsked
        /\ rooms.server \in Servers /\ rooms.change \in -1..MaxChanges
        /\ rooms.change <= state[rooms.server]
    BY DirectoryAssumption DEF DirectoryInv, DirectoryTypeOK
  <1>2. ASSUME NEW i \in 1..Len(inFlight)
        PROVE  inFlight[i] \in ListRequests /\ inFlight[i].answer <= state[inFlight[i].server]
    <2>1. i \in DOMAIN inFlight /\ inFlight[i] \in ListRequests
      BY <1>1, <1>2
    <2> QED BY <2>1 DEF DirectoryInv
  <1>3. \A request \in ListRequests :
           /\ request.server \in Servers /\ request.silent \in BOOLEAN
           /\ request.answer \in -2..MaxChanges
    BY DEF ListRequests, Failure
  <1> QED BY <1>1, <1>2, <1>3

LEMMA RequestTyped ==
    ASSUME NEW server \in Servers, NEW silent \in BOOLEAN
    PROVE  /\ Request(server, silent) \in ListRequests
           /\ Request(server, silent).server = server
           /\ Request(server, silent).answer \in Int /\ Request(server, silent).answer < 0
  BY DirectoryAssumption DEF Request, ListRequests, Unanswered, Failure

LEMMA InitDirectory == DirectoryInit => DirectoryInv
  <1> SUFFICES ASSUME DirectoryInit
               PROVE  DirectoryInv
    OBVIOUS
  <1>1. /\ state \in [Servers -> 0..MaxChanges] /\ \A s \in Servers : state[s] = 0
        /\ selected \in Servers /\ authenticated \in BOOLEAN /\ browsing \in BOOLEAN
        /\ latestAsked \in BOOLEAN /\ listLoading \in BOOLEAN /\ failed \in BOOLEAN
    <2>1. /\ state = [s \in Servers |-> 0] /\ selected \in Servers
          /\ authenticated \in BOOLEAN /\ browsing = TRUE /\ failed = FALSE
      BY DEF DirectoryInit
    <2>2. latestAsked \in BOOLEAN /\ listLoading \in BOOLEAN /\ browsing \in BOOLEAN /\ failed \in BOOLEAN
      BY DEF DirectoryInit
    <2>3. state \in [Servers -> 0..MaxChanges] /\ \A s \in Servers : state[s] = 0
      BY <2>1, DirectoryAssumption
    <2> QED BY <2>1, <2>2, <2>3
  <1>2. rooms.server = selected /\ rooms.change = -1
    BY DEF DirectoryInit, NoRooms
  <1>3. PICK request \in ListRequests :
           /\ request = Request(selected, FALSE) /\ request.server = selected
           /\ request.answer \in Int /\ request.answer < 0
    BY <1>1, RequestTyped
  <1>r. request.server = selected /\ request.answer \in Int /\ request.answer < 0
    BY <1>3
  <1>4. inFlight = IF authenticated THEN <<request>> ELSE <<>>
    BY <1>3 DEF DirectoryInit
  <1>5. inFlight \in Seq(ListRequests) /\ Len(inFlight) <= MaxAsked
    <2>1. CASE authenticated
      <3>1. inFlight = <<request>>
        BY <1>4, <2>1
      <3>2. inFlight \in Seq(ListRequests) /\ Len(inFlight) = 1
        BY <3>1
      <3> QED BY <3>2, DirectoryAssumption
    <2>2. CASE ~authenticated
      <3>1. inFlight = <<>>
        BY <1>4, <2>2
      <3> QED BY <3>1, DirectoryAssumption
    <2> QED BY <2>1, <2>2
  <1>6. LatestIsNew
    <2>1. ASSUME latestAsked
          PROVE  inFlight = <<request>>
      BY <1>4, <2>1 DEF DirectoryInit
    <2>2. ASSUME inFlight = <<request>>
          PROVE  inFlight # <<>> /\ Latest = request
      BY <2>2 DEF Latest
    <2>3. request.server = selected /\ ~(request.answer >= 0)
      BY <1>r
    <2> QED BY <2>1, <2>2, <2>3 DEF LatestIsNew
  <1>7. DirectoryTypeOK
    BY <1>1, <1>2, <1>5, DirectoryAssumption DEF DirectoryTypeOK
  <1>8. ASSUME NEW i \in DOMAIN inFlight
        PROVE  inFlight[i].answer <= state[inFlight[i].server]
    <2>1. inFlight[i] = request
      BY <1>4, <1>8
    <2>2. state[request.server] = 0
      BY <1>1, <1>3
    <2> QED BY <1>r, <2>1, <2>2
  <1>9. rooms.change <= state[rooms.server]
    BY <1>1, <1>2
  <1> QED BY <1>6, <1>7, <1>8, <1>9 DEF DirectoryInv

\* A request is made for the server that is selected then.
LEMMA RefreshKeeps ==
    ASSUME DirectoryInv, NEW server \in Servers, NEW silent \in BOOLEAN,
           Refresh(server, silent), state' = state, server = selected', selected' \in Servers,
           authenticated' \in BOOLEAN, browsing' \in BOOLEAN
    PROVE  DirectoryInv'
  <1>1. PICK n \in Nat : n = Len(inFlight)
    BY DirectoryTypes
  <1>2. PICK request \in ListRequests :
           /\ request = Request(server, silent) /\ request.server = server
           /\ request.answer \in Int /\ request.answer < 0
    BY RequestTyped
  <1>3. /\ inFlight' = Append(inFlight, request) /\ n < MaxAsked /\ rooms' = rooms
        /\ failed' = failed /\ latestAsked' = TRUE
    BY <1>1, <1>2 DEF Refresh
  <1>4. /\ inFlight' \in Seq(ListRequests) /\ Len(inFlight') = n + 1 /\ inFlight'[n + 1] = request
        /\ inFlight' # <<>>
    BY <1>1, <1>3, DirectoryTypes
  <1>5. listLoading' \in BOOLEAN
    BY DEF Refresh
  <1>6. LatestIsNew'
    BY <1>2, <1>4 DEF LatestIsNew, Latest
  <1>7. failed' \in BOOLEAN
    BY <1>3 DEF DirectoryInv, DirectoryTypeOK
  <1>8. DirectoryTypeOK'
    BY <1>1, <1>3, <1>4, <1>5, <1>7, DirectoryTypes DEF DirectoryTypeOK
  <1>9. ASSUME NEW i \in DOMAIN inFlight'
        PROVE  inFlight'[i].answer <= state'[inFlight'[i].server]
    <2>1. CASE i = n + 1
      <3>1. inFlight'[i] = request /\ state[server] \in Nat
        BY <1>4, <2>1, DirectoryTypes
      <3> QED BY <1>2, <3>1
    <2>2. CASE i # n + 1
      <3>1. i \in 1..n /\ inFlight'[i] = inFlight[i]
        BY <1>1, <1>3, <1>4, <1>9, <2>2, DirectoryTypes
      <3> QED BY <1>1, <3>1, DirectoryTypes
    <2> QED BY <2>1, <2>2
  <1> QED BY <1>3, <1>6, <1>8, <1>9, DirectoryTypes DEF DirectoryInv

LEMMA UserKeeps ==
    ASSUME DirectoryInv, User \/ RefreshTimerFires
    PROVE  DirectoryInv'
  <1>1. selected \in Servers /\ authenticated \in BOOLEAN /\ browsing \in BOOLEAN
    BY DEF DirectoryInv, DirectoryTypeOK
  <1>2. ASSUME Kept, state' = state, selected' \in Servers, authenticated' \in BOOLEAN,
               browsing' \in BOOLEAN, Visible' => FALSE
        PROVE  DirectoryInv'
    BY <1>2 DEF Kept, DirectoryInv, DirectoryTypeOK, LatestIsNew, Latest
  <1>3. CASE ChooseServer
    <2>1. /\ selected' \in Servers /\ state' = state /\ authenticated' = authenticated
          /\ browsing' = browsing /\ ShowsAnew(Visible, selected')
      BY <1>3 DEF ChooseServer
    <2>2. CASE Visible
      BY <1>1, <2>1, <2>2, RefreshKeeps DEF ShowsAnew
    <2>3. CASE ~Visible
      BY <1>1, <1>2, <2>1, <2>3 DEF ShowsAnew, Visible
    <2> QED BY <2>2, <2>3
  <1>4. CASE ChangeScreen
    <2>1. /\ selected' = selected /\ state' = state /\ authenticated' = authenticated
          /\ browsing' \in BOOLEAN /\ ShowsAnew(browsing', selected)
      BY <1>4 DEF ChangeScreen
    <2>2. CASE browsing'
      BY <1>1, <2>1, <2>2, RefreshKeeps DEF ShowsAnew
    <2>3. CASE ~browsing'
      BY <1>1, <1>2, <2>1, <2>3 DEF ShowsAnew, Visible
    <2> QED BY <2>2, <2>3
  <1>5. CASE LogIn
    <2>1. /\ selected' = selected /\ state' = state /\ authenticated' = TRUE
          /\ browsing' = TRUE /\ Refresh(selected, FALSE)
      BY <1>5 DEF LogIn, ShowsAnew
    <2> QED BY <1>1, <2>1, RefreshKeeps
  <1>6. CASE LogOut
    BY <1>1, <1>2, <1>6 DEF LogOut, Visible
  <1>7. CASE PressRefresh
    <2>1. /\ selected' = selected /\ state' = state /\ authenticated' = authenticated
          /\ browsing' = browsing /\ Refresh(selected, FALSE)
      BY <1>7 DEF PressRefresh
    <2> QED BY <1>1, <2>1, RefreshKeeps
  <1>8. CASE RefreshTimerFires
    <2>1. /\ selected' = selected /\ state' = state /\ authenticated' = authenticated
          /\ browsing' = browsing /\ Refresh(selected, TRUE)
      BY <1>8 DEF RefreshTimerFires
    <2> QED BY <1>1, <2>1, RefreshKeeps
  <1> QED BY <1>3, <1>4, <1>5, <1>6, <1>7, <1>8 DEF User

LEMMA RoomsChangeKeeps ==
    ASSUME DirectoryInv, NEW server \in Servers, RoomsChange(server)
    PROVE  DirectoryInv'
  <1>1. /\ state[server] < MaxChanges /\ state' = [state EXCEPT ![server] = @ + 1]
        /\ UNCHANGED <<selected, authenticated, browsing, inFlight, latestAsked, listLoading,
                       rooms, failed>>
    BY DEF RoomsChange, Kept
  <1>2. state' \in [Servers -> 0..MaxChanges] /\ \A s \in Servers : state[s] <= state'[s]
    BY <1>1, DirectoryTypes
  <1>3. rooms.change <= state'[rooms.server]
    BY <1>2, DirectoryTypes
  <1>4. ASSUME NEW i \in DOMAIN inFlight
        PROVE  inFlight[i].answer <= state'[inFlight[i].server]
    <2>1. /\ inFlight[i].server \in Servers /\ inFlight[i].answer \in -2..MaxChanges
          /\ inFlight[i].answer <= state[inFlight[i].server]
      BY <1>4, DirectoryTypes
    <2> QED BY <1>2, <2>1, DirectoryTypes
  <1> QED BY <1>1, <1>2, <1>3, <1>4 DEF DirectoryInv, DirectoryTypeOK, LatestIsNew, Latest, Visible

LEMMA ListsKeeps ==
    ASSUME DirectoryInv, NEW i \in DOMAIN inFlight, Lists(i)
    PROVE  DirectoryInv'
  <1>1. PICK n \in Nat : n = Len(inFlight) /\ i \in 1..n
    BY DirectoryTypes
  <1>2. PICK was \in ListRequests : was = inFlight[i] /\ was.server \in Servers
    BY <1>1, DirectoryTypes
  <1>3. PICK heard \in -2..MaxChanges :
           /\ heard = state[was.server] \/ heard = -2
           /\ inFlight' = [inFlight EXCEPT ![i].answer = heard]
    <2>1. state[was.server] \in -2..MaxChanges /\ -2 \in -2..MaxChanges
      BY <1>2, DirectoryTypes
    <2> QED BY <1>2, <2>1 DEF Lists, Failure
  <1>4. PICK told \in ListRequests :
           told = [was EXCEPT !.answer = heard] /\ told.server = was.server /\ told.answer = heard
    <2>1. PICK told : told = [was EXCEPT !.answer = heard]
      OBVIOUS
    <2>2. told \in ListRequests /\ told.server = was.server /\ told.answer = heard
      BY <1>2, <1>3, <2>1 DEF ListRequests, Failure
    <2> QED BY <2>1, <2>2
  <1>5. inFlight' = [inFlight EXCEPT ![i] = told]
    BY <1>2, <1>3, <1>4
  <1>6. /\ inFlight' \in Seq(ListRequests) /\ Len(inFlight') = n
        /\ inFlight'[n] = IF i = n THEN told ELSE inFlight[n]
        /\ inFlight # <<>> => inFlight' # <<>>
    BY <1>1, <1>5, DirectoryTypes
  <1>7. UNCHANGED <<state, selected, authenticated, browsing, latestAsked, listLoading, rooms, failed>>
    BY DEF Lists
  <1>8. LatestIsNew'
    <2>1. CASE i = n
      <3>1. told.answer >= 0 /\ told.server = rooms.server => told.answer >= rooms.change
        BY <1>3, <1>4, DirectoryTypes
      <3> QED BY <1>1, <1>2, <1>4, <1>6, <1>7, <2>1, <3>1 DEF DirectoryInv, LatestIsNew, Latest, Visible
    <2>2. CASE i # n
      BY <1>1, <1>6, <1>7, <2>2 DEF DirectoryInv, LatestIsNew, Latest, Visible
    <2> QED BY <2>1, <2>2
  <1>9. ASSUME NEW j \in DOMAIN inFlight'
        PROVE  inFlight'[j].answer <= state[inFlight'[j].server]
    <2>1. j \in 1..n /\ inFlight'[j] = IF j = i THEN told ELSE inFlight[j]
      BY <1>1, <1>5, <1>6, <1>9, DirectoryTypes
    <2>2. told.answer <= state[told.server]
      BY <1>2, <1>3, <1>4, DirectoryTypes
    <2> QED BY <1>1, <2>1, <2>2, DirectoryTypes
  <1> QED BY <1>1, <1>6, <1>7, <1>8, <1>9 DEF DirectoryInv, DirectoryTypeOK

\* An answer that counts is that of the latest request: it is no older than what is on
\* show, and of the selected server while the list is in view.
LEMMA AnsweredForward ==
    ASSUME DirectoryInv, NEW i \in DOMAIN inFlight, Answered(i), rooms' # rooms
    PROVE  /\ IsLatest(i)
           /\ rooms'.server \in Servers /\ rooms'.change \in 0..MaxChanges
           /\ Visible => rooms'.server = selected
           /\ rooms.server = rooms'.server => rooms'.change >= rooms.change
  <1>1. /\ IsLatest(i) /\ inFlight[i].answer # -1 /\ inFlight[i].answer # -2
        /\ rooms' = [server |-> inFlight[i].server, change |-> inFlight[i].answer]
    BY DEF Answered, Unanswered, Failure
  <1>2. latestAsked /\ i = Len(inFlight) /\ i \in 1..Len(inFlight)
    BY <1>1, DirectoryTypes DEF IsLatest
  <1>3. inFlight[i].answer \in 0..MaxChanges /\ inFlight[i].server \in Servers
    BY <1>1, <1>2, DirectoryTypes
  <1>4. rooms'.server = inFlight[i].server /\ rooms'.change = inFlight[i].answer
    BY <1>1
  <1>5. /\ Visible => inFlight[i].server = selected
        /\ inFlight[i].server = rooms.server => inFlight[i].answer >= rooms.change
    BY <1>2, <1>3 DEF DirectoryInv, LatestIsNew, Latest
  <1> QED BY <1>1, <1>3, <1>4, <1>5

LEMMA AnsweredKeeps ==
    ASSUME DirectoryInv, NEW i \in DOMAIN inFlight, Answered(i)
    PROVE  DirectoryInv'
  <1>1. PICK n \in Nat : n = Len(inFlight) /\ i \in 1..n
    BY DirectoryTypes
  <1>2. /\ inFlight' = Without(inFlight, i)
        /\ UNCHANGED <<state, selected, authenticated, browsing>>
    BY DEF Answered
  <1>3. /\ inFlight' \in Seq(ListRequests) /\ Len(inFlight') = n - 1
        /\ i # n => inFlight' # <<>> /\ inFlight'[Len(inFlight')] = inFlight[n]
    BY <1>1, <1>2, DirectoryTypes, WithoutKeepsLast
  <1>s. ASSUME NEW j \in DOMAIN inFlight'
        PROVE  inFlight'[j].answer <= state[inFlight'[j].server]
    <2> DEFINE Told == {r \in ListRequests : r.answer <= state[r.server]}
    <2>1. inFlight \in Seq(Told)
      BY DirectoryTypes
    <2>2. Without(inFlight, i) \in Seq(Told)
      BY <1>1, <2>1, WithoutKeepsLast
    <2> HIDE DEF Told
    <2>3. inFlight'[j] \in Told
      BY <1>2, <1>s, <2>2
    <2> QED BY <2>3 DEF Told
  <1>4. latestAsked' \in BOOLEAN
    BY DEF Answered
  <1>5. latestAsked' => latestAsked /\ i # n
    BY <1>1 DEF Answered
  <1>6. failed' \in BOOLEAN /\ listLoading' \in BOOLEAN
    <2>1. failed \in BOOLEAN /\ listLoading \in BOOLEAN
      BY DEF DirectoryInv, DirectoryTypeOK
    <2> QED BY <2>1 DEF Answered
  <1>7. CASE rooms' = rooms
    <2>1. LatestIsNew'
      <3> SUFFICES ASSUME latestAsked'
                   PROVE  /\ inFlight' # <<>>
                          /\ Visible' => Latest'.server = selected'
                          /\ (Latest'.answer >= 0 /\ Latest'.server = rooms'.server)
                                => Latest'.answer >= rooms'.change
        BY DEF LatestIsNew
      <3>1. Latest' = Latest /\ inFlight' # <<>>
        BY <1>1, <1>3, <1>5 DEF Latest
      <3>2. Visible' = Visible
        BY <1>2 DEF Visible
      <3> QED BY <1>2, <1>5, <1>7, <3>1, <3>2 DEF DirectoryInv, LatestIsNew
    <2> QED BY <1>1, <1>2, <1>3, <1>4, <1>6, <1>7, <1>s, <2>1, DirectoryTypes
            DEF DirectoryInv, DirectoryTypeOK
  <1>8. CASE rooms' # rooms
    <2>1. IsLatest(i) /\ rooms'.server \in Servers /\ rooms'.change \in 0..MaxChanges
      BY <1>8, AnsweredForward
    <2>2. ~latestAsked'
      BY <1>1, <1>5, <2>1 DEF IsLatest
    <2>3. rooms'.change <= state'[rooms'.server]
      <3>1. rooms' = [server |-> inFlight[i].server, change |-> inFlight[i].answer]
        BY <1>8 DEF Answered
      <3>2. inFlight[i].answer <= state[inFlight[i].server]
        BY <1>1, DirectoryTypes
      <3> QED BY <1>2, <3>1, <3>2
    <2> QED BY <1>1, <1>2, <1>3, <1>4, <1>6, <1>s, <2>1, <2>2, <2>3, DirectoryTypes
            DEF DirectoryInv, DirectoryTypeOK, LatestIsNew
  <1> QED BY <1>7, <1>8


LEMMA NextDirectory ==
    ASSUME DirectoryInv, [DirectoryNext]_directoryVars
    PROVE  DirectoryInv'
  <1>1. CASE UNCHANGED directoryVars
    BY <1>1 DEF directoryVars, DirectoryInv, DirectoryTypeOK, LatestIsNew, Latest, Visible
  <1> QED BY <1>1, UserKeeps, RoomsChangeKeeps, ListsKeeps, AnsweredKeeps DEF DirectoryNext

\* What the latest request will be answered is never older than the list on show.
THEOREM DirectoryInductive == DirectorySpec => []DirectoryInv
  BY InitDirectory, NextDirectory, PTL DEF DirectorySpec

\* In whichever order answers come: a list that is put on show is one of the selected
\* server, and none is replaced by an older one of its server.
THEOREM ListOnlyGoesForward == DirectorySpec => ListGoesForward
  <1>1. ASSUME DirectoryInv, [DirectoryNext]_directoryVars
        PROVE  [rooms' # rooms =>
                  /\ Visible => rooms'.server = selected
                  /\ rooms.server = rooms'.server => rooms'.change >= rooms.change]_directoryVars
    <2> SUFFICES ASSUME DirectoryNext, rooms' # rooms
                 PROVE  /\ Visible => rooms'.server = selected
                        /\ rooms.server = rooms'.server => rooms'.change >= rooms.change
      BY <1>1 DEF directoryVars
    <2>1. PICK i \in DOMAIN inFlight : Answered(i)
      BY DEF DirectoryNext, User, ChooseServer, ChangeScreen, LogIn, LogOut, PressRefresh,
             RefreshTimerFires, ShowsAnew, Refresh, Kept, RoomsChange, Lists
    <2> QED BY <1>1, <2>1, AnsweredForward
  <1> QED BY <1>1, DirectoryInductive, PTL DEF DirectorySpec, ListGoesForward

(***************************************************************************)
(* The buffer of a viewer's delay.                                         *)
(***************************************************************************)
LEMMA LeastOf ==
    ASSUME NEW T, T \subseteq Nat, T # {}
    PROVE  \E x \in T : \A y \in T : x <= y
  <1> DEFINE Less == {p \in Nat \X Nat : p[1] < p[2]}
  <1>1. IsWellFoundedOn(Less, Nat)
    BY NatLessThanWellFounded, Zenon DEF OpToRel
  <1>2. PICK x \in T : \A y \in T : ~ (<<y, x>> \in Less)
    <2> HIDE DEF Less
    <2> QED BY <1>1, WFMin, Zenon
  <1>3. \A y \in T : y < x => <<y, x>> \in Less
    OBVIOUS
  <1>4. \A y \in T : ~ (y < x)
    <2> HIDE DEF Less
    <2> QED BY <1>2, <1>3
  <1> QED BY <1>4

LEMMA GreatestOf ==
    ASSUME NEW k \in Nat, NEW T, T \subseteq 0..k, T # {}
    PROVE  \E x \in T : \A y \in T : y <= x
  <1>1. {k - x : x \in T} \subseteq Nat /\ {k - x : x \in T} # {}
    <2>1. ASSUME NEW x \in T PROVE k - x \in Nat
      <3>1. x \in 0..k
        OBVIOUS
      <3> QED BY <3>1
    <2>2. PICK x \in T : TRUE
      OBVIOUS
    <2>3. k - x \in {k - y : y \in T}
      BY <2>2
    <2> QED BY <2>1, <2>3
  <1>2. PICK z \in {k - x : x \in T} : \A y \in {k - x : x \in T} : z <= y
    BY <1>1, LeastOf
  <1>3. PICK x \in T : z = k - x
    BY <1>2
  <1>4. \A y \in T : k - x <= k - y
    BY <1>2, <1>3
  <1> QED BY <1>4

LEMMA MinIs == ASSUME NEW T, T \subseteq Nat, T # {} PROVE Min(T) \in T
  <1>1. \E x \in T : \A y \in T : x <= y
    BY LeastOf
  <1> QED BY <1>1, Zenon DEF Min

LEMMA MaxIs ==
    ASSUME NEW k \in Nat, NEW T, T \subseteq 0..k, T # {}
    PROVE  Max(T) \in T /\ \A y \in T : y <= Max(T)
  <1>1. \E x \in T : \A y \in T : x >= y
    BY GreatestOf
  <1>2. Max(T) \in T /\ \A y \in T : Max(T) >= y
    BY <1>1, Zenon DEF Max
  <1> QED BY <1>2

LEMMA FirstKept == ASSUME NEW k \in Nat PROVE Max({1, k}) = IF k = 0 THEN 1 ELSE k
  <1>1. {1, k} \subseteq 0..(k + 1) /\ {1, k} # {} /\ k + 1 \in Nat
    OBVIOUS
  <1>2. Max({1, k}) \in {1, k} /\ \A y \in {1, k} : y <= Max({1, k})
    BY <1>1, MaxIs
  <1> QED BY <1>2

LEMMA SequenceOf ==
    ASSUME NEW S, NEW s \in Seq(S)
    PROVE  /\ Len(s) \in Nat /\ DOMAIN s = 1..Len(s)
           /\ \A i \in DOMAIN s : s[i] \in S
           /\ s # <<>> => Head(s) \in S
  OBVIOUS

LEMMA BufferTypes ==
    ASSUME BufferTypeOK
    PROVE  /\ now \in Nat /\ delay \in Nat /\ lastTarget \in Int /\ emitted \in Nat /\ received \in Nat
           /\ Len(entries) \in Nat /\ DOMAIN entries = 1..Len(entries)
           /\ \A i \in DOMAIN entries :
                 entries[i] \in [n : Nat \ {0}, at : Times]
                 /\ entries[i].n \in Nat \ {0} /\ entries[i].at \in Nat /\ entries[i].at \in Times
           /\ played.n \in Nat /\ played.at \in Int /\ played.real \in BOOLEAN
  <1>1. Times \subseteq Nat
    BY DelayAssumption DEF Times
  <1>2. now \in Nat /\ delay \in Nat /\ lastTarget \in Int /\ emitted \in Nat /\ received \in Nat
    BY <1>1, DelayAssumption DEF BufferTypeOK
  <1>3. Len(entries) \in Nat /\ DOMAIN entries = 1..Len(entries)
        /\ \A i \in DOMAIN entries : entries[i] \in [n : Nat \ {0}, at : Times]
    <2>1. entries \in Seq([n : Nat \ {0}, at : Times])
      BY DEF BufferTypeOK
    <2> QED BY <2>1, SequenceOf
  <1>4. \A i \in DOMAIN entries : entries[i].n \in Nat \ {0} /\ entries[i].at \in Times
    BY <1>3
  <1>5. played.n \in Nat /\ played.at \in Int /\ played.real \in BOOLEAN
    BY DEF BufferTypeOK
  <1> QED BY <1>1, <1>2, <1>3, <1>4, <1>5

\* What a sample at a time finds: no frame yet, a frame of that very moment, or the
\* last one before it.
LEMMA BeforeIs ==
    ASSUME BufferTypeOK, EntriesInOrder, NEW t \in Int
    PROVE  \/ Before(t) = 0 /\ \A i \in DOMAIN entries : t < entries[i].at
           \/ Before(t) \in DOMAIN entries /\ entries[Before(t)].at = t
           \/ /\ Before(t) \in DOMAIN entries /\ entries[Before(t)].at < t
              /\ \A i \in DOMAIN entries : i > Before(t) => t < entries[i].at
  <1> DEFINE same    == {i \in DOMAIN entries : entries[i].at = t}
             earlier == {i \in DOMAIN entries : entries[i].at < t}
  <1>1. PICK k \in Nat : k = Len(entries) /\ DOMAIN entries = 1..k
    BY BufferTypes
  <1>2. \A i \in DOMAIN entries : entries[i].at \in Nat
    BY BufferTypes
  <1>3. Before(t) = IF same # {} THEN Min(same) ELSE Max(earlier \cup {0})
    BY DEF Before
  <1>4. CASE same # {}
    <2>1. same \subseteq Nat
      BY <1>1
    <2>2. Min(same) \in same
      <3> HIDE DEF same
      <3> QED BY <1>4, <2>1, MinIs
    <2>3. Before(t) \in same
      <3> HIDE DEF same, earlier
      <3> QED BY <1>3, <1>4, <2>2
    <2> QED BY <2>3
  <1>5. CASE same = {}
    <2>1. earlier \cup {0} \subseteq 0..k /\ earlier \cup {0} # {}
      BY <1>1
    <2>2. PICK m \in 0..k : /\ m = Max(earlier \cup {0}) /\ m \in earlier \cup {0}
                            /\ \A y \in earlier \cup {0} : y <= m
      <3> HIDE DEF earlier
      <3> QED BY <2>1, MaxIs
    <2>3. Before(t) = m
      <3> HIDE DEF same, earlier
      <3> QED BY <1>3, <1>5, <2>2
    <2>4. ASSUME NEW i \in DOMAIN entries, i > m
          PROVE  ~ (entries[i].at < t) /\ entries[i].at # t
      <3>1. i \notin same
        <4> HIDE DEF same
        <4> QED BY <1>5
      <3>2. i \notin earlier
        <4>1. i \in Int /\ m \in Int
          BY <1>1, <2>2
        <4>2. i \in earlier => i <= m
          <5> HIDE DEF earlier
          <5> QED BY <2>2
        <4> QED BY <4>1, <4>2, <2>4
      <3> QED BY <3>1, <3>2
    <2>5. \A i \in DOMAIN entries : i > m => t < entries[i].at
      BY <1>2, <2>4
    <2>6. m = 0 => \A i \in DOMAIN entries : i > m
      BY <1>1
    <2>7. m # 0 => m \in DOMAIN entries /\ entries[m].at < t
      BY <2>2
    <2> QED BY <2>3, <2>5, <2>6, <2>7
  <1> QED BY <1>4, <1>5

\* The frames that are kept are those from some place on.
LEMMA RestOfFrames ==
    ASSUME NEW S, NEW s \in Seq(S), NEW m \in Nat \ {0}, m <= Len(s) + 1
    PROVE  /\ SubSeq(s, m, Len(s)) \in Seq(S)
           /\ Len(SubSeq(s, m, Len(s))) = Len(s) - m + 1
           /\ DOMAIN SubSeq(s, m, Len(s)) = 1..(Len(s) - m + 1)
           /\ \A i \in 1..(Len(s) - m + 1) : SubSeq(s, m, Len(s))[i] = s[m + i - 1]
  OBVIOUS

LEMMA NextSampleTyped ==
    ASSUME BufferTypeOK, NEW buffer \in Seq([n : Nat \ {0}, at : Times]), NEW shown
    PROVE  NextSample(buffer, shown) \in Nat \cup {Never}
  <1>1. now \in Nat /\ delay \in Nat /\ Interval \in Nat
    BY BufferTypes, DelayAssumption
  <1>2. CASE buffer = <<>>
    BY <1>2 DEF NextSample
  <1>3. CASE buffer # <<>>
    <2>1. Head(buffer) \in [n : Nat \ {0}, at : Times]
      BY <1>3, SequenceOf
    <2>2. PICK first \in Nat : first = Head(buffer).at
      BY <2>1, DelayAssumption DEF Times
    <2>3. first - (now - delay) + now = first + delay /\ first + delay \in Nat /\ now + Interval \in Nat
      BY <1>1
    <2>4. NextSample(buffer, shown) \in {now + (first - (now - delay)), now + Interval, now, Never}
      BY <1>3, <2>2 DEF NextSample
    <2> QED BY <1>1, <2>3, <2>4
  <1> QED BY <1>2, <1>3

\* What is handed on is later than what was handed on before it.
ForwardStep ==
    played' # played =>
        /\ played'.at >= played.at
        /\ played'.n >= played.n
        /\ played'.real /\ played.real => played'.n > played.n

LEMMA InitBuffer == BufferInit => BufferInv
  <1> SUFFICES ASSUME BufferInit PROVE BufferInv
    OBVIOUS
  <1>1. entries = <<>> /\ DOMAIN entries = {} /\ Len(entries) = 0
    BY DEF BufferInit
  <1>2. BufferTypeOK
    BY <1>1, DelayAssumption DEF BufferInit, BufferTypeOK, Times, Never
  <1> QED BY <1>1, <1>2 DEF BufferInit, BufferInv, EntriesInOrder, Never

LEMMA TickKeeps == ASSUME BufferInv, Tick PROVE BufferInv' /\ ForwardStep
  <1>1. /\ delay' = delay /\ entries' = entries /\ lastTarget' = lastTarget /\ emitted' = emitted
        /\ playTimer' = playTimer /\ received' = received /\ played' = played
        /\ now' = now + 1 /\ now < Horizon
    BY DEF Tick
  <1>2. /\ now \in Nat /\ Horizon \in Nat /\ played.at \in Int
        /\ \A i \in DOMAIN entries : entries[i].at \in Nat
    BY BufferTypes, DelayAssumption DEF BufferInv
  <1>3. BufferTypeOK'
    BY <1>1, <1>2 DEF BufferInv, BufferTypeOK, Times
  <1>4. EntriesInOrder'
    BY <1>1, <1>2 DEF BufferInv, EntriesInOrder
  <1>5. \A i \in DOMAIN entries : StillToPlay(i)' <=> StillToPlay(i)
    BY <1>1 DEF StillToPlay
  <1>6. \A i \in DOMAIN entries : Reached(i)' <=> Reached(i)
    BY <1>1 DEF Reached
  <1>7. (\A i \in DOMAIN entries : StillToPlay(i) \/ Reached(i))'
    BY <1>1, <1>5, <1>6 DEF BufferInv
  <1>8. (played.n <= received /\ played.at <= now)'
    BY <1>1, <1>2 DEF BufferInv
  <1> QED BY <1>1, <1>3, <1>4, <1>7, <1>8 DEF BufferInv, ForwardStep

\* a buffer that is emptied
LEMMA EmptyKeeps ==
    ASSUME BufferInv, EmptyBuffer, delay' \in Delays, UNCHANGED <<now, received, played>>
    PROVE  BufferInv' /\ ForwardStep
  <1>1. entries' = <<>> /\ DOMAIN entries' = {} /\ Len(entries') = 0
    BY DEF EmptyBuffer
  <1>2. BufferTypeOK'
    BY <1>1, DelayAssumption DEF BufferInv, BufferTypeOK, EmptyBuffer, Times, Never
  <1> QED BY <1>1, <1>2 DEF BufferInv, EntriesInOrder, ForwardStep

LEMMA ChangeDelayKeeps == ASSUME BufferInv, ChangeDelay PROVE BufferInv' /\ ForwardStep
  BY EmptyKeeps DEF ChangeDelay

LEMMA ClearBufferKeeps == ASSUME BufferInv, ClearBuffer PROVE BufferInv' /\ ForwardStep
  <1>1. delay' \in Delays
    BY DEF ClearBuffer, BufferInv, BufferTypeOK
  <1> QED BY <1>1, EmptyKeeps DEF ClearBuffer

\* a frame that is put at the end, and one that makes room for it
LEMMA AddedFrame ==
    ASSUME NEW S, NEW s \in Seq(S), NEW e \in S, NEW most \in Nat \ {0}, Len(s) <= most,
           NEW kept, kept = IF Len(Append(s, e)) > most THEN Tail(Append(s, e)) ELSE Append(s, e)
    PROVE  \E k \in {0, 1} :
              /\ kept \in Seq(S) /\ Len(kept) = Len(s) + 1 - k /\ Len(kept) <= most
              /\ \A i \in 1..(Len(s) - k) : kept[i] = s[i + k]
              /\ kept[Len(s) + 1 - k] = e
              /\ k = 1 => Len(s) >= 1
  <1>1. /\ Append(s, e) \in Seq(S) /\ Len(Append(s, e)) = Len(s) + 1
        /\ \A i \in 1..Len(s) : Append(s, e)[i] = s[i]
        /\ Append(s, e)[Len(s) + 1] = e
    OBVIOUS
  <1>2. CASE Len(s) + 1 > most
    <2>1. Len(s) \in Nat /\ Len(s) >= 1
      BY <1>2
    <2>2. PICK added \in Seq(S) : added = Append(s, e)
      BY <1>1
    <2>3. Tail(added) \in Seq(S) /\ Len(Tail(added)) = Len(s)
          /\ \A i \in 1..Len(s) : Tail(added)[i] = added[i + 1]
      BY <1>1, <2>1, <2>2
    <2>4. kept = Tail(added)
      BY <1>1, <1>2, <2>2
    <2>5. \A i \in 1..(Len(s) - 1) : kept[i] = s[i + 1]
      BY <1>1, <2>1, <2>2, <2>3, <2>4
    <2>6. kept[Len(s)] = e
      BY <1>1, <2>1, <2>2, <2>3, <2>4
    <2> QED BY <1>2, <2>1, <2>3, <2>4, <2>5, <2>6
  <1>3. CASE ~ (Len(s) + 1 > most)
    <2>1. kept = Append(s, e)
      BY <1>1, <1>3
    <2> QED BY <1>1, <1>3, <2>1
  <1> QED BY <1>2, <1>3

LEMMA FrameArrivesKeeps == ASSUME BufferInv, FrameArrives PROVE BufferInv' /\ ForwardStep
  <1>1. /\ now' = now /\ delay' = delay /\ lastTarget' = lastTarget /\ emitted' = emitted
        /\ received' = received + 1 /\ received < MaxReceived
    BY DEF FrameArrives
  <1>2. /\ now \in Nat /\ received \in Nat /\ played.n \in Nat /\ played.at \in Int
        /\ MaxReceived \in Nat /\ MaxFrames \in Nat \ {0} /\ now \in Times
        /\ played.n <= received /\ played.at <= now
    BY BufferTypes, DelayAssumption DEF BufferInv, BufferTypeOK
  <1>3. CASE delay = 0
    <2>1. /\ entries' = entries /\ playTimer' = playTimer
          /\ played' = [n |-> received + 1, at |-> now, real |-> TRUE]
      BY <1>3 DEF FrameArrives
    <2>2. entries = <<>> /\ DOMAIN entries = {}
      BY <1>3 DEF BufferInv, EntriesInOrder
    <2>3. played'.n = received + 1 /\ played'.at = now
      BY <2>1
    <2>4. played' \in [n : Nat, at : Int, real : BOOLEAN]
      BY <1>2, <2>1
    <2>5. BufferTypeOK'
      BY <1>1, <1>2, <2>1, <2>4 DEF BufferInv, BufferTypeOK, Times
    <2>6. EntriesInOrder'
      BY <2>1, <2>2 DEF EntriesInOrder
    <2>7. (\A i \in DOMAIN entries : StillToPlay(i) \/ Reached(i))'
      BY <2>1, <2>2
    <2>8. (played.n <= received /\ played.at <= now)'
      BY <1>1, <1>2, <2>3
    <2>9. ForwardStep
      BY <1>2, <2>3 DEF ForwardStep
    <2> QED BY <2>5, <2>6, <2>7, <2>8, <2>9 DEF BufferInv
  <1>4. CASE delay # 0
    <2> DEFINE Frames == [n : Nat \ {0}, at : Times]
               e == [n |-> received + 1, at |-> now]
    <2>1. /\ played' = played
          /\ entries' = IF Len(Append(entries, e)) > MaxFrames
                        THEN Tail(Append(entries, e)) ELSE Append(entries, e)
          /\ playTimer' = IF playTimer # Never THEN playTimer ELSE NextSample(entries', emitted)
      BY <1>4 DEF FrameArrives
    <2>2. e \in Frames /\ e.n = received + 1 /\ e.at = now
      BY <1>2
    <2>3. entries \in Seq(Frames) /\ Len(entries) <= MaxFrames
      BY DEF BufferInv, BufferTypeOK
    <2>4. PICK k \in {0, 1} :
              /\ entries' \in Seq(Frames) /\ Len(entries') = Len(entries) + 1 - k
              /\ Len(entries') <= MaxFrames
              /\ \A i \in 1..(Len(entries) - k) : entries'[i] = entries[i + k]
              /\ entries'[Len(entries) + 1 - k] = e
              /\ k = 1 => Len(entries) >= 1
      <3> HIDE DEF Frames, e
      <3> QED BY <1>2, <2>1, <2>2, <2>3, AddedFrame
    <2>5. PICK m \in Nat : m = Len(entries) /\ DOMAIN entries = 1..m
      BY BufferTypes DEF BufferInv
    <2>6. DOMAIN entries' = 1..(m + 1 - k) /\ m + 1 - k \in Nat
      <3>1. DOMAIN entries' = 1..Len(entries')
        BY <2>4, SequenceOf
      <3> QED BY <2>4, <2>5, <3>1
    <2>7. ASSUME NEW i \in DOMAIN entries'
          PROVE  /\ i \in Nat
                 /\ \/ i + k \in DOMAIN entries /\ i <= m - k /\ entries'[i] = entries[i + k]
                    \/ i = m + 1 - k /\ entries'[i].n = received + 1 /\ entries'[i].at = now
      <3>1. i \in 1..(m + 1 - k) /\ k \in Int /\ k >= 0
        BY <2>4, <2>6
      <3>2. CASE i = m + 1 - k
        BY <2>2, <2>4, <2>5, <3>1, <3>2
      <3>3. CASE i # m + 1 - k
        <4>1. i \in 1..(m - k) /\ i + k \in 1..m
          BY <3>1, <3>3
        <4>2. entries'[i] = entries[i + k]
          BY <2>4, <2>5, <4>1
        <4> QED BY <2>5, <4>1, <4>2
      <3> QED BY <3>2, <3>3
    <2>8. \A i \in DOMAIN entries : entries[i].n \in Nat /\ entries[i].at \in Nat
      BY BufferTypes DEF BufferInv
    <2>9. playTimer' \in Nat \cup {Never}
      <3>1. NextSample(entries', emitted) \in Nat \cup {Never}
        BY <2>4, NextSampleTyped DEF BufferInv
      <3> QED BY <2>1, <3>1 DEF BufferInv, BufferTypeOK
    <2>10. BufferTypeOK'
      BY <1>1, <1>2, <2>1, <2>4, <2>9 DEF BufferInv, BufferTypeOK, Times
    <2>11. EntriesInOrder'
      <3>1. \A i \in DOMAIN entries : entries[i].n <= received /\ entries[i].at <= now
        BY DEF BufferInv, EntriesInOrder
      <3>2. ASSUME NEW i \in DOMAIN entries'
            PROVE  entries'[i].n <= received + 1 /\ entries'[i].at <= now
        BY <1>2, <2>7, <2>8, <3>1
      <3>3. ASSUME NEW i \in DOMAIN entries', NEW j \in DOMAIN entries', i < j
            PROVE  entries'[i].n < entries'[j].n /\ entries'[i].at <= entries'[j].at
        <4>1. i + k \in DOMAIN entries /\ entries'[i] = entries[i + k] /\ i \in Nat
          BY <2>4, <2>5, <2>6, <2>7, <3>3
        <4>2. CASE j + k \in DOMAIN entries /\ entries'[j] = entries[j + k]
          <5>1. i + k < j + k
            BY <2>4, <2>6, <3>3
          <5> QED BY <4>1, <4>2, <5>1 DEF BufferInv, EntriesInOrder
        <4>3. CASE entries'[j].n = received + 1 /\ entries'[j].at = now
          BY <1>2, <2>8, <3>1, <4>1, <4>3
        <4> QED BY <2>7, <4>2, <4>3
      <3> QED BY <1>1, <1>4, <3>2, <3>3 DEF EntriesInOrder
    <2>12. ASSUME NEW i \in DOMAIN entries'
           PROVE  StillToPlay(i)' \/ Reached(i)'
      <3>1. CASE i = m + 1 - k /\ entries'[i].n = received + 1 /\ entries'[i].at = now
        <4>1. played'.n <= received /\ played'.at <= now
          BY <1>2, <2>1
        <4>2. played'.n < received + 1 /\ played'.n <= received + 1
          BY <1>2, <2>1
        <4>3. StillToPlay(i)'
          BY <3>1, <4>1, <4>2 DEF StillToPlay
        <4> QED BY <4>3
      <3>2. CASE i + k \in DOMAIN entries /\ i <= m - k /\ entries'[i] = entries[i + k]
        <4>1. CASE StillToPlay(i + k)
          BY <2>1, <3>2, <4>1 DEF StillToPlay
        <4>2. CASE Reached(i + k)
          <5>1. i + k = 1 /\ i \in Nat \ {0}
            BY <2>6, <4>2 DEF Reached
          <5>2. k = 0 /\ i = 1
            BY <2>4, <5>1
          <5>3. Len(entries') # 1
            BY <2>4, <2>5, <3>2, <5>2
          <5>4. entries'[i] = entries[1]
            BY <3>2, <5>1
          <5> QED BY <1>1, <2>1, <4>2, <5>1, <5>2, <5>3, <5>4 DEF Reached
        <4> QED BY <3>2, <4>1, <4>2 DEF BufferInv
      <3> QED BY <2>7, <3>1, <3>2
    <2>13. (played.n <= received /\ played.at <= now)'
      BY <1>1, <1>2, <2>1
    <2> QED BY <2>1, <2>10, <2>11, <2>12, <2>13 DEF BufferInv, ForwardStep
  <1> QED BY <1>3, <1>4

\* What a sample hands on, by where the time lies among the frames.
LEMMA SampleIs ==
    ASSUME BufferTypeOK, EntriesInOrder, NEW t \in Int, NEW f \in Sample(t)
    PROVE  LET b == Before(t) IN
           /\ b \in DOMAIN entries /\ entries[b].at <= t
           /\ \/ /\ b = Len(entries) \/ entries[b].at = t
                 /\ f = [n |-> entries[b].n, at |-> entries[b].at, real |-> TRUE]
                 /\ entries[b].n # emitted
              \/ /\ b + 1 \in DOMAIN entries /\ ~ (b = Len(entries) \/ entries[b].at = t)
                 /\ f = [n |-> entries[b + 1].n, at |-> t, real |-> FALSE]
  <1>1. PICK k \in Nat : k = Len(entries) /\ DOMAIN entries = 1..k
    BY BufferTypes
  <1>2. \A i \in DOMAIN entries : entries[i].at \in Nat
    BY BufferTypes
  <1>3. Before(t) # 0
    BY DEF Sample
  <1>4. PICK b \in 1..k : b = Before(t) /\ entries[b].at <= t
    BY <1>1, <1>2, <1>3, BeforeIs
  <1>5. f \in IF b = Len(entries) \/ entries[b].at = t
              THEN {g \in {[n |-> entries[b].n, at |-> entries[b].at, real |-> TRUE]} : g.n # emitted}
              ELSE InterpolateMotionFrame(entries[b], entries[b + 1], t)
    BY <1>3, <1>4 DEF Sample
  <1>6. CASE b = Len(entries) \/ entries[b].at = t
    BY <1>1, <1>4, <1>5, <1>6
  <1>7. CASE ~ (b = Len(entries) \/ entries[b].at = t)
    <2>1. f = [n |-> entries[b + 1].n, at |-> t, real |-> FALSE]
      BY <1>5, <1>7 DEF InterpolateMotionFrame
    <2>2. b + 1 \in DOMAIN entries
      BY <1>1, <1>4, <1>7
    <2> QED BY <1>1, <1>4, <1>7, <2>1, <2>2
  <1> QED BY <1>6, <1>7

\* Nothing to hand on at the last frame, or at its moment: it has been handed on.
LEMMA NoSampleIs ==
    ASSUME NEW t \in Int, Before(t) # 0, Sample(t) = {},
           Before(t) = Len(entries) \/ entries[Before(t)].at = t
    PROVE  emitted = entries[Before(t)].n
  <1> DEFINE g == [n |-> entries[Before(t)].n, at |-> entries[Before(t)].at, real |-> TRUE]
  <1>1. Sample(t) = {f \in {g} : f.n # emitted}
    BY DEF Sample
  <1>2. g.n = entries[Before(t)].n
    OBVIOUS
  <1>3. g.n = emitted
    <2> HIDE DEF g
    <2> QED BY <1>1
  <1> QED BY <1>2, <1>3

\* A sample that comes no later than the last one only arms the timer.
LEMMA EarlySampleKeeps ==
    ASSUME BufferInv, PlayTimerFires, lastTarget # Never, now - delay <= lastTarget
    PROVE  BufferInv' /\ ForwardStep
  <1>1. /\ entries' = entries /\ lastTarget' = lastTarget /\ emitted' = emitted /\ played' = played
        /\ playTimer' = NextSample(entries', emitted')
        /\ now' = now /\ delay' = delay /\ received' = received
    BY DEF PlayTimerFires
  <1>2. playTimer' \in Nat \cup {Never}
    <2>1. entries \in Seq([n : Nat \ {0}, at : Times])
      BY DEF BufferInv, BufferTypeOK
    <2> QED BY <1>1, <2>1, NextSampleTyped DEF BufferInv
  <1>3. BufferTypeOK'
    BY <1>1, <1>2 DEF BufferInv, BufferTypeOK, Times
  <1>4. EntriesInOrder'
    BY <1>1 DEF BufferInv, EntriesInOrder
  <1>5. (\A i \in DOMAIN entries : StillToPlay(i) \/ Reached(i))'
    BY <1>1 DEF BufferInv, StillToPlay, Reached
  <1> QED BY <1>1, <1>3, <1>4, <1>5 DEF BufferInv, ForwardStep

\* A later sample hands on nothing, the frame it has come to or one on the way to
\* the next; what it has passed is dropped.
LEMMA SampleKeeps ==
    ASSUME BufferInv, PlayTimerFires, ~ (lastTarget # Never /\ now - delay <= lastTarget)
    PROVE  BufferInv' /\ ForwardStep
  <1> DEFINE Frames == [n : Nat \ {0}, at : Times]
  <1>1. PICK t \in Int : t = now - delay /\ t <= now
    BY BufferTypes DEF BufferInv
  <1>2. /\ now' = now /\ delay' = delay /\ received' = received
        /\ lastTarget' = t
        /\ entries' = SubSeq(entries, Max({1, Before(t)}), Len(entries))
        /\ \/ Sample(t) = {} /\ emitted' = emitted /\ played' = played
           \/ /\ played' \in Sample(t)
              /\ emitted' = IF played'.real THEN played'.n ELSE emitted
        /\ playTimer' = NextSample(entries', emitted')
    BY <1>1 DEF PlayTimerFires
  <1>3. lastTarget = Never \/ lastTarget < t
    BY <1>1, BufferTypes DEF BufferInv
  <1>4. PICK k \in Nat : k = Len(entries) /\ DOMAIN entries = 1..k
    BY BufferTypes DEF BufferInv
  <1>5. \A i \in DOMAIN entries : entries[i].n \in Nat \ {0} /\ entries[i].at \in Nat
    BY BufferTypes DEF BufferInv
  <1>6. /\ played.n \in Nat /\ played.at \in Int /\ received \in Nat /\ now \in Nat /\ emitted \in Nat
        /\ lastTarget \in Int /\ played.n <= received /\ played.at <= now
    BY BufferTypes DEF BufferInv
  <1>7. PICK b \in 0..k :
          /\ b = Before(t)
          /\ \/ b = 0 /\ \A i \in DOMAIN entries : t < entries[i].at
             \/ b \in DOMAIN entries /\ entries[b].at = t
             \/ /\ b \in DOMAIN entries /\ entries[b].at < t
                /\ \A i \in DOMAIN entries : i > b => t < entries[i].at
    BY <1>4, BeforeIs DEF BufferInv
  <1>8. PICK m \in Nat \ {0} : m = (IF b = 0 THEN 1 ELSE b) /\ m <= k + 1
    BY <1>4
  <1>9. /\ entries' \in Seq(Frames) /\ Len(entries') = k - m + 1 /\ DOMAIN entries' = 1..(k - m + 1)
        /\ \A i \in DOMAIN entries' : entries'[i] = entries[m + i - 1]
    <2>1. entries \in Seq(Frames)
      BY DEF BufferInv, BufferTypeOK
    <2>2. entries' = SubSeq(entries, m, Len(entries))
      BY <1>2, <1>7, <1>8, FirstKept
    <2> HIDE DEF Frames
    <2>3. m <= Len(entries) + 1
      BY <1>4, <1>8
    <2>4. /\ entries' \in Seq(Frames) /\ Len(entries') = Len(entries) - m + 1
          /\ DOMAIN entries' = 1..(Len(entries) - m + 1)
          /\ \A i \in 1..(Len(entries) - m + 1) : entries'[i] = entries[m + i - 1]
      BY <2>1, <2>2, <2>3, RestOfFrames
    <2> QED BY <1>4, <2>4
  <1>10. \A i \in DOMAIN entries' : /\ i \in Nat \ {0} /\ m + i - 1 \in DOMAIN entries
                                    /\ entries'[i] = entries[m + i - 1]
    BY <1>4, <1>8, <1>9
  \* what has been handed on before
  <1>11. \A i \in DOMAIN entries : i # 1 => StillToPlay(i)
    BY DEF BufferInv, Reached
  <1>12. \A i, j \in DOMAIN entries : i < j => entries[i].n < entries[j].n /\ entries[i].at <= entries[j].at
    BY DEF BufferInv, EntriesInOrder
  <1>13. b # 0 => b \in DOMAIN entries /\ entries[b].at <= t /\ played.at <= t /\ t # Never
    <2> SUFFICES ASSUME b # 0 PROVE entries[b].at <= t /\ played.at <= t /\ t # Never
      BY <1>4
    <2>1. b \in DOMAIN entries /\ entries[b].at <= t /\ entries[b].at \in Nat
      BY <1>4, <1>5, <1>7
    <2>2. CASE StillToPlay(b)
      BY <1>6, <2>1, <2>2 DEF StillToPlay, Never
    <2>3. CASE Reached(b)
      BY <1>3, <1>6, <2>1, <2>3 DEF Reached, Never
    <2> QED BY <2>1, <2>2, <2>3 DEF BufferInv
  \* what is handed on now
  <1>14. \/ /\ played' = played /\ emitted' = emitted
            /\ b # 0 /\ (b = k \/ entries[b].at = t) => emitted = entries[b].n
         \/ /\ b \in DOMAIN entries
            /\ b = k \/ entries[b].at = t
            /\ played' = [n |-> entries[b].n, at |-> entries[b].at, real |-> TRUE]
            /\ entries[b].n # emitted /\ emitted' = entries[b].n
         \/ /\ b \in DOMAIN entries /\ b + 1 \in DOMAIN entries /\ emitted' = emitted
            /\ played' = [n |-> entries[b + 1].n, at |-> t, real |-> FALSE]
            /\ ~ (b = k \/ entries[b].at = t)
    <2>1. CASE Sample(t) = {} /\ emitted' = emitted /\ played' = played
      BY <1>4, <1>7, <2>1, NoSampleIs
    <2>2. CASE played' \in Sample(t) /\ emitted' = IF played'.real THEN played'.n ELSE emitted
      <3>1. /\ b \in DOMAIN entries
            /\ \/ /\ b = Len(entries) \/ entries[b].at = t
                  /\ played' = [n |-> entries[b].n, at |-> entries[b].at, real |-> TRUE]
                  /\ entries[b].n # emitted
               \/ /\ b + 1 \in DOMAIN entries /\ ~ (b = Len(entries) \/ entries[b].at = t)
                  /\ played' = [n |-> entries[b + 1].n, at |-> t, real |-> FALSE]
        BY <1>7, <2>2, SampleIs DEF BufferInv
      <3>2. CASE /\ b = Len(entries) \/ entries[b].at = t
                 /\ played' = [n |-> entries[b].n, at |-> entries[b].at, real |-> TRUE]
                 /\ entries[b].n # emitted
        <4>1. emitted' = entries[b].n
          BY <2>2, <3>2
        <4> QED BY <1>4, <3>1, <3>2, <4>1
      <3>3. CASE /\ b + 1 \in DOMAIN entries /\ ~ (b = Len(entries) \/ entries[b].at = t)
                 /\ played' = [n |-> entries[b + 1].n, at |-> t, real |-> FALSE]
        <4>1. emitted' = emitted
          BY <2>2, <3>3
        <4> QED BY <1>4, <3>1, <3>3, <4>1
      <3> QED BY <3>1, <3>2, <3>3
    <2> QED BY <1>2, <2>1, <2>2
  \* a received frame that is handed on has not been handed on before
  <1>15. b \in DOMAIN entries /\ (b = k \/ entries[b].at = t) /\ entries[b].n # emitted => StillToPlay(b)
    <2> SUFFICES ASSUME b \in DOMAIN entries, b = k \/ entries[b].at = t, entries[b].n # emitted, Reached(b)
                 PROVE  FALSE
      BY DEF BufferInv
    <2>1. b = 1 /\ lastTarget # Never /\ entries[b].at <= lastTarget
          /\ (Len(entries) = 1 => emitted = entries[b].n)
      BY DEF Reached
    <2>2. CASE b = k
      BY <1>4, <2>1, <2>2
    <2>3. CASE entries[b].at = t
      BY <1>3, <1>6, <2>1, <2>3
    <2> QED BY <2>2, <2>3
  <1>16. /\ played'.n \in Nat /\ played'.at \in Int /\ played' \in [n : Nat, at : Int, real : BOOLEAN]
         /\ played'.n <= received /\ played'.at <= now /\ emitted' \in Nat
    <2>1. \A i \in DOMAIN entries : entries[i].n <= received /\ entries[i].at <= now
      BY DEF BufferInv, EntriesInOrder
    <2>2. played \in [n : Nat, at : Int, real : BOOLEAN]
      BY DEF BufferInv, BufferTypeOK
    <2>3. CASE played' = played /\ emitted' = emitted
      BY <1>6, <2>2, <2>3
    <2>4. CASE /\ b \in DOMAIN entries /\ emitted' = entries[b].n
               /\ played' = [n |-> entries[b].n, at |-> entries[b].at, real |-> TRUE]
      BY <1>5, <2>1, <2>4
    <2>5. CASE /\ b + 1 \in DOMAIN entries /\ emitted' = emitted
               /\ played' = [n |-> entries[b + 1].n, at |-> t, real |-> FALSE]
      BY <1>1, <1>5, <1>6, <2>1, <2>5
    <2> QED BY <1>14, <2>3, <2>4, <2>5
  <1>17. ForwardStep
    <2>1. CASE played' = played
      BY <2>1 DEF ForwardStep
    <2>2. CASE /\ b \in DOMAIN entries /\ StillToPlay(b)
               /\ played' = [n |-> entries[b].n, at |-> entries[b].at, real |-> TRUE]
      BY <2>2 DEF ForwardStep, StillToPlay
    <2>3. CASE /\ b \in DOMAIN entries /\ b + 1 \in DOMAIN entries
               /\ played' = [n |-> entries[b + 1].n, at |-> t, real |-> FALSE]
      <3>1. b # 0 /\ b + 1 # 1
        BY <1>4, <2>3
      <3>2. StillToPlay(b + 1)
        BY <1>11, <2>3, <3>1
      <3> QED BY <1>13, <2>3, <3>1, <3>2 DEF ForwardStep, StillToPlay
    <2> QED BY <1>14, <1>15, <2>1, <2>2, <2>3
  \* what remains
  <1>18. BufferTypeOK'
    <2>1. playTimer' \in Nat \cup {Never}
      BY <1>2, <1>9, NextSampleTyped DEF BufferInv
    <2>2. Len(entries') <= MaxFrames
      <3>1. k <= MaxFrames /\ MaxFrames \in Nat
        BY <1>4, DelayAssumption DEF BufferInv, BufferTypeOK
      <3>2. k - m + 1 <= k
        BY <1>8
      <3> QED BY <1>8, <1>9, <3>1, <3>2
    <2> QED BY <1>2, <1>9, <1>16, <2>1, <2>2 DEF BufferInv, BufferTypeOK, Times
  <1>19. EntriesInOrder'
    <2>1. \A i \in DOMAIN entries : entries[i].n <= received /\ entries[i].at <= now
      BY DEF BufferInv, EntriesInOrder
    <2>2. \A i \in DOMAIN entries' : entries'[i].n <= received /\ entries'[i].at <= now
      BY <1>10, <2>1
    <2>3. ASSUME NEW i \in DOMAIN entries', NEW j \in DOMAIN entries', i < j
          PROVE  entries'[i].n < entries'[j].n /\ entries'[i].at <= entries'[j].at
      <3>1. m + i - 1 < m + j - 1
        BY <1>10, <2>3
      <3> QED BY <1>10, <1>12, <3>1
    <2>4. ASSUME delay = 0 PROVE entries' = <<>>
      <3>1. entries = <<>>
        BY <2>4 DEF BufferInv, EntriesInOrder
      <3>2. k = 0 /\ m = 1
        BY <1>4, <1>8, <3>1
      <3>3. Len(entries') = 0
        BY <1>9, <3>2
      <3> QED BY <1>9, <3>3
    <2> QED BY <1>2, <2>2, <2>3, <2>4 DEF EntriesInOrder
  <1>20. ASSUME NEW i \in DOMAIN entries'
         PROVE  StillToPlay(i)' \/ Reached(i)'
    <2>1. PICK j \in DOMAIN entries : /\ j = m + i - 1 /\ entries'[i] = entries[j]
                                      /\ i \in Nat \ {0} /\ j \in Nat
      BY <1>4, <1>10
    <2>2. CASE b = 0
      <3>1. j = i /\ played' = played
        BY <1>4, <1>8, <1>14, <2>1, <2>2
      <3>2. ~ Reached(j)
        <4> SUFFICES ASSUME Reached(j) PROVE FALSE
          OBVIOUS
        <4>1. lastTarget # Never /\ entries[j].at <= lastTarget
          BY DEF Reached
        <4>2. t < entries[j].at
          BY <1>4, <1>7, <2>2
        <4>3. entries[j].at \in Nat
          BY <1>5
        <4> QED BY <1>3, <1>6, <4>1, <4>2, <4>3
      <3>3. StillToPlay(j)
        BY <3>2 DEF BufferInv
      <3> QED BY <2>1, <3>1, <3>3 DEF StillToPlay
    <2>3. CASE b # 0 /\ i = 1
      <3>1. j = b /\ entries[b].at <= t /\ t # Never /\ lastTarget' = t
        BY <1>2, <1>8, <1>13, <2>1, <2>3
      <3>2. played'.at <= t
        BY <1>13, <1>14, <2>3, <1>1
      <3>3. Len(entries') = 1 => emitted' = entries[b].n
        <4>1. Len(entries') = 1 => b = k
          <5>1. k - m + 1 = 1 => m = k
            BY <1>8
          <5> QED BY <1>8, <1>9, <2>3, <5>1
        <4> QED BY <1>14, <2>3, <4>1
      <3> QED BY <2>1, <2>3, <3>1, <3>2, <3>3 DEF Reached
    <2>4. CASE b # 0 /\ i # 1
      <3>1. j # 1 /\ b < j /\ m = b
        BY <1>4, <1>8, <2>1, <2>4
      <3>2. StillToPlay(j)
        BY <1>11, <3>1
      <3>3. CASE played' = played
        BY <2>1, <3>2, <3>3 DEF StillToPlay
      <3>4. CASE played' = [n |-> entries[b].n, at |-> entries[b].at, real |-> TRUE]
        <4>1. entries[b].n < entries[j].n /\ entries[b].at <= entries[j].at
          BY <1>12, <1>13, <2>4, <3>1
        <4>2. entries[b].n \in Nat /\ entries[j].n \in Nat
          BY <1>5, <1>13, <2>4
        <4> QED BY <2>1, <3>4, <4>1, <4>2 DEF StillToPlay
      <3>5. CASE /\ b + 1 \in DOMAIN entries /\ ~ (b = k \/ entries[b].at = t)
                 /\ played' = [n |-> entries[b + 1].n, at |-> t, real |-> FALSE]
        <4>1. t < entries[j].at
          BY <1>7, <2>4, <3>1, <3>5
        <4>2. entries[b + 1].n <= entries[j].n
          <5>1. b + 1 = j \/ b + 1 < j
            BY <1>4, <2>1, <3>1
          <5> QED BY <1>5, <1>12, <3>5, <5>1
        <4>3. t <= entries[j].at
          BY <1>5, <4>1
        <4> QED BY <2>1, <3>5, <4>2, <4>3 DEF StillToPlay
      <3> QED BY <1>14, <3>3, <3>4, <3>5
    <2> QED BY <2>2, <2>3, <2>4
  <1> QED BY <1>2, <1>16, <1>17, <1>18, <1>19, <1>20 DEF BufferInv

LEMMA NextBuffer ==
    ASSUME BufferInv, [BufferNext]_bufferVars
    PROVE  BufferInv' /\ (ForwardStep \/ UNCHANGED bufferVars)
  <1>1. CASE UNCHANGED bufferVars
    BY <1>1 DEF bufferVars, BufferInv, BufferTypeOK, EntriesInOrder, StillToPlay, Reached, Times
  <1>2. CASE PlayTimerFires
    BY <1>2, EarlySampleKeeps, SampleKeeps
  <1> QED BY <1>1, <1>2, TickKeeps, FrameArrivesKeeps, ChangeDelayKeeps, ClearBufferKeeps DEF BufferNext

\* Every buffered frame is still to be played, or is the one the samples have come
\* to.
THEOREM BufferInductive == BufferSpec => []BufferInv
  BY InitBuffer, NextBuffer, PTL DEF BufferSpec

\* However late the samples come, and whatever changes of the delay and clears come
\* between: the device is never sent back to an earlier moment of what was received,
\* nor handed a received frame twice.
THEOREM PlaybackOnlyGoesForward == BufferSpec => PlaybackGoesForward
  <1>1. ASSUME BufferInv, [BufferNext]_bufferVars
        PROVE  [played' # played =>
                   /\ played'.at >= played.at
                   /\ played'.n >= played.n
                   /\ played'.real /\ played.real => played'.n > played.n]_bufferVars
    BY <1>1, NextBuffer DEF ForwardStep
  <1> QED BY <1>1, BufferInductive, PTL DEF BufferSpec, PlaybackGoesForward

(***************************************************************************)
(* The limit on control requests.                                          *)
(***************************************************************************)
LEMMA WithinFinite ==
    ASSUME NEW times \in Seq(Nat), NEW from \in Int, NEW to \in Int
    PROVE  /\ IsFiniteSet(Within(times, from, to)) /\ Cardinality(Within(times, from, to)) \in Nat
           /\ \A S \in SUBSET Within(times, from, to) :
                 IsFiniteSet(S) /\ Cardinality(S) \in Nat
                 /\ Cardinality(S) <= Cardinality(Within(times, from, to))
  <1>1. PICK n \in Nat : DOMAIN times = 1..n
    OBVIOUS
  <1>2. IsFiniteSet(1..n)
    BY FS_Interval
  <1>3. Within(times, from, to) \in SUBSET (1..n)
    BY <1>1 DEF Within
  <1>4. IsFiniteSet(Within(times, from, to))
    BY <1>2, <1>3, FS_Subset
  <1> QED BY <1>4, FS_Subset, FS_CardinalityType

\* Later than the window that the entry counts, nothing has been asked yet.
LEMMA WindowRenewed ==
    ASSUME NEW times \in Seq(Nat), NEW start \in Int, NEW used \in Nat, used <= MaxInWindow,
           FairWindow(times, start, used), NEW moment \in Int, start + Window <= moment
    PROVE  FairWindow(times, moment, 0)
  <1>1. Window \in Nat /\ Window >= 1 /\ MaxInWindow \in Nat
    BY LimiterAssumption
  <1>2. \A i \in DOMAIN times : times[i] \in Nat /\ times[i] < start + Window
    BY DEF FairWindow
  <1>3. \A i \in DOMAIN times : times[i] < moment + Window
    BY <1>1, <1>2
  <1>4. Cardinality(Within(times, moment, moment + Window)) = 0
    <2>1. Within(times, moment, moment + Window) = {}
      BY <1>1, <1>2 DEF Within
    <2> QED BY <2>1, FS_EmptySet
  <1>5. Cardinality(Within(times, moment - Window + 1, moment)) <= MaxInWindow
    <2>1. Within(times, moment - Window + 1, moment) \subseteq Within(times, start, start + Window)
      BY <1>1, <1>2 DEF Within
    <2>2. /\ Cardinality(Within(times, moment - Window + 1, moment)) \in Nat
          /\ Cardinality(Within(times, moment - Window + 1, moment)) <= Cardinality(Within(times, start, start + Window))
      BY <1>1, <2>1, WithinFinite
    <2>3. Cardinality(Within(times, start, start + Window)) = used
      BY DEF FairWindow
    <2> QED BY <1>1, <2>2, <2>3
  <1> QED BY <1>3, <1>4, <1>5 DEF FairWindow

LEMMA WindowMovesOn ==
    ASSUME NEW times \in Seq(Nat), NEW moment \in Int, FairWindow(times, moment, 0),
           \A i \in DOMAIN times : times[i] <= moment
    PROVE  FairWindow(times, moment + 1, 0)
  <1>1. Window \in Nat /\ Window >= 1 /\ MaxInWindow \in Nat
    BY LimiterAssumption
  <1>2. Within(times, moment, moment + Window) = {}
    BY <1>1, WithinFinite, FS_EmptySet DEF FairWindow
  <1>3. \A i \in DOMAIN times : times[i] \in Nat /\ times[i] < moment
    <2> SUFFICES ASSUME NEW i \in DOMAIN times PROVE times[i] \in Nat /\ times[i] < moment
      OBVIOUS
    <2>1. times[i] \in Nat /\ times[i] <= moment
      OBVIOUS
    <2>2. i \notin Within(times, moment, moment + Window)
      BY <1>2
    <2>3. ~ (moment <= times[i] /\ times[i] < moment + Window)
      BY <2>2 DEF Within
    <2> QED BY <1>1, <2>1, <2>3
  <1> DEFINE next == moment + 1
  <1>4. \A i \in DOMAIN times : times[i] < next + Window
    BY <1>1, <1>3
  <1>5. Cardinality(Within(times, next, next + Window)) = 0
    <2>1. Within(times, next, next + Window) = {}
      BY <1>1, <1>3 DEF Within
    <2> QED BY <2>1, FS_EmptySet
  <1>6. Cardinality(Within(times, next - Window + 1, next)) <= MaxInWindow
    <2>1. Within(times, next - Window + 1, next) \subseteq Within(times, moment - Window + 1, moment)
      BY <1>1, <1>3 DEF Within
    <2>2. /\ Cardinality(Within(times, moment - Window + 1, moment)) \in Nat
          /\ Cardinality(Within(times, next - Window + 1, next)) \in Nat
          /\ Cardinality(Within(times, next - Window + 1, next))
               <= Cardinality(Within(times, moment - Window + 1, moment))
      BY <1>1, <2>1, WithinFinite
    <2>3. Cardinality(Within(times, moment - Window + 1, moment)) <= MaxInWindow
      BY DEF FairWindow
    <2> QED BY <1>1, <2>2, <2>3
  <1> HIDE DEF next
  <1>7. FairWindow(times, next, 0)
    BY <1>4, <1>5, <1>6 DEF FairWindow
  <1> QED BY <1>7 DEF next

LEMMA AppendedTime ==
    ASSUME NEW times \in Seq(Nat), NEW moment \in Nat, NEW n \in Nat, Len(times) = n
    PROVE  /\ DOMAIN Append(times, moment) = 1..n + 1 /\ Append(times, moment)[n + 1] = moment
           /\ \A i \in 1..n : Append(times, moment)[i] = times[i]
           /\ Append(times, moment) \in Seq(Nat)
  <1>1. PICK later : later = Append(times, moment)
    OBVIOUS
  <1>2. DOMAIN later = 1..n + 1 /\ later \in Seq(Nat)
    BY <1>1
  <1>3. later[n + 1] = moment
    BY <1>1
  <1>4. \A i \in 1..n : later[i] = times[i]
    BY <1>1
  <1> QED BY <1>1, <1>2, <1>3, <1>4

\* A request that is allowed is one more in the window.
LEMMA RequestCounted ==
    ASSUME NEW times \in Seq(Nat), NEW moment \in Nat, NEW start \in Int,
           start <= moment, moment < start + Window
    PROVE  /\ Cardinality(Within(Append(times, moment), start, start + Window))
                = Cardinality(Within(times, start, start + Window)) + 1
           /\ \A used : FairWindow(times, start, used) => FairWindow(Append(times, moment), start, used + 1)
  <1>1. Window \in Nat /\ Window >= 1 /\ MaxInWindow \in Nat
    BY LimiterAssumption
  <1>2. PICK n \in Nat : Len(times) = n /\ DOMAIN times = 1..n
    OBVIOUS
  <1>3. PICK later \in Seq(Nat) : later = Append(times, moment)
    BY <1>2, AppendedTime
  <1>4. DOMAIN later = 1..n + 1 /\ later[n + 1] = moment /\ \A i \in 1..n : later[i] = times[i]
    BY <1>2, <1>3, AppendedTime
  <1>5. \A i : i \in 1..n + 1 <=> i \in 1..n \/ i = n + 1
    BY <1>2
  <1>6. n + 1 \notin 1..n
    BY <1>2
  <1>7. Within(later, start, start + Window) = Within(times, start, start + Window) \cup {n + 1}
    BY <1>2, <1>4, <1>5, <1>6 DEF Within
  <1>8. n + 1 \notin Within(times, start, start + Window)
    BY <1>2, <1>6 DEF Within
  <1>9. Cardinality(Within(later, start, start + Window)) = Cardinality(Within(times, start, start + Window)) + 1
    <2>1. IsFiniteSet(Within(times, start, start + Window))
      BY <1>1, WithinFinite
    <2> QED BY <1>7, <1>8, <2>1, FS_AddElement
  <1>10. Within(later, start - Window + 1, start) = Within(times, start - Window + 1, start)
    BY <1>2, <1>4, <1>5, <1>6 DEF Within
  <1>11. ASSUME NEW used, FairWindow(times, start, used) PROVE FairWindow(later, start, used + 1)
    <2>1. \A i \in DOMAIN later : later[i] < start + Window
      BY <1>2, <1>4, <1>5, <1>11 DEF FairWindow
    <2> QED BY <1>9, <1>10, <1>11, <2>1 DEF FairWindow
  <1> QED BY <1>3, <1>9, <1>11

\* Two windows meet in any span of their length.
LEMMA TwiceTheLimit ==
    ASSUME NEW times \in Seq(Nat), NEW moment \in Int, NEW start \in Int, NEW used \in Nat,
           used <= MaxInWindow, start <= moment, FairWindow(times, start, used)
    PROVE  Cardinality({i \in DOMAIN times : times[i] > moment - Window}) <= 2 * MaxInWindow
  <1>1. Window \in Nat /\ Window >= 1 /\ MaxInWindow \in Nat
    BY LimiterAssumption
  <1> DEFINE Span   == {i \in DOMAIN times : times[i] > moment - Window}
             Earlier == Within(times, start - Window + 1, start)
             During == Within(times, start, start + Window)
  <1>2. \A i \in DOMAIN times : times[i] \in Nat /\ times[i] < start + Window
    BY DEF FairWindow
  <1>3. Span \subseteq Earlier \cup During
    BY <1>1, <1>2 DEF Within
  <1>4. IsFiniteSet(Earlier) /\ IsFiniteSet(During) /\ Cardinality(Earlier) \in Nat /\ Cardinality(During) \in Nat
    BY <1>1, WithinFinite
  <1>5. Cardinality(Earlier) <= MaxInWindow /\ Cardinality(During) <= MaxInWindow
    BY DEF FairWindow
  <1> HIDE DEF Span, Earlier, During
  <1>6. /\ IsFiniteSet(Earlier \cup During) /\ Cardinality(Earlier \cap During) \in Nat
        /\ Cardinality(Earlier \cup During)
             = Cardinality(Earlier) + Cardinality(During) - Cardinality(Earlier \cap During)
    BY <1>4, FS_Union, FS_Intersection, FS_CardinalityType
  <1>7. Cardinality(Span) \in Nat /\ Cardinality(Span) <= Cardinality(Earlier \cup During)
    BY <1>3, <1>6, FS_Subset, FS_CardinalityType
  <1>8. Cardinality(Span) <= 2 * MaxInWindow
    <2>1. PICK a \in Nat, b \in Nat, c \in Nat :
             a = Cardinality(Earlier) /\ b = Cardinality(During) /\ c = Cardinality(Earlier \cap During)
      BY <1>4, <1>6
    <2>2. PICK u \in Nat : u = Cardinality(Span)
      BY <1>7
    <2>3. u <= a + b - c /\ a <= MaxInWindow /\ b <= MaxInWindow
      BY <1>5, <1>6, <1>7, <2>1, <2>2
    <2>4. u <= 2 * MaxInWindow
      BY <1>1, <2>1, <2>2, <2>3
    <2> QED BY <2>2, <2>4
  <1> QED BY <1>8 DEF Span

LEMMA LimiterTypes ==
    ASSUME LimiterInv
    PROVE  /\ MaxInWindow \in Nat /\ MaxInWindow >= 1 /\ Window \in Nat /\ Window >= 1
           /\ MaxEntries \in Nat /\ MaxEntries >= 1 /\ MaxControl \in Nat /\ MaxClock \in Nat
           /\ clock \in Nat /\ clock <= MaxClock /\ asked \in Nat
           /\ DOMAIN buckets \subseteq Clients
           /\ IsFiniteSet(DOMAIN buckets) /\ Cardinality(DOMAIN buckets) \in Nat
           /\ Cardinality(DOMAIN buckets) <= MaxEntries
           /\ \A c \in DOMAIN buckets :
                 /\ buckets[c] \in [count : 0..MaxInWindow, resetAt : Nat, place : 1..MaxControl]
                 /\ buckets[c].count \in Nat /\ buckets[c].count <= MaxInWindow
                 /\ buckets[c].resetAt \in Nat /\ buckets[c].place \in Nat
           /\ \A c \in Clients : granted[c] \in Seq(Nat)
           /\ IsFiniteSet(LiveClients) /\ Cardinality(LiveClients) \in Nat
           /\ LiveClients \subseteq DOMAIN buckets
  <1>1. /\ MaxInWindow \in Nat /\ MaxInWindow >= 1 /\ Window \in Nat /\ Window >= 1
        /\ MaxEntries \in Nat /\ MaxEntries >= 1 /\ MaxControl \in Nat /\ MaxClock \in Nat
    BY LimiterAssumption
  <1>2. clock \in Nat /\ clock <= MaxClock /\ asked \in Nat
    BY <1>1 DEF LimiterInv, LimiterTypeOK
  <1>3. /\ DOMAIN buckets \subseteq Clients /\ IsFiniteSet(DOMAIN buckets)
        /\ Cardinality(DOMAIN buckets) <= MaxEntries
        /\ \A c \in DOMAIN buckets :
              buckets[c] \in [count : 0..MaxInWindow, resetAt : Nat, place : 1..MaxControl]
    BY DEF LimiterInv, LimiterTypeOK
  <1>4. \A c \in DOMAIN buckets :
           /\ buckets[c].count \in Nat /\ buckets[c].count <= MaxInWindow
           /\ buckets[c].resetAt \in Nat /\ buckets[c].place \in Nat
    BY <1>1, <1>3
  <1>5. \A c \in Clients : granted[c] \in Seq(Nat)
    <2>1. granted \in [Clients -> Seq(0..MaxClock)]
      BY DEF LimiterInv, LimiterTypeOK
    <2>2. Seq(0..MaxClock) \subseteq Seq(Nat)
      BY <1>1
    <2> QED BY <2>1, <2>2
  <1>6. LiveClients \subseteq DOMAIN buckets
    BY DEF LiveClients
  <1> QED BY <1>1, <1>2, <1>3, <1>4, <1>5, <1>6, FS_Subset, FS_CardinalityType

LEMMA FirstInserted ==
    ASSUME LimiterInv, LiveClients # {}
    PROVE  InsertedFirst(LiveClients) \in LiveClients
  <1> DEFINE Places == {buckets[c].place : c \in LiveClients}
  <1>1. Places \subseteq Nat /\ Places # {}
    BY LimiterTypes
  <1>2. PICK p \in Places : \A q \in Places : p <= q
    <2> HIDE DEF Places
    <2> QED BY <1>1, LeastOf
  <1>3. \E c \in LiveClients : \A d \in LiveClients : buckets[c].place <= buckets[d].place
    BY <1>2
  <1> QED BY <1>3 DEF InsertedFirst

\* There is room for one more, and an entry that is not over is dropped only from a
\* table that is full of them.
LEMMA RoomIsMade ==
    ASSUME LimiterInv
    PROVE  /\ MakeRoom \subseteq DOMAIN buckets /\ IsFiniteSet(MakeRoom)
           /\ Cardinality(MakeRoom) \in Nat /\ Cardinality(MakeRoom) < MaxEntries
           /\ Cardinality(LiveClients) < MaxEntries => LiveClients \subseteq MakeRoom
  <1>1. CASE Cardinality(DOMAIN buckets) < MaxEntries
    BY <1>1, LimiterTypes DEF MakeRoom
  <1>2. CASE ~ (Cardinality(DOMAIN buckets) < MaxEntries) /\ Cardinality(LiveClients) < MaxEntries
    BY <1>2, LimiterTypes DEF MakeRoom
  <1>3. CASE ~ (Cardinality(DOMAIN buckets) < MaxEntries) /\ ~ (Cardinality(LiveClients) < MaxEntries)
    <2>1. MakeRoom = LiveClients \ {InsertedFirst(LiveClients)}
      BY <1>3 DEF MakeRoom
    <2>2. LiveClients # {}
      <3>1. Cardinality(LiveClients) # 0
        BY <1>3, LimiterTypes
      <3> QED BY <3>1, FS_EmptySet
    <2>3. Cardinality(MakeRoom) = Cardinality(LiveClients) - 1 /\ IsFiniteSet(MakeRoom)
      BY <2>1, <2>2, FirstInserted, LimiterTypes, FS_RemoveElement
    <2>4. Cardinality(LiveClients) <= Cardinality(DOMAIN buckets)
      BY LimiterTypes, FS_Subset
    <2>5. Cardinality(MakeRoom) \in Nat
      BY <2>3, FS_CardinalityType
    <2>6. Cardinality(MakeRoom) < MaxEntries
      BY <2>3, <2>4, <2>5, LimiterTypes
    <2> QED BY <1>3, <2>1, <2>3, <2>5, <2>6, LimiterTypes
  <1> QED BY <1>1, <1>2, <1>3

\* the clients in the table, once the one that asks is in it
LEMMA TableKeys ==
    ASSUME LimiterInv, NEW client \in Clients
    PROVE  /\ client \in DOMAIN WithWindow(client) /\ DOMAIN WithWindow(client) \subseteq Clients
           /\ IsFiniteSet(DOMAIN WithWindow(client))
           /\ Cardinality(DOMAIN WithWindow(client)) <= MaxEntries
           /\ \A c \in DOMAIN WithWindow(client) :
                 c # client => c \in DOMAIN buckets /\ WithWindow(client)[c] = buckets[c]
           /\ LiveClients \subseteq DOMAIN WithWindow(client) \/ Cardinality(LiveClients) >= MaxEntries
  <1> DEFINE Keys == IF client \in DOMAIN buckets THEN DOMAIN buckets ELSE MakeRoom \cup {client}
  <1>1. DOMAIN WithWindow(client) = Keys
    BY DEF WithWindow
  <1>2. \A c \in Keys : c # client => c \in DOMAIN buckets /\ WithWindow(client)[c] = buckets[c]
    BY RoomIsMade DEF WithWindow
  <1>3. CASE client \in DOMAIN buckets
    BY <1>1, <1>2, <1>3, LimiterTypes
  <1>4. CASE client \notin DOMAIN buckets
    <2>1. Keys = MakeRoom \cup {client} /\ client \notin MakeRoom
      BY <1>4, RoomIsMade
    <2>2. IsFiniteSet(Keys) /\ Cardinality(Keys) = Cardinality(MakeRoom) + 1
      BY <2>1, RoomIsMade, FS_AddElement
    <2>3. Cardinality(Keys) <= MaxEntries
      BY <2>2, RoomIsMade, LimiterTypes
    <2>4. LiveClients \subseteq Keys \/ Cardinality(LiveClients) >= MaxEntries
      <3>1. CASE Cardinality(LiveClients) < MaxEntries
        BY <2>1, <3>1, RoomIsMade
      <3>2. CASE ~ (Cardinality(LiveClients) < MaxEntries)
        BY <3>2, LimiterTypes
      <3> QED BY <3>1, <3>2
    <2>5. Keys \subseteq Clients /\ client \in Keys
      BY <2>1, RoomIsMade, LimiterTypes
    <2> QED BY <1>1, <1>2, <2>2, <2>3, <2>4, <2>5
  <1> QED BY <1>3, <1>4

\* what the invariant says of a client
LEMMA ClientWindow ==
    ASSUME LimiterInv, NEW c \in Clients
    PROVE  /\ granted[c] \in Seq(Nat) /\ \A i \in DOMAIN granted[c] : granted[c][i] <= clock
           /\ WindowStart(c) \in Int /\ Used(c) \in Nat /\ Used(c) <= MaxInWindow
           /\ WindowStart(c) <= clock
           /\ Used(c) <= Cardinality(Within(granted[c], WindowStart(c), WindowStart(c) + Window))
           /\ c \notin forgotten => FairWindow(granted[c], WindowStart(c), Used(c))
  <1>1. WindowStart(c) \in Int /\ Used(c) \in Nat /\ Used(c) <= MaxInWindow
    BY LimiterTypes DEF WindowStart, Used
  <1> QED BY <1>1, LimiterTypes DEF LimiterInv

\* An entry that is over, or that was dropped, counts as an empty window that begins now.
LEMMA WindowOver ==
    ASSUME LimiterInv, NEW c \in Clients, c \notin LiveClients, c \notin forgotten
    PROVE  FairWindow(granted[c], clock, 0)
  <1>1. CASE c \notin DOMAIN buckets
    BY <1>1, ClientWindow DEF WindowStart, Used
  <1>2. CASE c \in DOMAIN buckets
    <2>1. ~ (clock < buckets[c].resetAt)
      BY <1>2 DEF LiveClients, Live
    <2>2. WindowStart(c) = buckets[c].resetAt - Window
      BY <1>2 DEF WindowStart
    <2>3. WindowStart(c) + Window <= clock
      BY <1>2, <2>1, <2>2, LimiterTypes
    <2>4. FairWindow(granted[c], WindowStart(c), Used(c))
      BY ClientWindow
    <2> QED BY <2>3, <2>4, ClientWindow, LimiterTypes, WindowRenewed
  <1> QED BY <1>1, <1>2

\* the entry of the client that asks
LEMMA EntryUsed ==
    ASSUME LimiterInv, NEW client \in Clients, asked < MaxControl,
           NEW entry, entry = WithWindow(client)[client]
    PROVE  /\ entry \in [count : 0..MaxInWindow, resetAt : Nat, place : 1..MaxControl]
           /\ entry.resetAt - Window <= clock /\ clock < entry.resetAt
           /\ entry.count <= Cardinality(Within(granted[client], entry.resetAt - Window, entry.resetAt))
           /\ client \notin forgotten => FairWindow(granted[client], entry.resetAt - Window, entry.count)
  <1>1. client \in DOMAIN WithWindow(client)
    BY TableKeys
  <1>2. CASE client \in LiveClients
    <2>1. entry = buckets[client] /\ client \in DOMAIN buckets /\ clock < buckets[client].resetAt
      BY <1>1, <1>2 DEF WithWindow, LiveClients, Live
    <2>2. WindowStart(client) = entry.resetAt - Window /\ Used(client) = entry.count
      BY <2>1 DEF WindowStart, Used
    <2>3. (entry.resetAt - Window) + Window = entry.resetAt
      BY <2>1, LimiterTypes
    <2> QED BY <2>1, <2>2, <2>3, ClientWindow, LimiterTypes
  <1>3. CASE client \notin LiveClients
    <2>1. entry = NewBucket(client)
      BY <1>1, <1>3 DEF WithWindow
    <2>2. entry.count = 0 /\ entry.resetAt = clock + Window
      BY <2>1 DEF NewBucket
    <2>3. entry.place \in 1..MaxControl
      BY <2>1, LimiterTypes DEF NewBucket
    <2>4. entry = [count |-> 0, resetAt |-> clock + Window, place |-> entry.place]
      BY <2>1 DEF NewBucket
    <2>5. 0 \in 0..MaxInWindow /\ clock + Window \in Nat /\ clock + Window - Window = clock
      BY LimiterTypes
    <2>6. entry \in [count : 0..MaxInWindow, resetAt : Nat, place : 1..MaxControl]
      BY <2>3, <2>4, <2>5
    <2>7. entry.resetAt - Window = clock /\ clock <= clock /\ clock < clock + Window
      BY <2>2, <2>5, LimiterTypes
    <2>8. 0 <= Cardinality(Within(granted[client], clock, clock + Window))
      <3>1. Cardinality(Within(granted[client], clock, clock + Window)) \in Nat
        BY LimiterTypes, WithinFinite
      <3> QED BY <3>1
    <2>9. client \notin forgotten => FairWindow(granted[client], clock, 0)
      BY <1>3, WindowOver
    <2> QED BY <2>2, <2>6, <2>7, <2>8, <2>9
  <1> QED BY <1>2, <1>3

LEMMA InitLimiter == LimiterInit => LimiterInv
  <1> SUFFICES ASSUME LimiterInit
               PROVE  LimiterInv
    OBVIOUS
  <1>1. /\ MaxInWindow \in Nat /\ Window \in Nat /\ Window >= 1 /\ MaxEntries \in Nat
        /\ MaxClock \in Nat /\ MaxControl \in Nat /\ Clients # {}
    BY LimiterAssumption
  <1>2. DOMAIN buckets = {} /\ clock = 0 /\ asked = 0 /\ forgotten = {}
        /\ \A c \in Clients : granted[c] = <<>>
    BY DEF LimiterInit
  <1>3. granted \in [Clients -> Seq(0..MaxClock)]
    BY DEF LimiterInit
  <1>4. answer \in [client : Clients, allowed : BOOLEAN]
    <2>1. (CHOOSE c \in Clients : TRUE) \in Clients
      BY <1>1
    <2> QED BY <2>1 DEF LimiterInit
  <1>5. IsFiniteSet(DOMAIN buckets) /\ Cardinality(DOMAIN buckets) = 0
    BY <1>2, FS_EmptySet
  <1>6. LimiterTypeOK
    BY <1>1, <1>2, <1>3, <1>4, <1>5 DEF LimiterTypeOK
  <1>7. ASSUME NEW c \in Clients
        PROVE  /\ WindowStart(c) = 0 /\ Used(c) = 0 /\ FairWindow(granted[c], 0, 0)
               /\ Cardinality(Within(granted[c], 0, 0 + Window)) = 0
               /\ \A i \in DOMAIN granted[c] : granted[c][i] <= clock
    <2>1. DOMAIN granted[c] = {}
      BY <1>2
    <2>2. \A from, to : Within(granted[c], from, to) = {}
      BY <2>1 DEF Within
    <2>3. \A from, to : Cardinality(Within(granted[c], from, to)) = 0
      BY <2>2, FS_EmptySet
    <2>4. FairWindow(granted[c], 0, 0)
      BY <1>1, <2>1, <2>3 DEF FairWindow
    <2> QED BY <1>2, <2>1, <2>3, <2>4 DEF WindowStart, Used
  <1> QED BY <1>2, <1>5, <1>6, <1>7 DEF LimiterInv

LEMMA ClockTicksKeeps == ASSUME LimiterInv, ClockTicks PROVE LimiterInv'
  <1>1. PICK moment \in Nat : clock = moment
    BY LimiterTypes
  <1>2. clock' = moment + 1 /\ moment < MaxClock /\ UNCHANGED <<buckets, granted, forgotten, answer, asked>>
    BY <1>1 DEF ClockTicks
  <1>3. LimiterTypeOK'
    <2>1. moment + 1 \in 0..MaxClock
      BY <1>1, <1>2, LimiterTypes
    <2> QED BY <1>2, <2>1 DEF LimiterInv, LimiterTypeOK
  <1>4. IsFiniteSet(DOMAIN buckets)'
    BY <1>2, LimiterTypes
  <1>5. ASSUME NEW c \in Clients
        PROVE  /\ \A i \in DOMAIN granted[c] : granted[c][i] <= moment + 1
               /\ WindowStart(c)' <= moment + 1
               /\ Used(c)' <= Cardinality(Within(granted[c], WindowStart(c)', WindowStart(c)' + Window))
               /\ c \notin forgotten => FairWindow(granted[c], WindowStart(c)', Used(c)')
    <2>1. PICK times \in Seq(Nat) : times = granted[c]
      BY ClientWindow
    <2>2. \A i \in DOMAIN times : times[i] \in Nat /\ times[i] <= moment
      BY <1>1, <2>1, ClientWindow
    <2>3. \A i \in DOMAIN times : times[i] <= moment + 1
      BY <2>2
    <2>4. CASE c \in DOMAIN buckets
      <3>1. WindowStart(c)' = WindowStart(c) /\ Used(c)' = Used(c)
        BY <1>2, <2>4 DEF WindowStart, Used
      <3>2. WindowStart(c) \in Int /\ WindowStart(c) <= moment + 1
        BY <1>1, ClientWindow
      <3> QED BY <2>1, <2>3, <3>1, <3>2, ClientWindow
    <2>5. CASE c \notin DOMAIN buckets
      <3>1. WindowStart(c)' = moment + 1 /\ Used(c)' = 0 /\ WindowStart(c) = moment /\ Used(c) = 0
        BY <1>1, <1>2, <2>5 DEF WindowStart, Used
      <3>2. 0 <= Cardinality(Within(times, moment + 1, moment + 1 + Window))
        <4>1. Cardinality(Within(times, moment + 1, moment + 1 + Window)) \in Nat
          BY LimiterTypes, WithinFinite
        <4> QED BY <4>1
      <3>3. c \notin forgotten => FairWindow(times, moment + 1, 0)
        <4>1. c \notin forgotten => FairWindow(times, moment, 0)
          BY <2>1, <3>1, ClientWindow
        <4> QED BY <2>2, <4>1, WindowMovesOn
      <3> QED BY <2>1, <2>3, <3>1, <3>2, <3>3
    <2> QED BY <2>4, <2>5
  <1> QED BY <1>2, <1>3, <1>4, <1>5 DEF LimiterInv

\* what a request does, in terms of the entry of the client that asks
LEMMA RequestSteps ==
    ASSUME LimiterInv, NEW client \in Clients, ControlRequest(client)
    PROVE  \E entry \in [count : 0..MaxInWindow, resetAt : Nat, place : 1..MaxControl] :
              /\ entry = WithWindow(client)[client]
              /\ asked < MaxControl /\ asked' = asked + 1 /\ clock' = clock
              /\ answer' = [client |-> client, allowed |-> entry.count < MaxInWindow]
              /\ DOMAIN buckets' = DOMAIN WithWindow(client)
              /\ \A c \in DOMAIN WithWindow(client) : c # client => buckets'[c] = buckets[c]
              /\ forgotten' = forgotten \cup (LiveClients \ DOMAIN WithWindow(client))
              /\ \/ /\ entry.count < MaxInWindow
                    /\ buckets'[client] = [entry EXCEPT !.count = entry.count + 1]
                    /\ granted' = [granted EXCEPT ![client] = Append(granted[client], clock)]
                 \/ /\ ~ (entry.count < MaxInWindow)
                    /\ buckets'[client] = entry /\ granted' = granted
  <1>1. asked < MaxControl
    BY DEF ControlRequest
  <1>2. PICK entry : entry = WithWindow(client)[client]
    OBVIOUS
  <1>3. entry \in [count : 0..MaxInWindow, resetAt : Nat, place : 1..MaxControl]
    BY <1>1, <1>2, EntryUsed
  <1>4. PICK table : table = WithWindow(client)
    OBVIOUS
  <1>5. /\ answer' = [client |-> client, allowed |-> table[client].count < MaxInWindow]
        /\ buckets' = IF answer'.allowed THEN [table EXCEPT ![client].count = @ + 1] ELSE table
        /\ forgotten' = forgotten \cup (LiveClients \ DOMAIN table)
        /\ granted' = IF answer'.allowed THEN [granted EXCEPT ![client] = Append(@, clock)] ELSE granted
        /\ asked' = asked + 1 /\ clock' = clock
    BY <1>4 DEF ControlRequest
  <1>6. client \in DOMAIN table /\ table[client] = entry
        /\ \A c \in DOMAIN table : c # client => table[c] = buckets[c]
    BY <1>2, <1>4, TableKeys
  <1>7. answer'.allowed <=> entry.count < MaxInWindow
    BY <1>5, <1>6
  <1>8. CASE entry.count < MaxInWindow
    <2>1. buckets' = [table EXCEPT ![client].count = @ + 1]
          /\ granted' = [granted EXCEPT ![client] = Append(granted[client], clock)]
      BY <1>5, <1>7, <1>8
    <2>2. DOMAIN buckets' = DOMAIN table /\ (\A c \in DOMAIN table : c # client => buckets'[c] = table[c])
          /\ buckets'[client] = [entry EXCEPT !.count = entry.count + 1]
      <3>1. [table EXCEPT ![client].count = @ + 1]
              = [table EXCEPT ![client] = [table[client] EXCEPT !.count = table[client].count + 1]]
        OBVIOUS
      <3> QED BY <1>6, <2>1, <3>1
    <2>3. /\ answer' = [client |-> client, allowed |-> entry.count < MaxInWindow]
          /\ DOMAIN buckets' = DOMAIN WithWindow(client)
          /\ \A c \in DOMAIN WithWindow(client) : c # client => buckets'[c] = buckets[c]
          /\ forgotten' = forgotten \cup (LiveClients \ DOMAIN WithWindow(client))
      BY <1>4, <1>5, <1>6, <2>2
    <2>4. asked' = asked + 1 /\ clock' = clock
      BY <1>5
    <2> QED BY <1>1, <1>2, <1>3, <1>8, <2>1, <2>2, <2>3, <2>4
  <1>9. CASE ~ (entry.count < MaxInWindow)
    <2>1. buckets' = table /\ granted' = granted
      BY <1>5, <1>7, <1>9
    <2> QED BY <1>1, <1>2, <1>3, <1>4, <1>5, <1>6, <1>9, <2>1
  <1> QED BY <1>8, <1>9

\* a client whose entry was not dropped, or was over, before and after another one asks
LEMMA OthersKeep ==
    ASSUME LimiterInv, NEW client \in Clients, ControlRequest(client), NEW c \in Clients, c # client
    PROVE  /\ granted'[c] = granted[c]
           /\ WindowStart(c)' \in Int /\ WindowStart(c)' <= clock
           /\ Used(c)' <= Cardinality(Within(granted[c], WindowStart(c)', WindowStart(c)' + Window))
           /\ c \notin forgotten' => FairWindow(granted[c], WindowStart(c)', Used(c)')
  <1>1. /\ clock' = clock /\ DOMAIN buckets' = DOMAIN WithWindow(client)
        /\ c \in DOMAIN WithWindow(client) => buckets'[c] = buckets[c]
        /\ forgotten' = forgotten \cup (LiveClients \ DOMAIN WithWindow(client))
    BY RequestSteps
  <1>2. granted'[c] = granted[c]
    <2>1. granted \in [Clients -> Seq(0..MaxClock)]
      BY DEF LimiterInv, LimiterTypeOK
    <2> QED BY <2>1, RequestSteps
  <1>3. CASE c \in DOMAIN WithWindow(client)
    <2>1. c \in DOMAIN buckets
      BY <1>3, TableKeys
    <2>2. WindowStart(c)' = WindowStart(c) /\ Used(c)' = Used(c)
      BY <1>1, <1>3, <2>1 DEF WindowStart, Used
    <2> QED BY <1>1, <1>2, <2>2, ClientWindow
  <1>4. CASE c \notin DOMAIN WithWindow(client)
    <2>1. WindowStart(c)' = clock /\ Used(c)' = 0
      BY <1>1, <1>4 DEF WindowStart, Used
    <2>2. clock \in Int /\ clock <= clock
      BY LimiterTypes
    <2>3. 0 <= Cardinality(Within(granted[c], clock, clock + Window))
      <3>1. Cardinality(Within(granted[c], clock, clock + Window)) \in Nat
        BY LimiterTypes, WithinFinite
      <3> QED BY <3>1
    <2>4. c \notin forgotten' => FairWindow(granted[c], clock, 0)
      <3>1. c \notin forgotten' => c \notin LiveClients /\ c \notin forgotten
        BY <1>1, <1>4
      <3> QED BY <3>1, WindowOver
    <2> QED BY <1>2, <2>1, <2>2, <2>3, <2>4
  <1> QED BY <1>3, <1>4

\* the client that asks, before and after
LEMMA AskerKeeps ==
    ASSUME LimiterInv, NEW client \in Clients, ControlRequest(client)
    PROVE  /\ buckets'[client] \in [count : 0..MaxInWindow, resetAt : Nat, place : 1..MaxControl]
           /\ granted' \in [Clients -> Seq(0..MaxClock)]
           /\ \A i \in DOMAIN granted'[client] : granted'[client][i] <= clock
           /\ WindowStart(client)' <= clock
           /\ Used(client)' <= Cardinality(Within(granted'[client], WindowStart(client)',
                                                  WindowStart(client)' + Window))
           /\ client \notin forgotten =>
                 FairWindow(granted'[client], WindowStart(client)', Used(client)')
  <1>1. PICK entry \in [count : 0..MaxInWindow, resetAt : Nat, place : 1..MaxControl] :
              /\ entry = WithWindow(client)[client]
              /\ asked < MaxControl
              /\ DOMAIN buckets' = DOMAIN WithWindow(client)
              /\ \/ /\ entry.count < MaxInWindow
                    /\ buckets'[client] = [entry EXCEPT !.count = entry.count + 1]
                    /\ granted' = [granted EXCEPT ![client] = Append(granted[client], clock)]
                 \/ /\ ~ (entry.count < MaxInWindow)
                    /\ buckets'[client] = entry /\ granted' = granted
    BY RequestSteps
  <1>2. PICK times \in Seq(Nat) : times = granted[client] /\ \A i \in DOMAIN times : times[i] <= clock
    BY ClientWindow
  <1>3. PICK used \in Nat : used = entry.count /\ used <= MaxInWindow
    BY LimiterTypes
  <1>4. PICK start \in Int : start = entry.resetAt - Window /\ start + Window = entry.resetAt
    <2>1. PICK over \in Nat : over = entry.resetAt
      OBVIOUS
    <2>2. over - Window \in Int /\ (over - Window) + Window = over
      BY LimiterTypes
    <2> QED BY <2>1, <2>2
  <1>5. PICK moment \in Nat : moment = clock /\ moment <= MaxClock
    BY LimiterTypes
  <1>6. /\ start <= moment /\ moment < start + Window
        /\ used <= Cardinality(Within(times, start, start + Window))
        /\ client \notin forgotten => FairWindow(times, start, used)
    BY <1>1, <1>2, <1>3, <1>4, <1>5, EntryUsed
  <1>7. client \in DOMAIN buckets' /\ granted \in [Clients -> Seq(0..MaxClock)]
    BY <1>1, TableKeys DEF LimiterInv, LimiterTypeOK
  <1>8. CASE ~ (used < MaxInWindow)
    <2>1. buckets'[client] = entry /\ granted' = granted
      BY <1>1, <1>3, <1>8
    <2>2. WindowStart(client)' = start /\ Used(client)' = used
      BY <1>3, <1>4, <1>7, <2>1 DEF WindowStart, Used
    <2> QED BY <1>2, <1>5, <1>6, <1>7, <2>1, <2>2
  <1>9. CASE used < MaxInWindow
    <2>1. /\ buckets'[client] = [entry EXCEPT !.count = used + 1]
          /\ granted' = [granted EXCEPT ![client] = Append(times, moment)]
      BY <1>1, <1>2, <1>3, <1>5, <1>9
    <2>2. buckets'[client].count = used + 1 /\ buckets'[client].resetAt = entry.resetAt
          /\ buckets'[client] \in [count : 0..MaxInWindow, resetAt : Nat, place : 1..MaxControl]
      <3>1. used + 1 \in 0..MaxInWindow
        BY <1>3, <1>9, LimiterTypes
      <3> QED BY <2>1, <3>1
    <2>3. WindowStart(client)' = start /\ Used(client)' = used + 1
      BY <1>4, <1>7, <2>2 DEF WindowStart, Used
    <2>4. PICK later \in Seq(Nat) : later = Append(times, moment)
      <3>1. PICK n \in Nat : Len(times) = n
        OBVIOUS
      <3> QED BY <3>1, AppendedTime
    <2>5. granted'[client] = later
      BY <1>7, <2>1, <2>4
    <2>6. granted' \in [Clients -> Seq(0..MaxClock)]
      <3>1. times \in Seq(0..MaxClock) /\ moment \in 0..MaxClock
        BY <1>2, <1>5, <1>7
      <3>2. Append(times, moment) \in Seq(0..MaxClock)
        BY <3>1
      <3> QED BY <1>7, <2>1, <3>2
    <2>7. \A i \in DOMAIN later : later[i] <= moment
      <3>1. PICK n \in Nat : Len(times) = n /\ DOMAIN times = 1..n
        OBVIOUS
      <3>2. DOMAIN later = 1..n + 1 /\ later[n + 1] = moment /\ \A i \in 1..n : later[i] = times[i]
        BY <2>4, <3>1, AppendedTime
      <3>3. \A i \in 1..n + 1 : i \in 1..n \/ i = n + 1
        BY <3>1
      <3>4. moment <= moment /\ \A i \in 1..n : times[i] <= moment
        <4>1. \A i \in DOMAIN times : times[i] <= moment
          BY <1>2, <1>5
        <4> QED BY <1>5, <3>1, <4>1
      <3> QED BY <3>2, <3>3, <3>4
    <2>8. /\ Cardinality(Within(later, start, start + Window))
               = Cardinality(Within(times, start, start + Window)) + 1
          /\ FairWindow(times, start, used) => FairWindow(later, start, used + 1)
      BY <1>6, <2>4, RequestCounted
    <2>9. used + 1 <= Cardinality(Within(later, start, start + Window))
      <3>1. PICK k \in Nat : k = Cardinality(Within(times, start, start + Window))
        BY LimiterTypes, WithinFinite
      <3>2. used + 1 <= k + 1
        BY <1>3, <1>6, <3>1
      <3> QED BY <2>8, <3>1, <3>2
    <2> QED BY <1>5, <1>6, <2>2, <2>3, <2>5, <2>6, <2>7, <2>8, <2>9
  <1> QED BY <1>8, <1>9

LEMMA RequestKeeps == ASSUME LimiterInv, NEW client \in Clients, ControlRequest(client) PROVE LimiterInv'
  <1>1. /\ clock' = clock /\ asked < MaxControl /\ asked' = asked + 1
        /\ DOMAIN buckets' = DOMAIN WithWindow(client)
        /\ \A c \in DOMAIN WithWindow(client) : c # client => buckets'[c] = buckets[c]
        /\ forgotten' = forgotten \cup (LiveClients \ DOMAIN WithWindow(client))
    BY RequestSteps
  <1>2. /\ client \in DOMAIN buckets' /\ DOMAIN buckets' \subseteq Clients
        /\ IsFiniteSet(DOMAIN buckets') /\ Cardinality(DOMAIN buckets') <= MaxEntries
    BY <1>1, TableKeys
  <1>3. LimiterTypeOK'
    <2>1. clock' \in 0..MaxClock /\ forgotten' \subseteq Clients
      BY <1>1, LimiterTypes DEF LimiterInv, LimiterTypeOK
    <2>2. asked' \in 0..MaxControl
      <3>1. PICK n \in Nat : n = asked
        BY LimiterTypes
      <3>2. n + 1 \in 0..MaxControl
        BY <1>1, <3>1, LimiterTypes
      <3> QED BY <1>1, <3>1, <3>2
    <2>3. answer' \in [client : Clients, allowed : BOOLEAN]
      <3>1. PICK entry : answer' = [client |-> client, allowed |-> entry.count < MaxInWindow]
        BY RequestSteps
      <3>2. (entry.count < MaxInWindow) \in BOOLEAN
        OBVIOUS
      <3> QED BY <3>1, <3>2
    <2>4. \A c \in DOMAIN buckets' :
             buckets'[c] \in [count : 0..MaxInWindow, resetAt : Nat, place : 1..MaxControl]
      <3> SUFFICES ASSUME NEW c \in DOMAIN buckets'
                   PROVE  buckets'[c] \in [count : 0..MaxInWindow, resetAt : Nat, place : 1..MaxControl]
        OBVIOUS
      <3>1. CASE c = client
        BY <3>1, AskerKeeps
      <3>2. CASE c # client
        <4>1. buckets'[c] = buckets[c] /\ c \in DOMAIN buckets
          BY <1>1, <3>2, TableKeys
        <4> QED BY <4>1, LimiterTypes
      <3> QED BY <3>1, <3>2
    <2> QED BY <1>2, <2>1, <2>2, <2>3, <2>4, AskerKeeps DEF LimiterTypeOK
  <1>4. ASSUME NEW c \in Clients
        PROVE  /\ \A i \in DOMAIN granted'[c] : granted'[c][i] <= clock
               /\ WindowStart(c)' <= clock
               /\ Used(c)' <= Cardinality(Within(granted'[c], WindowStart(c)', WindowStart(c)' + Window))
               /\ c \notin forgotten' => FairWindow(granted'[c], WindowStart(c)', Used(c)')
    <2>1. CASE c = client
      <3>1. client \notin forgotten' => client \notin forgotten
        BY <1>1
      <3> QED BY <2>1, <3>1, AskerKeeps
    <2>2. CASE c # client
      BY <2>2, OthersKeep, ClientWindow
    <2> QED BY <2>1, <2>2
  <1> QED BY <1>1, <1>2, <1>3, <1>4 DEF LimiterInv

SpansAreBounded == \A c \in Clients \ forgotten : GrantedSince(c, clock - Window) <= 2 * MaxInWindow

LEMMA SpanBounded == LimiterInv => SpansAreBounded
  <1> SUFFICES ASSUME LimiterInv, NEW c \in Clients, c \notin forgotten
               PROVE  GrantedSince(c, clock - Window) <= 2 * MaxInWindow
    BY DEF SpansAreBounded
  <1>1. PICK times \in Seq(Nat) : times = granted[c]
    BY ClientWindow
  <1>2. PICK start \in Int, used \in Nat : /\ start = WindowStart(c) /\ used = Used(c)
                                           /\ used <= MaxInWindow /\ start <= clock
    BY ClientWindow
  <1>3. FairWindow(times, start, used)
    BY <1>1, <1>2, ClientWindow
  <1>4. PICK moment \in Int : moment = clock
    BY LimiterTypes
  <1>5. Cardinality({i \in DOMAIN times : times[i] > moment - Window}) <= 2 * MaxInWindow
    BY <1>2, <1>3, <1>4, TwiceTheLimit
  <1> QED BY <1>1, <1>4, <1>5 DEF GrantedSince

LEMMA RefusedWhenUsedUp ==
    ASSUME LimiterInv, NEW client \in Clients, ControlRequest(client), ~answer'.allowed
    PROVE  GrantedSince(client, clock - Window) >= MaxInWindow
  <1>1. PICK entry \in [count : 0..MaxInWindow, resetAt : Nat, place : 1..MaxControl] :
              /\ entry = WithWindow(client)[client] /\ asked < MaxControl
              /\ answer' = [client |-> client, allowed |-> entry.count < MaxInWindow]
    BY RequestSteps
  <1>2. entry.count = MaxInWindow
    <2>1. ~ (entry.count < MaxInWindow) /\ entry.count \in 0..MaxInWindow
      BY <1>1
    <2> QED BY <2>1, LimiterTypes
  <1>3. PICK times \in Seq(Nat) : times = granted[client]
    BY ClientWindow
  <1>4. PICK start \in Int : start = entry.resetAt - Window /\ start + Window = entry.resetAt
    <2>1. PICK over \in Nat : over = entry.resetAt
      OBVIOUS
    <2>2. over - Window \in Int /\ (over - Window) + Window = over
      BY LimiterTypes
    <2> QED BY <2>1, <2>2
  <1>5. PICK moment \in Nat : moment = clock
    BY LimiterTypes
  <1>6. MaxInWindow <= Cardinality(Within(times, start, start + Window)) /\ moment < start + Window
    BY <1>1, <1>2, <1>3, <1>4, <1>5, EntryUsed
  <1>7. moment - Window < start
    BY <1>6, LimiterTypes
  <1> DEFINE Span == {i \in DOMAIN times : times[i] > moment - Window}
  <1>8. Within(times, start, start + Window) \subseteq Span
    <2> SUFFICES ASSUME NEW i \in DOMAIN times, start <= times[i]
                 PROVE  times[i] > moment - Window
      BY DEF Within
    <2>1. times[i] \in Nat
      OBVIOUS
    <2> QED BY <1>7, <2>1, LimiterTypes
  <1>9. IsFiniteSet(Span)
    <2>1. PICK n \in Nat : DOMAIN times = 1..n
      OBVIOUS
    <2>2. IsFiniteSet(1..n) /\ Span \in SUBSET (1..n)
      BY <2>1, FS_Interval
    <2> QED BY <2>2, FS_Subset
  <1>10. Cardinality(Within(times, start, start + Window)) <= Cardinality(Span)
    <2> HIDE DEF Span
    <2> QED BY <1>8, <1>9, FS_Subset
  <1>11. Cardinality(Span) \in Nat /\ Cardinality(Within(times, start, start + Window)) \in Nat
    <2> HIDE DEF Span
    <2> QED BY <1>9, LimiterTypes, WithinFinite, FS_CardinalityType
  <1>12. Cardinality(Span) >= MaxInWindow
    BY <1>6, <1>10, <1>11, LimiterTypes
  <1> QED BY <1>3, <1>5, <1>12 DEF GrantedSince

LEMMA NextLimiter == LimiterInv /\ [LimiterNext]_limiterVars => LimiterInv'
  <1> SUFFICES ASSUME LimiterInv, [LimiterNext]_limiterVars
               PROVE  LimiterInv'
    OBVIOUS
  <1>1. CASE UNCHANGED limiterVars
    <2>1. UNCHANGED <<clock, buckets, granted, forgotten, answer, asked>>
      BY <1>1 DEF limiterVars
    <2> QED BY <2>1 DEF LimiterInv, LimiterTypeOK, WindowStart, Used
  <1> QED BY <1>1, ClockTicksKeeps, RequestKeeps DEF LimiterNext

LEMMA StepLimiter ==
    LimiterInv /\ SpansAreBounded' /\ [LimiterNext]_limiterVars
      => [/\ \A c \in Clients \ forgotten' : GrantedSince(c, clock - Window)' <= 2 * MaxInWindow
          /\ asked' # asked /\ ~answer'.allowed =>
                GrantedSince(answer'.client, clock - Window) >= MaxInWindow
          /\ forgotten' # forgotten => Cardinality(LiveClients) >= MaxEntries]_limiterVars
  <1> SUFFICES ASSUME LimiterInv, SpansAreBounded', LimiterNext
               PROVE  /\ \A c \in Clients \ forgotten' :
                            GrantedSince(c, clock - Window)' <= 2 * MaxInWindow
                      /\ asked' # asked /\ ~answer'.allowed =>
                            GrantedSince(answer'.client, clock - Window) >= MaxInWindow
                      /\ forgotten' # forgotten => Cardinality(LiveClients) >= MaxEntries
    OBVIOUS
  <1>1. \A c \in Clients \ forgotten' : GrantedSince(c, clock - Window)' <= 2 * MaxInWindow
    BY DEF SpansAreBounded
  <1>2. CASE ClockTicks
    <2>1. asked' = asked /\ forgotten' = forgotten
      BY <1>2 DEF ClockTicks
    <2> QED BY <1>1, <2>1
  <1>3. ASSUME NEW client \in Clients, ControlRequest(client)
        PROVE  /\ ~answer'.allowed => GrantedSince(answer'.client, clock - Window) >= MaxInWindow
               /\ forgotten' # forgotten => Cardinality(LiveClients) >= MaxEntries
    <2>1. answer'.client = client
      <3>1. PICK allowed : answer' = [client |-> client, allowed |-> allowed]
        BY <1>3, RequestSteps
      <3> QED BY <3>1
    <2>2. ~answer'.allowed => GrantedSince(answer'.client, clock - Window) >= MaxInWindow
      BY <1>3, <2>1, RefusedWhenUsedUp
    <2>3. forgotten' # forgotten => Cardinality(LiveClients) >= MaxEntries
      BY <1>3, RequestSteps, TableKeys
    <2> QED BY <2>2, <2>3
  <1> QED BY <1>1, <1>2, <1>3 DEF LimiterNext

\* The entry of a client, or its absence, tells how much of the current window the client
\* has used and that the one before it was kept to the limit, and the table never has
\* more entries than it may (http-security.ts:41-74).
THEOREM LimiterInductive == LimiterSpec => []LimiterInv
  BY InitLimiter, NextLimiter, PTL DEF LimiterSpec

\* A client that was not forgotten is never allowed more than twice the limit in a span as
\* long as a window, a request is refused only when the limit is used up, and a window is
\* forgotten only while the table is full of live ones (http-security.ts:41-74,
\* relay-server.ts:604-617).
THEOREM LimiterStaysFair == LimiterSpec => LimiterIsFair
  BY LimiterInductive, SpanBounded, StepLimiter, PTL DEF LimiterSpec, LimiterIsFair
================================================================================
