---------------------------- MODULE WS2812Proofs ----------------------------
(***************************************************************************)
(* Proofs about WS2812, for buffers, strips and numbers of frames of any   *)
(* size, and every lateness of the handler within its deadline.            *)
(***************************************************************************)
EXTENDS WS2812, TLAPS

\* The half that was read last is not refilled yet.
Stale == HTIF \/ TCIF

\* slots from pos to the end of what is filled in
Ahead == (IF pos < LedsPerHalf THEN 2 * LedsPerHalf - pos
                               ELSE 3 * LedsPerHalf - pos)
         - (IF Stale THEN LedsPerHalf ELSE 0)

\* slots of the frame filled in so far, past its last LED too
FilledSlots == Len(out) + Ahead

\* slots since the last half, or the one before it if that one is stale
Age == (IF pos < LedsPerHalf THEN pos ELSE pos - LedsPerHalf)
       + (IF Stale THEN LedsPerHalf ELSE 0)

\* While an interrupt is pending or served the stream is late slots into the
\* half that follows it, so it never reaches the end of that half.
LateInv ==
    /\ HTIF => /\ enabled /\ ~TCIF /\ handler # "TC"
               /\ pos = LedsPerHalf + late
    /\ TCIF /\ enabled => pos = late
    /\ enabled /\ handler = "TC" /\ ~TCIF => pos = LedsPerHalf + late
    /\ enabled /\ handler = "HT" => HTIF \/ TCIF
    /\ handler = "out" /\ ~HTIF /\ ~TCIF => late = 0

\* Every slot ahead holds what is to be clocked out next.
BufferInv ==
    enabled =>
        /\ \A s \in Slots :
              /\ pos <= s
              /\ pos < LedsPerHalf /\ TCIF => s < LedsPerHalf
              => bit_buffer[s] = LedOrDark(Len(out) + s - pos + 1, led_count)
        /\ pos >= LedsPerHalf /\ ~HTIF =>
              \A s \in 0..LedsPerHalf - 1 :
                 bit_buffer[s] = LedOrDark(Len(out) + 2 * LedsPerHalf - pos + s + 1,
                                           led_count)

\* leds_sent counts the LEDs filled in, until the strip ends.
SentInv ==
    enabled => \/ leds_sent = FilledSlots
               \/ leds_sent >= led_count /\ FilledSlots >= led_count

\* The stages lag behind the strip by a half each, and not by more; a strip
\* shorter than a half is two halves behind from the start.
StageInv ==
    enabled =>
        /\ stage = "sending" => FilledSlots <= led_count
        /\ stage = "done" => /\ FilledSlots >= led_count
                             /\ FilledSlots <= led_count + 2 * LedsPerHalf
        /\ stage = "idle" => /\ FilledSlots - LedsPerHalf >= led_count
                             /\ FilledSlots <= led_count + 3 * LedsPerHalf

IdleInv ==
    /\ stage # "idle" => enabled /\ sinceIdle = 0
    /\ enabled => sinceIdle <= Age
    /\ sinceIdle <= LedsPerHalf + MaxLate

IInv == /\ TypeOK /\ LateInv /\ BufferInv /\ SentInv /\ StageInv /\ IdleInv
        /\ FrameIntact /\ AllClockedOut /\ StopsInTime

-----------------------------------------------------------------------------
(* ws2812_fill_bit_buffer *)

\* Filling a half (the bounds the loop of ws2812_fill_bit_buffer needs): the
\* buffer stays one of LEDs, its half holds what is left of the strip, and the
\* other half is left alone.
LEMMA FilledHalf ==
    ASSUME NEW offset \in {Low, High}, NEW sent \in Nat,
           NEW count \in 0..MaxLeds, NEW buffer \in [Slots -> 0..MaxLeds]
    PROVE  /\ Filled(buffer, offset, sent, count) \in [Slots -> 0..MaxLeds]
           /\ \A s \in offset..offset + LedsPerHalf - 1 :
                 Filled(buffer, offset, sent, count)[s]
                    = LedOrDark(sent + s - offset + 1, count)
           /\ \A s \in Slots \ (offset..offset + LedsPerHalf - 1) :
                 Filled(buffer, offset, sent, count)[s] = buffer[s]
  <1> USE WS2812Assumption
  <1> DEFINE half == offset..offset + LedsPerHalf - 1
  <1>1. half \subseteq Slots /\ offset \in Nat
    BY DEF Slots, Low, High
  <1>2. ASSUME NEW s \in half
        PROVE  LedOrDark(sent + s - offset + 1, count) \in 0..MaxLeds
    BY <1>1 DEF LedOrDark, Dark, Slots
  <1>3. ASSUME NEW s \in Slots
        PROVE  /\ Filled(buffer, offset, sent, count)[s] \in 0..MaxLeds
               /\ s \in half => Filled(buffer, offset, sent, count)[s]
                                = LedOrDark(sent + s - offset + 1, count)
               /\ s \notin half => Filled(buffer, offset, sent, count)[s] = buffer[s]
    <2> HIDE DEF half
    <2>1. Filled(buffer, offset, sent, count)[s]
            = IF s \in half THEN LedOrDark(sent + s - offset + 1, count)
                            ELSE buffer[s]
      BY DEF Filled, half
    <2> QED
      BY <1>2, <2>1
  <1>4. Filled(buffer, offset, sent, count) \in [Slots -> 0..MaxLeds]
    <2>1. /\ DOMAIN Filled(buffer, offset, sent, count) = Slots
          /\ Filled(buffer, offset, sent, count)
                = [s \in Slots |-> Filled(buffer, offset, sent, count)[s]]
      BY Zenon DEF Filled
    <2> QED
      BY <1>3, <2>1, Zenon
  <1> HIDE DEF half
  <1>5. \A s \in half : Filled(buffer, offset, sent, count)[s]
                            = LedOrDark(sent + s - offset + 1, count)
    BY <1>1, <1>3
  <1>6. \A s \in Slots \ half :
            Filled(buffer, offset, sent, count)[s] = buffer[s]
    BY <1>3
  <1> QED
    BY <1>4, <1>5, <1>6 DEF half

\* What leds_sent becomes: a half more, or at least the whole strip.
LEMMA SentAfterHalf ==
    ASSUME NEW sent \in Nat, NEW count \in 0..MaxLeds
    PROVE  /\ SentAfter(sent, count) \in Nat
           /\ \/ SentAfter(sent, count) = sent + LedsPerHalf
              \/ SentAfter(sent, count) >= count /\ sent + LedsPerHalf >= count
           /\ SentAfter(sent, count) >= sent
  BY WS2812Assumption DEF SentAfter

-----------------------------------------------------------------------------
(* The steps *)

\* The initial state (ws2812_init) satisfies the invariant.
LEMMA InitInv == Init => IInv
  <1> SUFFICES ASSUME Init PROVE IInv
    OBVIOUS
  <1>1. TypeOK
    BY WS2812Assumption DEF Init, TypeOK, Slots, Dark
  <1>2. LateInv /\ BufferInv /\ SentInv /\ StageInv /\ IdleInv
    BY WS2812Assumption DEF Init, LateInv, BufferInv, SentInv, StageInv, IdleInv
  <1>3. FrameIntact /\ AllClockedOut /\ StopsInTime
    BY WS2812Assumption DEF Init, FrameIntact, AllClockedOut, StopsInTime
  <1> QED
    BY <1>1, <1>2, <1>3 DEF IInv

\* ws2812_send fills the whole buffer: two halves are ahead of the stream.
LEMMA SendInv == IInv /\ ws2812_send => IInv'
  <1> SUFFICES ASSUME IInv, ws2812_send PROVE IInv'
    OBVIOUS
  <1> USE WS2812Assumption
  <1>1. PICK count \in 0..MaxLeds :
            /\ led_count' = count
            /\ leds_sent' = SentAfter(SentAfter(0, count), count)
            /\ bit_buffer' = Filled(Filled(bit_buffer, Low, 0, count),
                                    High, SentAfter(0, count), count)
            /\ stage' = StageAfter(SentAfter(0, count), count)
    BY DEF ws2812_send
  <1> DEFINE sent == SentAfter(0, count)
             low == Filled(bit_buffer, Low, 0, count)
  <1>2. /\ frames < MaxFrames /\ ~enabled /\ ~HTIF /\ ~TCIF /\ handler = "out"
        /\ enabled' = TRUE /\ pos' = 0 /\ out' = <<>> /\ sinceIdle' = 0
        /\ frames' = frames + 1
        /\ HTIF' = HTIF /\ TCIF' = TCIF /\ handler' = handler /\ late' = late
    BY DEF ws2812_send, Pending
  <1>3. late = 0
    BY <1>2 DEF IInv, LateInv
  <1>4. /\ sent \in Nat /\ leds_sent' \in Nat
        /\ sent = LedsPerHalf \/ (sent >= count /\ LedsPerHalf >= count)
        /\ \/ leds_sent' = sent + LedsPerHalf
           \/ leds_sent' >= count /\ sent + LedsPerHalf >= count
        /\ leds_sent' >= sent
    <2>1. /\ sent \in Nat
          /\ sent = LedsPerHalf \/ (sent >= count /\ LedsPerHalf >= count)
      BY SentAfterHalf
    <2>2. /\ SentAfter(sent, count) \in Nat
          /\ \/ SentAfter(sent, count) = sent + LedsPerHalf
             \/ SentAfter(sent, count) >= count /\ sent + LedsPerHalf >= count
          /\ SentAfter(sent, count) >= sent
      BY <2>1, SentAfterHalf
    <2> QED
      BY <1>1, <2>1, <2>2
  <1>5. /\ low \in [Slots -> 0..MaxLeds]
        /\ \A s \in 0..LedsPerHalf - 1 : low[s] = LedOrDark(s + 1, count)
    <2>1. bit_buffer \in [Slots -> 0..MaxLeds]
      BY DEF IInv, TypeOK
    <2> QED
      BY <2>1, FilledHalf DEF Low
  <1>6. /\ bit_buffer' \in [Slots -> 0..MaxLeds]
        /\ \A s \in LedsPerHalf..2 * LedsPerHalf - 1 :
              bit_buffer'[s] = LedOrDark(sent + s - LedsPerHalf + 1, count)
        /\ \A s \in 0..LedsPerHalf - 1 : bit_buffer'[s] = LedOrDark(s + 1, count)
    <2> DEFINE both == Filled(low, High, sent, count)
    <2> HIDE DEF low, sent
    <2>1. /\ both \in [Slots -> 0..MaxLeds]
          /\ \A s \in High..High + LedsPerHalf - 1 :
                both[s] = LedOrDark(sent + s - High + 1, count)
          /\ \A s \in Slots \ (High..High + LedsPerHalf - 1) : both[s] = low[s]
      BY <1>4, <1>5, FilledHalf
    <2>2. bit_buffer' = both
      BY <1>1 DEF low, sent
    <2>3. /\ High..High + LedsPerHalf - 1 = LedsPerHalf..2 * LedsPerHalf - 1
          /\ \A s \in 0..LedsPerHalf - 1 :
                s \in Slots \ (High..High + LedsPerHalf - 1)
      BY DEF High, Slots
    <2> QED
      BY <1>5, <2>1, <2>2, <2>3 DEF High
  <1>7. TypeOK'
    <2>1. stage' \in {"idle", "sending", "done"}
      BY <1>1 DEF StageAfter
    <2>2. led_count' \in 0..MaxLeds /\ leds_sent' \in Nat
      BY <1>1, <1>4
    <2>3. bit_buffer' \in [Slots -> 0..MaxLeds]
      BY <1>6
    <2>4. pos' \in Slots /\ frames' \in 0..MaxFrames
      BY <1>2 DEF IInv, TypeOK, Slots
    <2> QED
      BY <1>2, <2>1, <2>2, <2>3, <2>4 DEF IInv, TypeOK
  <1>8. LateInv'
    BY <1>2, <1>3 DEF LateInv
  <1>9. BufferInv'
    <2>1. ASSUME NEW s \in Slots
          PROVE  bit_buffer'[s] = LedOrDark(s + 1, count)
      <3> HIDE DEF sent
      <3>1. CASE s < LedsPerHalf
        BY <1>6, <3>1 DEF Slots
      <3>2. CASE s >= LedsPerHalf
        <4>1. bit_buffer'[s] = LedOrDark(sent + s - LedsPerHalf + 1, count)
          BY <1>6, <3>2 DEF Slots
        <4>2. CASE sent = LedsPerHalf
          <5>1. sent + s - LedsPerHalf + 1 = s + 1
            BY <4>2 DEF Slots
          <5> QED
            BY <4>1, <5>1
        <4>3. CASE sent >= count /\ LedsPerHalf >= count
          <5>1. sent + s - LedsPerHalf + 1 > count /\ s + 1 > count
            BY <1>4, <3>2, <4>3 DEF Slots
          <5> QED
            BY <1>4, <4>1, <5>1 DEF LedOrDark, Slots
        <4> QED
          BY <1>4, <4>2, <4>3
      <3> QED
        BY <3>1, <3>2 DEF Slots
    <2> QED
      BY <1>1, <1>2, <2>1 DEF BufferInv, Slots
  <1>10. FilledSlots' = 2 * LedsPerHalf /\ Age' = 0
    BY <1>2 DEF FilledSlots, Ahead, Age, Stale
  <1>11. SentInv' /\ StageInv' /\ IdleInv'
    <2>1. SentInv'
      BY <1>1, <1>2, <1>4, <1>10 DEF SentInv
    <2>2. /\ stage' # "idle" /\ (stage' = "done" => 2 * LedsPerHalf >= count)
          /\ stage' = "sending" => 2 * LedsPerHalf <= count
      BY <1>1, <1>4 DEF StageAfter
    <2> QED
      BY <1>1, <1>2, <1>10, <2>1, <2>2 DEF StageInv, IdleInv
  <1>12. FrameIntact' /\ AllClockedOut' /\ StopsInTime'
    BY <1>1, <1>2 DEF FrameIntact, AllClockedOut, StopsInTime
  <1> QED
    BY <1>7, <1>8, <1>9, <1>11, <1>12 DEF IInv

\* One slot goes out (the DMA stream): it is the one that is due, and the
\* stream does not run into a half that is stale.
LEMMA ClockInv == IInv /\ ClockSlot => IInv'
  <1> SUFFICES ASSUME IInv, ClockSlot PROVE IInv'
    OBVIOUS
  <1> USE WS2812Assumption
  <1> DEFINE H == LedsPerHalf
             n == Len(out)
             idle == handler = "out" /\ ~HTIF /\ ~TCIF
  <1>1. /\ enabled
        /\ out' = Append(out, bit_buffer[pos])
        /\ pos' = IF pos = 2 * H - 1 THEN 0 ELSE pos + 1
        /\ HTIF' = (HTIF \/ pos = H - 1)
        /\ TCIF' = (TCIF \/ pos = 2 * H - 1)
        /\ sinceIdle' = IF stage = "idle" THEN sinceIdle + 1 ELSE 0
        /\ ~idle => late < MaxLate /\ late' = late + 1
        /\ idle => late' = 0
        /\ stage' = stage /\ led_count' = led_count /\ leds_sent' = leds_sent
        /\ bit_buffer' = bit_buffer /\ enabled' = enabled
        /\ handler' = handler /\ frames' = frames
    BY DEF ClockSlot, NextSlot, Pending, status
  <1>2. /\ pos \in 0..2 * H - 1 /\ late \in 0..MaxLate /\ led_count \in Nat
        /\ leds_sent \in Nat /\ sinceIdle \in Nat
        /\ bit_buffer \in [0..2 * H - 1 -> 0..MaxLeds]
        /\ HTIF \in BOOLEAN /\ TCIF \in BOOLEAN
        /\ out \in Seq(0..MaxLeds) /\ n \in Nat
    BY DEF IInv, TypeOK, Slots
  <1>3. /\ n' = n + 1
        /\ out' \in Seq(0..MaxLeds)
        /\ \A i \in 1..n : out'[i] = out[i]
        /\ out'[n + 1] = bit_buffer[pos]
    BY <1>1, <1>2
  <1>4. \* where the stream is while the interrupt is under way
        /\ HTIF => ~TCIF /\ handler # "TC" /\ pos = H + late
        /\ TCIF => pos = late
        /\ handler = "TC" /\ ~TCIF => pos = H + late
        /\ handler = "HT" => HTIF \/ TCIF
    BY <1>1 DEF IInv, LateInv
  <1>5. handler \in {"out", "HT", "TC"}
    BY DEF IInv, TypeOK
  <1>6. /\ pos = H - 1 => idle
        /\ pos = 2 * H - 1 => idle
    <2>1. ~idle => late < H - 1 /\ (pos = late \/ pos = H + late)
      BY <1>1, <1>2, <1>4, <1>5
    <2> QED
      BY <1>2, <2>1
  <1> DEFINE wraps == /\ pos = 2 * H - 1 /\ pos' = 0 /\ pos >= H
                      /\ idle /\ HTIF' = FALSE /\ TCIF' = TRUE
             crosses == /\ pos = H - 1 /\ pos' = H /\ pos < H
                        /\ idle /\ HTIF' = TRUE /\ TCIF' = FALSE
             goesOn == /\ pos' = pos + 1 /\ HTIF' = HTIF /\ TCIF' = TCIF
                       /\ pos < H <=> pos' < H
  <1>16. wraps \/ crosses \/ goesOn
    <2>1. CASE pos = 2 * H - 1
      <3>1. pos' = 0 /\ pos >= H /\ pos # H - 1
        BY <1>1, <1>2, <2>1
      <3> QED
        BY <1>1, <1>2, <1>6, <2>1, <3>1, Zenon
    <2>2. CASE pos = H - 1
      <3>1. pos' = H /\ pos < H /\ pos # 2 * H - 1
        BY <1>1, <1>2, <2>2
      <3> QED
        BY <1>1, <1>2, <1>6, <2>2, <3>1, Zenon
    <2>3. CASE pos # H - 1 /\ pos # 2 * H - 1
      <3>1. pos' = pos + 1 /\ (pos < H <=> pos' < H)
        BY <1>1, <1>2, <2>3
      <3>2. HTIF' = HTIF /\ TCIF' = TCIF
        BY <1>1, <1>2, <2>3, Zenon
      <3> QED
        BY <3>1, <3>2
    <2> QED
      BY <2>1, <2>2, <2>3
  <1> HIDE DEF n
  <1>7. TypeOK'
    <2>1. late' \in 0..MaxLate /\ pos' \in Slots /\ sinceIdle' \in Nat
      BY <1>1, <1>2 DEF Slots
    <2> QED
      BY <1>1, <1>2, <1>3, <2>1 DEF IInv, TypeOK
  <1>8. LateInv'
    <2>1. CASE idle
      BY <1>1, <1>2, <2>1 DEF LateInv
    <2>2. CASE ~idle
      <3>1. /\ pos' = pos + 1 /\ late' = late + 1 /\ HTIF' = HTIF /\ TCIF' = TCIF
        BY <1>1, <1>2, <1>6, <2>2
      <3> QED
        BY <1>1, <1>2, <1>4, <1>5, <2>2, <3>1 DEF LateInv
    <2> QED
      BY <2>1, <2>2
  <1>9. /\ \A s \in 0..2 * H - 1 :
              pos <= s /\ (pos < H /\ TCIF => s < H)
              => bit_buffer[s] = LedOrDark(n + s - pos + 1, led_count)
        /\ pos >= H /\ ~HTIF =>
              \A s \in 0..H - 1 :
                 bit_buffer[s] = LedOrDark(n + 2 * H - pos + s + 1, led_count)
    BY <1>1 DEF IInv, BufferInv, Slots, n
  <1>10. BufferInv'
    <2>1. ASSUME NEW s \in 0..2 * H - 1, pos' <= s, pos' < H /\ TCIF' => s < H
          PROVE  bit_buffer[s] = LedOrDark(n + 1 + s - pos' + 1, led_count)
      <3>1. CASE pos = 2 * H - 1
        <4>1. pos' = 0 /\ TCIF' /\ ~HTIF /\ s \in 0..H - 1 /\ pos >= H
          BY <1>2, <1>16, <2>1, <3>1
        <4>2. bit_buffer[s] = LedOrDark(n + 2 * H - pos + s + 1, led_count)
          BY <1>9, <4>1
        <4>3. n + 2 * H - pos + s + 1 = n + 1 + s - pos' + 1
          BY <1>2, <3>1, <4>1
        <4> QED
          BY <4>2, <4>3
      <3>2. CASE pos # 2 * H - 1
        <4>1. pos' = pos + 1 /\ pos <= s /\ (pos < H /\ TCIF => s < H)
          <5>1. CASE crosses
            <6>1. pos' = pos + 1 /\ pos <= s
              BY <1>2, <2>1, <5>1
            <6> QED
              BY <5>1, <6>1, Zenon
          <5>2. CASE goesOn
            <6>1. pos' = pos + 1 /\ pos <= s
              BY <1>2, <2>1, <5>2
            <6>2. pos < H /\ TCIF => s < H
              BY <2>1, <5>2, Zenon
            <6> QED
              BY <6>1, <6>2
          <5> QED
            BY <1>16, <3>2, <5>1, <5>2
        <4>2. n + s - pos + 1 = n + 1 + s - pos' + 1
          BY <1>2, <4>1
        <4> QED
          BY <1>9, <4>1, <4>2
      <3> QED
        BY <3>1, <3>2
    <2>2. ASSUME pos' >= H, ~HTIF', NEW s \in 0..H - 1
          PROVE  bit_buffer[s] = LedOrDark(n + 1 + 2 * H - pos' + s + 1, led_count)
      <3>1. pos' = pos + 1 /\ pos >= H /\ ~HTIF
        BY <1>2, <1>16, <2>2
      <3>2. n + 2 * H - pos + s + 1 = n + 1 + 2 * H - pos' + s + 1
        BY <1>2, <3>1
      <3> QED
        BY <1>9, <3>1, <3>2
    <2>3. Len(out') = n + 1
      BY <1>3 DEF n
    <2> QED
      BY <1>1, <2>1, <2>2, <2>3 DEF BufferInv, Slots
  <1>11. /\ FilledSlots' = FilledSlots /\ FilledSlots \in Int
         /\ Ahead' = Ahead - 1 /\ Ahead \in Int
         /\ Age' = Age + 1 /\ Age <= H + MaxLate - (IF idle THEN 1 ELSE 0)
    <2>1. /\ Ahead' = Ahead - 1 /\ Ahead \in Int
          /\ Age' = Age + 1 /\ Age \in Int
      <3>1. CASE wraps
        BY <1>2, <3>1 DEF Ahead, Age, Stale
      <3>2. CASE crosses
        BY <1>2, <3>2 DEF Ahead, Age, Stale
      <3>3. CASE goesOn
        BY <1>2, <3>3 DEF Ahead, Age, Stale
      <3> QED
        BY <1>16, <3>1, <3>2, <3>3
    <2>3. Age <= H + MaxLate - (IF idle THEN 1 ELSE 0)
      BY <1>2, <1>4 DEF Age, Stale
    <2> QED
      BY <1>2, <1>3, <2>1, <2>3 DEF FilledSlots, n
  <1>12. SentInv' /\ StageInv'
    BY <1>1, <1>11 DEF IInv, SentInv, StageInv
  <1>13. IdleInv'
    <2>1. /\ stage # "idle" => sinceIdle = 0
          /\ sinceIdle <= Age /\ sinceIdle <= H + MaxLate
          /\ Age \in Int /\ Age >= 0
      BY <1>1, <1>2 DEF IInv, IdleInv, Age
    <2>2. ~idle => Age < H + MaxLate
      BY <1>1, <1>2, <1>4, <1>5 DEF Age, Stale
    <2>3. sinceIdle' <= H + MaxLate
      BY <1>1, <1>2, <1>11, <2>1, <2>2
    <2>4. sinceIdle' <= Age'
      BY <1>1, <1>2, <1>11, <2>1
    <2> QED
      BY <1>1, <2>1, <2>3, <2>4 DEF IdleInv
  <1>14. FrameIntact'
    <2>1. bit_buffer[pos] = LedOrDark(n + 1, led_count)
      <3>1. pos < H /\ TCIF => pos < H
        OBVIOUS
      <3>2. bit_buffer[pos] = LedOrDark(n + pos - pos + 1, led_count)
        BY <1>2, <1>9
      <3> QED
        BY <1>2, <3>2
    <2>2. \A i \in 1..n : out[i] = LedOrDark(i, led_count)
      BY DEF IInv, FrameIntact, n
    <2>3. \A i \in 1..n + 1 : out'[i] = LedOrDark(i, led_count)
      <3> SUFFICES ASSUME NEW i \in 1..n + 1
                   PROVE  out'[i] = LedOrDark(i, led_count)
        OBVIOUS
      <3>1. i \in 1..n \/ i = n + 1
        BY <1>2
      <3> QED
        BY <1>3, <2>1, <2>2, <3>1
    <2> QED
      BY <1>1, <1>3, <2>3 DEF FrameIntact, n
  <1>15. AllClockedOut' /\ StopsInTime'
    <2>1. FilledSlots' <= led_count + 3 * H
      BY <1>1, <1>2, <1>11 DEF IInv, StageInv, TypeOK
    <2>2. Ahead' >= H - MaxLate /\ Ahead' \in Int
      <3>1. Ahead >= H + 1 - MaxLate
        <4>1. CASE HTIF \/ TCIF
          <5>1. late < MaxLate
            BY <1>1, <4>1
          <5>2. Ahead = H - late
            BY <1>2, <1>4, <4>1 DEF Ahead, Stale
          <5> QED
            BY <1>2, <5>1, <5>2
        <4>2. CASE ~HTIF /\ ~TCIF
          BY <1>2, <4>2 DEF Ahead, Stale
        <4> QED
          BY <4>1, <4>2
      <3> QED
        BY <1>11, <3>1
    <2>3. Len(out') <= led_count + 2 * H + MaxLate
      BY <1>2, <1>3, <1>11, <2>1, <2>2 DEF FilledSlots, n
    <2> QED
      BY <1>1, <2>3 DEF AllClockedOut, StopsInTime
  <1> QED
    BY <1>7, <1>8, <1>10, <1>12, <1>13, <1>14, <1>15 DEF IInv

\* The handler is entered: nothing of the stream changes.
LEMMA EnterInv == IInv /\ DMA1_Stream6_IRQEnter => IInv'
  <1> SUFFICES ASSUME IInv, DMA1_Stream6_IRQEnter PROVE IInv'
    OBVIOUS
  <1>1. /\ HTIF \/ TCIF
        /\ handler' = "HT" /\ handler = "out"
        /\ UNCHANGED <<stage, led_count, leds_sent, bit_buffer, enabled, pos,
                       HTIF, TCIF, late, out, sinceIdle, frames>>
    BY DEF DMA1_Stream6_IRQEnter, Pending, status
  <1>2. TypeOK' /\ LateInv'
    BY <1>1 DEF IInv, TypeOK, LateInv
  <1>3. Ahead' = Ahead /\ FilledSlots' = FilledSlots /\ Age' = Age
    BY <1>1 DEF Ahead, FilledSlots, Age, Stale
  <1>4. BufferInv'
    BY <1>1 DEF IInv, BufferInv
  <1>5. SentInv' /\ StageInv' /\ IdleInv'
    BY <1>1, <1>3 DEF IInv, SentInv, StageInv, IdleInv
  <1>6. FrameIntact' /\ AllClockedOut' /\ StopsInTime'
    BY <1>1 DEF IInv, FrameIntact, AllClockedOut, StopsInTime
  <1> QED
    BY <1>2, <1>4, <1>5, <1>6 DEF IInv

\* A refill adds a half to what is filled in (ws2812_fill_bit_buffer as the
\* handler calls it): the LEDs that follow, and the stage moves on only when
\* the strip ended.
LEMMA RefillStep ==
    ASSUME IInv, enabled, stage # "idle", NEW offset \in {Low, High},
           Refill(offset)
    PROVE  LET f == FilledSlots + LedsPerHalf
           IN  /\ leds_sent' \in Nat
               /\ bit_buffer' \in [Slots -> 0..MaxLeds]
               /\ stage' \in {"idle", "sending", "done"}
               /\ led_count' = led_count /\ enabled'
               /\ \A s \in offset..offset + LedsPerHalf - 1 :
                     bit_buffer'[s]
                        = LedOrDark(FilledSlots + s - offset + 1, led_count)
               /\ \A s \in Slots \ (offset..offset + LedsPerHalf - 1) :
                     bit_buffer'[s] = bit_buffer[s]
               /\ \/ leds_sent' = f
                  \/ leds_sent' >= led_count /\ f >= led_count
               /\ stage' = "sending" => f <= led_count
               /\ stage' = "done" => /\ f >= led_count
                                     /\ f <= led_count + 2 * LedsPerHalf
               /\ stage' = "idle" => /\ FilledSlots >= led_count
                                     /\ f <= led_count + 3 * LedsPerHalf
  <1> USE WS2812Assumption
  <1>1. /\ bit_buffer' = Filled(bit_buffer, offset, leds_sent, led_count)
        /\ leds_sent' = SentAfter(leds_sent, led_count)
        /\ stage' = IF stage = "done" THEN "idle"
                                      ELSE StageAfter(leds_sent, led_count)
        /\ led_count' = led_count /\ enabled' = enabled
    BY DEF Refill
  <1>2. /\ led_count \in 0..MaxLeds /\ leds_sent \in Nat
        /\ bit_buffer \in [Slots -> 0..MaxLeds]
        /\ Len(out) \in Nat /\ pos \in Int
    BY DEF IInv, TypeOK, Slots
  <1>3. FilledSlots \in Int
    BY <1>2 DEF FilledSlots, Ahead
  <1>4. /\ \/ leds_sent = FilledSlots
           \/ leds_sent >= led_count /\ FilledSlots >= led_count
        /\ stage = "sending" => FilledSlots <= led_count
        /\ stage = "done" => /\ FilledSlots >= led_count
                             /\ FilledSlots <= led_count + 2 * LedsPerHalf
        /\ stage \in {"sending", "done"}
    BY DEF IInv, TypeOK, SentInv, StageInv
  <1>5. /\ bit_buffer' \in [Slots -> 0..MaxLeds]
        /\ \A s \in offset..offset + LedsPerHalf - 1 :
              bit_buffer'[s] = LedOrDark(leds_sent + s - offset + 1, led_count)
        /\ \A s \in Slots \ (offset..offset + LedsPerHalf - 1) :
              bit_buffer'[s] = bit_buffer[s]
    BY <1>1, <1>2, FilledHalf
  <1>6. /\ leds_sent' \in Nat
        /\ \/ leds_sent' = leds_sent + LedsPerHalf
           \/ leds_sent' >= led_count /\ leds_sent + LedsPerHalf >= led_count
        /\ leds_sent' >= leds_sent
    BY <1>1, <1>2, SentAfterHalf
  <1> DEFINE F == FilledSlots
  <1> HIDE DEF F
  <1>7. ASSUME NEW s \in offset..offset + LedsPerHalf - 1
        PROVE  bit_buffer'[s] = LedOrDark(F + s - offset + 1, led_count)
    <2>1. s - offset >= 0 /\ s \in Int /\ offset \in Int
      BY DEF Low, High
    <2>2. CASE leds_sent = F
      BY <1>5, <2>2
    <2>3. CASE leds_sent >= led_count /\ F >= led_count
      <3>1. leds_sent + s - offset + 1 > led_count /\ F + s - offset + 1 > led_count
        BY <1>2, <1>3, <2>1, <2>3 DEF F
      <3> QED
        BY <1>2, <1>3, <1>5, <2>1, <3>1 DEF LedOrDark, F
    <2> QED
      BY <1>4, <2>2, <2>3 DEF F
  <1>8. \/ leds_sent' = F + LedsPerHalf
        \/ leds_sent' >= led_count /\ F + LedsPerHalf >= led_count
    BY <1>2, <1>3, <1>4, <1>6 DEF F
  <1>9. /\ stage' \in {"idle", "sending", "done"}
        /\ stage' = "sending" => F + LedsPerHalf <= led_count
        /\ stage' = "done" => /\ F + LedsPerHalf >= led_count
                              /\ F + LedsPerHalf <= led_count + 2 * LedsPerHalf
        /\ stage' = "idle" => /\ F >= led_count
                              /\ F + LedsPerHalf <= led_count + 3 * LedsPerHalf
    BY <1>1, <1>2, <1>3, <1>4 DEF StageAfter, F
  <1> QED
    BY <1>1, <1>5, <1>6, <1>7, <1>8, <1>9 DEF F

\* Facts about the stream that the two halves of the handler share.
LEMMA StreamFacts ==
    ASSUME IInv
    PROVE  /\ pos \in 0..2 * LedsPerHalf - 1 /\ late \in 0..MaxLate
           /\ late < LedsPerHalf /\ led_count \in Nat /\ Len(out) \in Nat
           /\ HTIF => enabled /\ ~TCIF /\ pos = LedsPerHalf + late
           /\ TCIF /\ enabled => pos = late
           /\ ~enabled => stage = "idle"
           /\ sinceIdle <= LedsPerHalf + MaxLate
           /\ stage # "idle" => sinceIdle = 0
           /\ enabled => sinceIdle <= Age
  BY WS2812Assumption DEF IInv, TypeOK, LateInv, IdleInv, Slots

\* The handler stops the stream only when the strip has seen the whole frame
\* (the else branches of DMA1_Stream6_IRQHandler).
LEMMA StopStep ==
    ASSUME IInv, enabled, stage = "idle", HTIF \/ TCIF
    PROVE  Len(out) >= led_count
  <1>1. FilledSlots - LedsPerHalf >= led_count
    BY DEF IInv, StageInv
  <1>2. FilledSlots - LedsPerHalf <= Len(out)
    <2>1. CASE HTIF
      BY <2>1, StreamFacts, WS2812Assumption DEF FilledSlots, Ahead, Stale
    <2>2. CASE TCIF
      BY <2>2, StreamFacts, WS2812Assumption DEF FilledSlots, Ahead, Stale
    <2> QED
      BY <2>1, <2>2
  <1>3. FilledSlots \in Int
    BY StreamFacts, WS2812Assumption DEF FilledSlots, Ahead
  <1> QED
    BY <1>1, <1>2, <1>3, StreamFacts, WS2812Assumption

\* The half transfer interrupt: the low half was read and is refilled while
\* the stream is in the high one.
LEMMA HalfInv == IInv /\ HalfTransfer => IInv'
  <1> SUFFICES ASSUME IInv, HalfTransfer PROVE IInv'
    OBVIOUS
  <1> USE WS2812Assumption
  <1>1. /\ handler = "HT" /\ handler' = "TC" /\ HTIF' = FALSE
        /\ TCIF' = (TCIF \/ (enabled /\ ~enabled'))
        /\ pos' = pos /\ late' = late /\ out' = out /\ sinceIdle' = sinceIdle
        /\ frames' = frames
    BY DEF HalfTransfer
  <1>2. led_count' = led_count => FrameIntact' /\ StopsInTime'
    BY <1>1 DEF IInv, FrameIntact, StopsInTime
  <1>3. CASE ~HTIF
    <2>1. /\ stage' = stage /\ led_count' = led_count /\ leds_sent' = leds_sent
          /\ bit_buffer' = bit_buffer /\ enabled' = enabled
      BY <1>3 DEF HalfTransfer, status
    <2>2. TCIF' = TCIF /\ HTIF' = HTIF
      BY <1>1, <1>3, <2>1 DEF IInv, TypeOK
    <2>3. TypeOK' /\ LateInv'
      BY <1>1, <1>3, <2>1, <2>2 DEF IInv, TypeOK, LateInv
    <2>4. Ahead' = Ahead /\ FilledSlots' = FilledSlots /\ Age' = Age
      BY <1>1, <2>2 DEF Ahead, FilledSlots, Age, Stale
    <2>5. BufferInv'
      BY <1>1, <2>1, <2>2 DEF IInv, BufferInv
    <2>6. SentInv' /\ StageInv' /\ IdleInv'
      BY <1>1, <2>1, <2>4 DEF IInv, SentInv, StageInv, IdleInv
    <2>7. FrameIntact' /\ AllClockedOut' /\ StopsInTime'
      BY <1>1, <2>1 DEF IInv, FrameIntact, AllClockedOut, StopsInTime
    <2> QED
      BY <2>3, <2>5, <2>6, <2>7 DEF IInv
  <1>4. CASE HTIF /\ stage # "idle"
    <2>1. Refill(Low)
      BY <1>4 DEF HalfTransfer, Serve
    <2>2. enabled /\ ~TCIF /\ pos = LedsPerHalf + late
      BY <1>4, StreamFacts
    <2>3. FilledSlots' = FilledSlots + LedsPerHalf /\ Age' = Age - LedsPerHalf
      <3>1. enabled' /\ ~TCIF'
        BY <1>1, <2>1, <2>2 DEF Refill
      <3> QED
        BY <1>1, <1>4, <2>2, <3>1, StreamFacts
           DEF FilledSlots, Ahead, Age, Stale
    <2>4. /\ leds_sent' \in Nat
          /\ bit_buffer' \in [Slots -> 0..MaxLeds]
          /\ stage' \in {"idle", "sending", "done"}
          /\ led_count' = led_count /\ enabled'
          /\ \A s \in Low..Low + LedsPerHalf - 1 :
                bit_buffer'[s] = LedOrDark(FilledSlots + s - Low + 1, led_count)
          /\ \A s \in Slots \ (Low..Low + LedsPerHalf - 1) :
                bit_buffer'[s] = bit_buffer[s]
          /\ \/ leds_sent' = FilledSlots + LedsPerHalf
             \/ leds_sent' >= led_count /\ FilledSlots + LedsPerHalf >= led_count
          /\ stage' = "sending" => FilledSlots + LedsPerHalf <= led_count
          /\ stage' = "done" =>
                /\ FilledSlots + LedsPerHalf >= led_count
                /\ FilledSlots + LedsPerHalf <= led_count + 2 * LedsPerHalf
          /\ stage' = "idle" =>
                /\ FilledSlots >= led_count
                /\ FilledSlots + LedsPerHalf <= led_count + 3 * LedsPerHalf
      <3>1. Low \in {Low, High}
        OBVIOUS
      <3> QED
        BY <1>4, <2>1, <2>2, <3>1, RefillStep
    <2>5. TypeOK' /\ LateInv'
      BY <1>1, <2>2, <2>4 DEF IInv, TypeOK, LateInv
    <2>6. FilledSlots = Len(out) + 2 * LedsPerHalf - pos /\ FilledSlots \in Int
      BY <1>4, <2>2, StreamFacts DEF FilledSlots, Ahead, Stale
    <2>7. BufferInv'
      <3>1. ASSUME NEW s \in Slots, pos <= s
            PROVE  bit_buffer'[s] = LedOrDark(Len(out) + s - pos + 1, led_count)
        <4>1. s \in Slots \ (Low..Low + LedsPerHalf - 1)
          BY <2>2, <3>1, StreamFacts DEF Slots, Low
        <4>2. bit_buffer[s] = LedOrDark(Len(out) + s - pos + 1, led_count)
          BY <2>2, <3>1 DEF IInv, BufferInv
        <4> QED
          BY <2>4, <4>1, <4>2
      <3>2. ASSUME NEW s \in 0..LedsPerHalf - 1
            PROVE  bit_buffer'[s]
                    = LedOrDark(Len(out) + 2 * LedsPerHalf - pos + s + 1, led_count)
        <4>1. bit_buffer'[s] = LedOrDark(FilledSlots + s - 0 + 1, led_count)
          BY <2>4 DEF Low
        <4>2. FilledSlots + s - 0 + 1 = Len(out) + 2 * LedsPerHalf - pos + s + 1
          BY <2>6, StreamFacts
        <4> QED
          BY <4>1, <4>2
      <3> QED
        BY <1>1, <2>4, <3>1, <3>2 DEF BufferInv
    <2>8. SentInv' /\ StageInv'
      BY <2>3, <2>4, <2>6, StreamFacts DEF SentInv, StageInv
    <2>9. IdleInv'
      BY <1>1, <1>4, <2>2, <2>3, <2>4, StreamFacts DEF IdleInv, Age, Stale
    <2>10. FrameIntact' /\ AllClockedOut' /\ StopsInTime'
      BY <1>1, <1>2, <2>4 DEF AllClockedOut
    <2> QED
      BY <2>5, <2>7, <2>8, <2>9, <2>10 DEF IInv
  <1>5. CASE HTIF /\ stage = "idle"
    <2>1. Stop
      BY <1>5 DEF HalfTransfer, Serve
    <2>2. /\ bit_buffer' = [s \in Slots |-> Dark] /\ enabled' = FALSE
          /\ stage' = stage /\ led_count' = led_count /\ leds_sent' = leds_sent
      BY <2>1 DEF Stop
    <2>3. TypeOK' /\ LateInv'
      <3>1. bit_buffer' \in [Slots -> 0..MaxLeds] /\ ~enabled'
        BY <2>2 DEF Dark
      <3>2. TCIF' \in BOOLEAN
        BY <1>1, <2>2, StreamFacts DEF IInv, TypeOK
      <3> QED
        BY <1>1, <2>2, <3>1, <3>2 DEF IInv, TypeOK, LateInv
    <2>4. BufferInv' /\ SentInv' /\ StageInv'
      BY <2>2 DEF BufferInv, SentInv, StageInv
    <2>5. IdleInv'
      BY <1>1, <1>5, <2>2, StreamFacts DEF IdleInv
    <2>6. FrameIntact' /\ AllClockedOut' /\ StopsInTime'
      BY <1>1, <1>2, <1>5, <2>2, StopStep, StreamFacts DEF AllClockedOut
    <2> QED
      BY <2>3, <2>4, <2>5, <2>6 DEF IInv
  <1> QED
    BY <1>3, <1>4, <1>5

\* The transfer complete interrupt: the same for the high half, while the
\* stream starts over in the low one.
LEMMA CompleteInv == IInv /\ TransferComplete => IInv'
  <1> SUFFICES ASSUME IInv, TransferComplete PROVE IInv'
    OBVIOUS
  <1> USE WS2812Assumption
  <1>1. /\ handler = "TC" /\ handler' = "out" /\ HTIF' = HTIF
        /\ TCIF' = (enabled /\ ~enabled')
        /\ pos' = pos /\ late' = 0 /\ out' = out /\ sinceIdle' = sinceIdle
        /\ frames' = frames
    BY DEF TransferComplete
  <1>2. led_count' = led_count => FrameIntact' /\ StopsInTime'
    BY <1>1 DEF IInv, FrameIntact, StopsInTime
  <1>3. ~HTIF
    BY <1>1 DEF IInv, LateInv
  <1>4. CASE ~TCIF
    <2>1. /\ stage' = stage /\ led_count' = led_count /\ leds_sent' = leds_sent
          /\ bit_buffer' = bit_buffer /\ enabled' = enabled
      BY <1>4 DEF TransferComplete, status
    <2>2. TCIF' = TCIF
      BY <1>1, <1>4, <2>1 DEF IInv, TypeOK
    <2>3. TypeOK' /\ LateInv'
      BY <1>1, <1>3, <1>4, <2>1, <2>2 DEF IInv, TypeOK, LateInv
    <2>4. Ahead' = Ahead /\ FilledSlots' = FilledSlots /\ Age' = Age
      BY <1>1, <2>2 DEF Ahead, FilledSlots, Age, Stale
    <2>5. BufferInv'
      BY <1>1, <2>1, <2>2 DEF IInv, BufferInv
    <2>6. SentInv' /\ StageInv' /\ IdleInv'
      BY <1>1, <2>1, <2>4 DEF IInv, SentInv, StageInv, IdleInv
    <2>7. FrameIntact' /\ AllClockedOut' /\ StopsInTime'
      BY <1>1, <2>1 DEF IInv, FrameIntact, AllClockedOut, StopsInTime
    <2> QED
      BY <2>3, <2>5, <2>6, <2>7 DEF IInv
  <1>5. CASE TCIF /\ stage # "idle"
    <2>1. Refill(High)
      BY <1>5 DEF TransferComplete, Serve
    <2>2. enabled /\ pos = late /\ pos < LedsPerHalf
      BY <1>5, StreamFacts
    <2>3. FilledSlots' = FilledSlots + LedsPerHalf /\ Age' = Age - LedsPerHalf
      <3>1. ~TCIF' /\ ~HTIF'
        BY <1>1, <1>3, <2>1, <2>2 DEF Refill
      <3> QED
        BY <1>1, <1>5, <2>2, <3>1, StreamFacts
           DEF FilledSlots, Ahead, Age, Stale
    <2>4. /\ leds_sent' \in Nat
          /\ bit_buffer' \in [Slots -> 0..MaxLeds]
          /\ stage' \in {"idle", "sending", "done"}
          /\ led_count' = led_count /\ enabled'
          /\ \A s \in High..High + LedsPerHalf - 1 :
                bit_buffer'[s] = LedOrDark(FilledSlots + s - High + 1, led_count)
          /\ \A s \in Slots \ (High..High + LedsPerHalf - 1) :
                bit_buffer'[s] = bit_buffer[s]
          /\ \/ leds_sent' = FilledSlots + LedsPerHalf
             \/ leds_sent' >= led_count /\ FilledSlots + LedsPerHalf >= led_count
          /\ stage' = "sending" => FilledSlots + LedsPerHalf <= led_count
          /\ stage' = "done" =>
                /\ FilledSlots + LedsPerHalf >= led_count
                /\ FilledSlots + LedsPerHalf <= led_count + 2 * LedsPerHalf
          /\ stage' = "idle" =>
                /\ FilledSlots >= led_count
                /\ FilledSlots + LedsPerHalf <= led_count + 3 * LedsPerHalf
      <3>1. High \in {Low, High}
        OBVIOUS
      <3> QED
        BY <1>5, <2>1, <2>2, <3>1, RefillStep
    <2>5. TypeOK' /\ LateInv'
      <3>1. ~TCIF' /\ TCIF' \in BOOLEAN
        BY <1>1, <2>1, <2>2 DEF Refill
      <3> QED
        BY <1>1, <1>3, <2>4, <3>1 DEF IInv, TypeOK, LateInv
    <2>6. FilledSlots = Len(out) + LedsPerHalf - pos /\ FilledSlots \in Int
      BY <1>5, <2>2, StreamFacts DEF FilledSlots, Ahead, Stale
    <2>7. BufferInv'
      <3>1. ASSUME NEW s \in Slots, pos <= s
            PROVE  bit_buffer'[s] = LedOrDark(Len(out) + s - pos + 1, led_count)
        <4>1. CASE s < LedsPerHalf
          <5>1. s \in Slots \ (High..High + LedsPerHalf - 1)
            BY <4>1 DEF Slots, High
          <5>2. bit_buffer[s] = LedOrDark(Len(out) + s - pos + 1, led_count)
            BY <2>2, <3>1, <4>1 DEF IInv, BufferInv
          <5> QED
            BY <2>4, <5>1, <5>2
        <4>2. CASE s >= LedsPerHalf
          <5>1. s \in High..High + LedsPerHalf - 1
            BY <4>2 DEF Slots, High
          <5>2. FilledSlots + s - High + 1 = Len(out) + s - pos + 1
            BY <2>6, StreamFacts DEF High, Slots
          <5>3. bit_buffer'[s] = LedOrDark(FilledSlots + s - High + 1, led_count)
            BY <2>4, <5>1
          <5> QED
            BY <5>2, <5>3
        <4> QED
          BY <4>1, <4>2 DEF Slots
      <3> QED
        BY <1>1, <2>2, <2>4, <3>1, StreamFacts DEF BufferInv
    <2>8. SentInv' /\ StageInv'
      BY <2>3, <2>4, <2>6, StreamFacts DEF SentInv, StageInv
    <2>9. IdleInv'
      BY <1>1, <1>5, <2>2, <2>3, <2>4, StreamFacts DEF IdleInv, Age, Stale
    <2>10. FrameIntact' /\ AllClockedOut' /\ StopsInTime'
      BY <1>1, <1>2, <2>4 DEF AllClockedOut
    <2> QED
      BY <2>5, <2>7, <2>8, <2>9, <2>10 DEF IInv
  <1>6. CASE TCIF /\ stage = "idle"
    <2>1. Stop
      BY <1>6 DEF TransferComplete, Serve
    <2>2. /\ bit_buffer' = [s \in Slots |-> Dark] /\ enabled' = FALSE
          /\ stage' = stage /\ led_count' = led_count /\ leds_sent' = leds_sent
      BY <2>1 DEF Stop
    <2>3. TypeOK' /\ LateInv'
      <3>1. bit_buffer' \in [Slots -> 0..MaxLeds] /\ ~enabled'
        BY <2>2 DEF Dark
      <3>2. /\ TCIF' \in BOOLEAN /\ HTIF' = HTIF /\ handler' = "out" /\ late' = 0
            /\ pos' = pos /\ out' = out /\ sinceIdle' = sinceIdle
            /\ frames' = frames
        BY <1>1
      <3>3. TypeOK'
        <4>1. late' \in 0..MaxLate
          BY <3>2
        <4>2. /\ stage' \in {"idle", "sending", "done"} /\ led_count' \in 0..MaxLeds
              /\ leds_sent' \in Nat /\ enabled' \in BOOLEAN
          BY <2>2 DEF IInv, TypeOK
        <4> QED
          BY <3>1, <3>2, <4>1, <4>2 DEF IInv, TypeOK
      <3>4. LateInv'
        BY <1>3, <2>2, <3>1, <3>2 DEF LateInv
      <3> QED
        BY <3>3, <3>4
    <2>4. BufferInv' /\ SentInv' /\ StageInv'
      BY <2>2 DEF BufferInv, SentInv, StageInv
    <2>5. IdleInv'
      BY <1>1, <1>6, <2>2, StreamFacts DEF IdleInv
    <2>6. FrameIntact' /\ AllClockedOut' /\ StopsInTime'
      <3>1. CASE enabled
        BY <1>1, <1>2, <1>6, <2>2, <3>1, StopStep DEF AllClockedOut
      <3>2. CASE ~enabled
        BY <1>1, <1>2, <2>2, <3>2 DEF IInv, AllClockedOut
      <3> QED
        BY <3>1, <3>2
    <2> QED
      BY <2>3, <2>4, <2>5, <2>6 DEF IInv
  <1> QED
    BY <1>4, <1>5, <1>6

-----------------------------------------------------------------------------
(* The theorems *)

\* A step in which nothing changes keeps the invariant.
LEMMA StutterInv == IInv /\ UNCHANGED vars => IInv'
  BY DEF IInv, TypeOK, LateInv, BufferInv, SentInv, StageInv, IdleInv, vars, status,
         FrameIntact, AllClockedOut, StopsInTime, FilledSlots, Ahead, Age, Stale

\* The invariant holds in every state (all of ws2812.c).
LEMMA Invariance == Spec => []IInv
  <1>1. IInv /\ [Next]_vars => IInv'
    BY SendInv, ClockInv, EnterInv, HalfInv, CompleteInv, StutterInv
       DEF Next, DMA1_Stream6_IRQHandler
  <1> QED
    BY <1>1, InitInv, PTL DEF Spec

\* Types: the buffer holds LEDs of the strip, the stream stays inside it.
THEOREM TypeCorrect == Spec => []TypeOK
  BY Invariance, PTL DEF IInv

\* The strip sees every LED of the frame once, in order, then zeros
\* (ws2812_fill_bit_buffer and the two interrupts).
THEOREM FrameAlwaysIntact == Spec => []FrameIntact
  BY Invariance, PTL DEF IInv

\* The stream is stopped only after the last LED (DMA1_Stream6_IRQHandler).
THEOREM AlwaysAllClockedOut == Spec => []AllClockedOut
  BY Invariance, PTL DEF IInv

\* The stream is stopped at most a buffer, and what the handler is late, after
\* the last LED (the stages of ws2812_status).
THEOREM AlwaysStopsInTime == Spec => []StopsInTime
  BY Invariance, PTL DEF IInv

\* After ws2812_is_sending became false the stream reads at most half a buffer
\* and what the handler is late.
THEOREM AlwaysSettlesInTime == Spec => []SettlesInTime
  <1>1. IInv => SettlesInTime
    BY DEF IInv, IdleInv, SettlesInTime
  <1> QED
    BY <1>1, Invariance, PTL
=============================================================================
