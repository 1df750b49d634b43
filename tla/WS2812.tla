------------------------------- MODULE WS2812 -------------------------------
(***************************************************************************)
(* The LED strip driver ws2812.c.  A DMA stream in circular mode copies a  *)
(* buffer of two halves into the compare register of a timer, while the    *)
(* handler of its half transfer and transfer complete interrupts refills   *)
(* the half that was just read.                                            *)
(*                                                                         *)
(* A slot is the part of the buffer that holds one LED: 24 of its          *)
(* half-words, 30 microseconds on the wire.                                *)
(***************************************************************************)
EXTENDS Integers, Sequences

CONSTANTS
    LedsPerHalf,    \* WS2812_BIT_BUFFER_SIZE / 2 / 24, 3 in the program
    MaxLate,        \* slots clocked out before a pending interrupt is served
    MaxLeds,        \* bound: the longest strip
    MaxFrames       \* bound: calls of ws2812_send

\* The handler has the highest priority and must keep its deadline: it is done
\* before the other half has been read as well.
ASSUME WS2812Assumption ==
    /\ LedsPerHalf \in Nat \ {0}
    /\ MaxLate \in Nat /\ MaxLate < LedsPerHalf
    /\ MaxLeds \in Nat
    /\ MaxFrames \in Nat

Slots == 0..2 * LedsPerHalf - 1

\* where the low and the high half of the buffer begin
Low == 0
High == LedsPerHalf

\* LEDs are numbered from 1; Dark is a slot of zeros, which keeps the line low.
Dark == 0

VARIABLES
    \* struct ws2812_status
    stage, led_count, leds_sent, bit_buffer,
    \* the DMA stream
    enabled,        \* is the stream enabled?
    pos,            \* the slot it reads next
    HTIF, TCIF,     \* its interrupt flags
    handler,        \* "out", or the flag the handler looks at next
    late,           \* slots clocked out while the interrupt was pending
    \* history of the current frame
    out,            \* the slots clocked out
    sinceIdle,      \* slots clocked out since ws2812_is_sending became false
    frames          \* calls of ws2812_send so far

status == <<stage, led_count, leds_sent, bit_buffer>>
vars == <<status, enabled, pos, HTIF, TCIF, handler, late, out, sinceIdle, frames>>

TypeOK ==
    /\ stage \in {"idle", "sending", "done"}
    /\ led_count \in 0..MaxLeds
    /\ leds_sent \in Nat
    /\ bit_buffer \in [Slots -> 0..MaxLeds]
    /\ enabled \in BOOLEAN
    /\ pos \in Slots
    /\ HTIF \in BOOLEAN /\ TCIF \in BOOLEAN
    /\ handler \in {"out", "HT", "TC"}
    /\ late \in 0..MaxLate
    /\ out \in Seq(0..MaxLeds)
    /\ sinceIdle \in Nat
    /\ frames \in 0..MaxFrames

\* after ws2812_init
Init ==
    /\ stage = "idle"
    /\ led_count = 0
    /\ leds_sent = 0
    /\ bit_buffer = [s \in Slots |-> Dark]
    /\ enabled = FALSE
    /\ pos = 0
    /\ HTIF = FALSE /\ TCIF = FALSE
    /\ handler = "out"
    /\ late = 0
    /\ out = <<>>
    /\ sinceIdle = 0
    /\ frames = 0

-----------------------------------------------------------------------------
(* ws2812_fill_bit_buffer *)

\* Operators whose name ends in _Fault are the definition after them with a
\* slip in it; no action uses them.

\* the index of the last LED where the number of LEDs is meant
SentAfter_Fault(sent, count) ==
    sent + (IF count - sent > LedsPerHalf THEN LedsPerHalf
            ELSE IF count - sent > 1 THEN count - sent - 1 ELSE 1)

\* leds_sent after a half was filled: led + 1, where led stays leds_sent if
\* there was none left to fill in.
SentAfter(sent, count) ==
    sent + (IF count - sent > LedsPerHalf THEN LedsPerHalf
            ELSE IF count - sent > 1 THEN count - sent ELSE 1)

LedOrDark(led, count) == IF led <= count THEN led ELSE Dark

\* the contents of one half: the LEDs that are left, then zeros
Filled(buffer, offset, sent, count) ==
    [s \in Slots |->
        IF s \in offset..offset + LedsPerHalf - 1
        THEN LedOrDark(sent + s - offset + 1, count)
        ELSE buffer[s]]

\* the stage: done when the strip ended inside this half, or before it
StageAfter(sent, count) ==
    IF count - sent < LedsPerHalf THEN "done" ELSE "sending"

-----------------------------------------------------------------------------
(* The task *)

Pending == HTIF \/ TCIF

\* ws2812_send fills both halves and starts the stream, which reloads its
\* counter.  The caller waits until the last frame is out, and as its handler
\* has priority over every task none is pending then.
ws2812_send ==
    /\ frames < MaxFrames
    /\ ~enabled /\ ~Pending /\ handler = "out"
    /\ \E count \in 0..MaxLeds :
          LET sent == SentAfter(0, count)
          IN  /\ led_count' = count
              /\ leds_sent' = SentAfter(sent, count)
              /\ bit_buffer' = Filled(Filled(bit_buffer, Low, 0, count),
                                      High, sent, count)
              /\ stage' = StageAfter(sent, count)
    /\ enabled' = TRUE
    /\ pos' = 0
    /\ out' = <<>>
    /\ sinceIdle' = 0
    /\ frames' = frames + 1
    /\ UNCHANGED <<HTIF, TCIF, handler, late>>

-----------------------------------------------------------------------------
(* The DMA stream and its interrupt *)

\* a stream that is not in circular mode
NextSlot_Fault == pos + 1

NextSlot == IF pos = 2 * LedsPerHalf - 1 THEN 0 ELSE pos + 1

\* One slot goes out.  A pending interrupt is served in time.
ClockSlot ==
    /\ enabled
    /\ Pending \/ handler # "out" => late < MaxLate
    /\ late' = IF Pending \/ handler # "out" THEN late + 1 ELSE 0
    /\ out' = Append(out, bit_buffer[pos])
    /\ pos' = NextSlot
    /\ HTIF' = (HTIF \/ pos = LedsPerHalf - 1)
    /\ TCIF' = (TCIF \/ pos = 2 * LedsPerHalf - 1)
    /\ sinceIdle' = IF stage = "idle" THEN sinceIdle + 1 ELSE 0
    /\ UNCHANGED <<status, enabled, handler, frames>>

DMA1_Stream6_IRQEnter ==
    /\ Pending
    /\ handler = "out"
    /\ handler' = "HT"
    /\ UNCHANGED <<status, enabled, pos, HTIF, TCIF, late, out, sinceIdle, frames>>

\* the stage stays done
Refill_Fault(offset) ==
    /\ bit_buffer' = Filled(bit_buffer, offset, leds_sent, led_count)
    /\ leds_sent' = SentAfter(leds_sent, led_count)
    /\ stage' = StageAfter(leds_sent, led_count)
    /\ UNCHANGED <<led_count, enabled>>

Refill(offset) ==
    /\ bit_buffer' = Filled(bit_buffer, offset, leds_sent, led_count)
    /\ leds_sent' = SentAfter(leds_sent, led_count)
    /\ stage' = IF stage = "done" THEN "idle"
                                  ELSE StageAfter(leds_sent, led_count)
    /\ UNCHANGED <<led_count, enabled>>

Stop ==
    /\ bit_buffer' = [s \in Slots |-> Dark]
    /\ enabled' = FALSE
    /\ UNCHANGED <<stage, led_count, leds_sent>>

\* stop when the last LED was filled in, not when it was clocked out
Serve_Fault(offset) ==
    \/ stage = "sending" /\ Refill(offset)
    \/ stage # "sending" /\ Stop

\* the interrupt at the half of the buffer does not stop the stream
Serve_Forgets_Fault(offset) ==
    \/ stage # "idle" /\ Refill(offset)
    \/ stage = "idle" /\ offset = High /\ Stop
    \/ stage = "idle" /\ offset = Low /\ UNCHANGED <<status, enabled>>

\* What the handler does for either flag.  Software that disables a stream
\* makes the hardware set TCIF.
Serve(offset) ==
    \/ stage # "idle" /\ Refill(offset)
    \/ stage = "idle" /\ Stop

HalfTransfer ==
    /\ handler = "HT"
    /\ \/ HTIF /\ Serve(Low)
       \/ ~HTIF /\ UNCHANGED <<status, enabled>>
    /\ HTIF' = FALSE
    /\ TCIF' = (TCIF \/ (enabled /\ ~enabled'))
    /\ handler' = "TC"
    /\ UNCHANGED <<pos, late, out, sinceIdle, frames>>

TransferComplete ==
    /\ handler = "TC"
    /\ \/ TCIF /\ Serve(High)
       \/ ~TCIF /\ UNCHANGED <<status, enabled>>
    /\ TCIF' = (enabled /\ ~enabled')
    /\ handler' = "out"
    /\ late' = 0
    /\ UNCHANGED <<pos, HTIF, out, sinceIdle, frames>>

DMA1_Stream6_IRQHandler ==
    DMA1_Stream6_IRQEnter \/ HalfTransfer \/ TransferComplete

Next == ws2812_send \/ ClockSlot \/ DMA1_Stream6_IRQHandler

Spec == Init /\ [][Next]_vars

-----------------------------------------------------------------------------
(* Properties *)

\* What the strip sees are the LEDs of the frame, each once and in order, and
\* zeros after the last: no half is refilled too early, too late or with the
\* wrong LEDs (ws2812_fill_bit_buffer, DMA1_Stream6_IRQHandler).
FrameIntact ==
    \A i \in 1..Len(out) : out[i] = LedOrDark(i, led_count)

\* The stream is never stopped before the last LED is out, although
\* ws2812_status.stage turns idle before that.
AllClockedOut == frames > 0 /\ ~enabled => Len(out) >= led_count

\* ws2812_is_sending is false while up to a half of the buffer is still to be
\* clocked out.  It is never more: who waits that long, and for the interrupt,
\* finds the stream stopped.
SettlesInTime == sinceIdle <= LedsPerHalf + MaxLate

\* A frame ends: the stages lead to idle and idle to the end of the stream, at
\* most a buffer, and what the handler is late, after the last LED.
StopsInTime == Len(out) <= led_count + 2 * LedsPerHalf + MaxLate
=============================================================================
