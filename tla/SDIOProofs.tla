----------------------------- MODULE SDIOProofs -----------------------------
(***************************************************************************)
(* Proofs about SDIOBus, for any number of retries, of transfers and of    *)
(* lives of the bus: types, the interrupts left enabled, what a successful *)
(* CMD53 and an answered command mean, and when the semaphore may go.      *)
(***************************************************************************)
EXTENDS SDIOBus, TLAPS

\* Inside a transfer there is a try left, or this is the last one; inside
\* enumerate likewise.
TriesBounded == /\ pc # "idle" => outertries <= MaxTransferRetries
                /\ enum \in Commands => tries < MaxSDIOEnumerationRetries

\* A transfer or enumerate runs only on a bus that is up, on which no semaphore is deleted.
\* A bus that is down has no interrupt enabled or pending.
LifeInv == /\ pc # "idle" \/ enum \in Commands => bus = "up"
           /\ bus = "up" => ~gaveDeleted
           /\ bus = "down" => isr = "idle" /\ mask = "none" /\ ~DMAPending

\* Only a CMD53 enables the command interrupts, so a transfer of another kind
\* starts and ends without them.  Without SDIOITIE no handler runs.
QuietInv == /\ pc = "idle" \/ ~IsCMD53(kind) => mask # "all"
            /\ mask = "none" => isr = "idle"

\* The places of a transfer belong to its kind, and with them the interrupts and
\* the stream.  What a handler has read it forgets when it is done.
Waiting == {"take", "check", "poll"}
PlacesMatch == /\ pc \in {"setup", "send"} \cup Waiting => IsCMD53(kind)
               /\ pc = "pollcmd" => ~IsCMD53(kind)
               /\ pc \in {"setup", "send"} => mask = "all"
               /\ pc \in {"send"} \cup Waiting => armed
               /\ isr = "idle" => intstatus = {}

\* The command path and the data path: a command was accepted when it is over
\* and its response bears no error; what the data path has taken before the
\* command is sent is still with the stream.
PathInv == /\ accepted => ~cmdBusy /\ ~respError
           /\ pc = "send" /\ data = "done" => EN = "on"

\* The command is over and no handler will look at its response any more, so
\* that nothing enables the stream again.
Served == ~cmdBusy /\ "CMDREND" \notin sta \cup intstatus

\* The data of the command last sent has arrived and its stream has stopped.
\* Nothing but a new command or a reset can undo this.
Landed == landed /\ accepted /\ data = "off" /\ EN = "off" /\ Served

\* Why success is real.  Of a command sent with the stream at rest, the stream is
\* enabled by the response and by nothing else, and sets its flag only when the
\* data has landed.  If no token was there either, a token means just that, or
\* that the handler reported a failure, which the task sees in Check.
SuccessInv ==
    pc \in Waiting =>
        /\ "CMDREND" \in sta \cup intstatus => ~cmdBusy
        /\ ~staleStart =>
             /\ EN # "stopping"
             /\ EN = "on" => Served
             /\ data = "done" => accepted
             /\ TCIF => Landed
             /\ pc = "take" /\ tokens > 0 => SDIOTransferFailed \/ Landed
             /\ pc = "check" => SDIOTransferFailed \/ Landed
             /\ pc = "poll" => Landed

\* A CMD53 that succeeded after a wait of its own.
Clean == pc = "idle" /\ result = "SUCCESS" /\ IsCMD53(kind) /\ ~staleStart

\* ... has moved its data, and until the bus is reset there is nothing left for
\* a handler to report.
CleanInv ==
    Clean => /\ landed /\ EN = "off" /\ ~TCIF
             /\ kind = "read" => copied
             /\ ~gaveDeleted
             /\ bus # "down" => /\ Landed
                                /\ sta \cap IrqErrors = {}
                                /\ isr = "act" => intstatus \cap IrqErrors = {}

\* While the card interrupt is disabled nothing clears the flags of a command
\* but the task itself: a command that is over has been answered, or shows why
\* not.
Answered == accepted \/ respError
AnswerInv ==
    bus = "up" /\ mask = "none" /\ kind = "command" =>
        /\ pc = "pollcmd" /\ ~cmdBusy =>
               Answered \/ sta \cap SDIOAllErrorsMask # {}
        /\ pc = "idle" /\ result = "SUCCESS" => Answered /\ ~cmdBusy

IInv == /\ TypeOK /\ TriesBounded /\ LifeInv /\ QuietInv /\ PlacesMatch
        /\ PathInv /\ SuccessInv /\ CleanInv /\ AnswerInv

\* What a step of the driver does below host_platform_sdio_enumerate: a call of
\* host_platform_sdio_transfer, a step of it, of a handler or of the hardware.
Entered == calls' \in 0..MaxCalls /\ \E k \in TransferKinds : Enter(k)
TransferNext == Entered \/ TaskStep \/ Handlers \/ Bus \/ CardInterrupt

\* Every step of the task, of a handler and of the hardware keeps the types; a
\* retry is counted before it is tried.
LEMMA TransferType ==
  ASSUME TransferTypeOK, TriesBounded, TransferNext PROVE TransferTypeOK'
  <1> USE SDIOAssumption DEF TransferTypeOK, TriesBounded, Places, Results, task, hardware, dma
  <1>1. CASE Entered
    <2>1. armed' \in BOOLEAN
      BY <1>1, Zenon DEF Entered, Enter
    <2>2. QED
      BY <1>1, <2>1 DEF Entered, Enter, TransferKinds, StopStream
  <1>2. CASE Retry
    <2>1. sta' \in SUBSET Flags
      BY <1>2 DEF Retry
    <2>2. QED
      BY <1>2, <2>1 DEF Retry
  <1>3. CASE EnableInterrupts \/ SetupDMATransfer \/ SendCMD53
    <2>1. CASE EnableInterrupts
      <3>1. SDIOTransferFailed' \in BOOLEAN
        BY <2>1, Zenon DEF EnableInterrupts
      <3>2. QED
        BY <2>1, <3>1 DEF EnableInterrupts
    <2>2. CASE SetupDMATransfer
      <3>1. active' \in BOOLEAN
        BY <2>2, Zenon DEF SetupDMATransfer
      <3>2. armed' \in BOOLEAN
        BY <2>2, Zenon DEF SetupDMATransfer
      <3>3. (data \in {"off", "waiting", "done"} /\ EN \in {"off", "on", "stopping"})'
        BY <2>2 DEF SetupDMATransfer, StopStream
      <3>4. QED
        BY <2>2, <3>1, <3>2, <3>3 DEF SetupDMATransfer
    <2>3. CASE SendCMD53
      <3>1. (cmdBusy \in BOOLEAN /\ accepted \in BOOLEAN /\ TCIF \in BOOLEAN)'
        BY <2>3, Zenon DEF SendCMD53
      <3>2. (landed \in BOOLEAN /\ copied \in BOOLEAN)'
        BY <2>3, Zenon DEF SendCMD53
      <3>3. staleStart' \in BOOLEAN
        BY <2>3, Zenon DEF SendCMD53
      <3>4. QED
        BY <2>3, <3>1, <3>2, <3>3 DEF SendCMD53
    <2>4. QED
      BY <1>3, <2>1, <2>2, <2>3
  <1>4. CASE Take
    BY <1>4 DEF Take
  <1>5. CASE TakeTimesOut
    BY <1>5 DEF TakeTimesOut
  <1>6. CASE Check
    BY <1>6 DEF Check
  <1>7. CASE PollFails
    BY <1>7 DEF PollFails
  <1>8. CASE PollSucceeds
    <2>1. copied' \in BOOLEAN
      BY <1>8, Zenon DEF PollSucceeds
    <2>2. QED
      BY <1>8, <2>1 DEF PollSucceeds
  <1>9. CASE IssueCommand
    <2>1. (cmdBusy \in BOOLEAN /\ accepted \in BOOLEAN)'
      BY <1>9, Zenon DEF IssueCommand
    <2>2. (data \in {"off", "waiting", "done"})'
      BY <1>9 DEF IssueCommand
    <2>3. (landed \in BOOLEAN /\ copied \in BOOLEAN)'
      BY <1>9, Zenon DEF IssueCommand
    <2>4. QED
      BY <1>9, <2>1, <2>2, <2>3 DEF IssueCommand
  <1>10. CASE CommandFails
    BY <1>10 DEF CommandFails
  <1>11. CASE CommandSucceeds
    BY <1>11 DEF CommandSucceeds
  <1>12. CASE SDIO_IRQEnter
    BY <1>12 DEF SDIO_IRQEnter
  <1>13. CASE SDIO_IRQHandler
    <2>1. sta' \in SUBSET Flags
      BY <1>13 DEF SDIO_IRQHandler
    <2>2. QED
      BY <1>13, <2>1 DEF SDIO_IRQHandler
  <1>14. CASE DMA2_Stream3_IRQHandler
    <2>1. TCIF' \in BOOLEAN
      BY <1>14, Zenon DEF DMA2_Stream3_IRQHandler
    <2>2. QED
      BY <1>14, <2>1 DEF DMA2_Stream3_IRQHandler
  <1>15. CASE CommandEnds
    <2>1. sta' \in SUBSET Flags
      BY <1>15 DEF CommandEnds, Flags, SDIOAllErrorsMask, IrqErrors, Timeouts
    <2>2. cmdBusy' \in BOOLEAN /\ respError' \in BOOLEAN /\ accepted' \in BOOLEAN
      BY <1>15, Zenon DEF CommandEnds
    <2>3. QED
      BY <1>15, <2>1, <2>2 DEF CommandEnds
  <1>16. CASE DataStarts
    BY <1>16 DEF DataStarts
  <1>17. CASE DataEnds
    <2>1. (active \in BOOLEAN)'
      BY <1>17, Zenon DEF DataEnds
    <2>2. (data \in {"off", "waiting", "done"})'
      BY <1>17 DEF DataEnds
    <2>3. QED
      BY <1>17, <2>1, <2>2 DEF DataEnds
  <1>18. CASE DataFails
    <2>1. sta' \in SUBSET Flags
      BY <1>18 DEF DataFails, Flags, SDIOAllErrorsMask, IrqErrors, Timeouts
    <2>2. active' \in BOOLEAN /\ data' \in {"off", "waiting", "done"}
      BY <1>18, Zenon DEF DataFails
    <2>3. QED
      BY <1>18, <2>1, <2>2 DEF DataFails
  <1>19. CASE DMACompletes \/ StreamStops
    <2>1. landed' \in BOOLEAN /\ TCIF' \in BOOLEAN
      BY <1>19, Zenon DEF DMACompletes, StreamStops, hardware
    <2>2. QED
      BY <1>19, <2>1 DEF DMACompletes, StreamStops
  <1>20. CASE CardInterrupt
    <2>1. sta' \in SUBSET Flags
      BY <1>20 DEF CardInterrupt, Flags
    <2>2. QED
      BY <1>20, <2>1 DEF CardInterrupt
  <1>21. QED
    BY <1>1, <1>2, <1>3, <1>4, <1>5, <1>6, <1>7, <1>8, <1>9, <1>10, <1>11,
       <1>12, <1>13, <1>14, <1>15, <1>16, <1>17, <1>18, <1>19, <1>20
       DEF TransferNext, TaskStep, Handlers, Bus

\* ... and the parts of the invariant that are about transfers.
LEMMA TransferInv ==
  ASSUME TransferTypeOK, QuietInv, PlacesMatch, PathInv, SuccessInv, TransferNext
  PROVE  (QuietInv /\ PlacesMatch /\ PathInv /\ SuccessInv)'
  <1> USE SDIOAssumption DEF TransferTypeOK, QuietInv, PlacesMatch, PathInv,
        SuccessInv, Landed, Served, Waiting, IsCMD53, task, hardware, dma
  <1>1. CASE Entered
    BY <1>1 DEF Entered, Enter, TaskRuns
  <1>2. CASE Retry
    BY <1>2 DEF Retry
  <1>3. CASE EnableInterrupts \/ SetupDMATransfer \/ SendCMD53
    <2>1. CASE EnableInterrupts
      BY <2>1 DEF EnableInterrupts
    <2>2. CASE SetupDMATransfer
      BY <2>2 DEF SetupDMATransfer, StopStream
    <2>3. CASE SendCMD53
      <3>1. "CMDREND" \notin sta /\ intstatus = {}
        <4>1. mask = "all" /\ isr = "idle" /\ sta \cap Enabled = {}
          BY <2>3 DEF SendCMD53, TaskRuns, SDIOPending
        <4>2. "CMDREND" \in Enabled
          BY <4>1 DEF Enabled
        <4>3. QED
          BY <4>1, <4>2
      <3>2. ~staleStart' => tokens = 0 /\ EN = "off"
        <4>1. staleStart' = (tokens > 0 \/ EN # "off")
          BY <2>3 DEF SendCMD53
        <4>2. ~(tokens > 0) => tokens = 0
          OBVIOUS
        <4>3. QED
          BY <4>1, <4>2, Zenon
      <3>3. QuietInv' /\ PlacesMatch'
        BY <2>3 DEF SendCMD53
      <3>4. PathInv'
        BY <2>3 DEF SendCMD53
      <3>5. SuccessInv'
        <4>1. UNCHANGED <<sta, intstatus, data, EN, tokens>> /\ pc' = "take" /\ ~TCIF'
          BY <2>3 DEF SendCMD53
        <4>2. data = "done" => EN = "on"
          BY <2>3 DEF SendCMD53
        <4>3. QED
          BY <3>1, <3>2, <4>1, <4>2
      <3>6. QED
        BY <3>3, <3>4, <3>5
    <2>4. QED
      BY <1>3, <2>1, <2>2, <2>3
  <1>4. CASE Take
    BY <1>4 DEF Take
  <1>5. CASE TakeTimesOut
    BY <1>5 DEF TakeTimesOut
  <1>6. CASE Check
    BY <1>6 DEF Check
  <1>7. CASE PollFails
    BY <1>7 DEF PollFails
  <1>8. CASE PollSucceeds
    BY <1>8 DEF PollSucceeds
  <1>9. CASE IssueCommand
    BY <1>9 DEF IssueCommand
  <1>10. CASE CommandFails
    BY <1>10 DEF CommandFails
  <1>11. CASE CommandSucceeds
    BY <1>11 DEF CommandSucceeds
  <1>12. CASE SDIO_IRQEnter
    <2>1. mask # "none"
      BY <1>12 DEF SDIO_IRQEnter, SDIOPending, Enabled
    <2>2. QED
      BY <1>12, <2>1 DEF SDIO_IRQEnter
  <1>13. CASE SDIO_IRQHandler
    <2>1. CASE IrqError \/ IrqRespError
      <3>1. SDIOTransferFailed'
        BY <1>13, <2>1, Zenon DEF SDIO_IRQHandler
      <3>2. QED
        BY <1>13, <3>1 DEF SDIO_IRQHandler
    <2>2. CASE ~IrqError /\ ~IrqRespError
      <3>1. tokens' = tokens /\ (SDIOTransferFailed => SDIOTransferFailed')
        BY <1>13, <2>2 DEF SDIO_IRQHandler
      <3>2. QED
        BY <1>13, <3>1 DEF SDIO_IRQHandler
    <2>3. QED
      BY <2>1, <2>2
  <1>14. CASE DMA2_Stream3_IRQHandler
    BY <1>14 DEF DMA2_Stream3_IRQHandler, DMAPending
  <1>15. CASE CommandEnds
    BY <1>15 DEF CommandEnds
  <1>16. CASE DataStarts
    BY <1>16 DEF DataStarts
  <1>17. CASE DataEnds
    BY <1>17 DEF DataEnds
  <1>18. CASE DataFails
    BY <1>18 DEF DataFails
  <1>19. CASE DMACompletes \/ StreamStops
    BY <1>19 DEF DMACompletes, StreamStops
  <1>20. CASE CardInterrupt
    BY <1>20 DEF CardInterrupt
  <1>21. QED
    BY <1>1, <1>2, <1>3, <1>4, <1>5, <1>6, <1>7, <1>8, <1>9, <1>10, <1>11,
       <1>12, <1>13, <1>14, <1>15, <1>16, <1>17, <1>18, <1>19, <1>20
       DEF TransferNext, TaskStep, Handlers, Bus

\* An attempt of the bus to start, to go down or to enumerate changes nothing of
\* a transfer, or resets what a transfer on a bus that is up has set.
LEMMA ResetInv ==
  ASSUME TransferTypeOK, pc = "idle", isr = "idle", ~DMAPending,
         QuietInv, PlacesMatch, PathInv, SuccessInv,
         tokens' \in Nat, result' \in Results, ResetPeripheral
  PROVE  (TransferTypeOK /\ QuietInv /\ PlacesMatch /\ PathInv /\ SuccessInv)'
  <1>1. TransferTypeOK'
    <2>1. sta' \in SUBSET Flags
      BY DEF ResetPeripheral
    <2>2. (cmdBusy \in BOOLEAN /\ accepted \in BOOLEAN /\ active \in BOOLEAN
             /\ respError \in BOOLEAN)'
      BY Zenon DEF ResetPeripheral
    <2>3. (data \in {"off", "waiting", "done"})'
      BY DEF ResetPeripheral
    <2>4. QED
      BY <2>1, <2>2, <2>3 DEF ResetPeripheral, TransferTypeOK, dma
  <1>2. (QuietInv /\ PlacesMatch /\ PathInv /\ SuccessInv)'
    BY DEF ResetPeripheral, QuietInv, PlacesMatch, PathInv, SuccessInv, Waiting, IsCMD53,
           task, dma
  <1>3. QED
    BY <1>1, <1>2

\* The invariant holds before the bus is first brought up.
LEMMA InitInv == ASSUME Init PROVE IInv
  <1> USE SDIOAssumption, BusAssumption DEF Init, TransferInit
  <1>1. TransferTypeOK
    <2>1. {} \in SUBSET Flags
      OBVIOUS
    <2>2. 0 \in 0..MaxTransferRetries + 1 /\ 0 \in 0..MaxCalls /\ 0 \in Nat
      BY DEF SDIOAssumption
    <2>3. QED
      BY <2>1, <2>2 DEF TransferTypeOK, Places, TransferKinds, Results
  <1>2. TypeOK
    <2>1. 0 \in 0..MaxSDIOEnumerationRetries /\ 0 \in 0..MaxInits
      BY DEF BusAssumption
    <2>2. QED
      BY <1>1, <2>1 DEF TypeOK
  <1>3. TriesBounded /\ LifeInv /\ QuietInv /\ PlacesMatch /\ PathInv /\ SuccessInv
    BY DEF TriesBounded, LifeInv, QuietInv, PlacesMatch, PathInv, SuccessInv,
           IsCMD53, Commands, Waiting, DMAPending
  <1>4. CleanInv /\ AnswerInv
    BY DEF CleanInv, Clean, AnswerInv
  <1>5. QED
    BY <1>2, <1>3, <1>4 DEF IInv

\* Every step of the bus is one of the driver below, or one of these.
LEMMA Steps ==
  ASSUME IInv, Next
  PROVE  \/ BusInit \/ BusDeinit \/ MaskInterrupts \/ PowerDown \/ EnumerateReturns
         \/ /\ Entered /\ bus = "up"
            /\ UNCHANGED <<bring, gaveDeleted>>
            /\ enum' \in Commands \cup {"yes"}
            /\ tries' \in 0..MaxSDIOEnumerationRetries
            /\ enum' \in Commands => tries' < MaxSDIOEnumerationRetries
         \/ TransferStep \/ Handling(Handlers) \/ Hardware
  <1> SUFFICES ASSUME Enumerate \/ SendCMD5 \/ SendCMD3 \/ SelectCard \/ TryAgain
                        \/ Transfer
               PROVE  /\ Entered /\ bus = "up"
                      /\ UNCHANGED <<bring, gaveDeleted>>
                      /\ enum' \in Commands \cup {"yes"}
                      /\ tries' \in 0..MaxSDIOEnumerationRetries
                      /\ enum' \in Commands => tries' < MaxSDIOEnumerationRetries
    BY DEF Next, EnumerateStep
  <1> USE BusAssumption, SDIOAssumption DEF IInv
  <1>1. calls \in 0..MaxCalls /\ tries \in 0..MaxSDIOEnumerationRetries
    BY DEF TypeOK, TransferTypeOK
  <1>2. enum \in Commands => bus = "up" /\ tries < MaxSDIOEnumerationRetries
    BY DEF LifeInv, TriesBounded
  <1>3. CASE Enumerate
    <2>1. Entered
      BY <1>1, <1>3 DEF Enumerate, Send, Entered, TransferKinds
    <2>2. QED
      BY <1>3, <2>1 DEF Enumerate, Send, Commands
  <1>4. CASE SendCMD5 \/ SendCMD3 \/ SelectCard
    <2>1. enum \in Commands /\ tries' = tries
      BY <1>4 DEF SendCMD5, SendCMD3, SelectCard, Commands
    <2>2. Entered
      BY <1>1, <1>4 DEF SendCMD5, SendCMD3, SelectCard, Send, Entered, TransferKinds
    <2>3. UNCHANGED <<bring, gaveDeleted>> /\ enum' \in Commands
      BY <1>4 DEF SendCMD5, SendCMD3, SelectCard, Send, Commands
    <2>4. QED
      BY <1>1, <1>2, <2>1, <2>2, <2>3
  <1>5. CASE TryAgain
    <2>1. enum \in Commands
      BY <1>5 DEF TryAgain, Commands
    <2>2. Entered
      BY <1>1, <1>5 DEF TryAgain, Send, Entered, TransferKinds
    <2>3. UNCHANGED <<bring, gaveDeleted>> /\ enum' \in Commands
      BY <1>5 DEF TryAgain, Send, Commands
    <2>4. tries' = tries + 1 /\ tries' < MaxSDIOEnumerationRetries
      BY <1>5 DEF TryAgain
    <2>5. QED
      BY <1>1, <1>2, <2>1, <2>2, <2>3, <2>4
  <1>6. CASE Transfer
    <2>1. Entered
      <3>1. calls' \in 0..MaxCalls
        BY <1>1, <1>6 DEF Transfer
      <3>2. \E k \in TransferKinds : Enter(k)
        BY <1>6 DEF Transfer
      <3>3. QED
        BY <3>1, <3>2 DEF Entered
    <2>2. bus = "up" /\ UNCHANGED <<bring, enumeration, gaveDeleted>> /\ enum = "yes"
      BY <1>6 DEF Transfer
    <2>3. QED
      BY <1>1, <2>1, <2>2 DEF enumeration, Commands
  <1>7. QED
    BY <1>3, <1>4, <1>5, <1>6

\* While the driver runs below enumerate, the bus stays as it is.
LEMMA BelowInv ==
  ASSUME IInv, TransferNext, UNCHANGED bring,
         enum' \in Commands \cup {"no", "yes", "failed"},
         tries' \in 0..MaxSDIOEnumerationRetries, gaveDeleted' \in BOOLEAN,
         enum' \in Commands => bus = "up" /\ tries' < MaxSDIOEnumerationRetries,
         outertries' <= MaxTransferRetries \/ pc' = "idle"
  PROVE  (TypeOK /\ TriesBounded /\ QuietInv /\ PlacesMatch /\ PathInv /\ SuccessInv)'
  <1> USE DEF IInv
  <1>1. TransferTypeOK'
    BY TransferType DEF TypeOK
  <1>2. TypeOK'
    BY <1>1 DEF TypeOK, bring
  <1>3. (QuietInv /\ PlacesMatch /\ PathInv /\ SuccessInv)'
    BY TransferInv DEF TypeOK
  <1>4. QED
    BY <1>2, <1>3 DEF TriesBounded

\* A transfer begins: of the last one nothing is claimed any more.
LEMMA EnteredInv ==
  ASSUME IInv, Entered, bus = "up", UNCHANGED <<bring, gaveDeleted>>,
         enum' \in Commands \cup {"yes"}, tries' \in 0..MaxSDIOEnumerationRetries,
         enum' \in Commands => tries' < MaxSDIOEnumerationRetries
  PROVE  IInv'
  <1>1. outertries' = 0 /\ pc' = "retry" /\ UNCHANGED <<isr, mask, gaveDeleted, bus>>
    BY DEF Entered, Enter, bring
  <1>2. outertries' <= MaxTransferRetries
    BY <1>1, SDIOAssumption
  <1>3. gaveDeleted' \in BOOLEAN
    BY DEF IInv, TypeOK
  <1>4. (TypeOK /\ TriesBounded /\ QuietInv /\ PlacesMatch /\ PathInv /\ SuccessInv)'
    BY <1>2, <1>3, BelowInv DEF TransferNext
  <1>5. LifeInv'
    BY <1>1 DEF IInv, LifeInv
  <1>6. (CleanInv /\ AnswerInv)'
    BY <1>1 DEF CleanInv, Clean, AnswerInv
  <1>7. QED
    BY <1>4, <1>5, <1>6 DEF IInv

\* A step of a transfer: one that ends it with success has seen the data land,
\* or the answer come.
LEMMA TransferStepInv ==
  ASSUME IInv, TransferStep PROVE IInv'
  <1> USE SDIOAssumption
  <1>1. pc # "idle" /\ TaskRuns
    BY DEF TransferStep, TaskStep, Retry, EnableInterrupts,
           SetupDMATransfer, SendCMD53, Take, TakeTimesOut, Check,
           PollFails, PollSucceeds, IssueCommand, CommandFails, CommandSucceeds
  <1>2. UNCHANGED <<bus, inits, enum, tries, gaveDeleted, isr>>
    BY DEF TransferStep, bring, enumeration, TaskStep, Retry, EnableInterrupts,
           SetupDMATransfer, SendCMD53, Take,
           TakeTimesOut, Check, PollFails, PollSucceeds, IssueCommand,
           CommandFails, CommandSucceeds
  <1>3. bus = "up" /\ ~gaveDeleted /\ isr = "idle"
    BY <1>1 DEF IInv, LifeInv, TaskRuns
  <1>4. outertries' <= MaxTransferRetries \/ pc' = "idle"
    <2>1. CASE Retry
      <3>1. PICK n \in Nat : outertries' = n
        BY <2>1 DEF Retry, IInv, TypeOK, TransferTypeOK
      <3>2. QED
        BY <2>1, <3>1 DEF Retry
    <2>2. CASE ~Retry
      <3>1. outertries' = outertries
        BY <2>2 DEF TransferStep, TaskStep, task, EnableInterrupts,
           SetupDMATransfer, SendCMD53, Take, TakeTimesOut,
             Check, PollFails, PollSucceeds, IssueCommand, CommandFails,
             CommandSucceeds
      <3>2. QED
        BY <1>1, <3>1 DEF IInv, TriesBounded
    <2>3. QED
      BY <2>1, <2>2
  <1>5. (TypeOK /\ TriesBounded /\ QuietInv /\ PlacesMatch /\ PathInv /\ SuccessInv)'
    BY <1>2, <1>4, BelowInv
       DEF TransferNext, TransferStep, bring, IInv, TypeOK, LifeInv, TriesBounded
  <1>6. LifeInv'
    BY <1>2, <1>3 DEF IInv, LifeInv
  <1>7. CleanInv'
    <2>1. CASE PollSucceeds
      <3>1. ~staleStart => Landed
        BY <2>1 DEF PollSucceeds, IInv, SuccessInv, Waiting
      <3>2. sta \cap IrqErrors = {} /\ sta' = sta
        BY <2>1 DEF PollSucceeds, SDIOAllErrorsMask
      <3>3. UNCHANGED <<staleStart, hardware, dma, kind, sta, intstatus>>
            /\ (kind = "read" => copied' = landed)
        BY <2>1 DEF PollSucceeds
      <3>4. staleStart' \/ Landed'
        BY <3>1, <3>3 DEF Landed, Served, hardware, dma
      <3>5. ~TCIF
        BY <1>1, <2>1 DEF PollSucceeds, Waiting, TaskRuns, DMAPending, IInv, PlacesMatch
      <3>6. CASE staleStart
        BY <3>3, <3>6 DEF CleanInv, Clean
      <3>7. CASE ~staleStart
        <4>1. Landed /\ Landed' /\ EN' = "off" /\ ~TCIF' /\ landed'
          BY <3>1, <3>3, <3>4, <3>5, <3>7 DEF Landed, dma
        <4>2. kind' = "read" => copied'
          BY <3>3, <4>1 DEF Landed
        <4>3. ~gaveDeleted' /\ isr' = "idle" /\ sta' \cap IrqErrors = {}
          BY <1>2, <1>3, <3>2
        <4>4. QED
          BY <4>1, <4>2, <4>3 DEF CleanInv, Landed
      <3>8. QED
        BY <3>6, <3>7
    <2>2. CASE ~PollSucceeds
      <3>1. ~Clean'
        BY <2>2 DEF TransferStep, TaskStep, task, Retry, EnableInterrupts,
             SetupDMATransfer, SendCMD53, Take,
             TakeTimesOut, Check, PollFails, IssueCommand, CommandFails,
             CommandSucceeds, Clean, IInv, PlacesMatch
      <3>2. QED
        BY <3>1 DEF CleanInv
    <2>3. QED
      BY <2>1, <2>2
  <1>8. AnswerInv'
    <2> USE DEF IInv, AnswerInv, Answered
    <2>1. CASE CommandSucceeds
      BY <1>2, <1>3, <2>1 DEF CommandSucceeds, hardware, dma
    <2>2. CASE CommandFails \/ Retry \/ EnableInterrupts \/ SetupDMATransfer \/ SendCMD53
               \/ IssueCommand
      BY <1>2, <1>3, <2>2 DEF CommandFails, Retry, EnableInterrupts, SetupDMATransfer,
           SendCMD53, IssueCommand, hardware, dma,
           task
    <2>3. CASE Take \/ TakeTimesOut \/ Check \/ PollFails \/ PollSucceeds
      <3>1. IsCMD53(kind) /\ kind' = kind
        BY <2>3 DEF PlacesMatch, Waiting, Take, TakeTimesOut, Check, PollFails, PollSucceeds,
             task
      <3>2. QED
        BY <3>1 DEF IsCMD53
    <2>4. QED
      BY <2>1, <2>2, <2>3 DEF TransferStep, TaskStep
  <1>9. QED
    BY <1>5, <1>6, <1>7, <1>8 DEF IInv

\* A handler: after a clean CMD53 it gives no token.
LEMMA HandlingInv ==
  ASSUME IInv, Handling(Handlers) PROVE IInv'
  <1> DEFINE changed == tokens' # tokens
  <1>1. Handlers /\ bus # "down" /\ UNCHANGED <<bus, inits, enum, tries>>
        /\ gaveDeleted' = (gaveDeleted \/ (bus # "up" /\ changed))
    BY DEF Handling, bring, enumeration
  <1>2. UNCHANGED <<pc, kind, outertries, result, mask, respError, hardware, copied,
                    staleStart>>
    BY <1>1 DEF Handlers, SDIO_IRQEnter, SDIO_IRQHandler, DMA2_Stream3_IRQHandler,
         task, hardware, dma
  <1>3. gaveDeleted' \in BOOLEAN
    BY <1>1, Zenon
  <1>4. (TypeOK /\ TriesBounded /\ QuietInv /\ PlacesMatch /\ PathInv /\ SuccessInv)'
    BY <1>1, <1>2, <1>3, BelowInv
       DEF TransferNext, bring, IInv, TypeOK, LifeInv, TriesBounded
  <1>5. LifeInv'
    <2>1. bus = "up" => ~gaveDeleted'
      BY <1>1, Zenon DEF IInv, LifeInv
    <2>2. QED
      BY <1>1, <1>2, <2>1 DEF IInv, LifeInv
  <1>6. CleanInv'
    <2> SUFFICES ASSUME Clean PROVE CleanInv'
      BY <1>2 DEF CleanInv, Clean
    <2>1. /\ Landed /\ ~TCIF /\ sta \cap IrqErrors = {} /\ ~gaveDeleted
          /\ isr = "act" => intstatus \cap IrqErrors = {}
          /\ ~respError /\ (kind = "read" => copied)
      BY <1>1 DEF IInv, CleanInv, Landed, PathInv
    <2>2. ~changed /\ UNCHANGED <<EN, TCIF>> /\ Served' /\ sta' \cap IrqErrors = {}
          /\ (isr' = "act" => intstatus' \cap IrqErrors = {})
      <3>1. CASE SDIO_IRQEnter
        BY <2>1, <3>1 DEF SDIO_IRQEnter, Landed, Served, dma, hardware
      <3>2. CASE SDIO_IRQHandler
        <4>1. ~IrqError /\ ~IrqRespError /\ "CMDREND" \notin intstatus
          BY <2>1, <3>2 DEF SDIO_IRQHandler, IrqError, IrqRespError, Landed, Served
        <4>2. tokens' = tokens
          BY <3>2, <4>1 DEF SDIO_IRQHandler, IInv, TypeOK, TransferTypeOK
        <4>3. QED
          BY <2>1, <3>2, <4>1, <4>2 DEF SDIO_IRQHandler, Landed, Served, hardware
      <3>3. CASE DMA2_Stream3_IRQHandler
        BY <2>1, <3>3 DEF DMA2_Stream3_IRQHandler, DMAPending
      <3>4. QED
        BY <1>1, <3>1, <3>2, <3>3 DEF Handlers
    <2>3. ~gaveDeleted'
      BY <1>1, <2>1, <2>2, Zenon
    <2>4. Landed' /\ landed'
      BY <1>2, <2>1, <2>2 DEF Landed, Served, hardware
    <2>5. QED
      BY <1>2, <2>1, <2>2, <2>3, <2>4 DEF CleanInv, Landed
  <1>7. AnswerInv'
    <2>1. CASE mask = "none"
      <3>1. ~SDIOPending /\ isr = "idle"
        BY <2>1 DEF SDIOPending, Enabled, IInv, QuietInv
      <3>2. sta' = sta
        BY <1>1, <3>1 DEF Handlers, SDIO_IRQEnter, SDIO_IRQHandler,
             DMA2_Stream3_IRQHandler
      <3>3. QED
        BY <1>1, <1>2, <3>2 DEF IInv, AnswerInv, Answered, hardware, dma
    <2>2. CASE mask # "none"
      BY <1>2, <2>2 DEF AnswerInv
    <2>3. QED
      BY <2>1, <2>2
  <1>8. QED
    BY <1>4, <1>5, <1>6, <1>7 DEF IInv

\* The hardware: once the data has landed the bus has nothing to say but that
\* the card wants attention, and a command that ends sets a flag.
LEMMA HardwareInv ==
  ASSUME IInv, Hardware PROVE IInv'
  <1>1. (Bus \/ CardInterrupt) /\ bus # "down"
        /\ UNCHANGED <<bus, inits, enum, tries, gaveDeleted>>
    BY DEF Hardware, bring, enumeration
  <1>2. UNCHANGED <<pc, kind, outertries, result, isr, intstatus, mask, copied,
                    staleStart>>
    BY <1>1 DEF Bus, CommandEnds, DataStarts, DataEnds, DataFails, DMACompletes,
         StreamStops, CardInterrupt, task
  <1>3. (TypeOK /\ TriesBounded /\ QuietInv /\ PlacesMatch /\ PathInv /\ SuccessInv)'
    BY <1>1, <1>2, BelowInv
       DEF TransferNext, bring, IInv, TypeOK, LifeInv, TriesBounded
  <1>4. LifeInv'
    BY <1>1, <1>2 DEF IInv, LifeInv
  <1>5. CleanInv'
    <2> SUFFICES ASSUME Clean PROVE CleanInv'
      BY <1>2 DEF CleanInv, Clean
    <2>1. /\ landed /\ accepted /\ data = "off" /\ EN = "off" /\ ~TCIF /\ Served
          /\ sta \cap IrqErrors = {} /\ ~gaveDeleted
          /\ isr = "act" => intstatus \cap IrqErrors = {}
          /\ ~cmdBusy /\ (kind = "read" => copied)
      BY <1>1 DEF IInv, CleanInv, Landed, PathInv
    <2>2. CardInterrupt
      BY <1>1, <2>1
      DEF Bus, CommandEnds, DataStarts, DataEnds, DataFails, DMACompletes, StreamStops,
          Served
    <2>3. sta' \cap IrqErrors = {} /\ UNCHANGED <<landed, accepted, data, EN, TCIF>>
      BY <2>1, <2>2 DEF CardInterrupt, IrqErrors, hardware, dma
    <2>4. Served'
      BY <1>2, <2>1, <2>2 DEF CardInterrupt, Served, hardware
    <2>5. QED
      BY <1>1, <1>2, <2>1, <2>3, <2>4 DEF CleanInv, Landed
  <1>6. AnswerInv'
    <2> USE DEF IInv, AnswerInv, Answered
    <2>1. CASE CommandEnds
      <3>1. PICK flag \in {"CMDREND", "CCRCFAIL", "CTIMEOUT"}, error \in BOOLEAN :
              /\ sta' = sta \cup {flag}
              /\ respError' = error
              /\ accepted' = (flag = "CMDREND" /\ ~error)
        BY <2>1 DEF CommandEnds
      <3>2. Answered' \/ sta' \cap SDIOAllErrorsMask # {}
        <4>1. CASE flag = "CMDREND"
          BY <3>1, <4>1, Zenon
        <4>2. CASE flag # "CMDREND"
          BY <3>1, <4>2 DEF SDIOAllErrorsMask, IrqErrors, Timeouts
        <4>3. QED
          BY <4>1, <4>2
      <3>3. cmdBusy
        BY <2>1 DEF CommandEnds
      <3>4. QED
        BY <1>1, <1>2, <3>2, <3>3
    <2>2. CASE ~CommandEnds
      <3>1. sta \subseteq sta' /\ UNCHANGED <<cmdBusy, accepted, respError>>
        BY <1>1, <2>2 DEF Bus, DataStarts, DataEnds, DataFails, DMACompletes,
             StreamStops, CardInterrupt, hardware, dma
      <3>2. QED
        BY <1>1, <1>2, <3>1
    <2>3. QED
      BY <2>1, <2>2
  <1>7. QED
    BY <1>3, <1>4, <1>5, <1>6 DEF IInv

\* The bus comes up, or goes down: with the interrupts masked nothing is left
\* that could give the semaphore.
LEMMA LifeStepInv ==
  ASSUME IInv, BusInit \/ BusDeinit \/ MaskInterrupts \/ PowerDown \/ EnumerateReturns
  PROVE  IInv'
  <1> USE BusAssumption DEF IInv
  <1>1. CASE BusInit
    <2>1. pc = "idle" /\ isr = "idle" /\ ~DMAPending
      BY <1>1 DEF BusInit, LifeInv
    <2>2. tokens' \in Nat /\ result' \in Results /\ TransferTypeOK
      BY <1>1 DEF BusInit, Results, TypeOK
    <2>3. (TransferTypeOK /\ QuietInv /\ PlacesMatch /\ PathInv /\ SuccessInv)'
      BY <1>1, <2>1, <2>2, ResetInv DEF BusInit
    <2>4. inits' \in 0..MaxInits
      BY <1>1 DEF BusInit, TypeOK
    <2>5. TypeOK'
      BY <1>1, <2>3, <2>4 DEF BusInit, TypeOK
    <2>6. (TriesBounded /\ LifeInv /\ CleanInv /\ AnswerInv)'
      BY <1>1, <2>1 DEF BusInit, ResetPeripheral, TriesBounded, LifeInv, Commands,
           CleanInv, Clean, AnswerInv
    <2>7. QED
      BY <2>3, <2>5, <2>6
  <1>2. CASE PowerDown
    <2>1. pc = "idle" /\ isr = "idle" /\ ~DMAPending /\ bus # "up"
      BY <1>2 DEF PowerDown, LifeInv, TaskRuns, DMAPending
    <2>2. tokens' \in Nat /\ result' \in Results /\ TransferTypeOK
      BY <1>2 DEF PowerDown, TypeOK, TransferTypeOK
    <2>3. (TransferTypeOK /\ QuietInv /\ PlacesMatch /\ PathInv /\ SuccessInv)'
      BY <1>2, <2>1, <2>2, ResetInv DEF PowerDown
    <2>4. TypeOK'
      BY <1>2, <2>3 DEF PowerDown, TypeOK, enumeration
    <2>5. (TriesBounded /\ LifeInv /\ AnswerInv)'
      BY <1>2, <2>1 DEF PowerDown, ResetPeripheral, TriesBounded, LifeInv, AnswerInv,
           enumeration, DMAPending, dma
    <2>6. CleanInv'
      BY <1>2 DEF PowerDown, ResetPeripheral, CleanInv, Clean, dma
    <2>7. QED
      BY <2>3, <2>4, <2>5, <2>6
  <1>3. CASE MaskInterrupts
    <2>1. pc = "idle" /\ isr = "idle" /\ bus = "deleted"
      BY <1>3 DEF MaskInterrupts, LifeInv, TaskRuns
    <2>2. QED
      BY <1>3, <2>1 DEF MaskInterrupts, TypeOK, TransferTypeOK, TriesBounded, LifeInv,
           QuietInv, PlacesMatch, PathInv, SuccessInv, CleanInv, Clean, Landed, Served,
           DMAPending, Waiting,
           AnswerInv, task, hardware, dma, enumeration
  <1>4. CASE BusDeinit
    BY <1>4 DEF BusDeinit, vars, TypeOK, TransferTypeOK, TriesBounded, LifeInv,
         QuietInv, PlacesMatch, PathInv, SuccessInv, CleanInv, Clean, Landed, Served,
         DMAPending, Waiting,
         AnswerInv, task, hardware, dma, enumeration, Commands, SDIOPending, Enabled,
         IrqError, IrqRespError
  <1>5. CASE EnumerateReturns
    <2>1. tries' \in 0..MaxSDIOEnumerationRetries /\ enum' \in {"yes", "failed"}
      <3>1. enum \in Commands
        BY <1>5 DEF EnumerateReturns, Commands
      <3>2. tries < MaxSDIOEnumerationRetries /\ tries \in Nat
        BY <3>1 DEF TriesBounded, TypeOK
      <3>3. QED
        BY <1>5, <3>2 DEF EnumerateReturns, TypeOK
    <2>2. UNCHANGED <<vars, bring, gaveDeleted>>
      BY <1>5 DEF EnumerateReturns
    <2>3. enum' \notin Commands
      BY <2>1 DEF Commands
    <2>4. QED
      BY <2>1, <2>2, <2>3 DEF vars, bring, TypeOK, TransferTypeOK, TriesBounded, LifeInv,
         QuietInv, PlacesMatch, PathInv, SuccessInv, CleanInv, Clean, Landed, Served,
         DMAPending, Waiting,
         AnswerInv, Answered, task, hardware, dma
  <1>6. QED
    BY <1>1, <1>2, <1>3, <1>4, <1>5

\* The invariant is one of the driver.
LEMMA Invariant == Spec => []IInv
  <1>1. Init => IInv
    BY InitInv
  <1>2. IInv /\ [Next]_allVars => IInv'
    <2> SUFFICES ASSUME IInv, [Next]_allVars PROVE IInv'
      OBVIOUS
    <2>1. CASE Next
      BY <2>1, Steps, EnteredInv, TransferStepInv, HandlingInv, HardwareInv, LifeStepInv
    <2>2. CASE UNCHANGED allVars
      BY <2>2 DEF allVars, vars, bring, enumeration, task, hardware, dma, IInv, TypeOK,
         TransferTypeOK, TriesBounded, LifeInv, QuietInv, PlacesMatch, PathInv,
         SuccessInv, CleanInv, Clean, Landed, Served, DMAPending, Waiting, AnswerInv, Answered
    <2>3. QED
      BY <2>1, <2>2
  <1>3. QED
    BY <1>1, <1>2, PTL DEF Spec

\* Types: in particular no transfer tries more than MaxTransferRetries times
\* (WICEDPlatform.c:246), whatever makes it retry, and enumerate gives up after
\* MaxSDIOEnumerationRetries rounds (WICEDPlatform.c:196).
THEOREM TypeCorrect == Spec => []TypeOK
  <1>1. IInv => TypeOK
    BY DEF IInv
  <1>2. QED
    BY <1>1, Invariant, PTL

\* However a transfer ends, it leaves no command interrupt enabled
\* (WICEDPlatform.c:248, 286, 318 and the transfers other than CMD53).
THEOREM AlwaysQuietWhenIdle == Spec => []QuietWhenIdle
  <1>1. IInv => QuietWhenIdle
    BY DEF IInv, QuietInv, QuietWhenIdle
  <1>2. QED
    BY <1>1, Invariant, PTL

\* A CMD53 that reports success (WICEDPlatform.c:284-318) has moved the data of
\* its last attempt, if the command of that attempt was sent with no token there
\* and the stream at rest.  The tokens that stopping the stream of an earlier
\* attempt leaves (240, 378-408) are within what the handlers may do: with one
\* of them, or one about to come, the command was not sent so.
THEOREM SuccessIsAlwaysReal == Spec => []SuccessIsReal
  <1>1. IInv => SuccessIsReal
    BY DEF IInv, CleanInv, Clean, SuccessIsReal
  <1>2. QED
    BY <1>1, Invariant, PTL

\* While the card interrupt is disabled, as it is from bus_init on until a
\* CMD53 or a transfer that fails, a command that succeeds was answered.
THEOREM ResponseIsAlwaysReal == Spec => []ResponseIsReal
  <1>1. IInv => ResponseIsReal
    BY DEF IInv, AnswerInv, Answered, ResponseIsReal
  <1>2. QED
    BY <1>1, Invariant, PTL

\* After a CMD53 that succeeded, and whose command was sent with no token there
\* and the stream at rest, bus_deinit leaves no handler a reason to give the
\* semaphore it has deleted (WICEDPlatform.c:209).
THEOREM DeleteIsAlwaysSafe == Spec => []DeleteIsSafe
  <1>1. IInv => DeleteIsSafe
    <2> SUFFICES ASSUME IInv PROVE DeleteIsSafe
      OBVIOUS
    <2>1. CASE gaveDeleted /\ result = "SUCCESS" /\ IsCMD53(kind) /\ ~staleStart
      <3>1. pc = "idle" \/ bus = "up"
        BY DEF IInv, LifeInv
      <3>2. QED
        BY <2>1, <3>1 DEF IInv, LifeInv, CleanInv, Clean
    <2>2. QED
      BY <2>1 DEF DeleteIsSafe
  <1>2. QED
    BY <1>1, Invariant, PTL
=============================================================================
