---------------------------- MODULE SDIOTransfer ----------------------------
(***************************************************************************)
(* The SDIO driver of WICEDPlatform.c: host_platform_sdio_transfer, run by *)
(* the WICED thread, the two interrupt handlers it waits for, and the      *)
(* SDIO and DMA hardware that may do anything in between.  Who calls it,   *)
(* and when the bus is up, is the affair of SDIOBus.                       *)
(*                                                                         *)
(* An interrupt handler preempts the task: the task takes no step while a  *)
(* handler runs or an enabled interrupt is pending.  SDIO_IRQHandler reads *)
(* the status register first and acts on that value later; the hardware    *)
(* may change the register in between.                                     *)
(*                                                                         *)
(* Of data only one thing is kept: whether what has arrived is that of the *)
(* attempt last made.                                                      *)
(***************************************************************************)
EXTENDS Integers, FiniteSets

CONSTANTS
    MaxTransferRetries, \* WICEDPlatform.c:126, 5 in the program
    MaxCalls,           \* bound: transfers the WICED thread asks for once
                        \* the card is selected
    Kinds               \* the kinds of transfer it then asks for

\* CMD53 in either direction, another command with RESPONSE_NEEDED, and one
\* with NO_RESPONSE
TransferKinds == {"read", "write", "command", "probe"}

ASSUME SDIOAssumption ==
    /\ MaxTransferRetries \in Nat \ {0}
    /\ MaxCalls \in Nat
    /\ Kinds \subseteq TransferKinds

\* The flags of SDIO->STA.  DCRCFAIL stands for the four errors of the data
\* path SDIO_IRQHandler looks for (with TXUNDERR, RXOVERR and STBITERR).
\* TXACT, RXACT and CMDACT are the variables active and cmdBusy.
IrqErrors == {"CCRCFAIL", "DCRCFAIL"}
Timeouts == {"CTIMEOUT", "DTIMEOUT"}
SDIOAllErrorsMask == IrqErrors \cup Timeouts
Flags == SDIOAllErrorsMask \cup {"CMDREND", "SDIOIT"}

Results == {"NONE", "SUCCESS", "TIMEOUT", "RETRIES_EXCEEDED"}

VARIABLES
    \* the task
    pc, kind, outertries, result,
    \* shared between the task and the handlers
    tokens,             \* count of SDIOTransferFinishedSemaphore
    SDIOTransferFailed,
    \* SDIO_IRQHandler: "idle", or "act" after it has read the status
    isr, intstatus,
    \* registers
    mask,               \* SDIO->MASK: "none", "card" (SDIOITIE) or "all"
    sta,                \* SDIO->STA
    respError,          \* bit 0x800 of SDIO->RESP1
    \* hardware
    cmdBusy,            \* a command is on the bus, or its response is
    accepted,           \* the card has accepted the command
    active,             \* TXACT or RXACT
    data,               \* data path: "off", "waiting", "done"
    EN,                 \* DMA2_Stream3: "off", "on", or "stopping" after software
                        \* has cleared the bit under a transfer
    armed,              \* the stream is set up (CR with TCIE), or CR is 0
    TCIF,               \* its transfer complete flag
    \* history
    landed,             \* has the data of the attempt last made reached its
                        \* buffer, or the card?
    copied,             \* was it this data that the task gave its caller?
    staleStart,         \* when the command was sent, was a token there already,
                        \* or the stream of an earlier command not yet off?
    calls

task == <<kind, outertries, result>>
hardware == <<cmdBusy, accepted, active, data, landed>>
dma == <<EN, armed, TCIF>>
vars == <<pc, task, tokens, SDIOTransferFailed, isr, intstatus, mask, sta,
          respError, hardware, dma, copied, staleStart, calls>>

Places == {"idle", "retry", "issue", "setup", "send", "take", "check", "poll", "pollcmd"}

TransferTypeOK ==
    /\ pc \in Places
    /\ kind \in TransferKinds
    /\ outertries \in 0..MaxTransferRetries + 1
    /\ result \in Results
    /\ tokens \in Nat
    /\ SDIOTransferFailed \in BOOLEAN
    /\ isr \in {"idle", "act"}
    /\ intstatus \in SUBSET Flags
    /\ mask \in {"none", "card", "all"}
    /\ sta \in SUBSET Flags
    /\ respError \in BOOLEAN
    /\ cmdBusy \in BOOLEAN
    /\ accepted \in BOOLEAN
    /\ active \in BOOLEAN
    /\ data \in {"off", "waiting", "done"}
    /\ EN \in {"off", "on", "stopping"}
    /\ armed \in BOOLEAN
    /\ TCIF \in BOOLEAN
    /\ landed \in BOOLEAN
    /\ copied \in BOOLEAN
    /\ staleStart \in BOOLEAN
    /\ calls \in 0..MaxCalls

\* out of reset
TransferInit ==
    /\ pc = "idle" /\ kind = "command" /\ outertries = 0 /\ result = "NONE"
    /\ tokens = 0 /\ SDIOTransferFailed = FALSE
    /\ isr = "idle" /\ intstatus = {}
    /\ mask = "none" /\ sta = {} /\ respError = FALSE
    /\ cmdBusy = FALSE /\ accepted = FALSE /\ active = FALSE
    /\ data = "off"
    /\ EN = "off" /\ armed = FALSE /\ TCIF = FALSE
    /\ landed = FALSE /\ copied = FALSE /\ staleStart = FALSE
    /\ calls = 0

-----------------------------------------------------------------------------
(* Interrupts *)

Enabled == CASE mask = "none" -> {}
             [] mask = "card" -> {"SDIOIT"}
             [] OTHER -> {"SDIOIT", "CMDREND"}

SDIOPending == sta \cap Enabled # {}
DMAPending == armed /\ TCIF

TaskRuns == isr = "idle" /\ ~SDIOPending /\ ~DMAPending

IsCMD53(k) == k \in {"read", "write"}

-----------------------------------------------------------------------------
(* host_platform_sdio_transfer *)

\* A write of CR without EN.  A stream that was enabled ends its burst, flushes
\* its FIFO and then sets TCIF (StreamStops).
StopStream == EN' = IF EN = "off" THEN "off" ELSE "stopping"

\* entry: CR=0.  A flag that is set stays, and its interrupt with it, until
\* TCIE is set again.
Enter(k) ==
    /\ pc = "idle" /\ TaskRuns
    /\ kind' = k
    /\ outertries' = 0
    /\ StopStream /\ armed' = FALSE
    /\ result' = "NONE"
    /\ pc' = "retry"
    /\ UNCHANGED <<tokens, SDIOTransferFailed, isr, intstatus, mask, sta,
                   respError, hardware, TCIF, copied, staleStart>>

\* Operators whose name ends in _Fault are the definition after them with a
\* slip in it; no action uses them.  Each is what one of the properties guards
\* against.

\* a retry without its limit
Retry_Fault ==
    /\ pc = "retry" /\ TaskRuns
    /\ sta' = {}
    /\ outertries' = outertries + 1
    /\ pc' = "issue"
    /\ UNCHANGED <<kind, result, tokens, SDIOTransferFailed, isr, intstatus, mask,
                   respError, hardware, dma, copied, staleStart, calls>>

\* the label retry
Retry ==
    /\ pc = "retry" /\ TaskRuns
    /\ sta' = {}
    /\ outertries' = outertries + 1
    /\ IF outertries' > MaxTransferRetries
       THEN mask' = "card" /\ result' = "RETRIES_EXCEEDED" /\ pc' = "idle"
       ELSE pc' = "issue" /\ UNCHANGED <<mask, result>>
    /\ UNCHANGED <<kind, tokens, SDIOTransferFailed, isr, intstatus, respError,
                   hardware, dma, copied, staleStart, calls>>

\* "Enable interrupts": what is pending of an earlier command is handled now.
EnableInterrupts ==
    /\ pc = "issue" /\ TaskRuns
    /\ IsCMD53(kind)
    /\ SDIOTransferFailed' = FALSE
    /\ mask' = "all"
    /\ pc' = "setup"
    /\ UNCHANGED <<task, tokens, isr, intstatus, sta, respError, hardware, dma,
                   copied, staleStart, calls>>

\* The data path, then CR, which is written without EN and with TCIE: on a
\* retry this is what stops the stream.  Whether TXACT or RXACT rises with the
\* data path or with the first data is the hardware's affair.
SetupDMATransfer ==
    /\ pc = "setup" /\ TaskRuns
    /\ data' = "waiting" /\ active' \in BOOLEAN
    /\ StopStream /\ armed' = TRUE
    /\ pc' = "send"
    /\ UNCHANGED <<task, tokens, SDIOTransferFailed, isr, intstatus, mask, sta,
                   respError, cmdBusy, accepted, landed, TCIF, copied, staleStart,
                   calls>>

\* Its last line clears the flags of the stream; then the command.
SendCMD53 ==
    /\ pc = "send" /\ TaskRuns
    /\ TCIF' = FALSE
    /\ cmdBusy' = TRUE /\ accepted' = FALSE
    /\ landed' = FALSE /\ copied' = FALSE
    /\ staleStart' = (tokens > 0 \/ EN # "off")
    /\ pc' = "take"
    /\ UNCHANGED <<task, tokens, SDIOTransferFailed, isr, intstatus, mask, sta,
                   respError, active, data, EN, armed, calls>>

\* xSemaphoreTake
Take ==
    /\ pc = "take" /\ TaskRuns
    /\ tokens > 0
    /\ tokens' = tokens - 1
    /\ pc' = "check"
    /\ UNCHANGED <<task, SDIOTransferFailed, isr, intstatus, mask, sta,
                   respError, hardware, dma, copied, staleStart, calls>>

\* an exit that leaves the command interrupts enabled
TakeTimesOut_Fault ==
    /\ pc = "take" /\ TaskRuns
    /\ tokens = 0
    /\ result' = "TIMEOUT"
    /\ pc' = "idle"
    /\ UNCHANGED <<kind, outertries, tokens, SDIOTransferFailed, isr, intstatus,
                   mask, sta, respError, hardware, dma, copied,
                   staleStart, calls>>

\* 50 ms have gone by; what is under way on the bus goes on
TakeTimesOut ==
    /\ pc = "take" /\ TaskRuns
    /\ tokens = 0
    /\ mask' = "card"
    /\ result' = "TIMEOUT"
    /\ pc' = "idle"
    /\ UNCHANGED <<kind, outertries, tokens, SDIOTransferFailed, isr, intstatus,
                   sta, respError, hardware, dma, copied, staleStart,
                   calls>>

\* the failure the handler reports is not looked at
Check_Fault ==
    /\ pc = "check" /\ TaskRuns
    /\ pc' = IF sta \cap Timeouts # {} THEN "retry" ELSE "poll"
    /\ UNCHANGED <<task, tokens, SDIOTransferFailed, isr, intstatus, mask, sta,
                   respError, hardware, dma, copied, staleStart, calls>>

\* the two tests after the wait
Check ==
    /\ pc = "check" /\ TaskRuns
    /\ pc' = IF SDIOTransferFailed \/ sta \cap Timeouts # {} THEN "retry" ELSE "poll"
    /\ UNCHANGED <<task, tokens, SDIOTransferFailed, isr, intstatus, mask, sta,
                   respError, hardware, dma, copied, staleStart, calls>>

\* "Wait for hardware to finish": an error, or MaxDMACommandWaitLoops rounds,
\* lead back to retry
PollFails ==
    /\ pc = "poll" /\ TaskRuns
    /\ sta \cap SDIOAllErrorsMask # {} \/ active
    /\ pc' = "retry"
    /\ UNCHANGED <<task, tokens, SDIOTransferFailed, isr, intstatus, mask, sta,
                   respError, hardware, dma, copied, staleStart, calls>>

\* ... and neither transmission nor reception to success, with the memcpy out
\* of ReceiveBuffer
PollSucceeds ==
    /\ pc = "poll" /\ TaskRuns
    /\ sta \cap SDIOAllErrorsMask = {} /\ ~active
    /\ copied' = IF kind = "read" THEN landed ELSE copied
    /\ mask' = "card"
    /\ result' = "SUCCESS"
    /\ pc' = "idle"
    /\ UNCHANGED <<kind, outertries, tokens, SDIOTransferFailed, isr, intstatus,
                   sta, respError, hardware, dma, staleStart, calls>>

IssueCommand ==
    /\ pc = "issue" /\ TaskRuns
    /\ ~IsCMD53(kind)
    /\ cmdBusy' = TRUE /\ accepted' = FALSE
    /\ landed' = FALSE /\ copied' = FALSE
    /\ pc' = "pollcmd"
    /\ UNCHANGED <<task, tokens, SDIOTransferFailed, isr, intstatus, mask, sta,
                   respError, active, data, dma, staleStart,
                   calls>>

\* an error of a command with RESPONSE_NEEDED, or MaxNormalCommandWaitLoops
\* rounds
CommandFails ==
    /\ pc = "pollcmd" /\ TaskRuns
    /\ (kind = "command" /\ sta \cap SDIOAllErrorsMask # {}) \/ cmdBusy
    /\ pc' = "retry"
    /\ UNCHANGED <<task, tokens, SDIOTransferFailed, isr, intstatus, mask, sta,
                   respError, hardware, dma, copied, staleStart, calls>>

\* an answer that is not waited for
CommandSucceeds_Fault ==
    /\ pc = "pollcmd" /\ TaskRuns
    /\ ~cmdBusy
    /\ result' = "SUCCESS"
    /\ pc' = "idle"
    /\ UNCHANGED <<kind, outertries, tokens, SDIOTransferFailed, isr, intstatus,
                   mask, sta, respError, hardware, dma, copied,
                   staleStart, calls>>

CommandSucceeds ==
    /\ pc = "pollcmd" /\ TaskRuns
    /\ kind = "command" => sta \cap SDIOAllErrorsMask = {}
    /\ ~cmdBusy
    /\ result' = "SUCCESS"
    /\ pc' = "idle"
    /\ UNCHANGED <<kind, outertries, tokens, SDIOTransferFailed, isr, intstatus,
                   mask, sta, respError, hardware, dma, copied,
                   staleStart, calls>>

-----------------------------------------------------------------------------
(* Interrupt handlers *)

\* SDIO_IRQHandler up to the read of the status register
SDIO_IRQEnter ==
    /\ isr = "idle" /\ SDIOPending
    /\ isr' = "act"
    /\ intstatus' = sta
    /\ UNCHANGED <<pc, task, tokens, SDIOTransferFailed, mask, sta, respError,
                   hardware, dma, copied, staleStart, calls>>

IrqError == intstatus \cap IrqErrors # {}
IrqRespError == "CMDREND" \in intstatus /\ respError

\* The rest of it.  An error clears every flag, a response clears CMDREND and
\* enables the DMA stream, set up or not, unless the card reported an error in
\* it; an error and such a response signal the task twice.  What enabling does to
\* a stream that is just stopping is left open.
SDIO_IRQHandler ==
    /\ isr = "act"
    /\ isr' = "idle"
    /\ intstatus' = {}
    /\ SDIOTransferFailed' = (SDIOTransferFailed \/ IrqError \/ IrqRespError)
    /\ tokens' = tokens + (IF IrqError THEN 1 ELSE 0)
                        + (IF IrqRespError THEN 1 ELSE 0)
    /\ sta' = (IF IrqError THEN {} ELSE sta)
                \ (intstatus \cap {"CMDREND", "SDIOIT"})
    /\ IF "CMDREND" \in intstatus /\ ~respError
       THEN EN' \in {"on"} \cup ({EN} \cap {"stopping"})
       ELSE UNCHANGED EN
    /\ UNCHANGED <<pc, task, mask, respError, hardware, armed, TCIF, copied,
                   staleStart, calls>>

\* The stream has ended, complete or not: its interrupt has the lower priority of
\* the two (Main.c:87) and signals the task.
DMA2_Stream3_IRQHandler ==
    /\ isr = "idle" /\ ~SDIOPending
    /\ DMAPending
    /\ TCIF' = FALSE
    /\ tokens' = tokens + 1
    /\ UNCHANGED <<pc, task, SDIOTransferFailed, isr, intstatus, mask, sta,
                   respError, hardware, EN, armed, copied, staleStart, calls>>

-----------------------------------------------------------------------------
(* Hardware *)

\* The command ends: with a response, which may carry an error, with a
\* response whose CRC is wrong, or with none.
CommandEnds ==
    /\ cmdBusy
    /\ cmdBusy' = FALSE
    /\ \E flag \in {"CMDREND", "CCRCFAIL", "CTIMEOUT"}, error \in BOOLEAN :
          /\ flag # "CMDREND" => ~error
          /\ sta' = sta \cup {flag}
          /\ respError' = error
          /\ accepted' = (flag = "CMDREND" /\ ~error)
    /\ UNCHANGED <<pc, task, tokens, SDIOTransferFailed, isr, intstatus, mask,
                   active, data, landed, dma, copied, staleStart, calls>>

\* The data path moves the data of an accepted command ...
DataStarts ==
    /\ accepted /\ data = "waiting" /\ ~active
    /\ active' = TRUE
    /\ UNCHANGED <<pc, task, tokens, SDIOTransferFailed, isr, intstatus, mask,
                   sta, respError, cmdBusy, accepted, data, landed, dma,
                   copied, staleStart, calls>>

\* ... to the end, which takes a stream that is set up for it ...
DataEnds ==
    /\ accepted /\ data = "waiting" /\ active
    /\ EN = "on" /\ armed
    /\ data' = "done" /\ active' = FALSE
    /\ UNCHANGED <<pc, task, tokens, SDIOTransferFailed, isr, intstatus, mask,
                   sta, respError, cmdBusy, accepted, landed, dma, copied,
                   staleStart, calls>>

\* ... or to an error, which it may also meet before the stream is on.
DataFails ==
    /\ accepted /\ data = "waiting"
    /\ \E flag \in {"DCRCFAIL", "DTIMEOUT"} : sta' = sta \cup {flag}
    /\ data' = "off" /\ active' = FALSE
    /\ UNCHANGED <<pc, task, tokens, SDIOTransferFailed, isr, intstatus, mask,
                   respError, cmdBusy, accepted, landed, dma, copied,
                   staleStart, calls>>

\* The stream has moved the last word.
DMACompletes ==
    /\ data = "done" /\ EN = "on" /\ armed
    /\ EN' = "off" /\ TCIF' = TRUE
    /\ data' = "off"
    /\ landed' = TRUE
    /\ UNCHANGED <<pc, task, tokens, SDIOTransferFailed, isr, intstatus, mask,
                   sta, respError, cmdBusy, accepted, active, armed, copied,
                   staleStart, calls>>

\* A stream that software has disabled comes to its end, which sets the same flag.
StreamStops ==
    /\ EN = "stopping"
    /\ EN' = "off" /\ TCIF' = TRUE
    /\ UNCHANGED <<pc, task, tokens, SDIOTransferFailed, isr, intstatus, mask,
                   sta, respError, hardware, armed, copied, staleStart, calls>>

\* The card asks for attention.
CardInterrupt ==
    /\ "SDIOIT" \notin sta
    /\ sta' = sta \cup {"SDIOIT"}
    /\ UNCHANGED <<pc, task, tokens, SDIOTransferFailed, isr, intstatus, mask,
                   respError, hardware, dma, copied, staleStart, calls>>

-----------------------------------------------------------------------------

TaskStep == \/ Retry \/ EnableInterrupts \/ SetupDMATransfer \/ SendCMD53
            \/ Take \/ TakeTimesOut \/ Check
            \/ PollFails \/ PollSucceeds
            \/ IssueCommand \/ CommandFails \/ CommandSucceeds
Handlers == SDIO_IRQEnter \/ SDIO_IRQHandler \/ DMA2_Stream3_IRQHandler
Bus == CommandEnds \/ DataStarts \/ DataEnds \/ DataFails \/ DMACompletes
       \/ StreamStops

-----------------------------------------------------------------------------
(* Properties *)

\* If the last command was sent with no token there and the stream at rest, a
\* CMD53 that reports success has moved its data: a read handed its caller what
\* this command brought, and the DMA stream is not running any more.  A retry
\* that stops the stream of the attempt before it is not such a start: the
\* stopped stream leaves a token (WICEDPlatform.c:240, 378-408).
SuccessIsReal ==
    pc = "idle" /\ result = "SUCCESS" /\ IsCMD53(kind) /\ ~staleStart
        => /\ landed
           /\ kind = "read" => copied
           /\ EN = "off"

\* Outside a transfer no interrupt of the command path is enabled, whichever
\* of the four ways the last transfer ended.
QuietWhenIdle == pc = "idle" => mask # "all"

\* WICEDPlatform.c:283: the task waits "for the IRQ handler to signal the
\* command has finished", so after the wait it has.
WaitMeansFinished == pc = "check" => ~cmdBusy
=============================================================================
