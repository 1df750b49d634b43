------------------------------- MODULE SDIOBus -------------------------------
(***************************************************************************)
(* The life of the SDIO bus (WICEDPlatform.c): host_platform_bus_init,     *)
(* host_platform_sdio_enumerate, the transfers of the WICED driver, and    *)
(* host_platform_bus_deinit, which deletes the semaphore first and masks   *)
(* the interrupts that give it afterwards.  Handlers and hardware go on    *)
(* all the while the bus is not down.                                      *)
(***************************************************************************)
EXTENDS SDIOTransfer

CONSTANTS
    MaxSDIOEnumerationRetries,  \* WICEDPlatform.c:123, 500 in the program
    MaxInits                    \* bound: times the bus is brought up

ASSUME BusAssumption ==
    /\ MaxSDIOEnumerationRetries \in Nat \ {0}
    /\ MaxInits \in Nat

VARIABLES
    bus,                \* "up" or "down"; in bus_deinit "deleted" once the
                        \* semaphore is, "masked" once the interrupts are
    enum,               \* host_platform_sdio_enumerate: not called, the command
                        \* it is in, or how it returned
    tries,              \* its count of failures
    gaveDeleted,        \* history: a handler has given a deleted semaphore
    inits

bring == <<bus, inits>>
enumeration == <<enum, tries>>
allVars == <<vars, bring, enumeration, gaveDeleted>>

Commands == {"cmd0", "cmd5", "cmd3", "cmd7"}

TypeOK ==
    /\ TransferTypeOK
    /\ bus \in {"down", "up", "deleted", "masked"}
    /\ enum \in Commands \cup {"no", "yes", "failed"}
    /\ tries \in 0..MaxSDIOEnumerationRetries
    /\ gaveDeleted \in BOOLEAN
    /\ inits \in 0..MaxInits

Init ==
    /\ TransferInit
    /\ bus = "down" /\ inits = 0
    /\ enum = "no" /\ tries = 0
    /\ gaveDeleted = FALSE

-----------------------------------------------------------------------------
(* Bringing the bus up and taking it down *)

\* Reset of the SDIO peripheral: registers, command path and data path.  The
\* DMA controller is not reset.
ResetPeripheral ==
    /\ mask' = "none" /\ sta' = {} /\ respError' = FALSE
    /\ cmdBusy' = FALSE /\ accepted' = FALSE /\ active' = FALSE
    /\ data' = "off"
    /\ UNCHANGED <<pc, kind, outertries, SDIOTransferFailed, isr, intstatus, dma,
                   landed, copied, staleStart, calls>>

\* host_platform_bus_init; the interrupts were disabled up to here.
BusInit ==
    /\ bus = "down" /\ inits < MaxInits
    /\ inits' = inits + 1
    /\ tokens' = 0
    /\ result' = "NONE"
    /\ ResetPeripheral
    /\ bus' = "up"
    /\ enum' = "no"
    /\ gaveDeleted' = FALSE
    /\ UNCHANGED tries

\* host_platform_bus_deinit, from vQueueDelete ...
BusDeinit ==
    /\ bus = "up" /\ pc = "idle" /\ TaskRuns
    /\ enum \in {"no", "yes", "failed"}
    /\ bus' = "deleted"
    /\ UNCHANGED <<vars, inits, enumeration, gaveDeleted>>

\* ... over MASK=0 ...
MaskInterrupts ==
    /\ bus = "deleted" /\ TaskRuns
    /\ mask' = "none"
    /\ bus' = "masked"
    /\ UNCHANGED <<pc, task, tokens, SDIOTransferFailed, isr, intstatus, sta,
                   respError, hardware, dma, copied, staleStart, calls,
                   inits, enumeration, gaveDeleted>>

\* ... to the reset and the two NVIC_DisableIRQ.
PowerDown ==
    /\ bus = "masked" /\ TaskRuns
    /\ ResetPeripheral
    /\ bus' = "down"
    /\ UNCHANGED <<tokens, result, inits, enumeration, gaveDeleted>>

-----------------------------------------------------------------------------
(* host_platform_sdio_enumerate *)

\* a transfer of k of which enumerate waits as the command c
Send(c, k) ==
    /\ Enter(k)
    /\ enum' = c
    /\ UNCHANGED <<calls, bring, gaveDeleted>>

Enumerate ==
    /\ bus = "up" /\ enum = "no"
    /\ Send("cmd0", "probe")
    /\ tries' = 0

SendCMD5 ==
    /\ enum = "cmd0"
    /\ Send("cmd5", "probe")
    /\ UNCHANGED tries

SendCMD3 ==
    /\ enum = "cmd5"
    /\ Send("cmd3", "command")
    /\ UNCHANGED tries

SelectCard ==
    /\ enum = "cmd3" /\ result = "SUCCESS"
    /\ Send("cmd7", "command")
    /\ UNCHANGED tries

\* a card that never answers, without the limit
TryAgain_Fault ==
    /\ enum = "cmd3" /\ result # "SUCCESS"
    /\ Send("cmd0", "probe")
    /\ UNCHANGED tries

TryAgain ==
    /\ enum = "cmd3" /\ result # "SUCCESS"
    /\ tries + 1 < MaxSDIOEnumerationRetries
    /\ tries' = tries + 1
    /\ Send("cmd0", "probe")

\* the return with WWD_TIMEOUT, or with WWD_SUCCESS whatever became of CMD7
EnumerateReturns ==
    /\ pc = "idle" /\ TaskRuns
    /\ \/ /\ enum = "cmd3" /\ result # "SUCCESS"
          /\ tries + 1 >= MaxSDIOEnumerationRetries
          /\ tries' = tries + 1
          /\ enum' = "failed"
       \/ /\ enum = "cmd7"
          /\ enum' = "yes"
          /\ UNCHANGED tries
    /\ UNCHANGED <<vars, bring, gaveDeleted>>

EnumerateStep == SendCMD5 \/ SendCMD3 \/ SelectCard \/ TryAgain \/ EnumerateReturns

-----------------------------------------------------------------------------

\* The WICED driver asks for a transfer once the card is selected.
Transfer ==
    /\ bus = "up" /\ enum = "yes"
    /\ calls < MaxCalls
    /\ calls' = calls + 1
    /\ \E k \in Kinds : Enter(k)
    /\ UNCHANGED <<bring, enumeration, gaveDeleted>>

TransferStep == TaskStep /\ UNCHANGED <<bring, enumeration, gaveDeleted>>

\* A handler may give the semaphore after bus_deinit has deleted it.
Handling(handler) ==
    /\ bus # "down"
    /\ handler
    /\ gaveDeleted' = (gaveDeleted \/ (bus # "up" /\ tokens' # tokens))
    /\ UNCHANGED <<bring, enumeration>>

Hardware ==
    /\ bus # "down"
    /\ Bus \/ CardInterrupt
    /\ UNCHANGED <<bring, enumeration, gaveDeleted>>

Next ==
    \/ BusInit \/ BusDeinit \/ MaskInterrupts \/ PowerDown
    \/ Enumerate \/ EnumerateStep
    \/ Transfer \/ TransferStep
    \/ Handling(Handlers) \/ Hardware

Spec == Init /\ [][Next]_allVars

\* SDIO_IRQHandler runs at once, and the interrupts of the card leave some time
\* between them: what has a lower priority and can run again and again, does.
\* One condition is enough for the three, since the task does not run while a
\* DMA interrupt is pending.  Of the bus nothing is assumed.
FairSpec ==
    /\ Spec
    /\ SF_allVars(TransferStep \/ EnumerateStep \/ Handling(DMA2_Stream3_IRQHandler))
    /\ WF_allVars(Handling(SDIO_IRQEnter \/ SDIO_IRQHandler))

-----------------------------------------------------------------------------
(* Properties *)

\* As long as nothing has enabled the card interrupt, and with it the handler
\* that clears error flags, a command with RESPONSE_NEEDED that reports success
\* was answered.  The address enumerate sends in CMD7 is such a response.
ResponseIsReal ==
    bus = "up" /\ mask = "none"
    /\ pc = "idle" /\ result = "SUCCESS" /\ kind = "command"
        => accepted \/ respError

\* Deleting the semaphore before its interrupts are masked does no harm when
\* the last transfer was a CMD53 that succeeded, and whose command was sent with
\* no token there and the stream at rest: no handler has anything left to give it
\* for.
DeleteIsSafe ==
    gaveDeleted => ~(result = "SUCCESS" /\ IsCMD53(kind) /\ ~staleStart)

\* Every transfer returns, whatever the card does, and so does enumerate,
\* whether a card answers or not.
Busy == pc # "idle" \/ enum \in Commands
CallsReturn == Busy ~> ~Busy
=============================================================================
