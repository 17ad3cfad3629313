------------------------------- MODULE SdInit -------------------------------
(***************************************************************************)
(* sdInit of SdReader.c: the handshake that resets the card, finds out its *)
(* version and waits until it is ready.  It may run again at any time: on  *)
(* a card left in the middle of a block, by a warm call or by a reset of   *)
(* the processor, and on a card that was exchanged since.                  *)
(*                                                                         *)
(* A command is two steps: getting the card's attention (sdReadEnd, slave  *)
(* select, sdWaitNotBusy), then the command and its R1 response.           *)
(***************************************************************************)
EXTENDS SdCard

CONSTANTS
  ATTEMPTS,    \* the retry of CMD0 that gives up (10)
  PER_MS,      \* passes of a wait loop the code takes for a millisecond (1000)
  ACMD41_MS,   \* the limit of the ACMD41 loop (2000)
  BYTE_US      \* microseconds per SPI byte at the initial clock (64)

ASSUME InitAssumption ==
  /\ REGLEN <= SECTOR
  /\ ATTEMPTS \in Nat
  /\ PER_MS \in Nat \ {0}
  /\ ACMD41_MS \in Nat
  /\ BYTE_US \in Nat

VARIABLES
  type_, errorCode_, inBlock_, offset_,   \* globals of SdReader.c
  pc,        \* the command in progress, or where sdInit stands
  sent,      \* the card's attention was got, the command goes out next
  r,         \* the last R1 response or data byte
  retry, t0,
  result,    \* what sdInit returned last
  cmd8,      \* how CMD8 ended in this call
  elapsed,   \* microseconds spent in the ACMD41 loop, counted from below
  kind,      \* the card in the socket
  doubtful,  \* type_ was found for another card, or read from one that was sending
  initialised,  \* the card has left its idle state
  card,      \* what it is shifting out
  waited     \* a reset hit the wait for its token, and it has not been quiet since

driverVars == <<type_, errorCode_, inBlock_, offset_>>
localVars == <<pc, sent, r, retry, t0, result, cmd8, elapsed>>
cardVars == <<kind, doubtful, initialised, card>>
vars == <<driverVars, localVars, cardVars, waited>>

Offsets == 0 .. SECTOR + CRCLEN
Retries == 0 .. ATTEMPTS
Passes == 0 .. PER_MS * (ACMD41_MS + 1)
Kinds == {"V1", "V2", "HC", "absent"}
Commands == {"CMD0", "CMD8", "CMD55", "ACMD41", "CMD58"}
Responses == {"ready", "idle", "illegal", "error", "none"}

-----------------------------------------------------------------------------
(* The card and the bus *)

\* Where n transfers may leave the selected card.  One that prepares a block
\* may send its token, or an error token, in any of them.
AfterBytes(c, n) ==
  CASE c.mode = "data"  -> {Streaming(c.src, c.pos + n)}
    [] c.mode = "token" -> {c, Ready} \cup {Streaming(c.src, k) : k \in 0 .. n - 1}
    [] OTHER            -> {c}

\* Bytes it still sends before it is quiet, counted from its token if need be.
Remaining(c) ==
  CASE c.mode = "data"  -> Payload(c.src) + CRCLEN - c.pos
    [] c.mode = "token" -> Payload(c.src) + CRCLEN + 1
    [] OTHER            -> 0

\* Where the card is after some more transfers.
Onward(c) == UNION {AfterBytes(c, n) : n \in 1 .. Remaining(c) + 1}

\* No answer at all is 0xFF, with the illegal command bit among the others.
IllegalCommand(response) == response \in {"illegal", "none"}

\* A transmission error can hit any response.
Noise == {"error", "none"}

\* What the driver may take for the response: a byte of its block can look like
\* any response if the card was still sending when the command went out.
Read(answers) == answers \cup IF card = Ready THEN {} ELSE Responses

\* What a command leaves of the idle state of the card; one that was sending may
\* have ignored it.
Obeyed(state) == {state} \cup IF card = Ready THEN {} ELSE {initialised}

\* What a card answers to CMD8: only version 2 cards know it.
Cmd8Answers == Noise \cup
  CASE kind \in {"V2", "HC"} -> {"idle"}
    [] kind = "V1" -> {"illegal"}
    [] OTHER -> {}

\* A high capacity card leaves the idle state only for a host that says it
\* supports such cards.
MayInitialise(hostHCS) ==
  kind \in {"V1", "V2"} \/ (kind = "HC" /\ hostHCS)

-----------------------------------------------------------------------------
(* Helpers *)

Begin(command) ==
  /\ pc' = command
  /\ sent' = FALSE

Return(code) ==
  /\ pc' = "done"
  /\ sent' = FALSE
  /\ result' = code

SetType(t) ==
  /\ type_' = t
  /\ doubtful' = waited

\* A command whose response is due.
Answering(command) == pc = command /\ sent

\* sdReadEnd: one byte, then one for each position below the end of the block.
AfterReadEnd ==
  IF inBlock_
    THEN AfterBytes(card, 1 + IF offset_ < SECTOR + 1 THEN SECTOR + 1 - offset_
                                                      ELSE 0)
    ELSE {card}

-----------------------------------------------------------------------------
(* sdInit *)

\* The bytes that prevent a re-init hang; the mutant counts to i < 512.
PreDrainBelow == SECTOR
PreDrainBytes == SECTOR + 1

\* spiSSLow and those bytes.
PreDrain ==
  /\ pc = "start"
  /\ card' \in AfterBytes(card, PreDrainBytes)
  /\ Begin("CMD0")
  /\ retry' = 0
  /\ UNCHANGED <<driverVars, r, t0, result, cmd8, elapsed, kind, doubtful,
                 initialised, waited>>

\* The start of sdCardCommand.  sdWaitNotBusy stops at the first byte that
\* reads 0xFF, which a byte of an unfinished block may do by chance.
GetAttention ==
  /\ pc \in Commands /\ ~sent
  /\ inBlock_' = FALSE
  /\ offset_' = IF inBlock_ THEN SECTOR + CRCLEN ELSE offset_
  /\ \E c \in AfterReadEnd : card' \in Onward(c)
  /\ sent' = TRUE
  /\ UNCHANGED <<type_, errorCode_, pc, r, retry, t0, result, cmd8, elapsed,
                 kind, doubtful, initialised, waited>>

GoIdle ==
  /\ Answering("CMD0")
  /\ kind # "absent"
  /\ r' = "idle"
  /\ initialised' \in Obeyed(FALSE)
  /\ card' \in Onward(card)
  /\ Begin("CMD8")
  /\ UNCHANGED <<driverVars, retry, t0, result, cmd8, elapsed, kind,
                 doubtful, waited>>

\* retry == 10, and retry++; the mutants give up one attempt late and forget to
\* count.
GivesUpLate == retry > ATTEMPTS
GivesUp == retry = ATTEMPTS

SameAttempt == retry
NextAttempt == retry + 1

\* The card may have executed a command whose response was lost.
RetryGoIdle ==
  /\ Answering("CMD0")
  /\ r' \in Read(Noise) \ {"idle"}
  /\ initialised' \in {initialised, FALSE}
  /\ card' \in Onward(card)
  /\ IF GivesUp
       THEN /\ errorCode_' = "CMD0"
            /\ Return(FALSE)
            /\ UNCHANGED retry
       ELSE /\ retry' = NextAttempt
            /\ Begin("CMD0")
            /\ UNCHANGED <<errorCode_, result>>
  /\ UNCHANGED <<type_, inBlock_, offset_, t0, cmd8, elapsed, kind,
                 doubtful, waited>>

\* t0=0, then the first pass of the ACMD41 loop.  A pass delays two
\* microseconds and moves two commands of at least COMMAND_BYTES bytes: one of
\* the busy wait, the command's six, one of the response.
COMMAND_BYTES == 8
CommandTime == COMMAND_BYTES * BYTE_US

EnterReadyLoop ==
  /\ t0' = 1
  /\ elapsed' = 2
  /\ Begin("CMD55")

CheckVersion ==
  /\ Answering("CMD8")
  /\ card' \in Onward(card)
  /\ \E response \in Read(Cmd8Answers) :
       CASE response = "idle" ->
              /\ cmd8' = "accepted"
              /\ \/ /\ r' = "echo"
                    /\ SetType("SD2")
                    /\ EnterReadyLoop
                    /\ UNCHANGED <<errorCode_, result>>
                 \/ /\ r' = "badEcho"
                    /\ errorCode_' = "CMD8_ECHO"
                    /\ Return(FALSE)
                    /\ UNCHANGED <<type_, doubtful, t0, elapsed>>
         [] IllegalCommand(response) ->
              /\ cmd8' = "illegal"
              /\ r' = response
              /\ SetType("SD1")
              /\ EnterReadyLoop
              /\ UNCHANGED <<errorCode_, result>>
         [] OTHER ->
              /\ cmd8' = "rejected"
              /\ r' = response
              /\ errorCode_' = "CMD8"
              /\ EnterReadyLoop
              /\ UNCHANGED <<type_, doubtful, result>>
  /\ UNCHANGED <<inBlock_, offset_, retry, kind, initialised, waited>>

\* The response of CMD55 is not looked at.
NextIsApplication ==
  /\ Answering("CMD55")
  /\ Begin("ACMD41")
  /\ elapsed' = elapsed + CommandTime
  /\ card' \in Onward(card)
  /\ UNCHANGED <<driverVars, r, retry, t0, result, cmd8, kind, doubtful,
                 initialised, waited>>

\* The host supports SDHC if CMD8 found a version 2 card; the mutant says so of
\* every card that is not known to be version 1.
AnyButSD1 == type_ # "SD1"
HostHCS == type_ = "SD2"

\* The card answers that it is ready.
BecomeReady ==
  /\ Answering("ACMD41")
  /\ kind # "absent"
  /\ \/ (initialised \/ MayInitialise(HostHCS)) /\ initialised' = TRUE
     \/ card # Ready /\ UNCHANGED initialised
  /\ r' = "ready"
  /\ card' \in Onward(card)
  /\ IF type_ = "SD2"
       THEN Begin("CMD58") /\ UNCHANGED result
       ELSE Return(TRUE)
  /\ UNCHANGED <<driverVars, retry, t0, cmd8, elapsed, kind,
                 doubtful, waited>>

\* The card is not ready yet, took ACMD41 for an unknown command because CMD55
\* was lost, or became ready and its response was lost.
NotReadyYet ==
  /\ Answering("ACMD41")
  /\ r' \in Read(Noise \cup IF kind = "absent" THEN {} ELSE {"idle", "illegal"})
             \ {"ready"}
  /\ r' = "idle" => ~initialised \/ card # Ready
  /\ \/ UNCHANGED initialised
     \/ /\ r' \in Noise \/ card # Ready
        /\ MayInitialise(HostHCS)
        /\ initialised' = TRUE
  /\ card' \in Onward(card)
  /\ elapsed' = elapsed + CommandTime + 2
  /\ IF t0 \div PER_MS > ACMD41_MS
       THEN /\ errorCode_' = "ACMD41"
            /\ Return(FALSE)
            /\ UNCHANGED t0
       ELSE /\ t0' = t0 + 1
            /\ Begin("CMD55")
            /\ UNCHANGED <<errorCode_, result>>
  /\ UNCHANGED <<type_, inBlock_, offset_, retry, cmd8, kind, doubtful, waited>>

\* A card that is ready says whether it is a high capacity card.
ReadOCR ==
  /\ Answering("CMD58")
  /\ kind # "absent"
  /\ r' = "ocr"
  /\ \/ (kind = "HC" \/ card # Ready) /\ SetType("SDHC")
     \/ (kind # "HC" \/ card # Ready) /\ UNCHANGED <<type_, doubtful>>
  /\ card' \in Onward(card)
  /\ Return(TRUE)
  /\ UNCHANGED <<errorCode_, inBlock_, offset_, retry, t0, cmd8, elapsed,
                 kind, initialised, waited>>

OCRFails ==
  /\ Answering("CMD58")
  /\ r' \in Read(Noise) \ {"ready"}
  /\ errorCode_' = "CMD58"
  /\ card' \in Onward(card)
  /\ Return(FALSE)
  /\ UNCHANGED <<type_, inBlock_, offset_, retry, t0, cmd8, elapsed, kind,
                 doubtful, initialised, waited>>

-----------------------------------------------------------------------------
(* What happens between two calls of sdInit *)

\* The card answers reads.
Reads == result /\ initialised /\ kind # "absent" /\ card = Ready

\* A card that was heard quiet is no longer waited for.
StillWaited == waited /\ card # Ready

\* The client calls sdInit, perhaps with a block left open by a partial read.
Call ==
  /\ pc = "done"
  /\ pc' = "start"
  /\ cmd8' = "none"
  /\ waited' = StillWaited
  /\ \/ UNCHANGED <<inBlock_, offset_, card>>
     \/ /\ Reads
        /\ \E k \in 1 .. SECTOR - 1, b \in Blocks :
             /\ inBlock_' = TRUE
             /\ offset_' = k
             /\ card' = Streaming(b, k)
  /\ UNCHANGED <<type_, errorCode_, sent, r, retry, t0, result, elapsed, kind,
                 doubtful, initialised>>

\* The processor restarts: its globals are cleared while the card, which keeps
\* its power, may be anywhere in a block or a register or, if the reset came in
\* sdWaitStartBlock, still prepare it.
Restart ==
  /\ pc = "done"
  /\ type_' = "unset"
  /\ doubtful' = FALSE
  /\ errorCode_' = "none"
  /\ inBlock_' = FALSE
  /\ offset_' = 0
  /\ result' = FALSE
  /\ \/ UNCHANGED card /\ waited' = StillWaited
     \/ /\ Reads
        /\ \E src \in Sources :
             \/ card' = Preparing(src) /\ waited' = TRUE
             \/ /\ \E k \in 0 .. Payload(src) + CRCLEN - 1 :
                     card' = Streaming(src, k)
                /\ waited' = FALSE
  /\ UNCHANGED <<pc, sent, r, retry, t0, cmd8, elapsed, kind,
                 initialised>>

\* Another card in the socket, fresh from power-up.
Exchange ==
  /\ pc = "done"
  /\ kind' \in Kinds
  /\ doubtful' = (type_ # "unset")
  /\ initialised' = FALSE
  /\ card' = Ready
  /\ waited' = FALSE
  /\ result' = FALSE
  /\ UNCHANGED <<driverVars, pc, sent, r, retry, t0, cmd8, elapsed>>

-----------------------------------------------------------------------------
(* Specification *)

Init ==
  /\ type_ = "unset" /\ errorCode_ = "none" /\ inBlock_ = FALSE /\ offset_ = 0
  /\ pc = "start" /\ sent = FALSE /\ r = "none" /\ retry = 0 /\ t0 = 0
  /\ result = FALSE /\ cmd8 = "none" /\ elapsed = 0
  /\ kind \in Kinds /\ doubtful = FALSE /\ initialised = FALSE /\ card = Ready
  /\ waited = FALSE

Step == \/ PreDrain \/ GetAttention \/ GoIdle \/ RetryGoIdle \/ CheckVersion
        \/ NextIsApplication \/ BecomeReady \/ NotReadyYet
        \/ ReadOCR \/ OCRFails

Next == Step \/ Call \/ Restart \/ Exchange

\* sdInit runs without help from outside: the SPI master makes the clock.
Spec == Init /\ [][Next]_vars /\ WF_vars(Step)
-----------------------------------------------------------------------------
(* Properties *)

\* Every variable keeps its type, retry and t0 stay within the two limits.
TypeOK ==
  /\ type_ \in {"unset", "SD1", "SD2", "SDHC"}
  /\ errorCode_ \in {"none", "CMD0", "CMD8", "CMD8_ECHO", "ACMD41", "CMD58"}
  /\ inBlock_ \in BOOLEAN
  /\ offset_ \in Offsets
  /\ pc \in Commands \cup {"start", "done"}
  /\ sent \in BOOLEAN
  /\ r \in Responses \cup {"echo", "badEcho", "ocr"}
  /\ retry \in Retries
  /\ t0 \in Passes
  /\ result \in BOOLEAN
  /\ cmd8 \in {"none", "accepted", "illegal", "rejected"}
  /\ elapsed \in Nat
  /\ kind \in Kinds
  /\ doubtful \in BOOLEAN
  /\ initialised \in BOOLEAN
  /\ card \in CardState
  /\ waited \in BOOLEAN

\* The pre-drain and the busy wait together are long enough for "cards that were
\* in partial read" (SdReader.c:197): wherever in a block the card was left, it
\* is quiet when a command goes out.  They are not for a card that a reset left
\* preparing its token: it may send it in the last of these bytes or later.
HandshakeMeetsQuietCard == sent /\ ~waited => card = Ready

\* When sdInit returns 1 the card in the socket has left its idle state, and
\* sdReadData will address it the way it wants to be addressed: by block if it
\* is a high capacity card, by byte if not.  A rejected CMD8 leaves type_ as it
\* was, so the card it was found for must still be there; the type is then
\* right because a high capacity card waits for a host that announces HCS.
\* Nothing is claimed of a call whose commands may have met a card that was
\* still to send its token: it can take any byte of the block for a response.
SuccessMeansUsable ==
  pc = "done" /\ result /\ ~waited /\ ~(cmd8 = "rejected" /\ doubtful) =>
    /\ kind # "absent" /\ initialised
    /\ type_ = "SDHC" <=> kind = "HC"

\* sdInit returns, also without a card, when the card is never ready and when
\* its commands meet a card that is still sending.
InitReturns == pc = "start" ~> pc = "done"

\* SdReader.c on the ACMD41 loop: "timeout after 2 seconds".  A pass that goes
\* on does so within the limit, plus the pass itself.
TwoSecondTimeout ==
  pc = "ACMD41" =>
    elapsed <= ACMD41_MS * PER_MS + 2 * CommandTime + 2
=============================================================================
