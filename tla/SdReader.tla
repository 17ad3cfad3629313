------------------------------ MODULE SdReader ------------------------------
(***************************************************************************)
(* SdReader.c: the block reader over SPI.  The driver keeps a block open   *)
(* on the card between calls (block_, offset_, inBlock_) so that a later   *)
(* read of the same block can go on where the last one stopped; everything *)
(* rests on offset_ being the number of bytes the card has shifted out.    *)
(*                                                                         *)
(* One step is one pass through a loop of the driver, that is one byte on  *)
(* the bus.  spdr is the SPI data register: writing it starts the next     *)
(* transfer, so it always holds the byte before the one being fetched.     *)
(***************************************************************************)
EXTENDS SdCalls

CONSTANTS
  MOD16,      \* 2^16: offset_, offset and count are uint16_t
  MOD32,      \* 2^32: a command argument is uint32_t
  type_,      \* the card type sdInit left behind, never written here
  POLLS,      \* passes of a timed wait loop before it gives up
  RETRIES     \* passes of the response loop before it gives up (0xFF)

ASSUME ReaderAssumption ==
  /\ MOD16 \in Nat /\ SECTOR + CRCLEN < MOD16
  /\ MOD32 \in Nat
  /\ type_ \in {"SD1", "SD2", "SDHC"}
  /\ POLLS \in Nat
  /\ RETRIES \in Nat

VARIABLES
  block_, offset_, inBlock_, partialBlockRead_, errorCode_,   \* globals
  pc,         \* where the executing call stands, "idle" between calls
  cont,       \* where sdReadEnd returns to
  i,          \* loop index of the transfer
  poll,       \* passes of the current wait loop
  dst,        \* the caller's destination buffer
  spdr,       \* the byte of the last SPI transfer
  selected,   \* slave select is low
  card,       \* the card, which only shifts while it is selected
  req,        \* the executing call, or the last one
  reply       \* result of the last call: [ok, data]

driverVars == <<block_, offset_, inBlock_, partialBlockRead_, errorCode_>>
localVars == <<pc, cont, i, poll, dst>>
busVars == <<spdr, selected, card>>
vars == <<driverVars, localVars, busVars, req, reply>>

Store == INSTANCE SdBlockStore WITH busy <- pc # "idle"

-----------------------------------------------------------------------------
(* Helpers *)

Goto(label) == pc' = label

\* SPDR = 0XFF: fetch the next byte from the card.
Shift ==
  /\ spdr' = IF selected THEN ByteOut(card) ELSE Filler
  /\ card' = IF selected THEN AfterByte(card) ELSE card
  /\ UNCHANGED selected

\* spiSSHigh, which clocks one more byte with the card deselected.
Deselect ==
  /\ selected' = FALSE
  /\ spdr' = Filler
  /\ UNCHANGED card

Return(ok) ==
  /\ Goto("idle")
  /\ reply' = [ok |-> ok, data |-> dst]

Fail(code) ==
  /\ errorCode_' = code
  /\ Return(FALSE)

\* One more pass of a wait loop, counted; the mutant's counter is too narrow to
\* reach the limit.
PollsForever ==
  /\ poll' = (poll + 1) % POLLS
  /\ Shift

PollAgain ==
  /\ poll' = poll + 1
  /\ Shift

\* sdReadEnd, and then on at label; the mutant forgets sdReadEnd.
LeaveOpenThen(label) ==
  /\ Goto(label)
  /\ UNCHANGED cont

CloseThen(label) ==
  /\ Goto("readEnd")
  /\ cont' = label

\* use address if not SDHC card
Argument(b) == IF type_ # "SDHC" THEN (b * SECTOR) % MOD32 ELSE b

Reading == req.op = "readData"
IsRegister == req.op = "readRegister"

-----------------------------------------------------------------------------
(* Calls and the tests at the top of sdReadData *)

Call ==
  /\ pc = "idle"
  /\ \E r \in Calls :
       /\ req' = r
       /\ dst' = Unwritten(r)
  /\ reply' = NoReply
  /\ Goto("enter")
  /\ UNCHANGED <<driverVars, cont, i, poll, busVars>>

TooLong == (req.count + req.offset) % MOD16 > SECTOR

\* The open block cannot serve this read; the mutant serves bytes the card has
\* already sent.
MissesOtherBlocks == ~inBlock_ \/ req.block # block_

Miss == ~inBlock_ \/ req.block # block_ \/ req.offset < offset_

ReturnEmpty ==
  /\ pc = "enter" /\ Reading
  /\ req.count = 0
  /\ Return(TRUE)
  /\ UNCHANGED <<driverVars, cont, i, poll, dst, busVars, req>>

ReturnTooLong ==
  /\ pc = "enter" /\ Reading
  /\ req.count # 0
  /\ TooLong
  /\ Return(FALSE)
  /\ UNCHANGED <<driverVars, cont, i, poll, dst, busVars, req>>

OpenBlock ==
  /\ pc = "enter" /\ Reading
  /\ req.count # 0 /\ ~TooLong
  /\ Miss
  /\ block_' = req.block
  /\ CloseThen("select")
  /\ UNCHANGED <<offset_, inBlock_, partialBlockRead_, errorCode_,
                 i, poll, dst, busVars, req, reply>>

ContinueBlock ==
  /\ pc = "enter" /\ Reading
  /\ req.count # 0 /\ ~TooLong
  /\ ~Miss
  /\ Goto("start")
  /\ UNCHANGED <<driverVars, cont, i, poll, dst, busVars, req, reply>>

\* sdReadRegister, sdPartialBlockRead and sdReadEnd begin with sdReadEnd too.
EnterOther ==
  /\ pc = "enter" /\ ~Reading
  /\ CloseThen(IF IsRegister THEN "select" ELSE "setMode")
  /\ UNCHANGED <<driverVars, i, poll, dst, busVars, req, reply>>

SetMode ==
  /\ pc = "setMode"
  /\ partialBlockRead_' = CASE req.op = "partialOn" -> TRUE
                            [] req.op = "partialOff" -> FALSE
                            [] OTHER -> partialBlockRead_
  /\ Goto("success")
  /\ UNCHANGED <<block_, offset_, inBlock_, errorCode_, cont, i, poll, dst,
                 busVars, req, reply>>

-----------------------------------------------------------------------------
(* sdReadEnd: skip the rest of the open block and its crc *)

\* offset_++ < 513, the position with which sdReadEnd still clocks a byte; the
\* mutants stop a byte late and a byte early.
DrainsTooFar == offset_ < SECTOR + 2
DrainsTooLittle == offset_ < SECTOR
MoreToSkip == offset_ < SECTOR + 1

ReadEndClosed ==
  /\ pc = "readEnd"
  /\ ~inBlock_
  /\ Goto(cont)
  /\ UNCHANGED <<driverVars, cont, i, poll, dst, busVars, req, reply>>

ReadEndOpen ==
  /\ pc = "readEnd"
  /\ inBlock_
  /\ Shift
  /\ Goto("drain")
  /\ UNCHANGED <<driverVars, cont, i, poll, dst, req, reply>>

Drain ==
  /\ pc = "drain"
  /\ MoreToSkip
  /\ offset_' = (offset_ + 1) % MOD16
  /\ Shift
  /\ UNCHANGED <<block_, inBlock_, partialBlockRead_, errorCode_, localVars,
                 req, reply>>

Drained ==
  /\ pc = "drain"
  /\ ~MoreToSkip
  /\ offset_' = (offset_ + 1) % MOD16
  /\ inBlock_' = FALSE
  /\ Deselect
  /\ Goto(cont)
  /\ UNCHANGED <<block_, partialBlockRead_, errorCode_, cont, i, poll, dst,
                 req, reply>>

-----------------------------------------------------------------------------
(* sdCardCommand after its sdReadEnd: wait until not busy, send, response *)

Select ==
  /\ pc = "select"
  /\ selected' = TRUE
  /\ poll' = 0
  /\ Goto("notBusy")
  /\ UNCHANGED <<driverVars, cont, i, dst, spdr, card, req, reply>>

\* A byte other than 0xFF: the card is busy, or still sending data.
PollBusy ==
  /\ pc = "notBusy"
  /\ poll < POLLS
  /\ PollAgain
  /\ UNCHANGED <<driverVars, pc, cont, i, dst, req, reply>>

\* 0xFF, or the time is up: the result of sdWaitNotBusy is not looked at.  The
\* command's six bytes go out as one shift: the card has nothing to send then.
SendCommand ==
  /\ pc = "notBusy"
  /\ poll' = 0
  /\ Shift
  /\ Goto("response")
  /\ UNCHANGED <<driverVars, cont, i, dst, req, reply>>

PollResponse ==
  /\ pc = "response"
  /\ poll < RETRIES
  /\ PollAgain
  /\ UNCHANGED <<driverVars, pc, cont, i, dst, req, reply>>

\* The card answers R1_READY_STATE: it will send what was asked for.
Accepted ==
  /\ pc = "response"
  /\ card.mode = "ready"
  /\ \E src \in Sources :
       /\ IF IsRegister
            THEN src = REG
            ELSE src \in Blocks /\ CardAddress(src) = Argument(block_)
       /\ card' = Preparing(src)
  /\ poll' = 0
  /\ Goto("token")
  /\ UNCHANGED <<driverVars, cont, i, dst, spdr, selected, req, reply>>

\* An error response, or none before the retries run out.
Rejected ==
  /\ pc = "response"
  /\ Fail(IF IsRegister THEN "READ_REG" ELSE "CMD17")
  /\ UNCHANGED <<block_, offset_, inBlock_, partialBlockRead_, cont, i, poll,
                 dst, busVars, req>>

-----------------------------------------------------------------------------
(* sdWaitStartBlock *)

PollToken ==
  /\ pc = "token"
  /\ poll < POLLS
  /\ PollAgain
  /\ UNCHANGED <<driverVars, pc, cont, i, dst, req, reply>>

\* The 300 ms are over; a card that has not answered by then has given up.
TokenTimeout ==
  /\ pc = "token"
  /\ poll >= POLLS
  /\ Fail("READ_TIMEOUT")
  /\ card' = Ready
  /\ UNCHANGED <<block_, offset_, inBlock_, partialBlockRead_, cont, i, poll,
                 dst, spdr, selected, req>>

\* The card sends an error token instead of the data.
TokenError ==
  /\ pc = "token"
  /\ card.mode = "token"
  /\ Fail("READ")
  /\ card' = Ready
  /\ UNCHANGED <<block_, offset_, inBlock_, partialBlockRead_, cont, i, poll,
                 dst, spdr, selected, req>>

StartToken ==
  /\ pc = "token"
  /\ card.mode = "token"
  /\ card' = Streaming(card.src, 0)
  /\ IF IsRegister
       THEN /\ Goto("register")
            /\ i' = 0
            /\ UNCHANGED <<offset_, inBlock_>>
       ELSE /\ Goto("start")
            /\ offset_' = 0
            /\ inBlock_' = TRUE
            /\ UNCHANGED i
  /\ UNCHANGED <<block_, partialBlockRead_, errorCode_, cont, poll, dst, spdr,
                 selected, req, reply>>

-----------------------------------------------------------------------------
(* The transfer of sdReadData *)

\* start first SPI transfer
Start ==
  /\ pc = "start"
  /\ Shift
  /\ i' = 0
  /\ Goto("transfer")
  /\ UNCHANGED <<driverVars, cont, poll, dst, req, reply>>

\* skip data before offset
SkipByte ==
  /\ pc = "transfer"
  /\ offset_ < req.offset
  /\ offset_' = (offset_ + 1) % MOD16
  /\ Shift
  /\ UNCHANGED <<block_, inBlock_, partialBlockRead_, errorCode_, localVars,
                 req, reply>>

StoreByte ==
  /\ pc = "transfer"
  /\ ~(offset_ < req.offset)
  /\ i < req.count - 1
  /\ dst' = [dst EXCEPT ![i] = spdr]
  /\ i' = i + 1
  /\ Shift
  /\ UNCHANGED <<driverVars, pc, cont, poll, req, reply>>

\* offset_ += count; the mutant adds the index of the last byte.
AdvancedByIndex == (offset_ + i) % MOD16
Advanced == (offset_ + req.count) % MOD16

\* wait for last byte
LastByte ==
  /\ pc = "transfer"
  /\ ~(offset_ < req.offset)
  /\ i = req.count - 1
  /\ dst' = [dst EXCEPT ![i] = spdr]
  /\ offset_' = Advanced
  /\ IF ~partialBlockRead_ \/ offset_' >= SECTOR
       THEN CloseThen("success")
       ELSE Goto("success") /\ UNCHANGED cont
  /\ UNCHANGED <<block_, inBlock_, partialBlockRead_, errorCode_, i, poll,
                 busVars, req, reply>>

\* sdReadRegister: dst[i] = spiRec(), then two crc bytes
RegisterByte ==
  /\ pc = "register"
  /\ i < REGLEN + CRCLEN
  /\ Shift
  /\ dst' = IF i < REGLEN THEN [dst EXCEPT ![i] = spdr'] ELSE dst
  /\ i' = i + 1
  /\ UNCHANGED <<driverVars, pc, cont, poll, req, reply>>

RegisterDone ==
  /\ pc = "register"
  /\ i = REGLEN + CRCLEN
  /\ Deselect
  /\ Goto("success")
  /\ UNCHANGED <<driverVars, cont, i, poll, dst, req, reply>>

ReturnSuccess ==
  /\ pc = "success"
  /\ Return(TRUE)
  /\ UNCHANGED <<driverVars, cont, i, poll, dst, busVars, req>>

-----------------------------------------------------------------------------
(* Specification *)

Init ==
  /\ block_ = 0
  /\ offset_ = 0
  /\ inBlock_ = FALSE
  /\ partialBlockRead_ = FALSE
  /\ errorCode_ = "none"
  /\ pc = "idle"
  /\ cont = "success"
  /\ i = 0
  /\ poll = 0
  /\ req \in Calls
  /\ reply = NoReply
  /\ dst = Unwritten(req)
  /\ spdr = Filler
  /\ selected = FALSE
  /\ card = Ready

ReadEnd == ReadEndClosed \/ ReadEndOpen \/ Drain \/ Drained

CardCommand == Select \/ PollBusy \/ SendCommand \/ PollResponse
               \/ Accepted \/ Rejected

WaitStartBlock == PollToken \/ TokenTimeout \/ TokenError \/ StartToken

Enter == ReturnEmpty \/ ReturnTooLong \/ OpenBlock \/ ContinueBlock
         \/ EnterOther

Transfer == Start \/ SkipByte \/ StoreByte \/ LastByte
            \/ RegisterByte \/ RegisterDone

\* The steps of an executing call.
Step == Enter \/ SetMode \/ ReadEnd \/ CardCommand \/ WaitStartBlock
        \/ Transfer \/ ReturnSuccess

Next == Call \/ Step

Safety == Init /\ [][Next]_vars

\* The SPI master clocks every byte out by itself, so a call keeps running;
\* nothing obliges the client to call.
Spec == Safety /\ WF_vars(Step)
-----------------------------------------------------------------------------
(* Properties *)

Labels == {"idle", "enter", "setMode", "readEnd", "drain", "select", "notBusy",
           "response", "token", "start", "transfer", "register", "success"}

ErrorCodes == {"none", "CMD17", "READ_REG", "READ_TIMEOUT", "READ"}

\* Every variable keeps its type, and offset_ never counts past the block and
\* its two crc bytes (sdReadData, sdReadEnd).
TypeOK ==
  /\ block_ \in Blocks \cup {0}
  /\ offset_ \in 0 .. SECTOR + CRCLEN
  /\ inBlock_ \in BOOLEAN
  /\ partialBlockRead_ \in BOOLEAN
  /\ errorCode_ \in ErrorCodes
  /\ pc \in Labels
  /\ cont \in {"select", "setMode", "success"}
  /\ i \in Nat
  /\ poll \in Nat
  /\ req \in Calls
  /\ dst \in [Destination(req) -> Byte \cup {Untouched}]
  /\ spdr \in Byte
  /\ selected \in BOOLEAN
  /\ card \in CardState

\* The cached position is the card's: a block left open between calls is
\* block_, the card is still selected and its next byte is byte offset_.  The
\* read that finds it open (the test at the top of sdReadData) relies on all.
StreamInSync ==
  pc \in {"idle", "enter"} /\ inBlock_ =>
    /\ selected
    /\ card = Streaming(block_, offset_)
    /\ offset_ < SECTOR

\* sdCardCommand talks to a card that listens: no busy poll, command or
\* response poll of the driver ever meets the bytes of an unfinished transfer.
CommandsMeetReadyCard ==
  pc \in {"select", "notBusy", "response"} => card = Ready /\ ~inBlock_

\* sdReadEnd skips exactly the rest of the block: when the driver closes a
\* block, the card has sent its last crc byte and nothing more was clocked.
CloseLeavesNothing ==
  [][inBlock_ /\ ~inBlock_' =>
       /\ card' = Ready
       /\ \E b \in Blocks : spdr = StreamByte(b, SECTOR + CRCLEN - 1)]_vars

\* No call passes an offset and count whose sum exceeds 16 bits, the case
\* in which the range test of sdReadData is fooled.
NoWrap == \A r \in Calls : r.offset + r.count < MOD16

\* The driver was told the right card type and every block has an address.
RightAddressing ==
  /\ CardHC <=> type_ = "SDHC"
  /\ ~CardHC => \A b \in Blocks : b * SECTOR < MOD32

\* The driver implements the block store: whatever was read before, a call
\* returns 1 with exactly the bytes asked for, or 0 with the buffer untouched.
ImplementsStore == Store!StoreSafety

\* Every call returns, also when the card never answers.
EveryCallReturns == pc # "idle" ~> pc = "idle"
=============================================================================
