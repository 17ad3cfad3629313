--------------------------- MODULE SdReader_proofs ---------------------------
(***************************************************************************)
(* Proofs about SdReader for every sector size, block set, call set and    *)
(* poll bound: the driver stays in step with the card and implements the   *)
(* block store of SdBlockStore.                                            *)
(***************************************************************************)
EXTENDS SdReader, TLAPS

-----------------------------------------------------------------------------
(* The card *)

\* A card that is streaming shifts out the next byte and moves on by one
\* (what Shift does to a selected card).
LEMMA StreamingShifts ==
  ASSUME NEW src \in Sources, NEW k \in Nat, k < Payload(src) + CRCLEN
  PROVE  /\ ByteOut(Streaming(src, k)) = StreamByte(src, k)
         /\ AfterByte(Streaming(src, k)) = Streaming(src, k + 1)
         /\ Streaming(src, k).mode = "data"
  BY DEF Streaming, ByteOut, AfterByte

\* Past the last crc byte a streaming card is ready again.
LEMMA StreamingEnds ==
  ASSUME NEW src \in Sources, NEW k \in Nat, k >= Payload(src) + CRCLEN
  PROVE  Streaming(src, k) = Ready
  BY CardAssumption DEF Streaming, Payload, CRCLEN

\* A ready card, and one that prepares a block, shift out filler.
LEMMA QuietShifts ==
  ASSUME NEW src \in Sources
  PROVE  /\ ByteOut(Ready) = Filler /\ AfterByte(Ready) = Ready
         /\ ByteOut(Preparing(src)) = Filler
         /\ AfterByte(Preparing(src)) = Preparing(src)
  BY DEF Ready, Preparing, ByteOut, AfterByte, Filler

\* Every state and byte the card operators build has its type.
LEMMA CardTypes ==
  /\ Ready \in CardState /\ Filler \in Byte
  /\ \A src \in Sources : Preparing(src) \in CardState
  /\ \A src \in Sources, k \in Nat :
       Streaming(src, k) \in CardState /\ StreamByte(src, k) \in Byte
  /\ \A c \in CardState : ByteOut(c) \in Byte /\ AfterByte(c) \in CardState
  BY CardAssumption DEF Ready, Filler, Preparing, Streaming, StreamByte,
     ByteOut, AfterByte, CardState, Byte, Sources, Payload, CRCLEN

\* A block carries SECTOR bytes, a register REGLEN.
LEMMA PayloadSize ==
  /\ Payload(REG) = REGLEN
  /\ \A b \in Blocks : b \in Sources /\ b \in Nat /\ Payload(b) = SECTOR
  /\ REG \in Sources
  /\ SECTOR \in Nat /\ SECTOR > 0 /\ REGLEN \in Nat /\ REGLEN > 0
  BY CardAssumption DEF Payload, Sources

-----------------------------------------------------------------------------
(* The inductive invariant: where the card stands at each label, and what  *)
(* the destination holds.                                                  *)

\* What a read or register call must satisfy before it reaches the card.
Transferable ==
  \/ IsRegister
  \/ /\ Reading
     /\ block_ = req.block
     /\ req.count # 0
     /\ req.offset + req.count <= SECTOR

\* The call is in sdReadEnd and will go on at c.
Ending(c) == pc \in {"readEnd", "drain"} /\ cont = c

CommandLabels == {"select", "notBusy", "response", "token"}

BetweenInv ==
  pc \in {"idle", "enter", "success"} =>
    IF inBlock_
      THEN /\ block_ \in Blocks /\ offset_ < SECTOR
           /\ selected /\ card = Streaming(block_, offset_)
      ELSE card = Ready

ReadEndInv ==
  pc = "readEnd" =>
    IF inBlock_
      THEN /\ selected /\ offset_ <= SECTOR
           /\ \E b \in Blocks : card = Streaming(b, offset_)
      ELSE card = Ready

DrainInv ==
  pc = "drain" =>
    /\ inBlock_ /\ selected /\ offset_ <= SECTOR + 1
    /\ \E b \in Blocks : /\ card = Streaming(b, offset_ + 1)
                         /\ spdr = StreamByte(b, offset_)

CommandInv ==
  /\ pc \in {"setMode", "select", "notBusy", "response"} =>
       card = Ready /\ ~inBlock_
  /\ pc \in {"notBusy", "response", "token"} => selected
  /\ pc = "token" =>
       /\ ~inBlock_
       /\ card = Preparing(IF IsRegister THEN REG ELSE block_)

TransferInv ==
  /\ pc = "start" =>
       /\ Reading /\ inBlock_ /\ selected
       /\ offset_ <= req.offset
       /\ card = Streaming(block_, offset_)
  /\ pc = "transfer" =>
       /\ Reading /\ inBlock_ /\ selected
       /\ i \in Destination(req)
       /\ offset_ <= req.offset
       /\ offset_ < req.offset => i = 0
       /\ card = Streaming(block_, offset_ + i + 1)
       /\ spdr = StreamByte(block_, offset_ + i)
       /\ \A j \in 0 .. i - 1 : dst[j] = StreamByte(block_, req.offset + j)

RegisterInv ==
  pc = "register" =>
    /\ IsRegister /\ ~inBlock_ /\ selected
    /\ i <= REGLEN + CRCLEN
    /\ card = Streaming(REG, i)
    /\ \A j \in Destination(req) : j < i => dst[j] = StreamByte(REG, j)

RequestInv ==
  /\ pc \in CommandLabels \cup {"start", "transfer"} \/ Ending("select")
       => Transferable
  /\ pc = "setMode" \/ Ending("setMode") => ~Reading /\ ~IsRegister

BufferInv ==
  /\ \/ pc \in CommandLabels \cup {"enter", "setMode", "start"}
     \/ Ending("select") \/ Ending("setMode")
     => dst = Unwritten(req)
  /\ pc = "success" \/ Ending("success") =>
       Store!Legal(req) /\ dst = Wanted(req)

IInv ==
  /\ TypeOK
  /\ BetweenInv /\ ReadEndInv /\ DrainInv /\ CommandInv
  /\ TransferInv /\ RegisterInv /\ RequestInv /\ BufferInv

-----------------------------------------------------------------------------
\* With the right card type the argument of CMD17 addresses the wanted block
\* and no other (the shift by 9 in sdReadData).
LEMMA ArgumentAddresses ==
  ASSUME RightAddressing, NEW b \in Blocks, NEW c \in Blocks,
         CardAddress(c) = Argument(b)
  PROVE  c = b
  <1>1. CASE CardHC
    BY <1>1, CardAssumption DEF RightAddressing, CardAddress, Argument
  <1>2. CASE ~CardHC
    <2>1. c * SECTOR = b * SECTOR
      BY <1>2, CardAssumption, ReaderAssumption
         DEF RightAddressing, CardAddress, Argument
    <2>2. b \in Nat /\ c \in Nat /\ SECTOR \in Nat \ {0}
      BY CardAssumption
    <2> QED BY <2>1, <2>2
  <1> QED BY <1>1, <1>2

-----------------------------------------------------------------------------
(* The invariant *)

\* The facts every step below rests on.
LEMMA Requests ==
  ASSUME NEW r \in Calls
  PROVE  /\ r.op \in {"readData", "readRegister", "partialOn", "partialOff",
                      "readEnd"}
         /\ r.block \in Blocks /\ r.offset \in Nat /\ r.count \in Nat
         /\ r.op = "readRegister" => r.count = REGLEN
         /\ r.op \in {"partialOn", "partialOff", "readEnd"} => r.count = 0
         /\ Unwritten(r) \in [Destination(r) -> Byte \cup {Untouched}]
         /\ r.count = 0 => Unwritten(r) = Wanted(r)
  BY CallsAssumption DEF CallRecord, Unwritten, Wanted, Destination

LEMMA InitInv == Init => IInv
  <1> SUFFICES ASSUME Init PROVE IInv
    OBVIOUS
  <1>1. TypeOK
    <2>1. dst \in [Destination(req) -> Byte \cup {Untouched}]
      BY Requests DEF Init
    <2>2. offset_ \in 0 .. SECTOR + CRCLEN
      BY PayloadSize DEF Init, CRCLEN
    <2> QED
      BY <2>1, <2>2, CardTypes DEF Init, TypeOK, Labels, ErrorCodes
  <1>2. pc = "idle" /\ ~inBlock_ /\ card = Ready
    BY DEF Init
  <1> QED
    BY <1>1, <1>2
       DEF IInv, BetweenInv, ReadEndInv, DrainInv, CommandInv, TransferInv,
           RegisterInv, RequestInv, BufferInv, Ending, CommandLabels

\* Arithmetic modulo 2^16 below its bound, and the range test of sdReadData
\* when it is not fooled.
LEMMA ModSmall ==
  ASSUME NEW n \in Nat, NEW m \in Nat, n < m
  PROVE  n % m = n
  OBVIOUS

LEMMA InRange ==
  ASSUME NoWrap, TypeOK, ~TooLong
  PROVE  req.offset + req.count <= SECTOR
  <1>1. /\ req.offset \in Nat /\ req.count \in Nat
        /\ req.count + req.offset < MOD16
    BY Requests DEF NoWrap, TypeOK
  <1>2. (req.count + req.offset) % MOD16 = req.count + req.offset
    BY <1>1, ModSmall, ReaderAssumption
  <1> QED
    BY <1>1, <1>2, PayloadSize DEF TooLong

\* A position inside the block and its crc can still be counted.
LEMMA OffsetCounts ==
  ASSUME NEW n \in Nat, n <= SECTOR + CRCLEN
  PROVE  n % MOD16 = n
  BY ModSmall, ReaderAssumption, PayloadSize DEF CRCLEN
\* The tests at the top of sdReadData, and the start of the other calls.
LEMMA EnterInv ==
  ASSUME NoWrap, RightAddressing, IInv
  PROVE  Call \/ ReturnEmpty \/ ReturnTooLong \/ OpenBlock \/ ContinueBlock
         \/ EnterOther => IInv'
  <1> USE CardTypes, PayloadSize, Requests
      DEF IInv, TypeOK, Labels, ErrorCodes, driverVars, localVars, busVars,
          Goto, Return, Fail, Shift, Deselect, CRCLEN, CommandLabels, Ending,
          BetweenInv, ReadEndInv, DrainInv, CommandInv, TransferInv,
          CloseThen, PollAgain, MoreToSkip, Advanced,
          RegisterInv, RequestInv, BufferInv, Transferable, Reading, IsRegister
  <1>1. ASSUME Call PROVE IInv'
    BY <1>1 DEF Call
  <1>2. ASSUME ReturnEmpty PROVE IInv'
    BY <1>2 DEF ReturnEmpty
  <1>3. ASSUME ReturnTooLong PROVE IInv'
    BY <1>3 DEF ReturnTooLong
  <1>4. ASSUME OpenBlock PROVE IInv'
    <2>1. req.offset + req.count <= SECTOR
      BY <1>4, InRange DEF OpenBlock
    <2> QED
      BY <1>4, <2>1 DEF OpenBlock
  <1>5. ASSUME ContinueBlock PROVE IInv'
    <2>1. req.offset + req.count <= SECTOR
      BY <1>5, InRange DEF ContinueBlock
    <2> QED
      BY <1>5, <2>1 DEF ContinueBlock, Miss
  <1>6. ASSUME EnterOther PROVE IInv'
    BY <1>6 DEF EnterOther
  <1> QED
    BY ONLY <1>1, <1>2, <1>3, <1>4, <1>5, <1>6

\* sdReadEnd, from any of its callers: it leaves the card ready.
LEMMA ReadEndSteps ==
  ASSUME NoWrap, RightAddressing, IInv
  PROVE  SetMode \/ ReadEndClosed \/ ReadEndOpen \/ Drain \/ Drained => IInv'
  <1> USE CardTypes, PayloadSize, Requests
      DEF IInv, TypeOK, Labels, ErrorCodes, driverVars, localVars, busVars,
          Goto, Return, Fail, Shift, Deselect, CRCLEN, CommandLabels, Ending,
          BetweenInv, ReadEndInv, DrainInv, CommandInv, TransferInv,
          CloseThen, PollAgain, MoreToSkip, Advanced,
          RegisterInv, RequestInv, BufferInv, Transferable, Reading, IsRegister
  <1>1. ASSUME SetMode PROVE IInv'
    <2>1. /\ req \in Calls /\ ~Reading /\ ~IsRegister
          /\ dst = Unwritten(req)
      BY <1>1 DEF SetMode
    <2>2. Store!Legal(req) /\ dst = Wanted(req)
      BY <2>1 DEF Store!Legal
    <2> QED
      BY <1>1, <2>2 DEF SetMode
  <1>2. ASSUME ReadEndClosed PROVE IInv'
    BY <1>2 DEF ReadEndClosed
  <1>3. ASSUME ReadEndOpen PROVE IInv'
    <2>1. PICK b \in Blocks : card = Streaming(b, offset_)
      BY <1>3 DEF ReadEndOpen
    <2>2. /\ card' = Streaming(b, offset_ + 1)
          /\ spdr' = StreamByte(b, offset_)
      BY <1>3, <2>1, StreamingShifts DEF ReadEndOpen
    <2> QED
      BY <1>3, <2>1, <2>2 DEF ReadEndOpen
  <1>4. ASSUME Drain PROVE IInv'
    <2>1. PICK b \in Blocks : card = Streaming(b, offset_ + 1)
      BY <1>4 DEF Drain
    <2>2. offset_' = offset_ + 1 /\ offset_ + 1 <= SECTOR + 1
      BY <1>4, OffsetCounts DEF Drain
    <2>3. /\ card' = Streaming(b, offset_' + 1)
          /\ spdr' = StreamByte(b, offset_')
      BY <1>4, <2>1, <2>2, StreamingShifts DEF Drain
    <2> QED
      BY <1>4, <2>1, <2>2, <2>3 DEF Drain
  <1>5. ASSUME Drained PROVE IInv'
    <2>1. PICK b \in Blocks : card = Streaming(b, offset_ + 1)
      BY <1>5 DEF Drained
    <2>2. offset_ + 1 = SECTOR + CRCLEN
      BY <1>5 DEF Drained
    <2>3. offset_' = SECTOR + CRCLEN
      BY <1>5, <2>2, OffsetCounts DEF Drained
    <2>4. card' = Ready
      BY <1>5, <2>1, <2>2, StreamingEnds DEF Drained
    <2>5. /\ pc' = cont /\ inBlock_' = FALSE
          /\ selected' = FALSE /\ spdr' = Filler
          /\ UNCHANGED <<block_, partialBlockRead_, errorCode_, cont, i, poll,
                         dst, req>>
      BY <1>5 DEF Drained
    <2>6. cont = "select" \/ cont = "setMode" \/ cont = "success"
      OBVIOUS
    <2>7. offset_' \in 0 .. SECTOR + CRCLEN
      BY <2>3
    <2>8. TypeOK'
      BY <2>4, <2>5, <2>6, <2>7
    <2> QED
      BY <2>4, <2>5, <2>6, <2>8, <1>5 DEF Drained
  <1> QED
    BY ONLY <1>1, <1>2, <1>3, <1>4, <1>5

\* sdCardCommand: a card that is ready stays ready until it accepts the read.
LEMMA CommandSteps ==
  ASSUME NoWrap, RightAddressing, IInv
  PROVE  Select \/ PollBusy \/ SendCommand \/ PollResponse \/ Accepted
         \/ Rejected => IInv'
  <1> USE CardTypes, PayloadSize, Requests
      DEF IInv, TypeOK, Labels, ErrorCodes, driverVars, localVars, busVars,
          Goto, Return, Fail, Shift, Deselect, CRCLEN, CommandLabels, Ending,
          BetweenInv, ReadEndInv, DrainInv, CommandInv, TransferInv,
          CloseThen, PollAgain, MoreToSkip, Advanced,
          RegisterInv, RequestInv, BufferInv, Transferable, Reading, IsRegister
  <1>1. ASSUME Select PROVE IInv'
    BY <1>1 DEF Select
  <1>2. ASSUME PollBusy PROVE IInv'
    <2>1. card' = card /\ spdr' = Filler
      BY <1>2, QuietShifts DEF PollBusy
    <2> QED
      BY <1>2, <2>1 DEF PollBusy
  <1>3. ASSUME SendCommand PROVE IInv'
    <2>1. card' = card /\ spdr' = Filler
      BY <1>3, QuietShifts DEF SendCommand
    <2> QED
      BY <1>3, <2>1 DEF SendCommand
  <1>4. ASSUME PollResponse PROVE IInv'
    <2>1. card' = card /\ spdr' = Filler
      BY <1>4, QuietShifts DEF PollResponse
    <2> QED
      BY <1>4, <2>1 DEF PollResponse
  <1>5. ASSUME Accepted PROVE IInv'
    <2>1. IsRegister \/ block_ \in Blocks
      BY <1>5 DEF Accepted
    <2>2. card' = Preparing(IF IsRegister THEN REG ELSE block_)
      BY <1>5, <2>1, ArgumentAddresses DEF Accepted
    <2> QED
      BY <1>5, <2>1, <2>2 DEF Accepted
  <1>6. ASSUME Rejected PROVE IInv'
    BY <1>6 DEF Rejected
  <1> QED
    BY ONLY <1>1, <1>2, <1>3, <1>4, <1>5, <1>6

\* sdWaitStartBlock: the card sends the block it was asked for, from its start.
LEMMA TokenSteps ==
  ASSUME NoWrap, RightAddressing, IInv
  PROVE  PollToken \/ TokenTimeout \/ TokenError \/ StartToken => IInv'
  <1> USE CardTypes, PayloadSize, Requests
      DEF IInv, TypeOK, Labels, ErrorCodes, driverVars, localVars, busVars,
          Goto, Return, Fail, Shift, Deselect, CRCLEN, CommandLabels, Ending,
          BetweenInv, ReadEndInv, DrainInv, CommandInv, TransferInv,
          CloseThen, PollAgain, MoreToSkip, Advanced,
          RegisterInv, RequestInv, BufferInv, Transferable, Reading, IsRegister
  <1>1. ASSUME PollToken PROVE IInv'
    <2>1. (IF IsRegister THEN REG ELSE block_) \in Sources
      BY <1>1 DEF PollToken
    <2>2. card' = card /\ spdr' = Filler
      BY <1>1, <2>1, QuietShifts DEF PollToken
    <2> QED
      BY <1>1, <2>2 DEF PollToken
  <1>2. ASSUME TokenTimeout PROVE IInv'
    BY <1>2 DEF TokenTimeout
  <1>3. ASSUME TokenError PROVE IInv'
    BY <1>3 DEF TokenError
  <1>4. ASSUME StartToken PROVE IInv'
    <2>1. card' = Streaming(IF IsRegister THEN REG ELSE block_, 0)
      BY <1>4 DEF StartToken, Preparing
    <2>2. CASE IsRegister
      BY <1>4, <2>1, <2>2 DEF StartToken, Destination
    <2>3. CASE ~IsRegister
      BY <1>4, <2>1, <2>3 DEF StartToken
    <2> QED
      BY <2>2, <2>3
  <1> QED
    BY ONLY <1>1, <1>2, <1>3, <1>4

\* The transfer: the byte in SPDR is always the one before the card's next.
LEMMA TransferSteps ==
  ASSUME NoWrap, RightAddressing, IInv
  PROVE  Start \/ SkipByte \/ StoreByte \/ LastByte \/ RegisterByte
         \/ RegisterDone \/ ReturnSuccess => IInv'
  <1> USE CardTypes, PayloadSize, Requests
      DEF IInv, TypeOK, Labels, ErrorCodes, driverVars, localVars, busVars,
          Goto, Return, Fail, Shift, Deselect, CRCLEN, CommandLabels, Ending,
          BetweenInv, ReadEndInv, DrainInv, CommandInv, TransferInv,
          CloseThen, PollAgain, MoreToSkip, Advanced,
          RegisterInv, RequestInv, BufferInv, Transferable, Reading, IsRegister
  <1>1. ASSUME Start PROVE IInv'
    <2>1. block_ \in Blocks /\ offset_ < SECTOR
      BY <1>1 DEF Start
    <2>2. /\ card' = Streaming(block_, offset_ + 1)
          /\ spdr' = StreamByte(block_, offset_)
      BY <1>1, <2>1, StreamingShifts DEF Start
    <2> QED
      BY <1>1, <2>1, <2>2 DEF Start, Destination
  <1>2. ASSUME SkipByte PROVE IInv'
    <2>1. block_ \in Blocks /\ offset_ + 1 < SECTOR /\ i = 0
      BY <1>2 DEF SkipByte
    <2>2. offset_' = offset_ + 1
      BY <1>2, <2>1, OffsetCounts DEF SkipByte
    <2>3. /\ card' = Streaming(block_, offset_' + 1)
          /\ spdr' = StreamByte(block_, offset_')
      BY <1>2, <2>1, <2>2, StreamingShifts DEF SkipByte
    <2> QED
      BY <1>2, <2>1, <2>2, <2>3 DEF SkipByte
  <1>3. ASSUME StoreByte PROVE IInv'
    <2>1. /\ block_ \in Blocks /\ offset_ = req.offset
          /\ i \in Nat /\ i + 1 <= req.count - 1
          /\ offset_ + i + 1 < SECTOR
      BY <1>3, SMTT(30) DEF StoreByte, Destination
    <2>2. /\ i' = i + 1 /\ pc' = "transfer"
          /\ UNCHANGED <<driverVars, cont, poll, req, selected>>
      BY <1>3 DEF StoreByte
    <2>3. /\ card' = Streaming(block_, offset_ + i' + 1)
          /\ spdr' = StreamByte(block_, offset_ + i')
      BY <1>3, <2>1, <2>2, StreamingShifts DEF StoreByte
    <2>4. dst' \in [Destination(req) -> Byte \cup {Untouched}]
      BY <1>3 DEF StoreByte
    <2>5. \A j \in 0 .. i' - 1 : dst'[j] = StreamByte(block_, req.offset + j)
      BY <1>3, <2>1, <2>2, SMTT(30) DEF StoreByte, Destination
    <2>6. TypeOK'
      BY <2>1, <2>2, <2>3, <2>4
    <2>7. TransferInv'
      BY <1>3, <2>1, <2>2, <2>3, <2>5 DEF StoreByte, Destination
    <2> QED
      BY <1>3, <2>2, <2>6, <2>7 DEF StoreByte
  <1>4. ASSUME LastByte PROVE IInv'
    <2>1. /\ block_ \in Blocks /\ block_ = req.block
          /\ offset_ = req.offset /\ i = req.count - 1
          /\ offset_ + req.count <= SECTOR
      BY <1>4 DEF LastByte
    <2>2. offset_' = offset_ + req.count
      BY <1>4, <2>1, OffsetCounts DEF LastByte
    <2>3. card' = Streaming(block_, offset_')
      BY <1>4, <2>1, <2>2 DEF LastByte
    <2>4. dst' \in [Destination(req) -> Byte \cup {Untouched}]
      BY <1>4 DEF LastByte
    <2>5. dst' = Wanted(req)
      <3>1. \A j \in Destination(req) :
              dst'[j] = StreamByte(req.block, req.offset + j)
        <4>1. dst' = [dst EXCEPT ![i] = spdr]
          BY <1>4 DEF LastByte
        <4>2. /\ spdr = StreamByte(block_, offset_ + i)
              /\ \A j \in 0 .. i - 1 :
                   dst[j] = StreamByte(block_, req.offset + j)
          BY <1>4 DEF LastByte
        <4> QED
          BY ONLY IInv, <2>1, <4>1, <4>2, Requests
             DEF IInv, TypeOK, Destination
      <3> QED
        BY <1>4, <2>4, <3>1 DEF LastByte, Wanted
    <2>6. Store!Legal(req)
      BY <2>1 DEF Store!Legal
    <2>7. TypeOK'
      BY <1>4, <2>1, <2>2, <2>4 DEF LastByte
    <2>8. CASE pc' = "readEnd"
      BY <1>4, <2>1, <2>2, <2>3, <2>5, <2>6, <2>7, <2>8 DEF LastByte
    <2>9. CASE pc' = "success"
      BY <1>4, <2>1, <2>2, <2>3, <2>5, <2>6, <2>7, <2>9 DEF LastByte
    <2> QED
      BY <1>4, <2>8, <2>9 DEF LastByte
  <1>5. ASSUME RegisterByte PROVE IInv'
    <2>1. i \in Nat /\ i < Payload(REG) + CRCLEN
      BY <1>5 DEF RegisterByte
    <2>2. card' = Streaming(REG, i + 1) /\ spdr' = StreamByte(REG, i)
      BY <1>5, <2>1, StreamingShifts DEF RegisterByte
    <2>3. dst' \in [Destination(req) -> Byte \cup {Untouched}]
      BY <1>5, <2>2 DEF RegisterByte
    <2>4. \A j \in Destination(req) : j < i + 1 => dst'[j] = StreamByte(REG, j)
      BY <1>5, <2>2 DEF RegisterByte, Destination
    <2> QED
      BY <1>5, <2>1, <2>2, <2>3, <2>4 DEF RegisterByte
  <1>6. ASSUME RegisterDone PROVE IInv'
    <2>1. card = Ready
      BY <1>6, StreamingEnds DEF RegisterDone
    <2>2. Store!Legal(req) /\ dst = Wanted(req)
      BY <1>6 DEF RegisterDone, Store!Legal, Wanted, Destination
    <2> QED
      BY <1>6, <2>1, <2>2 DEF RegisterDone
  <1>7. ASSUME ReturnSuccess PROVE IInv'
    BY <1>7 DEF ReturnSuccess
  <1> QED
    BY ONLY <1>1, <1>2, <1>3, <1>4, <1>5, <1>6, <1>7


\* The invariant is inductive.
LEMMA StepInv ==
  ASSUME NoWrap, RightAddressing
  PROVE  IInv /\ [Next]_vars => IInv'
  <1> SUFFICES ASSUME IInv, [Next]_vars PROVE IInv'
    OBVIOUS
  <1>1. CASE UNCHANGED vars
    BY <1>1 DEF vars, driverVars, localVars, busVars, IInv, TypeOK, BetweenInv,
       ReadEndInv, DrainInv, CommandInv, TransferInv, RegisterInv, RequestInv,
       BufferInv, Transferable, Reading, IsRegister, Ending
  <1>2. CASE Next
    BY <1>2, EnterInv, ReadEndSteps, CommandSteps, TokenSteps, TransferSteps
       DEF Next, Step, Enter, ReadEnd, CardCommand, WaitStartBlock, Transfer
  <1> QED
    BY <1>1, <1>2

-----------------------------------------------------------------------------
(* Theorems about the driver *)

\* The driver always knows where the card stands: at every label the card is
\* ready, or in the block and at the byte the driver's variables say.
THEOREM Invariance ==
  ASSUME NoWrap, RightAddressing
  PROVE  Safety => []IInv
  <1>1. Init => IInv
    BY InitInv
  <1>2. IInv /\ [Next]_vars => IInv'
    BY StepInv
  <1> QED
    BY <1>1, <1>2, PTL DEF Safety

\* offset_ never counts past a block and its crc, and every variable keeps its
\* type, for every sector size and every sequence of calls that does not wrap.
THEOREM TypeCorrect ==
  ASSUME NoWrap, RightAddressing
  PROVE  Safety => []TypeOK
  <1>1. IInv => TypeOK
    BY DEF IInv
  <1> QED
    BY <1>1, Invariance, PTL

\* A block left open between calls (partial block read mode) is the one block_
\* names, and the card's next byte is byte offset_ of it.
THEOREM StreamStaysInSync ==
  ASSUME NoWrap, RightAddressing
  PROVE  Safety => []StreamInSync
  <1>1. IInv => StreamInSync
    BY DEF IInv, BetweenInv, StreamInSync
  <1> QED
    BY <1>1, Invariance, PTL

\* sdCardCommand never talks to a card that is still sending a block.
THEOREM CommandsSafe ==
  ASSUME NoWrap, RightAddressing
  PROVE  Safety => []CommandsMeetReadyCard
  <1>1. IInv => CommandsMeetReadyCard
    <2> SUFFICES ASSUME IInv, pc \in {"select", "notBusy", "response"}
                 PROVE  card = Ready /\ ~inBlock_
      BY DEF CommandsMeetReadyCard
    <2> QED
      BY DEF IInv, CommandInv
  <1> QED
    BY <1>1, Invariance, PTL

\* sdReadEnd clocks exactly the rest of the block and its crc.
THEOREM ClosesExactly ==
  ASSUME NoWrap, RightAddressing
  PROVE  Safety => CloseLeavesNothing
  <1> DEFINE Closed == inBlock_ /\ ~inBlock_' =>
         /\ card' = Ready
         /\ \E b \in Blocks : spdr = StreamByte(b, SECTOR + CRCLEN - 1)
  <1>1. IInv /\ [Next]_vars => Closed
    <2> SUFFICES ASSUME IInv, [Next]_vars, inBlock_, ~inBlock_'
                 PROVE  /\ card' = Ready
                        /\ \E b \in Blocks :
                             spdr = StreamByte(b, SECTOR + CRCLEN - 1)
      OBVIOUS
    <2>1. Drained
      BY DEF Next, Step, Enter, ReadEnd, CardCommand, WaitStartBlock, Transfer,
         vars, driverVars, CloseThen, PollAgain, Call, ReturnEmpty,
         ReturnTooLong, OpenBlock, ContinueBlock, EnterOther, SetMode,
         ReadEndClosed, ReadEndOpen, Drain,
         Select, PollBusy, SendCommand, PollResponse, Accepted, Rejected,
         PollToken, TokenTimeout, TokenError, StartToken, Start, SkipByte,
         StoreByte, LastByte, RegisterByte, RegisterDone, ReturnSuccess
    <2>2. PICK b \in Blocks : /\ card = Streaming(b, offset_ + 1)
                              /\ spdr = StreamByte(b, offset_)
      BY <2>1 DEF IInv, DrainInv, Drained, MoreToSkip
    <2>3. offset_ = SECTOR + CRCLEN - 1
      BY <2>1, PayloadSize DEF IInv, DrainInv, TypeOK, Drained, MoreToSkip,
            CRCLEN
    <2>4. card = Ready
      <3>1. offset_ + 1 \in Nat /\ offset_ + 1 >= Payload(b) + CRCLEN
        BY <2>3, PayloadSize DEF CRCLEN
      <3> QED
        BY <2>2, <3>1, StreamingEnds, PayloadSize
    <2> QED
      BY <2>1, <2>2, <2>3, <2>4 DEF Drained, MoreToSkip, Deselect
  <1> QED
    BY <1>1, Invariance, PTL DEF Safety, CloseLeavesNothing

\* The driver's initial states are the store's.
LEMMA StoreInitial == Init => Store!StoreInit
  BY DEF Init, Store!StoreInit, NoReply, Store!NoReply, Untouched,
     Store!Untouched

\* The driver and the store speak of the same requests and bytes.
LEMMA SameVocabulary ==
  /\ \A r \in Calls : Store!Wanted(r) = Wanted(r)
  /\ \A r \in Calls : Store!Unwritten(r) = Unwritten(r)
  /\ Store!NoReply = NoReply
  BY DEF Store!Wanted, Wanted, Store!Unwritten, Unwritten, Store!NoReply,
     NoReply, Store!Untouched, Untouched, Store!Destination, Destination,
     Store!StreamByte, StreamByte, Store!Payload, Payload

\* Every step of the driver is a step of the store or leaves it as it is: the
\* last step of a call delivers or refuses, the others stutter.
LEMMA StoreStep ==
  IInv /\ [Next]_vars => [Store!StoreNext]_(Store!storeVars)
  <1> SUFFICES ASSUME IInv, [Next]_vars
               PROVE  Store!StoreNext \/ UNCHANGED Store!storeVars
    OBVIOUS
  <1> USE DEF Goto, Return, Store!storeVars
  <1>1. ASSUME Call PROVE Store!StoreCall
    BY <1>1, SameVocabulary DEF Call, Store!StoreCall
  <1>2. ASSUME ReturnEmpty PROVE Store!Deliver
    <2>1. dst = Wanted(req) /\ req \in Calls
      BY <1>2, Requests DEF IInv, TypeOK, BufferInv, ReturnEmpty
    <2> QED
      BY <1>2, <2>1, SameVocabulary
         DEF ReturnEmpty, Store!Deliver, Store!Legal
  <1>3. ASSUME ReturnSuccess PROVE Store!Deliver
    <2>1. dst = Wanted(req) /\ req \in Calls /\ Store!Legal(req)
      BY <1>3 DEF IInv, TypeOK, BufferInv, ReturnSuccess
    <2> QED
      BY <1>3, <2>1, SameVocabulary DEF ReturnSuccess, Store!Deliver
  <1>4. ASSUME ReturnTooLong PROVE Store!Refuse
    <2>1. dst = Unwritten(req) /\ req \in Calls
      BY <1>4 DEF IInv, TypeOK, BufferInv, ReturnTooLong
    <2> QED
      BY <1>4, <2>1, SameVocabulary
         DEF ReturnTooLong, Reading, Store!Refuse, Store!CanFail
  <1>5. ASSUME Rejected \/ TokenTimeout \/ TokenError PROVE Store!Refuse
    <2>1. dst = Unwritten(req) /\ req \in Calls /\ Transferable
      BY <1>5 DEF IInv, TypeOK, BufferInv, RequestInv, CommandLabels, Rejected,
         TokenTimeout, TokenError
    <2>2. Store!CanFail(req)
      BY <2>1, Requests, PayloadSize
         DEF Transferable, Reading, IsRegister, Store!CanFail
    <2>3. pc # "idle" /\ pc' = "idle" /\ UNCHANGED req
          /\ reply' = [ok |-> FALSE, data |-> dst]
      BY <1>5 DEF Rejected, TokenTimeout, TokenError, Fail
    <2> QED
      BY <2>1, <2>2, <2>3, SameVocabulary DEF Store!Refuse
  <1>6. ASSUME OpenBlock \/ ContinueBlock \/ EnterOther \/ SetMode \/ ReadEnd
               \/ Select \/ PollBusy \/ SendCommand \/ PollResponse \/ Accepted
               \/ PollToken \/ StartToken \/ Transfer
        PROVE  UNCHANGED Store!storeVars
    BY <1>6
       DEF IInv, TypeOK, CloseThen, PollAgain, OpenBlock, ContinueBlock,
           EnterOther, SetMode, ReadEnd,
           ReadEndClosed, ReadEndOpen, Drain, Drained, Select, PollBusy,
           SendCommand, PollResponse, Accepted, PollToken, StartToken, Transfer,
           Start, SkipByte, StoreByte, LastByte, RegisterByte, RegisterDone,
           localVars
  <1>7. ASSUME UNCHANGED vars PROVE UNCHANGED Store!storeVars
    BY <1>7 DEF vars, localVars
  <1> QED
    BY <1>1, <1>2, <1>3, <1>4, <1>5, <1>6, <1>7
       DEF Next, Step, Enter, CardCommand, WaitStartBlock, Store!StoreNext

\* The driver implements the block store of SdBlockStore.
THEOREM StoreImplemented ==
  ASSUME NoWrap, RightAddressing
  PROVE  Safety => ImplementsStore
  <1> QED
    BY StoreInitial, StoreStep, Invariance, PTL
       DEF Safety, ImplementsStore, Store!StoreSafety
==============================================================================
