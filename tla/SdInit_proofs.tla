---------------------------- MODULE SdInit_proofs ----------------------------
(***************************************************************************)
(* Proofs about SdInit for every sector size and every retry limit: the    *)
(* handshake never meets a card that is still sending, and a successful    *)
(* sdInit leaves a card the reader can address.                            *)
(***************************************************************************)
EXTENDS SdInit, TLAPS

-----------------------------------------------------------------------------
(* The card *)

\* Past the last crc byte a streaming card is ready again.
LEMMA StreamingEnds ==
  ASSUME NEW src \in Sources, NEW k \in Nat, k >= Payload(src) + CRCLEN
  PROVE  Streaming(src, k) = Ready
  BY CardAssumption DEF Streaming, Payload, CRCLEN

\* Every state and byte the card operators build has its type.
LEMMA CardTypes ==
  /\ Ready \in CardState /\ Filler \in Byte
  /\ \A src \in Sources : Preparing(src) \in CardState
  /\ \A src \in Sources, k \in Nat :
       Streaming(src, k) \in CardState /\ StreamByte(src, k) \in Byte
  /\ \A c \in CardState : ByteOut(c) \in Byte /\ AfterByte(c) \in CardState
  BY CardAssumption DEF Ready, Filler, Preparing, Streaming, StreamByte,
     ByteOut, AfterByte, CardState, Byte, Sources, Payload, CRCLEN

\* A block carries SECTOR bytes, a register REGLEN.
LEMMA PayloadSize ==
  /\ \A src \in Sources : Payload(src) \in 1 .. SECTOR
  /\ Payload(REG) = REGLEN
  /\ \A b \in Blocks : b \in Sources /\ b \in Nat /\ Payload(b) = SECTOR
  /\ REG \in Sources
  /\ SECTOR \in Nat /\ SECTOR > 0 /\ REGLEN \in Nat /\ REGLEN > 0
  BY CardAssumption, InitAssumption DEF Payload, Sources

-----------------------------------------------------------------------------
(* The inductive invariant *)

\* Unless a token is waited for, the card may be anywhere in a block or register
\* until the pre-drain; one byte of a block can survive it, and the first busy
\* wait swallows that one.
BusInv ==
  /\ pc \notin Commands => ~sent
  /\ ~waited =>
       IF pc \in Commands
         THEN \/ card = Ready
              \/ /\ pc = "CMD0" /\ ~sent
                 /\ \E src \in Sources :
                      Payload(src) = SECTOR /\ card = Streaming(src, SECTOR + 1)
         ELSE \/ card = Ready
              \/ \E src \in Sources, k \in Nat : card = Streaming(src, k)

\* The type found for a card stays right as long as that card is there.
KnownTypeInv == type_ = "SDHC" /\ ~doubtful => kind = "HC"

\* What sdInit has found out about the card at each command.
HandshakeInv ==
  /\ pc = "CMD8" /\ ~waited => kind # "absent" /\ ~initialised
  /\ ~waited /\ pc \in {"CMD55", "ACMD41", "CMD58"} =>
       /\ kind # "absent"
       /\ initialised /\ kind = "HC" => type_ = "SD2"
       /\ type_ = "SDHC" => cmd8 = "rejected"
       /\ cmd8 = "rejected" \/ cmd8 = "accepted" \/ cmd8 = "illegal"
  /\ pc = "CMD58" /\ ~waited => initialised /\ type_ = "SD2"

\* What the handshake knows of the card.
KnowledgeInv == KnownTypeInv /\ HandshakeInv /\ SuccessMeansUsable

IInv == TypeOK /\ BusInv /\ KnowledgeInv

-----------------------------------------------------------------------------
(* Lemmas *)

\* A streaming card that is clocked n times is n bytes further, or ready.
LEMMA AfterBytesStreams ==
  ASSUME NEW src \in Sources, NEW k \in Nat, NEW n \in Nat
  PROVE  /\ k < Payload(src) + CRCLEN =>
              AfterBytes(Streaming(src, k), n) = {Streaming(src, k + n)}
         /\ k + n >= Payload(src) + CRCLEN =>
              AfterBytes(Streaming(src, k), n) = {Ready}
  BY PayloadSize, StreamingEnds
     DEF AfterBytes, Streaming, Ready, CRCLEN

LEMMA ReadyStaysQuiet ==
  Onward(Ready) = {Ready} /\ \A n : AfterBytes(Ready, n) = {Ready}
  <1>1. \A n : AfterBytes(Ready, n) = {Ready}
    BY DEF AfterBytes, Ready
  <1>2. 1 .. Remaining(Ready) + 1 = {1}
    BY DEF Remaining, Ready
  <1> QED
    BY <1>1, <1>2 DEF Onward

\* The last crc byte is followed by silence.
LEMMA LastByte ==
  ASSUME NEW src \in Sources, Payload(src) = SECTOR
  PROVE  LET c == Streaming(src, SECTOR + 1)
         IN  /\ Onward(c) = {Ready}
             /\ \A n \in Nat : n >= 1 => AfterBytes(c, n) = {Ready}
  <1> DEFINE c == Streaming(src, SECTOR + 1)
  <1>1. \A n \in Nat : n >= 1 => AfterBytes(c, n) = {Ready}
    BY AfterBytesStreams, PayloadSize DEF CRCLEN
  <1>2. Remaining(c) = 1
    BY PayloadSize DEF Remaining, Streaming, CRCLEN
  <1> HIDE DEF c
  <1>3. Onward(c) = {Ready}
    BY <1>1, <1>2 DEF Onward
  <1> QED
    BY <1>1, <1>3 DEF c

\* A pass of the ACMD41 loop that does not give up leaves t0 within its bound.
LEMMA PassWithinLimit ==
  ASSUME NEW t \in Nat, NEW p \in Nat \ {0}, NEW m \in Nat,
         ~(t \div p > m)
  PROVE  t + 1 <= p * (m + 1)
  OBVIOUS

\* The bounds of the counters of the handshake, and of its other numbers.
LEMMA PassBound ==
  /\ 0 \in Passes /\ 1 \in Passes
  /\ \A t \in Passes : ~(t \div PER_MS > ACMD41_MS) => t + 1 \in Passes
  <1>1. PER_MS * (ACMD41_MS + 1) \in Nat /\ PER_MS * (ACMD41_MS + 1) >= 1
    BY InitAssumption
  <1>2. ASSUME NEW t \in Passes, ~(t \div PER_MS > ACMD41_MS)
        PROVE  t + 1 \in Passes
    BY <1>1, <1>2, PassWithinLimit, InitAssumption DEF Passes
  <1> QED
    BY <1>1, <1>2 DEF Passes

LEMMA RetryBound ==
  /\ 0 \in Retries
  /\ \A n \in Retries : n # ATTEMPTS => n + 1 \in Retries
  BY InitAssumption DEF Retries

LEMMA OffsetBound ==
  /\ 0 \in Offsets /\ SECTOR + CRCLEN \in Offsets
  /\ \A k \in 1 .. SECTOR - 1 : k \in Offsets
  BY PayloadSize DEF Offsets, CRCLEN

LEMMA ElapsedBound ==
  ASSUME NEW e \in Nat
  PROVE  e + CommandTime \in Nat /\ e + CommandTime + 2 \in Nat
  BY InitAssumption DEF CommandTime, COMMAND_BYTES

\* Clocking a card leaves a card.
LEMMA AfterBytesType ==
  ASSUME NEW c \in CardState, NEW n \in Nat
  PROVE  AfterBytes(c, n) \subseteq CardState
  <1>1. c.src \in Sources /\ c.pos + n \in Nat
    BY DEF CardState
  <1>2. \A k \in 0 .. n - 1 : Streaming(c.src, k) \in CardState
    BY <1>1, CardTypes
  <1> QED
    BY <1>1, <1>2, CardTypes DEF AfterBytes

LEMMA OnwardType ==
  ASSUME NEW c \in CardState
  PROVE  Onward(c) \subseteq CardState
  BY AfterBytesType DEF Onward

LEMMA AfterReadEndType ==
  ASSUME card \in CardState, offset_ \in Offsets
  PROVE  AfterReadEnd \subseteq CardState
  <1> DEFINE m == 1 + IF offset_ < SECTOR + 1 THEN SECTOR + 1 - offset_ ELSE 0
  <1>1. m \in Nat
    BY PayloadSize DEF Offsets, CRCLEN
  <1> QED
    BY <1>1, AfterBytesType DEF AfterReadEnd

LEMMA InitInv == Init => IInv
  <1> SUFFICES ASSUME Init PROVE IInv
    OBVIOUS
  <1>2. TypeOK
    BY PassBound, RetryBound, OffsetBound, CardTypes
       DEF Init, TypeOK, Kinds, Responses, Commands
  <1> QED
    BY <1>2
       DEF Init, IInv, BusInv, KnowledgeInv, KnownTypeInv, HandshakeInv,
           SuccessMeansUsable, Commands

\* The types of what the handshake counts, of its flags and of its names.
Counted ==
  /\ offset_ \in Offsets /\ retry \in Retries /\ t0 \in Passes
  /\ elapsed \in Nat /\ card \in CardState

Flags ==
  /\ inBlock_ \in BOOLEAN /\ sent \in BOOLEAN /\ result \in BOOLEAN
  /\ doubtful \in BOOLEAN /\ initialised \in BOOLEAN /\ waited \in BOOLEAN

Names ==
  /\ type_ \in {"unset", "SD1", "SD2", "SDHC"}
  /\ errorCode_ \in {"none", "CMD0", "CMD8", "CMD8_ECHO", "ACMD41", "CMD58"}
  /\ pc \in Commands \cup {"start", "done"}
  /\ r \in Responses \cup {"echo", "badEcho", "ocr"}
  /\ cmd8 \in {"none", "accepted", "illegal", "rejected"}
  /\ kind \in Kinds

LEMMA TypeParts == TypeOK <=> Counted /\ Flags /\ Names
  BY DEF TypeOK, Counted, Flags, Names

LEMMA CountedStep == Counted /\ [Next]_vars => Counted'
  <1> SUFFICES ASSUME Counted, [Next]_vars PROVE Counted'
    OBVIOUS
  <1> USE DEF Counted, driverVars, localVars, cardVars, Begin, Return, SetType,
          EnterReadyLoop
  <1>0. Onward(card) \subseteq CardState
    BY OnwardType
  <1>1. CASE PreDrain
    <2>1. SECTOR + 1 \in Nat
      BY PayloadSize
    <2>2. card' \in CardState
      BY <1>1, <2>1, AfterBytesType DEF PreDrain, PreDrainBytes
    <2>3. retry' \in Retries
      BY <1>1, RetryBound DEF PreDrain
    <2>4. UNCHANGED <<offset_, t0, elapsed>>
      BY <1>1 DEF PreDrain
    <2> QED
      BY <2>2, <2>3, <2>4
  <1>2. CASE GetAttention
    <2>1. PICK c \in AfterReadEnd : card' \in Onward(c)
      BY <1>2 DEF GetAttention
    <2>3. card' \in CardState
      BY <2>1, AfterReadEndType, OnwardType
    <2>4. offset_' \in Offsets
      BY <1>2, OffsetBound DEF GetAttention
    <2>5. UNCHANGED <<retry, t0, elapsed>>
      BY <1>2 DEF GetAttention
    <2> QED
      BY <2>3, <2>4, <2>5
  <1>3. CASE GoIdle
    BY <1>0, <1>3 DEF GoIdle
  <1>4. CASE RetryGoIdle
    <2>1. retry' \in Retries
      BY <1>4, RetryBound DEF RetryGoIdle, GivesUp, NextAttempt
    <2>2. card' \in CardState /\ UNCHANGED <<offset_, t0, elapsed>>
      BY <1>0, <1>4 DEF RetryGoIdle
    <2> QED
      BY <2>1, <2>2
  <1>5. CASE CheckVersion
    <2>1. t0' = t0 \/ t0' = 1
      BY <1>5 DEF CheckVersion
    <2>2. elapsed' = elapsed \/ elapsed' = 2
      BY <1>5 DEF CheckVersion
    <2>3. card' \in CardState /\ UNCHANGED <<offset_, retry>>
      BY <1>0, <1>5 DEF CheckVersion
    <2> QED
      BY <2>1, <2>2, <2>3, PassBound
  <1>6. CASE NextIsApplication
    <2>1. elapsed' \in Nat
      BY <1>6, ElapsedBound DEF NextIsApplication
    <2>2. card' \in CardState /\ UNCHANGED <<offset_, retry, t0>>
      BY <1>0, <1>6 DEF NextIsApplication
    <2> QED
      BY <2>1, <2>2
  <1>7. CASE BecomeReady
    BY <1>0, <1>7 DEF BecomeReady
  <1>8. CASE NotReadyYet
    <2>1. t0' \in Passes
      BY <1>8, PassBound DEF NotReadyYet
    <2>2. elapsed' \in Nat
      BY <1>8, ElapsedBound DEF NotReadyYet
    <2>3. card' \in CardState /\ UNCHANGED <<offset_, retry>>
      BY <1>0, <1>8 DEF NotReadyYet
    <2> QED
      BY <2>1, <2>2, <2>3
  <1>9. CASE ReadOCR
    BY <1>0, <1>9 DEF ReadOCR
  <1>10. CASE OCRFails
    BY <1>0, <1>10 DEF OCRFails
  <1>11. CASE Call
    <2>1. \A b \in Blocks, k \in 1 .. SECTOR - 1 :
             Streaming(b, k) \in CardState /\ k \in Offsets
      BY CardTypes, OffsetBound, PayloadSize DEF Sources
    <2>2. card' \in CardState /\ offset_' \in Offsets
      BY <1>11, <2>1 DEF Call
    <2>3. UNCHANGED <<retry, t0, elapsed>>
      BY <1>11 DEF Call
    <2> QED
      BY <2>2, <2>3
  <1>12. CASE Restart
    <2>1. \A src \in Sources :
             /\ Preparing(src) \in CardState
             /\ \A k \in 0 .. Payload(src) + CRCLEN - 1 : Streaming(src, k) \in CardState
      BY CardTypes
    <2>2. card' \in CardState /\ offset_' \in Offsets
      BY <1>12, <2>1, OffsetBound DEF Restart
    <2>3. UNCHANGED <<retry, t0, elapsed>>
      BY <1>12 DEF Restart
    <2> QED
      BY <2>2, <2>3
  <1>13. CASE Exchange
    BY <1>13, CardTypes DEF Exchange
  <1>14. CASE UNCHANGED vars
    BY <1>14 DEF vars
  <1> QED
    BY <1>1, <1>2, <1>3, <1>4, <1>5, <1>6, <1>7, <1>8, <1>9, <1>10, <1>11,
       <1>12, <1>13, <1>14
       DEF Next, Step

\* What the driver may take for a response is one.
LEMMA ReadTypes ==
  /\ \A answers \in SUBSET Responses : Read(answers) \subseteq Responses
  /\ Cmd8Answers \in SUBSET Responses /\ Noise \in SUBSET Responses
  /\ "idle" \in Responses /\ "illegal" \in Responses
  BY DEF Read, Responses, Cmd8Answers, Noise

\* A card that is quiet when a command goes out is understood.
LEMMA QuietCard ==
  ASSUME card = Ready
  PROVE  /\ \A answers : Read(answers) = answers
         /\ \A state : Obeyed(state) = {state}
         /\ Onward(card) = {Ready}
  BY ReadyStaysQuiet DEF Read, Obeyed

LEMMA FlagTypes ==
  ASSUME waited \in BOOLEAN, initialised \in BOOLEAN
  PROVE  /\ StillWaited \in BOOLEAN
         /\ Obeyed(FALSE) \subseteq BOOLEAN
  <1>1. StillWaited \in BOOLEAN
    BY Zenon DEF StillWaited
  <1>2. Obeyed(FALSE) \subseteq BOOLEAN
    BY Zenon DEF Obeyed
  <1> QED
    BY <1>1, <1>2

LEMMA FlagsStep == Flags /\ [Next]_vars => Flags'
  <1> SUFFICES ASSUME Flags, [Next]_vars PROVE Flags'
    OBVIOUS
  <1> USE DEF Flags
  <1> USE DEF Kinds, Responses, Commands, Noise, driverVars, localVars,
          cardVars, Begin, Return, SetType, Answering, EnterReadyLoop
  <1>1. CASE PreDrain
    BY <1>1 DEF PreDrain
  <1>2. CASE GetAttention
    BY <1>2 DEF GetAttention
  <1>3. CASE GoIdle
    BY <1>3, FlagTypes DEF GoIdle
  <1>4. CASE RetryGoIdle
    BY <1>4 DEF RetryGoIdle
  <1>5. CASE CheckVersion
    BY <1>5 DEF CheckVersion
  <1>6. CASE NextIsApplication
    BY <1>6 DEF NextIsApplication
  <1>7. CASE BecomeReady
    BY <1>7 DEF BecomeReady
  <1>8. CASE NotReadyYet
    BY <1>8 DEF NotReadyYet
  <1>9. CASE ReadOCR
    BY <1>9 DEF ReadOCR
  <1>10. CASE OCRFails
    BY <1>10 DEF OCRFails
  <1>11. CASE Call
    BY <1>11, FlagTypes DEF Call
  <1>12. CASE Restart
    BY <1>12, FlagTypes DEF Restart
  <1>13. CASE Exchange
    BY <1>13 DEF Exchange
  <1>14. CASE UNCHANGED vars
    BY <1>14 DEF vars
  <1> QED
    BY <1>1, <1>2, <1>3, <1>4, <1>5, <1>6, <1>7, <1>8, <1>9, <1>10, <1>11,
       <1>12, <1>13, <1>14
       DEF Next, Step

LEMMA NamesStep == Names /\ [Next]_vars => Names'
  <1> SUFFICES ASSUME Names, [Next]_vars PROVE Names'
    OBVIOUS
  <1> USE DEF Names
  <1>0. /\ {"ready", "idle", "illegal", "error", "none"} = Responses
        /\ Read(Noise) \subseteq Responses /\ Read(Cmd8Answers) \subseteq Responses
        /\ Read(Noise \cup {"idle", "illegal"}) \subseteq Responses
        /\ Read(Noise \cup {}) \subseteq Responses
    <2>1. Noise \cup {"idle", "illegal"} \in SUBSET Responses /\ Noise \cup {} \in SUBSET Responses
      BY ReadTypes
    <2> QED
      BY <2>1, ReadTypes DEF Responses
  <1> USE DEF Kinds, Commands, driverVars, localVars,
          cardVars, Begin, Return, SetType, Answering, EnterReadyLoop
  <1>1. CASE PreDrain
    BY <1>1 DEF PreDrain
  <1>2. CASE GetAttention
    BY <1>2 DEF GetAttention
  <1>3. CASE GoIdle
    BY <1>3, <1>0 DEF GoIdle
  <1>4. CASE RetryGoIdle
    BY <1>4, <1>0 DEF RetryGoIdle
  <1>5. CASE CheckVersion
    BY <1>5, <1>0 DEF CheckVersion
  <1>6. CASE NextIsApplication
    BY <1>6 DEF NextIsApplication
  <1>7. CASE BecomeReady
    BY <1>7, <1>0 DEF BecomeReady
  <1>8. CASE NotReadyYet
    BY <1>8, <1>0 DEF NotReadyYet
  <1>9. CASE ReadOCR
    BY <1>9 DEF ReadOCR
  <1>10. CASE OCRFails
    BY <1>10, <1>0 DEF OCRFails
  <1>11. CASE Call
    BY <1>11 DEF Call
  <1>12. CASE Restart
    BY <1>12 DEF Restart
  <1>13. CASE Exchange
    BY <1>13 DEF Exchange
  <1>14. CASE UNCHANGED vars
    BY <1>14 DEF vars
  <1> QED
    BY <1>1, <1>2, <1>3, <1>4, <1>5, <1>6, <1>7, <1>8, <1>9, <1>10, <1>11,
       <1>12, <1>13, <1>14
       DEF Next, Step

\* Every step keeps the types.
LEMMA TypeStep == TypeOK /\ [Next]_vars => TypeOK'
  BY TypeParts, CountedStep, FlagsStep, NamesStep, PTL

\* The pre-drain leaves at most the last byte.
LEMMA DrainLeaves ==
  ASSUME NEW src \in Sources, NEW k \in Nat, card = Streaming(src, k), PreDrain
  PROVE  card' = Ready \/ (Payload(src) = SECTOR /\ card' = Streaming(src, SECTOR + 1))
  <1>0. card' \in AfterBytes(Streaming(src, k), SECTOR + 1)
    BY DEF PreDrain, PreDrainBytes
  <1>1. Payload(src) \in 1 .. SECTOR /\ SECTOR \in Nat
    BY PayloadSize
  <1>2. CASE k + SECTOR + 1 >= Payload(src) + CRCLEN
    BY <1>0, <1>1, <1>2, AfterBytesStreams
  <1>3. CASE ~(k + SECTOR + 1 >= Payload(src) + CRCLEN)
    <2>1. k = 0 /\ Payload(src) = SECTOR
      BY <1>1, <1>3 DEF CRCLEN
    <2>2. AfterBytes(Streaming(src, 0), SECTOR + 1) = {Streaming(src, SECTOR + 1)}
      BY <1>1, <2>1, AfterBytesStreams DEF CRCLEN
    <2> QED
      BY <1>0, <2>1, <2>2
  <1> QED
    BY <1>2, <1>3

\* The first busy wait takes that one too.
LEMMA AttentionQuiets ==
  ASSUME card = Ready \/ \E src \in Sources :
                            Payload(src) = SECTOR /\ card = Streaming(src, SECTOR + 1),
         offset_ \in Offsets, GetAttention
  PROVE  card' = Ready
  <1> DEFINE m == 1 + IF offset_ < SECTOR + 1 THEN SECTOR + 1 - offset_ ELSE 0
  <1>1. m \in Nat /\ m >= 1
    BY PayloadSize DEF Offsets, CRCLEN
  <1>2. AfterReadEnd \subseteq {card} \cup AfterBytes(card, m)
    BY DEF AfterReadEnd
  <1>3. PICK c \in AfterReadEnd : card' \in Onward(c)
    BY DEF GetAttention
  <1> HIDE DEF m
  <1>4. CASE card = Ready
    BY <1>2, <1>3, <1>4, ReadyStaysQuiet
  <1>5. ASSUME NEW src \in Sources, Payload(src) = SECTOR, card = Streaming(src, SECTOR + 1)
        PROVE  card' = Ready
    <2>1. Onward(card) = {Ready} /\ AfterBytes(card, m) = {Ready}
      BY <1>1, <1>5, LastByte
    <2> QED
      BY <1>2, <1>3, <2>1, ReadyStaysQuiet
  <1> QED
    BY <1>4, <1>5

\* The pre-drain and the busy wait leave a quiet card.
LEMMA BusStep == TypeOK /\ BusInv /\ [Next]_vars => BusInv'
  <1> SUFFICES ASSUME TypeOK, BusInv, [Next]_vars PROVE BusInv'
    OBVIOUS
  <1>0. /\ sent /\ ~waited => card = Ready
        /\ card = Ready => Onward(card) = {Ready}
    BY ReadyStaysQuiet DEF BusInv
  <1> USE DEF Commands, driverVars, localVars,
          cardVars, Begin, Return, SetType, Answering, EnterReadyLoop
  <1>1. CASE PreDrain
    <2>0. pc' = "CMD0" /\ ~sent' /\ waited' = waited /\ pc \notin Commands
      BY <1>1 DEF PreDrain
    <2>1. CASE card = Ready
      BY <1>1, <2>0, <2>1, ReadyStaysQuiet DEF PreDrain, PreDrainBytes, BusInv
    <2>2. ASSUME NEW src \in Sources, NEW k \in Nat, card = Streaming(src, k)
          PROVE  BusInv'
      BY <1>1, <2>0, <2>2, DrainLeaves DEF BusInv
    <2>3. CASE waited
      BY <2>0, <2>3 DEF BusInv
    <2> QED
      BY <2>0, <2>1, <2>2, <2>3 DEF BusInv
  <1>2. CASE GetAttention
    <2>0. pc \in Commands /\ pc' = pc /\ waited' = waited /\ offset_ \in Offsets
      BY <1>2 DEF GetAttention, TypeOK
    <2>1. CASE ~waited
      <3>1. card' = Ready
        BY <1>2, <2>0, <2>1, AttentionQuiets DEF BusInv
      <3> QED
        BY <2>0, <3>1 DEF BusInv
    <2>2. CASE waited
      BY <2>0, <2>2 DEF BusInv
    <2> QED
      BY <2>1, <2>2
  <1>3. CASE GoIdle
    BY <1>0, <1>3 DEF GoIdle, BusInv
  <1>4. CASE RetryGoIdle
    BY <1>0, <1>4 DEF RetryGoIdle, BusInv
  <1>5. CASE CheckVersion
    BY <1>0, <1>5 DEF CheckVersion, BusInv
  <1>6. CASE NextIsApplication
    BY <1>0, <1>6 DEF NextIsApplication, BusInv
  <1>7. CASE BecomeReady
    BY <1>0, <1>7 DEF BecomeReady, BusInv
  <1>8. CASE NotReadyYet
    BY <1>0, <1>8 DEF NotReadyYet, BusInv
  <1>9. CASE ReadOCR
    BY <1>0, <1>9 DEF ReadOCR, BusInv
  <1>10. CASE OCRFails
    BY <1>0, <1>10 DEF OCRFails, BusInv
  <1>11. CASE Call
    <2>0. pc = "done" /\ pc' = "start" /\ sent' = sent /\ waited' = StillWaited
      BY <1>11 DEF Call
    <2>1. card' = card \/ \E k \in Nat, b \in Sources : card' = Streaming(b, k)
      BY <1>11, PayloadSize DEF Call
    <2> QED
      BY <2>0, <2>1 DEF BusInv, StillWaited
  <1>12. CASE Restart
    <2>0. pc = "done" /\ pc' = pc /\ sent' = sent
      BY <1>12 DEF Restart
    <2>1. \/ card' = card /\ waited' = StillWaited
          \/ waited'
          \/ \E k \in Nat, src \in Sources : card' = Streaming(src, k)
      <3>1. \A src \in Sources : \A k \in 0 .. Payload(src) + CRCLEN - 1 : k \in Nat
        OBVIOUS
      <3> QED
        BY <1>12, <3>1 DEF Restart
    <2> QED
      BY <2>0, <2>1 DEF BusInv, StillWaited
  <1>13. CASE Exchange
    BY <1>13 DEF Exchange, BusInv
  <1>14. CASE UNCHANGED vars
    BY <1>14 DEF vars, BusInv
  <1> QED
    BY <1>1, <1>2, <1>3, <1>4, <1>5, <1>6, <1>7, <1>8, <1>9, <1>10, <1>11,
       <1>12, <1>13, <1>14
       DEF Next, Step

\* What sdInit concludes about the card is right, and stays right.
LEMMA KnowledgeStep ==
  TypeOK /\ BusInv /\ KnowledgeInv /\ [Next]_vars => KnowledgeInv'
  <1> SUFFICES ASSUME TypeOK, BusInv, KnowledgeInv, [Next]_vars PROVE KnowledgeInv'
    OBVIOUS
  <1>0. sent /\ ~waited =>
          /\ card = Ready
          /\ \A answers : Read(answers) = answers
          /\ \A state : Obeyed(state) = {state}
    BY QuietCard DEF BusInv
  <1> USE DEF KnowledgeInv, KnownTypeInv, HandshakeInv, SuccessMeansUsable
  <1> USE DEF Kinds, Responses, Commands, Noise, driverVars, localVars,
          cardVars, Begin, Return, SetType, Answering, EnterReadyLoop
  <1>1. CASE PreDrain
    <2>1. KnownTypeInv'
      BY <1>1 DEF PreDrain, TypeOK
    <2>2. HandshakeInv'
      BY <1>1 DEF PreDrain, TypeOK
    <2>3. SuccessMeansUsable'
      BY <1>1 DEF PreDrain, TypeOK
    <2> QED
      BY ONLY <2>1, <2>2, <2>3 DEF KnowledgeInv
  <1>2. CASE GetAttention
    BY <1>2 DEF GetAttention, TypeOK
  <1>3. CASE GoIdle
    <2>1. KnownTypeInv'
      BY <1>0, <1>3 DEF GoIdle, TypeOK
    <2>2. HandshakeInv'
      <3>1. ~waited => ~initialised'
        <4>1. ~waited => initialised' \in {FALSE}
          BY <1>0, <1>3 DEF GoIdle
        <4> QED
          BY Zenon, <4>1
      <3> QED
        BY <1>3, <3>1 DEF GoIdle, TypeOK
    <2>3. SuccessMeansUsable'
      BY <1>0, <1>3 DEF GoIdle, TypeOK
    <2> QED
      BY ONLY <2>1, <2>2, <2>3 DEF KnowledgeInv
  <1>4. CASE RetryGoIdle
    <2>1. KnownTypeInv'
      BY <1>0, <1>4 DEF RetryGoIdle, TypeOK
    <2>2. HandshakeInv'
      BY <1>0, <1>4 DEF RetryGoIdle, TypeOK
    <2>3. SuccessMeansUsable'
      BY <1>0, <1>4 DEF RetryGoIdle, TypeOK
    <2> QED
      BY ONLY <2>1, <2>2, <2>3 DEF KnowledgeInv
  <1>5. CASE CheckVersion
    <2>1. KnownTypeInv'
      BY <1>0, <1>5 DEF CheckVersion, IllegalCommand, Cmd8Answers, TypeOK
    <2>2. HandshakeInv'
      BY <1>0, <1>5 DEF CheckVersion, IllegalCommand, Cmd8Answers, TypeOK
    <2>3. SuccessMeansUsable'
      BY <1>0, <1>5 DEF CheckVersion, IllegalCommand, Cmd8Answers, TypeOK
    <2> QED
      BY ONLY <2>1, <2>2, <2>3 DEF KnowledgeInv
  <1>6. CASE NextIsApplication
    <2>1. KnownTypeInv'
      BY <1>0, <1>6 DEF NextIsApplication, TypeOK
    <2>2. HandshakeInv'
      BY <1>0, <1>6 DEF NextIsApplication, TypeOK
    <2>3. SuccessMeansUsable'
      BY <1>0, <1>6 DEF NextIsApplication, TypeOK
    <2> QED
      BY ONLY <2>1, <2>2, <2>3 DEF KnowledgeInv
  <1>7. CASE BecomeReady
    <2>1. KnownTypeInv'
      BY <1>0, <1>7 DEF BecomeReady, MayInitialise, HostHCS, TypeOK
    <2>2. HandshakeInv'
      BY <1>0, <1>7 DEF BecomeReady, MayInitialise, HostHCS, TypeOK
    <2>3. SuccessMeansUsable'
      BY <1>0, <1>7 DEF BecomeReady, MayInitialise, HostHCS, TypeOK
    <2> QED
      BY ONLY <2>1, <2>2, <2>3 DEF KnowledgeInv
  <1>8. CASE NotReadyYet
    <2>1. KnownTypeInv'
      BY <1>0, <1>8 DEF NotReadyYet, MayInitialise, HostHCS, TypeOK
    <2>2. HandshakeInv'
      BY <1>0, <1>8 DEF NotReadyYet, MayInitialise, HostHCS, TypeOK
    <2>3. SuccessMeansUsable'
      BY <1>0, <1>8 DEF NotReadyYet, MayInitialise, HostHCS, TypeOK
    <2> QED
      BY ONLY <2>1, <2>2, <2>3 DEF KnowledgeInv
  <1>9. CASE ReadOCR
    <2>1. KnownTypeInv'
      BY <1>0, <1>9 DEF ReadOCR, TypeOK
    <2>2. HandshakeInv'
      BY <1>0, <1>9 DEF ReadOCR, TypeOK
    <2>3. SuccessMeansUsable'
      BY <1>0, <1>9 DEF ReadOCR, TypeOK
    <2> QED
      BY ONLY <2>1, <2>2, <2>3 DEF KnowledgeInv
  <1>10. CASE OCRFails
    BY <1>0, <1>10 DEF OCRFails, TypeOK
  <1>11. CASE Call
    <2>1. KnownTypeInv'
      BY <1>11 DEF Call, StillWaited, TypeOK
    <2>2. HandshakeInv'
      BY <1>11 DEF Call, StillWaited, TypeOK
    <2>3. SuccessMeansUsable'
      BY <1>11 DEF Call, StillWaited, TypeOK
    <2> QED
      BY ONLY <2>1, <2>2, <2>3 DEF KnowledgeInv
  <1>12. CASE Restart
    BY <1>12 DEF Restart, TypeOK
  <1>13. CASE Exchange
    <2>1. KnownTypeInv'
      BY <1>13 DEF Exchange, TypeOK
    <2>2. HandshakeInv'
      BY <1>13 DEF Exchange, TypeOK
    <2>3. SuccessMeansUsable'
      BY <1>13 DEF Exchange, TypeOK
    <2> QED
      BY ONLY <2>1, <2>2, <2>3 DEF KnowledgeInv
  <1>14. CASE UNCHANGED vars
    BY <1>14 DEF vars
  <1> QED
    BY <1>1, <1>2, <1>3, <1>4, <1>5, <1>6, <1>7, <1>8, <1>9, <1>10, <1>11,
       <1>12, <1>13, <1>14
       DEF Next, Step

\* The invariant is inductive.
LEMMA StepInv == IInv /\ [Next]_vars => IInv'
  BY TypeStep, BusStep, KnowledgeStep DEF IInv

-----------------------------------------------------------------------------
(* Theorems about the handshake *)

\* IInv holds in every reachable state of the handshake.
THEOREM Invariance == Spec => []IInv
  BY InitInv, StepInv, PTL DEF Spec

\* Every variable keeps its type; the retries of CMD0 and the passes of the
\* ACMD41 loop stay within their limits.
THEOREM InitTypeCorrect == Spec => []TypeOK
  <1>1. IInv => TypeOK
    BY DEF IInv
  <1> QED
    BY <1>1, Invariance, PTL

\* Wherever in a block or register the card was left, no command of the
\* handshake goes out while it is still sending, unless a reset left it preparing
\* its token and it has not been heard quiet since.
THEOREM HandshakeQuiet == Spec => []HandshakeMeetsQuietCard
  <1>1. IInv => HandshakeMeetsQuietCard
    BY DEF IInv, BusInv, HandshakeMeetsQuietCard
  <1> QED
    BY <1>1, Invariance, PTL

\* A successful sdInit leaves a ready card that the reader will address the
\* right way, unless CMD8 was rejected by a card that was exchanged or a reset
\* left the card preparing its token.
THEOREM SuccessUsable == Spec => []SuccessMeansUsable
  <1>1. IInv => SuccessMeansUsable
    BY DEF IInv, KnowledgeInv
  <1> QED
    BY <1>1, Invariance, PTL
==============================================================================
