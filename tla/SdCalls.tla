------------------------------- MODULE SdCalls -------------------------------
(***************************************************************************)
(* The calls a client of SdReader.h makes, and what it gets back: the      *)
(* vocabulary shared by the driver and by the abstract store it implements.*)
(***************************************************************************)
EXTENDS SdCard

\* The calls a client makes.  op is the function called; block, offset and
\* count are the arguments of sdReadData, and count is the number of bytes the
\* destination receives.
CONSTANT Calls

CallRecord ==
  [op : {"readData", "readRegister", "partialOn", "partialOff", "readEnd"},
   block : Blocks, offset : Nat, count : Nat]

ASSUME CallsAssumption ==
  /\ Calls \subseteq CallRecord
  /\ \A r \in Calls :
       /\ r.op = "readRegister" => r.count = REGLEN
       /\ r.op \in {"partialOn", "partialOff", "readEnd"} => r.count = 0

\* A destination byte the call has not written.
Untouched == [kind |-> "untouched", src |-> REG, idx |-> 0]

Destination(r) == 0 .. r.count - 1
Unwritten(r) == [i \in Destination(r) |-> Untouched]

\* The bytes the caller asked for.
Wanted(r) ==
  [i \in Destination(r) |->
     IF r.op = "readData" THEN StreamByte(r.block, r.offset + i)
                          ELSE StreamByte(REG, i)]

\* The reply while a call executes, and before the first one.
NoReply == [ok |-> TRUE, data |-> [i \in {} |-> Untouched]]
==============================================================================
