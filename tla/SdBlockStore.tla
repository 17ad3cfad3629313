---------------------------- MODULE SdBlockStore ----------------------------
(***************************************************************************)
(* What SdReader.h promises a caller, with no bus, cache or card timing: a *)
(* call either delivers exactly the bytes it asked for and returns 1, or   *)
(* returns 0 and leaves the destination as the caller passed it.           *)
(***************************************************************************)
EXTENDS SdCalls

VARIABLES
  busy,           \* a call is executing
  req,            \* that call, or the last one
  reply           \* result of the last call: [ok, data]

storeVars == <<busy, req, reply>>

\* A read that can succeed stays inside one block.
Legal(r) == r.op = "readData" => r.count = 0 \/ r.offset + r.count <= SECTOR

\* Only a transfer can fail; an empty read and the mode calls cannot.
CanFail(r) == r.op \in {"readData", "readRegister"} /\ r.count # 0

StoreInit ==
  /\ busy = FALSE
  /\ req \in Calls
  /\ reply = NoReply

StoreCall ==
  /\ ~busy
  /\ busy' = TRUE
  /\ req' \in Calls
  /\ reply' = NoReply

Deliver ==
  /\ busy
  /\ Legal(req)
  /\ busy' = FALSE
  /\ reply' = [ok |-> TRUE, data |-> Wanted(req)]
  /\ UNCHANGED req

Refuse ==
  /\ busy
  /\ CanFail(req)
  /\ busy' = FALSE
  /\ reply' = [ok |-> FALSE, data |-> Unwritten(req)]
  /\ UNCHANGED req

StoreNext == StoreCall \/ Deliver \/ Refuse

StoreSafety == StoreInit /\ [][StoreNext]_storeVars
StoreSpec == StoreSafety /\ WF_storeVars(Deliver \/ Refuse)
=============================================================================
