---------------------------- MODULE DmaHal_proofs ----------------------------
(***************************************************************************)
(* Proofs about DmaHal, for every number of polls, whatever loops may time *)
(* out.                                                                    *)
(***************************************************************************)
EXTENDS DmaHal, TLAPS

(***************************************************************************)
(* The inductive invariant.  "The Z80 has the request" is the agreement of *)
(* three bits: the line, the Z80's sample of it and its acknowledge.  A    *)
(* checked session goes through four phases of it: all equal (request),    *)
(* line on and no stale acknowledge (request_poll), all on (own, cycle,    *)
(* nmi_release), line off and no late grant possible (nmi_wait, between).  *)
(***************************************************************************)
AllOn  == bus_req /\ BusReq_s /\ bus_ack
AllOff == ~bus_req /\ ~BusReq_s /\ ~bus_ack

Agreement ==
  /\ pc = "request" => AllOn \/ AllOff
  /\ pc = "request_poll" => bus_req /\ (bus_ack => BusReq_s)
  /\ pc \in {"own", "cycle", "nmi_release"} /\ caller \in Checked => AllOn
  /\ pc = "nmi_wait" => ~bus_req
  /\ pc = "nmi_wait" /\ caller \in Checked => bus_ack \/ ~BusReq_s
  /\ pc = "between" => AllOff
  /\ pc = "reset" => ~bus_req

Strobing == ctrl_bus # {} => pc = "cycle"

Record ==
  /\ DMA_state = 1 /\ pc \in {"main", "request", "own", "cycle"} => bus_req
  /\ pc \in {"request_poll", "between", "reset"} => DMA_state = 0

IInv == TypeOK /\ Agreement /\ Strobing /\ Record

-----------------------------------------------------------------------------
(* A session that a failed request does not stop is not a checked one. *)
LEMMA CheckedCallers ==
  Checked = {"write_menu", "load_game", "save_state", "save_regs"}
BY DEF Checked, Callers, Handlers, Accepts, Results, TIMEOUT, ALREADY_DONE

(* What follows an NMI is a session of its own, or the main loop. *)
LEMMA AfterNmiTyped ==
  ASSUME NEW c \in Callers, NEW next \in AfterNmi(c), next # "main"
  PROVE  next \in Callers /\ c \in Checked
BY CheckedCallers DEF AfterNmi, Callers, Handlers

(* DMA_request returns to the session, to the main loop or to the end. *)
LEMMA ReturnTyped ==
  ASSUME NEW ret, ReturnRequest(ret)
  PROVE  pc' \in {"own", "main", "ended"}
BY DEF ReturnRequest

(* The strobes of a cycle are four lines of the control bus. *)
LEMMA StrobesTyped ==
  ASSUME NEW kind \in CycleKinds
  PROVE  Strobes(kind) \subseteq {"RD", "WR", "MREQ", "IORQ"}
BY DEF CycleKinds, Strobes

(* The latch only ever holds a Boolean. *)
LEMMA LatchTyped ==
  ASSUME NEW pin \in BOOLEAN, NEW fetch \in BOOLEAN, NEW old \in BOOLEAN
  PROVE  Latch(pin, fetch, old) \in BOOLEAN
BY DEF Latch

(***************************************************************************)
(* The firmware and the Z80 keep every variable in its type, and the loop  *)
(* counters of DMA_request and DMA_stop within their bounds.               *)
(***************************************************************************)
LEMMA InitTypeOK == Init => TypeOK
<1> SUFFICES ASSUME Init PROVE TypeOK
  OBVIOUS
<1>1. i \in Nat /\ DMA_state \in {0, 1}
  BY DEF Init
<1> QED BY <1>1 DEF Init, TypeOK, Callers, Handlers

(* Each step of the firmware, and each clock of the Z80, keeps the types. *)
LEMMA NextTypeOK == TypeOK /\ [Next]_vars => TypeOK'
<1> SUFFICES ASSUME TypeOK, [Next]_vars PROVE TypeOK'
  OBVIOUS
<1> USE TriesAssumption DEF TypeOK
<1>1. ASSUME NEW c \in Handlers, StartHandler(c) PROVE TypeOK'
  BY <1>1 DEF StartHandler, Callers, z80Vars
<1>2. CASE Request
  <2>1. CASE RequestAlreadyDone
    BY <2>1, ReturnTyped DEF RequestAlreadyDone, z80Vars
  <2>2. CASE RequestSet
    BY <2>2 DEF RequestSet, z80Vars
  <2>3. CASE RequestTimeOut
    BY <2>3, ReturnTyped DEF RequestTimeOut, z80Vars
  <2>4. CASE RequestPoll
    <3>1. pc' \in {"own", "main", "ended", "request_poll"}
      BY <2>4, ReturnTyped DEF RequestPoll
    <3>2. i' \in Nat /\ i' <= RequestTries
      BY <2>4 DEF RequestPoll
    <3> QED BY <2>4, <3>1, <3>2 DEF RequestPoll, z80Vars
  <2> QED BY <1>2, <2>1, <2>2, <2>3, <2>4 DEF Request
<1>3. CASE Cycle
  <2>1. ASSUME NEW kind \in CycleKinds, BeginCycle(kind) PROVE TypeOK'
    BY <2>1, StrobesTyped DEF BeginCycle, z80Vars
  <2>2. CASE EndCycle
    BY <2>2 DEF EndCycle, z80Vars
  <2> QED BY <1>3, <2>1, <2>2 DEF Cycle
<1>4. CASE AbandonSession
  BY <1>4 DEF AbandonSession, z80Vars
<1>5. CASE Stop
  <2>1. CASE StopAlreadyDone
    BY <2>1 DEF StopAlreadyDone, z80Vars
  <2>2. CASE StopClear
    <3>1. i' \in Nat /\ i' <= StopTries
      BY <2>2 DEF StopClear
    <3> QED BY <2>2, <3>1 DEF StopClear, z80Vars
  <2>3. CASE StopTimeOut
    BY <2>3 DEF StopTimeOut, z80Vars
  <2>4. CASE StopPoll
    <3>1. i' \in Nat /\ i' <= StopTries
      BY <2>4 DEF StopPoll
    <3> QED BY <2>4, <3>1 DEF StopPoll, z80Vars
  <2> QED BY <1>5, <2>1, <2>2, <2>3, <2>4 DEF Stop
<1>6. CASE StopWithInterrupt
  <2>1. CASE NmiSet
    BY <2>1, LatchTyped DEF NmiSet, z80Vars
  <2>2. CASE NmiReleaseBus
    BY <2>2 DEF NmiReleaseBus, z80Vars
  <2>3. CASE NmiClear
    <3>1. cpu_nmi' \in BOOLEAN
      BY <2>3, LatchTyped DEF NmiClear
    <3>2. pc' \in {"main", "between"} /\ caller' \in Callers
      BY <2>3, AfterNmiTyped DEF NmiClear
    <3> QED BY <2>3, <3>1, <3>2 DEF NmiClear, z80Vars
  <2>4. CASE NextSession
    BY <2>4 DEF NextSession, z80Vars
  <2> QED BY <1>6, <2>1, <2>2, <2>3, <2>4 DEF StopWithInterrupt
<1>7. CASE Z80
  <2>1. CASE MidCycle
    BY <2>1, LatchTyped DEF MidCycle, SamplePins, Edge, fwVars
  <2>2. CASE Frozen
    BY <2>2 DEF Frozen, SamplePins, Edge, fwVars
  <2>3. CASE GrantBus
    BY <2>3 DEF GrantBus, SamplePins, Edge, fwVars
  <2>4. CASE NextCycle
    BY <2>4 DEF NextCycle, SamplePins, Edge, fwVars
  <2>5. CASE NextInstruction
    BY <2>5, LatchTyped DEF NextInstruction, SamplePins, Edge, fwVars
  <2>6. CASE PrefixedFetch
    BY <2>6, LatchTyped DEF PrefixedFetch, SamplePins, Edge, fwVars
  <2> QED BY <1>7, <2>1, <2>2, <2>3, <2>4, <2>5, <2>6 DEF Z80
<1>8. CASE ResetNios
  BY <1>8, LatchTyped DEF ResetNios, z80Vars, Callers, Handlers
<1>9. CASE ResetZ80
  BY <1>9 DEF ResetZ80
<1>10. CASE UNCHANGED vars
  BY <1>10 DEF vars, fwVars, z80Vars
<1> QED BY <1>1, <1>2, <1>3, <1>4, <1>5, <1>6, <1>7, <1>8, <1>9, <1>10 DEF Next

(***************************************************************************)
(* Types of all variables of the DMA layer, for all numbers of polls.      *)
(***************************************************************************)
THEOREM TypeCorrect == Spec => []TypeOK
<1>1. Init => TypeOK
  BY InitTypeOK
<1>2. TypeOK /\ [Next]_vars => TypeOK'
  BY NextTypeOK
<1> QED BY <1>1, <1>2, PTL DEF Spec
-----------------------------------------------------------------------------
(* The invariant holds when the firmware has initialised the HAL. *)
LEMMA InitIInv == Init => IInv
<1> SUFFICES ASSUME Init PROVE IInv
  OBVIOUS
<1>1. TypeOK
  BY InitTypeOK
<1>2. Agreement /\ Strobing
  BY DEF Init, Agreement, Strobing
<1>3. Record
  BY DEF Init, Record
<1> QED BY <1>1, <1>2, <1>3 DEF IInv

(* A step of the firmware keeps the invariant. *)
LEMMA FirmwareIInv ==
  ASSUME IInv,
         (\E c \in Handlers : StartHandler(c)) \/ Request \/ Cycle
           \/ AbandonSession \/ Stop \/ StopWithInterrupt
  PROVE  Agreement' /\ Strobing' /\ Record'
<1> USE CheckedCallers DEF IInv, TypeOK, Agreement, Strobing, Record, AllOn, AllOff
<1>1. ASSUME NEW c \in Handlers, StartHandler(c)
      PROVE  Agreement' /\ Strobing' /\ Record'
  BY <1>1 DEF StartHandler, Settled, z80Vars
<1>2. CASE Request
  <2>1. CASE RequestAlreadyDone
    BY <2>1, ReturnTyped DEF RequestAlreadyDone, z80Vars
  <2>2. CASE RequestSet
    BY <2>2 DEF RequestSet, z80Vars
  <2>3. CASE RequestTimeOut
    <3>1. pc' = "own" => caller \notin Checked
      BY <2>3 DEF RequestTimeOut, ReturnRequest, Checked
    <3> QED BY <2>3, <3>1, ReturnTyped DEF RequestTimeOut, z80Vars
  <2>4. CASE RequestPoll
    <3>1. CASE bus_ack
      BY <2>4, <3>1, ReturnTyped DEF RequestPoll, z80Vars
    <3>2. CASE ~bus_ack
      BY <2>4, <3>2 DEF RequestPoll, z80Vars
    <3> QED BY <3>1, <3>2
  <2> QED BY <1>2, <2>1, <2>2, <2>3, <2>4 DEF Request
<1>3. CASE Cycle
  <2>1. ASSUME NEW kind \in CycleKinds, BeginCycle(kind)
        PROVE  Agreement' /\ Strobing' /\ Record'
    BY <2>1 DEF BeginCycle, z80Vars
  <2>2. CASE EndCycle
    <3>1. ctrl_bus' = {}
      BY <2>2 DEF EndCycle
    <3> QED BY <2>2, <3>1 DEF EndCycle, z80Vars
  <2> QED BY <1>3, <2>1, <2>2 DEF Cycle
<1>4. CASE AbandonSession
  BY <1>4 DEF AbandonSession, z80Vars
<1>5. CASE Stop
  <2>1. CASE StopAlreadyDone
    BY <2>1 DEF StopAlreadyDone, z80Vars
  <2>2. CASE StopClear
    BY <2>2 DEF StopClear, z80Vars
  <2>3. CASE StopTimeOut
    BY <2>3 DEF StopTimeOut, z80Vars
  <2>4. CASE StopPoll
    BY <2>4 DEF StopPoll, z80Vars
  <2> QED BY <1>5, <2>1, <2>2, <2>3, <2>4 DEF Stop
<1>6. CASE StopWithInterrupt
  <2>1. CASE NmiSet
    BY <2>1 DEF NmiSet, z80Vars
  <2>2. CASE NmiReleaseBus
    BY <2>2 DEF NmiReleaseBus, z80Vars
  <2>3. CASE NmiClear
    <3>1. \/ pc' = "main"
          \/ pc' = "between" /\ caller \in Checked
      BY <2>3, AfterNmiTyped DEF NmiClear
    <3> QED BY <2>3, <3>1 DEF NmiClear, z80Vars
  <2>4. CASE NextSession
    BY <2>4 DEF NextSession, z80Vars
  <2> QED BY <1>6, <2>1, <2>2, <2>3, <2>4 DEF StopWithInterrupt
<1> QED BY <1>1, <1>2, <1>3, <1>4, <1>5, <1>6

(* A clock of the Z80 keeps the invariant. *)
LEMMA Z80IInv ==
  ASSUME IInv, Z80
  PROVE  Agreement' /\ Strobing' /\ Record'
<1> USE CheckedCallers DEF IInv, TypeOK, Agreement, Strobing, Record, AllOn, AllOff
<1>1. CASE MidCycle
  BY <1>1 DEF MidCycle, SamplePins, fwVars
<1>2. CASE Frozen
  BY <1>2 DEF Frozen, SamplePins, fwVars
<1>3. CASE GrantBus
  BY <1>3 DEF GrantBus, SamplePins, fwVars
<1>4. CASE NextCycle
  BY <1>4 DEF NextCycle, SamplePins, fwVars
<1>5. CASE NextInstruction
  BY <1>5 DEF NextInstruction, SamplePins, fwVars
<1>6. CASE PrefixedFetch
  BY <1>6 DEF PrefixedFetch, SamplePins, fwVars
<1> QED BY Z80, <1>1, <1>2, <1>3, <1>4, <1>5, <1>6 DEF Z80

(* A reset of the two processors keeps the invariant. *)
LEMMA ResetIInv ==
  ASSUME IInv, ResetNios \/ ResetZ80
  PROVE  Agreement' /\ Strobing' /\ Record'
<1> USE DEF IInv, TypeOK, Agreement, Strobing, Record, AllOn, AllOff
<1>1. CASE ResetNios
  BY <1>1 DEF ResetNios, z80Vars
<1>2. CASE ResetZ80
  BY <1>2 DEF ResetZ80
<1> QED BY <1>1, <1>2

(***************************************************************************)
(* The firmware's record of the bus, its request and the Z80's answer      *)
(* agree at every step of DMA_request, DMA_stop and the cycles between.    *)
(***************************************************************************)
THEOREM BusInvariant == Spec => []IInv
<1>1. Init => IInv
  BY InitIInv
<1>2. IInv /\ [Next]_vars => IInv'
  <2> SUFFICES ASSUME IInv, [Next]_vars PROVE IInv'
    OBVIOUS
  <2>1. TypeOK'
    BY NextTypeOK DEF IInv
  <2>2. CASE Next
    BY <2>1, <2>2, FirmwareIInv, Z80IInv, ResetIInv DEF Next, IInv
  <2>3. CASE UNCHANGED vars
    BY <2>1, <2>3 DEF IInv, vars, fwVars, z80Vars, Agreement, Strobing,
                      Record, AllOn, AllOff
  <2> QED BY <2>2, <2>3
<1> QED BY <1>1, <1>2, PTL DEF Spec

(***************************************************************************)
(* A handler that looks at DMA_request's result never strobes the buses    *)
(* under a running Z80.                                                    *)
(***************************************************************************)
THEOREM CheckedCyclesOwn == Spec => []CheckedCyclesOwnBus
<1>1. IInv => CheckedCyclesOwnBus
  BY DEF IInv, Agreement, Strobing, AllOn, CheckedCyclesOwnBus
<1> QED BY <1>1, BusInvariant, PTL

(***************************************************************************)
(* The firmware's DMA_state is only 1 while it asks for the bus.           *)
(***************************************************************************)
THEOREM HeldIsRequested == Spec => []HeldBusIsRequested
<1>1. IInv => HeldBusIsRequested
  BY DEF IInv, Record, HeldBusIsRequested
<1> QED BY <1>1, BusInvariant, PTL

-----------------------------------------------------------------------------
(***************************************************************************)
(* How the sessions leave the bus and the NMI line.  A session holds the   *)
(* bus it recorded and no other; only the push-button's handler ever       *)
(* starts on a bus that is still held; and, unless a DMA_stop gave up, the *)
(* latch is clear whenever a session that will pulse the NMI may be going. *)
(***************************************************************************)
LeftBehind ==
  /\ pc = "request" /\ bus_req => caller = "save_state"
  /\ pc \in {"own", "cycle"} /\ DMA_state = 0 => ~bus_req
  /\ pc = "stop_poll" => ~bus_req /\ caller \in EndsInStop
  /\ pc = "between" => caller \in {"save_regs", "restore"}
  /\ StoppedOnlyAfterFailure
  /\ RecordMatchesLine

Pulsing == pc \in {"nmi_release", "nmi_wait"}
WillPulse ==
  \/ pc \in {"request", "request_poll", "own", "cycle"} /\ caller # "restore"
  \/ pc = "main" /\ bus_req

Rearmed ==
  /\ ~Pulsing => ~nmi_pin
  /\ "stop" \notin slow /\ WillPulse => ~cpu_nmi /\ ~OldNMI

(* A step of the firmware leaves the bus as it recorded. *)
LEMMA FirmwareLeftBehind ==
  ASSUME IInv, LeftBehind,
         (\E c \in Handlers : StartHandler(c)) \/ Request \/ Cycle
           \/ AbandonSession \/ Stop \/ StopWithInterrupt
  PROVE  LeftBehind'
<1> USE DEF IInv, TypeOK, Agreement, Record, AllOn, AllOff, LeftBehind,
            StoppedOnlyAfterFailure, RecordMatchesLine, EndsInStop
<1>1. ASSUME NEW c \in Handlers, StartHandler(c)
      PROVE  LeftBehind'
  BY <1>1 DEF StartHandler, Settled, z80Vars
<1>2. CASE Request
  <2>1. CASE RequestAlreadyDone
    <3>1. caller = "save_state" /\ pc' = "own"
      BY <2>1 DEF RequestAlreadyDone, ReturnRequest, Accepts
    <3> QED BY <2>1, <3>1 DEF RequestAlreadyDone, z80Vars
  <2>2. CASE RequestSet
    BY <2>2 DEF RequestSet, z80Vars
  <2>3. CASE RequestTimeOut
    BY <2>3, ReturnTyped DEF RequestTimeOut, z80Vars
  <2>4. CASE RequestPoll
    <3>1. CASE bus_ack
      <4>1. pc' = "own"
        BY <2>4, <3>1 DEF RequestPoll, ReturnRequest, Accepts, Results, Callers, Handlers
      <4> QED BY <2>4, <3>1, <4>1 DEF RequestPoll, z80Vars
    <3>2. CASE ~bus_ack
      BY <2>4, <3>2 DEF RequestPoll, z80Vars
    <3> QED BY <3>1, <3>2
  <2> QED BY <1>2, <2>1, <2>2, <2>3, <2>4 DEF Request
<1>3. CASE Cycle
  BY <1>3 DEF Cycle, BeginCycle, EndCycle, z80Vars
<1>4. CASE AbandonSession
  BY <1>4 DEF AbandonSession, z80Vars
<1>5. CASE Stop
  <2>1. CASE StopAlreadyDone
    BY <2>1 DEF StopAlreadyDone, z80Vars
  <2>2. CASE StopClear
    BY <2>2 DEF StopClear, z80Vars
  <2>3. CASE StopTimeOut
    BY <2>3 DEF StopTimeOut, z80Vars
  <2>4. CASE StopPoll
    BY <2>4 DEF StopPoll, z80Vars
  <2> QED BY <1>5, <2>1, <2>2, <2>3, <2>4 DEF Stop
<1>6. CASE StopWithInterrupt
  <2>1. CASE NmiSet
    BY <2>1 DEF NmiSet, z80Vars
  <2>2. CASE NmiReleaseBus
    BY <2>2 DEF NmiReleaseBus, z80Vars
  <2>3. CASE NmiClear
    <3>1. pc' \in {"main", "between"} /\ ~bus_req' /\ DMA_state' = 0
      BY <2>3 DEF NmiClear
    <3>2. pc' = "between" => caller' \in {"save_regs", "restore"}
      BY <2>3 DEF NmiClear, AfterNmi, Callers, Handlers
    <3> QED BY <3>1, <3>2
  <2>4. CASE NextSession
    BY <2>4 DEF NextSession, z80Vars
  <2> QED BY <1>6, <2>1, <2>2, <2>3, <2>4 DEF StopWithInterrupt
<1> QED BY <1>1, <1>2, <1>3, <1>4, <1>5, <1>6

(* The Z80 cannot disturb it, and a reset gives the bus back. *)
LEMMA OthersLeftBehind ==
  ASSUME LeftBehind, Z80 \/ ResetNios \/ ResetZ80 \/ UNCHANGED vars, IInv
  PROVE  LeftBehind'
<1> USE DEF LeftBehind, StoppedOnlyAfterFailure, RecordMatchesLine
<1>1. CASE UNCHANGED <<fwVars, slow>>
  BY <1>1 DEF fwVars
<1>2. CASE Z80
  BY <1>1, <1>2 DEF Z80, MidCycle, Frozen, GrantBus, NextCycle,
                    NextInstruction, PrefixedFetch
<1>3. CASE ResetNios
  BY <1>3 DEF ResetNios
<1>4. CASE ResetZ80
  BY <1>4 DEF ResetZ80, IInv, Agreement, Record
<1>5. CASE UNCHANGED vars
  BY <1>1, <1>5 DEF vars
<1> QED BY <1>2, <1>3, <1>4, <1>5

(* How the bus is left is an invariant beside IInv. *)
LEMMA LeftBehindAlways == Spec => []LeftBehind
<1>1. Init => LeftBehind
  BY DEF Init, LeftBehind, StoppedOnlyAfterFailure, RecordMatchesLine
<1>2. IInv /\ LeftBehind /\ [Next]_vars => LeftBehind'
  BY FirmwareLeftBehind, OthersLeftBehind DEF Next
<1> QED BY <1>1, <1>2, BusInvariant, PTL DEF Spec

(***************************************************************************)
(* Only a save state that could not create its file, or a DMA_stop that    *)
(* gave up, leaves the Z80 stopped when the main loop waits for commands.  *)
(***************************************************************************)
THEOREM StoppedAfterFailure == Spec => []StoppedOnlyAfterFailure
<1>1. LeftBehind => StoppedOnlyAfterFailure
  BY DEF LeftBehind
<1> QED BY <1>1, LeftBehindAlways, PTL

(***************************************************************************)
(* As long as no DMA_stop gives up, DMA_state says between two handlers    *)
(* what the bus-request line is, across time-outs and resets.              *)
(***************************************************************************)
THEOREM RecordIsLine == Spec => []RecordMatchesLine
<1>1. LeftBehind => RecordMatchesLine
  BY DEF LeftBehind
<1> QED BY <1>1, LeftBehindAlways, PTL

(* The pulse is taken back where it was given, and nothing sets the latch    *)
(* in between.                                                               *)
LEMMA NextRearmed ==
  ASSUME IInv, LeftBehind, Rearmed, [Next]_vars
  PROVE  Rearmed'
<1> USE DEF IInv, TypeOK, Rearmed, Pulsing, WillPulse
<1>1. ASSUME NEW c \in Handlers, StartHandler(c) PROVE Rearmed'
  <2>1. "stop" \notin slow => ~cpu_nmi /\ ~OldNMI
    BY <1>1 DEF StartHandler, Settled
  <2> QED BY <1>1, <2>1 DEF StartHandler, z80Vars
<1>2. CASE Request
  <2>1. CASE RequestAlreadyDone
    <3>1. caller = "save_state" /\ pc' = "own"
      BY <2>1 DEF RequestAlreadyDone, ReturnRequest, Accepts, LeftBehind, Record
    <3> QED BY <2>1, <3>1 DEF RequestAlreadyDone, z80Vars
  <2>2. CASE RequestSet
    BY <2>2 DEF RequestSet, z80Vars
  <2>3. CASE RequestTimeOut
    BY <2>3, ReturnTyped DEF RequestTimeOut, z80Vars
  <2>4. CASE RequestPoll
    <3>1. pc' \in {"own", "request_poll"}
      BY <2>4 DEF RequestPoll, ReturnRequest, Accepts, Results, Callers, Handlers
    <3> QED BY <2>4, <3>1 DEF RequestPoll, z80Vars
  <2> QED BY <1>2, <2>1, <2>2, <2>3, <2>4 DEF Request
<1>3. CASE Cycle
  BY <1>3 DEF Cycle, BeginCycle, EndCycle, z80Vars
<1>4. CASE AbandonSession
  BY <1>4 DEF AbandonSession, z80Vars
<1>5. CASE Stop
  <2>1. CASE StopAlreadyDone
    BY <2>1 DEF StopAlreadyDone, z80Vars, LeftBehind
  <2>2. CASE StopClear
    BY <2>2 DEF StopClear, z80Vars
  <2>3. CASE StopTimeOut
    BY <2>3 DEF StopTimeOut, z80Vars
  <2>4. CASE StopPoll
    BY <2>4 DEF StopPoll, z80Vars, LeftBehind
  <2> QED BY <1>5, <2>1, <2>2, <2>3, <2>4 DEF Stop
<1>6. CASE StopWithInterrupt
  <2>1. CASE NmiSet
    BY <2>1 DEF NmiSet, z80Vars
  <2>2. CASE NmiReleaseBus
    BY <2>2 DEF NmiReleaseBus, z80Vars
  <2>3. CASE NmiClear
    <3>1. pc' \in {"main", "between"} /\ ~bus_req' /\ ~nmi_pin'
      BY <2>3 DEF NmiClear, Agreement
    <3> QED BY <3>1
  <2>4. CASE NextSession
    BY <2>4 DEF NextSession, z80Vars, LeftBehind
  <2> QED BY <1>6, <2>1, <2>2, <2>3, <2>4 DEF StopWithInterrupt
<1>7. CASE Z80
  <2>1. CASE MidCycle
    BY <2>1 DEF MidCycle, SamplePins, Latch, fwVars
  <2>2. CASE Frozen
    BY <2>2 DEF Frozen, SamplePins, fwVars
  <2>3. CASE GrantBus
    BY <2>3 DEF GrantBus, SamplePins, fwVars
  <2>4. CASE NextCycle
    BY <2>4 DEF NextCycle, SamplePins, fwVars
  <2>5. CASE NextInstruction
    BY <2>5 DEF NextInstruction, SamplePins, Latch, fwVars
  <2>6. CASE PrefixedFetch
    BY <2>6 DEF PrefixedFetch, SamplePins, Latch, fwVars
  <2> QED BY <1>7, <2>1, <2>2, <2>3, <2>4, <2>5, <2>6 DEF Z80
<1>8. CASE ResetNios
  BY <1>8 DEF ResetNios, z80Vars
<1>9. CASE ResetZ80
  BY <1>9 DEF ResetZ80, Agreement
<1>10. CASE UNCHANGED vars
  BY <1>10 DEF vars, fwVars, z80Vars
<1> QED BY <1>1, <1>2, <1>3, <1>4, <1>5, <1>6, <1>7, <1>8, <1>9, <1>10 DEF Next

(***************************************************************************)
(* As long as no DMA_stop gives up, every session that is to raise the NMI *)
(* finds the latch clear, so that the Z80 sees the edge.                   *)
(***************************************************************************)
THEOREM NmiIsRearmed == Spec => []NmiRearmed
<1>1. Init => Rearmed
  BY DEF Init, Rearmed, Pulsing, WillPulse
<1>2. IInv /\ LeftBehind /\ Rearmed /\ [Next]_vars => Rearmed'
  BY NextRearmed
<1>3. Rearmed => NmiRearmed
  BY DEF Rearmed, WillPulse, NmiRearmed, EndsInNmi
<1> QED BY <1>1, <1>2, <1>3, BusInvariant, LeftBehindAlways, PTL DEF Spec

-----------------------------------------------------------------------------
(***************************************************************************)
(* The refinement.  The mapping reads the kind of a cycle off the strobes, *)
(* which is possible because the strobes of a cycle are those of one kind. *)
(***************************************************************************)
KnownStrobes == pc = "cycle" => \E kind \in CycleKinds : ctrl_bus = Strobes(kind)

(* No two kinds of DMA cycle have the same strobes. *)
LEMMA StrobesTellKind ==
  ASSUME NEW kind \in CycleKinds
  PROVE  KindOf(Strobes(kind)) = kind
<1>1. ASSUME NEW other \in CycleKinds, Strobes(other) = Strobes(kind)
      PROVE  other = kind
  BY <1>1 DEF CycleKinds, Strobes
<1> QED BY <1>1 DEF KindOf

(* Strobes go on from none, one kind at a time. *)
LEMMA StrobesKnown == Spec => []KnownStrobes
<1>1. Init => KnownStrobes
  BY DEF Init, KnownStrobes
<1>2. IInv /\ KnownStrobes /\ [Next]_vars => KnownStrobes'
  <2> SUFFICES ASSUME IInv, KnownStrobes, [Next]_vars PROVE KnownStrobes'
    OBVIOUS
  <2>1. ASSUME NEW kind \in CycleKinds, BeginCycle(kind) PROVE KnownStrobes'
    <3>1. ctrl_bus = {}
      BY <2>1 DEF BeginCycle, IInv, Strobing
    <3> QED BY <2>1, <3>1 DEF BeginCycle, KnownStrobes
  <2>2. CASE pc' # "cycle"
    BY <2>2 DEF KnownStrobes
  <2>3. CASE UNCHANGED <<pc, ctrl_bus>>
    BY <2>3 DEF KnownStrobes
  <2>4. CASE \E c \in Handlers : StartHandler(c)
    BY <2>2, <2>4 DEF StartHandler
  <2>5. CASE Request
    BY <2>2, <2>3, <2>5, ReturnTyped
       DEF Request, RequestAlreadyDone, RequestSet, RequestTimeOut, RequestPoll
  <2>6. CASE EndCycle
    BY <2>2, <2>6 DEF EndCycle
  <2>7. CASE AbandonSession \/ Stop
    BY <2>2, <2>3, <2>7
       DEF AbandonSession, Stop, StopAlreadyDone, StopClear, StopTimeOut, StopPoll
  <2>8. CASE StopWithInterrupt
    BY <2>2, <2>8
       DEF StopWithInterrupt, NmiSet, NmiReleaseBus, NmiClear, NextSession
  <2>9. CASE Z80
    BY <2>3, <2>9 DEF Z80, MidCycle, Frozen, GrantBus, NextCycle,
                      NextInstruction, PrefixedFetch, fwVars
  <2>10. CASE ResetNios \/ ResetZ80
    BY <2>2, <2>10 DEF ResetNios, ResetZ80
  <2>11. CASE UNCHANGED vars
    BY <2>3, <2>11 DEF vars, fwVars
  <2> QED BY <2>1, <2>4, <2>5, <2>6, <2>7, <2>8, <2>9, <2>10, <2>11 DEF Next, Cycle
<1> QED BY <1>1, <1>2, BusInvariant, PTL DEF Spec

(* Outside the DMA cycles the firmware leaves the lease alone: only the Z80  *)
(* gives the bus away and takes it back.                                     *)
LEMMA OutsideCycles ==
  ASSUME pc # "cycle", pc' # "cycle", bus_ack' = bus_ack
  PROVE  UNCHANGED Lease!leaseVars
BY DEF Lease!leaseVars, LeaseOwner, LeaseCycle

(* A DMA cycle of a checked session begins and ends on the leased bus. *)
LEMMA CycleStep ==
  ASSUME IInv, KnownStrobes, Cycle
  PROVE  [Lease!LeaseNext]_(Lease!leaseVars)
<1>1. ASSUME NEW kind \in CycleKinds, BeginCycle(kind)
      PROVE  [Lease!LeaseNext]_(Lease!leaseVars)
  <2>1. /\ pc = "own" /\ pc' = "cycle" /\ caller' = caller /\ bus_ack' = bus_ack
        /\ ctrl_bus' = Strobes(kind)
    BY <1>1 DEF BeginCycle, z80Vars, IInv, Strobing
  <2>2. LeaseOwner' = LeaseOwner /\ LeaseCycle = "none"
    BY <2>1 DEF LeaseOwner, LeaseCycle
  <2>3. CASE caller \in Checked
    <3>1. LeaseOwner = "nios"
      BY <2>1, <2>3 DEF IInv, Agreement, AllOn, LeaseOwner
    <3>2. LeaseCycle' = kind
      BY <2>1, <2>3, StrobesTellKind DEF LeaseCycle
    <3>3. Lease!Begin(kind)
      BY <2>2, <3>1, <3>2 DEF Lease!Begin
    <3>4. kind \in Lease!Cycles
      BY DEF CycleKinds, Lease!Cycles
    <3> QED BY <3>3, <3>4 DEF Lease!LeaseNext
  <2>4. CASE caller \notin Checked
    BY <2>1, <2>2, <2>4 DEF LeaseCycle, Lease!leaseVars
  <2> QED BY <2>3, <2>4
<1>2. CASE EndCycle
  <2>1. /\ pc = "cycle" /\ pc' = "own" /\ caller' = caller /\ bus_ack' = bus_ack
    BY <1>2 DEF EndCycle, z80Vars
  <2>2. LeaseOwner' = LeaseOwner /\ LeaseCycle' = "none"
    BY <2>1 DEF LeaseOwner, LeaseCycle
  <2>3. CASE caller \in Checked
    <3>1. PICK kind \in CycleKinds : ctrl_bus = Strobes(kind)
      BY <2>1 DEF KnownStrobes
    <3>2. LeaseCycle = kind
      BY <2>1, <2>3, <3>1, StrobesTellKind DEF LeaseCycle
    <3>3. Lease!End
      BY <2>2, <3>2 DEF Lease!End, CycleKinds
    <3> QED BY <3>3 DEF Lease!LeaseNext
  <2>4. CASE caller \notin Checked
    BY <2>1, <2>2, <2>4 DEF LeaseCycle, Lease!leaseVars
  <2> QED BY <2>3, <2>4
<1> QED BY Cycle, <1>1, <1>2 DEF Cycle

(* The Z80 gives the bus, and takes it back only between two cycles. *)
LEMMA Z80Step ==
  ASSUME IInv, Z80
  PROVE  [Lease!LeaseNext]_(Lease!leaseVars)
<1>1. LeaseCycle' = LeaseCycle
  BY Z80 DEF Z80, MidCycle, Frozen, GrantBus, NextCycle, NextInstruction,
             PrefixedFetch, fwVars, LeaseCycle
<1>2. CASE bus_ack' = bus_ack
  BY <1>1, <1>2 DEF LeaseOwner, Lease!leaseVars
<1>3. CASE ~bus_ack /\ bus_ack'
  BY <1>1, <1>3 DEF LeaseOwner, Lease!LeaseNext, Lease!Grant
<1>4. CASE bus_ack /\ ~bus_ack'
  <2>1. ~BusReq_s
    BY Z80, <1>4 DEF Z80, MidCycle, Frozen, GrantBus, NextCycle,
                     NextInstruction, PrefixedFetch
  <2>2. LeaseCycle = "none"
    BY <2>1 DEF IInv, Agreement, AllOn, LeaseCycle
  <2> QED BY <1>1, <1>4, <2>2 DEF LeaseOwner, Lease!LeaseNext, Lease!Release
<1>5. bus_ack \in BOOLEAN /\ bus_ack' \in BOOLEAN
  BY Z80 DEF IInv, TypeOK, Z80, MidCycle, Frozen, GrantBus, NextCycle,
             NextInstruction, PrefixedFetch
<1> QED BY <1>2, <1>3, <1>4, <1>5

(* A reset of the NIOS ends its cycle; one of the Z80 ends the lease, or     *)
(* finds it ended.                                                           *)
LEMMA ResetStep ==
  ASSUME IInv, KnownStrobes, ResetNios \/ ResetZ80
  PROVE  [Lease!LeaseNext]_(Lease!leaseVars)
<1>1. CASE ResetNios
  <2>1. LeaseCycle' = "none" /\ LeaseOwner' = LeaseOwner
    BY <1>1 DEF ResetNios, z80Vars, LeaseCycle, LeaseOwner
  <2>2. CASE LeaseCycle = "none"
    BY <2>1, <2>2 DEF Lease!leaseVars
  <2>3. CASE LeaseCycle # "none"
    BY <2>1, <2>3 DEF Lease!LeaseNext, Lease!End
  <2> QED BY <2>2, <2>3
<1>2. CASE ResetZ80
  <2>1. LeaseCycle = "none" /\ LeaseCycle' = "none" /\ LeaseOwner' = "z80"
    BY <1>2 DEF ResetZ80, LeaseCycle, LeaseOwner
  <2>2. CASE bus_ack
    BY <2>1, <2>2 DEF LeaseOwner, Lease!LeaseNext, Lease!Release
  <2>3. CASE ~bus_ack
    BY <2>1, <2>3 DEF LeaseOwner, Lease!leaseVars
  <2> QED BY <2>2, <2>3
<1> QED BY <1>1, <1>2

(***************************************************************************)
(* The HAL, the arbiter lines and the Z80 implement the bus lease: whoever *)
(* times out, the checked sessions' DMA cycles begin and end while the Z80 *)
(* is off the bus, and it does not come back in the middle of one.         *)
(***************************************************************************)
THEOREM LeaseImplemented == Spec => LeaseRefinement
<1>1. Init => Lease!LeaseInit
  BY DEF Init, Lease!LeaseInit, LeaseOwner, LeaseCycle
<1>2. IInv /\ KnownStrobes /\ [Next]_vars
        => [Lease!LeaseNext]_(Lease!leaseVars)
  <2> SUFFICES ASSUME IInv, KnownStrobes, [Next]_vars
               PROVE  [Lease!LeaseNext]_(Lease!leaseVars)
    OBVIOUS
  <2>1. CASE \E c \in Handlers : StartHandler(c)
    BY <2>1, OutsideCycles DEF StartHandler, z80Vars
  <2>2. CASE Request
    BY <2>2, OutsideCycles, ReturnTyped DEF Request, RequestAlreadyDone,
         RequestSet, RequestTimeOut, RequestPoll, z80Vars
  <2>3. CASE Cycle
    BY <2>3, CycleStep
  <2>4. CASE AbandonSession \/ Stop
    BY <2>4, OutsideCycles DEF AbandonSession, Stop, StopAlreadyDone,
         StopClear, StopTimeOut, StopPoll, z80Vars
  <2>5. CASE StopWithInterrupt
    BY <2>5, OutsideCycles DEF StopWithInterrupt, NmiSet, NmiReleaseBus,
         NmiClear, NextSession, z80Vars
  <2>6. CASE Z80
    BY <2>6, Z80Step
  <2>7. CASE ResetNios \/ ResetZ80
    BY <2>7, ResetStep
  <2>8. CASE UNCHANGED vars
    BY <2>8 DEF vars, fwVars, z80Vars, Lease!leaseVars, LeaseOwner, LeaseCycle
  <2> QED BY <2>1, <2>2, <2>3, <2>4, <2>5, <2>6, <2>7, <2>8 DEF Next
<1> QED BY <1>1, <1>2, BusInvariant, StrobesKnown, PTL
       DEF Spec, LeaseRefinement, Lease!LeaseSpec
=============================================================================
