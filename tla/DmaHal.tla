------------------------------- MODULE DmaHal -------------------------------
(***************************************************************************)
(* The DMA abstraction layer of the NIOS II firmware (dma_hal.c), the      *)
(* bus-request and NMI lines it drives (top.vhd), and the Z80 core that    *)
(* answers them (T80, not this project's code: modelled from the pins).    *)
(*                                                                         *)
(* The firmware polls: one action per access to a pin.  The Z80 has its    *)
(* own, slower and stoppable clock, so that its steps interleave with the  *)
(* firmware's in every order.  The calls are those of the command          *)
(* handlers of main.c and formats.c, each reduced to its DMA sessions:     *)
(* which results of DMA_request it carries on with, and how it gives the   *)
(* bus back.                                                               *)
(***************************************************************************)
EXTENDS Integers

CONSTANTS
  RequestTries,   \* polls of a DMA_request (10, and 100 in write_menu)
  StopTries       \* polls of a DMA_stop (10)

ASSUME TriesAssumption == RequestTries \in Nat \ {0} /\ StopTries \in Nat \ {0}

VARIABLES
  pc,         \* where the firmware is: in the main loop, in a HAL function, or
              \* held in reset
  caller,     \* the handler whose DMA session this is
  i,          \* the loop counter of DMA_request and DMA_stop
  DMA_state,  \* the firmware's own record of who has the bus
  ctrl_bus,   \* the strobes the firmware asserts (RDn, WRn, MREQn, IORQn)
  bus_req,    \* BUSRQ is asserted
  nmi_pin,    \* the firmware's NMI output is asserted
  bus_ack,    \* BUSAK is asserted: the Z80 is off the bus
  BusReq_s,   \* the Z80's sample of bus_req
  m1,         \* the Z80 is in the first T states of an opcode fetch
  cpu_nmi,    \* the NMI line of the Z80, behind the latch of top.vhd
  OldNMI,     \* the Z80's previous sample of it
  NMI_s,      \* an NMI edge was seen and is not yet serviced
  slow        \* the HAL loops whose polls the Z80 may outlast; never changes

fwVars  == <<pc, caller, i, DMA_state, ctrl_bus, bus_req, nmi_pin>>
z80Vars == <<bus_ack, BusReq_s, m1, OldNMI, NMI_s>>
vars    == <<fwVars, z80Vars, cpu_nmi, slow>>

-----------------------------------------------------------------------------
(* The results of the HAL functions. *)
TIMEOUT == -1
ALREADY_DONE == -2
Results == {0, TIMEOUT, ALREADY_DONE}

(***************************************************************************)
(* The DMA sessions of the handlers.  "save_regs" is the second session of *)
(* save_SNA, "restore" the last one of save_SNA, load_SNA and load_z80.    *)
(***************************************************************************)
Handlers == {"write_menu", "load_page", "load_game", "save_state"}
Callers  == Handlers \union {"save_regs", "restore"}

\* The results of DMA_request after which a session goes on to the memory.
\* load_page and the restore sessions do not look at the result.
Accepts(c) ==
  CASE c \in {"write_menu", "save_state"} -> {0, ALREADY_DONE}
    [] c \in {"load_game", "save_regs"}   -> {0}
    [] c \in {"load_page", "restore"}     -> Results

\* The sessions that never touch memory after a failed request.
Checked == {c \in Callers : TIMEOUT \notin Accepts(c)}

\* The sessions that end in DMA_stop: load_z80 refusing a file that is not
\* for a 48k machine, and the restore sessions.
EndsInStop == {"load_game", "restore"}

\* The sessions that end in DMA_stop_w_interrupt.
EndsInNmi == Callers \ {"restore"}

\* What may follow a session that ended in DMA_stop_w_interrupt: the next
\* session of the handler, or the main loop ("main").
AfterNmi(c) ==
  CASE c = "save_state" -> {"save_regs", "main"}
    [] c \in {"load_game", "save_regs"} -> {"restore", "main"}
    [] c \in {"write_menu", "load_page", "restore"} -> {"main"}

\* The strobes of a DMA cycle, as the READ_SET .. IO_REQ_SET masks set them.
Strobes(kind) ==
  CASE kind = "read_mem"  -> {"RD", "MREQ"}
    [] kind = "write_mem" -> {"WR", "MREQ"}
    [] kind = "read_io"   -> {"RD", "IORQ"}
    [] kind = "write_io"  -> {"WR", "IORQ"}

CycleKinds == {"read_mem", "write_mem", "read_io", "write_io"}

\* The NMI latch of top.vhd: an asynchronous set/reset flip-flop that keeps
\* its value when both inputs are active, or neither.
Latch(pin, fetch, old) ==
  IF pin /\ ~fetch THEN TRUE ELSE IF ~pin /\ fetch THEN FALSE ELSE old

-----------------------------------------------------------------------------
(* DMA_init has run, the Z80 is out of reset. *)
Init ==
  /\ pc = "main" /\ caller = "write_menu" /\ i = 0
  /\ DMA_state = 0 /\ ctrl_bus = {}
  /\ bus_req = FALSE /\ nmi_pin = FALSE
  /\ bus_ack = FALSE /\ BusReq_s = FALSE
  /\ m1 = FALSE /\ cpu_nmi = FALSE /\ OldNMI = FALSE /\ NMI_s = FALSE
  /\ slow \in SUBSET {"request", "stop"}

\* Mutant: nothing waits between two handlers.
Settled_NoWait == TRUE

\* The Z80 has caught up with the bus-request line and, unless it is off the
\* bus, has fetched opcodes since the last NMI pulse and serviced it.
Settled ==
  /\ bus_ack = bus_req /\ BusReq_s = bus_req
  /\ ~bus_ack => ~cpu_nmi /\ ~OldNMI /\ ~NMI_s

(***************************************************************************)
(* A handler of the main loop starts its first DMA session.  Between two   *)
(* handlers lies per_cmd_ack with its usleep(1000): several thousand Z80   *)
(* clocks, in which the Z80 settles.  A stopped Z80 issues no command: the *)
(* push-button's save state is all that is left.                           *)
(***************************************************************************)
StartHandler(c) ==
  /\ pc = "main" /\ Settled
  /\ bus_ack => c = "save_state"
  /\ caller' = c /\ pc' = "request"
  /\ UNCHANGED <<i, DMA_state, ctrl_bus, bus_req, nmi_pin,
                 z80Vars, cpu_nmi, slow>>

\* Mutant: no caller looks at the result.
ReturnRequest_Unchecked(ret) == pc' = "own"

\* DMA_request returns ret to its caller.  write_menu's failure ends main.
ReturnRequest(ret) ==
  pc' = IF ret \in Accepts(caller) THEN "own"
        ELSE IF caller = "write_menu" THEN "ended" ELSE "main"

RequestAlreadyDone ==
  /\ pc = "request" /\ DMA_state = 1 /\ bus_ack
  /\ ReturnRequest(ALREADY_DONE)
  /\ UNCHANGED <<caller, i, DMA_state, ctrl_bus, bus_req, nmi_pin,
                 z80Vars, cpu_nmi, slow>>

\* Mutant: the loop counter is not reset.
RequestSet_NoReset ==
  /\ pc = "request" /\ ~(DMA_state = 1 /\ bus_ack)
  /\ bus_req' = TRUE
  /\ pc' = "request_poll"
  /\ UNCHANGED <<caller, i, DMA_state, ctrl_bus, nmi_pin,
                 z80Vars, cpu_nmi, slow>>

RequestSet ==
  /\ pc = "request" /\ ~(DMA_state = 1 /\ bus_ack)
  /\ bus_req' = TRUE /\ i' = 0
  /\ pc' = "request_poll"
  /\ UNCHANGED <<caller, DMA_state, ctrl_bus, nmi_pin, z80Vars, cpu_nmi, slow>>

\* Mutant: the request is left pending.
RequestTimeOut_Pending ==
  /\ pc = "request_poll" /\ i >= RequestTries /\ "request" \in slow
  /\ ReturnRequest(TIMEOUT)
  /\ UNCHANGED <<caller, i, DMA_state, ctrl_bus, bus_req, nmi_pin,
                 z80Vars, cpu_nmi, slow>>

RequestTimeOut ==
  /\ pc = "request_poll" /\ i >= RequestTries /\ "request" \in slow
  /\ bus_req' = FALSE
  /\ ReturnRequest(TIMEOUT)
  /\ UNCHANGED <<caller, i, DMA_state, ctrl_bus, nmi_pin,
                 z80Vars, cpu_nmi, slow>>

\* One turn of the loop.  The counter stops at RequestTries when the loop is
\* assumed not to be outlasted.
RequestPoll ==
  /\ pc = "request_poll"
  /\ i < RequestTries \/ "request" \notin slow
  /\ i' = IF i < RequestTries THEN i + 1 ELSE i
  /\ IF bus_ack
     THEN DMA_state' = 1 /\ ReturnRequest(0)
     ELSE UNCHANGED <<DMA_state, pc>>
  /\ UNCHANGED <<caller, ctrl_bus, bus_req, nmi_pin, z80Vars, cpu_nmi, slow>>

(* read_mem, write_mem, read_io and write_io: the strobes on, then off. *)
BeginCycle(kind) ==
  /\ pc = "own"
  /\ ctrl_bus' = ctrl_bus \union Strobes(kind)
  /\ pc' = "cycle"
  /\ UNCHANGED <<caller, i, DMA_state, bus_req, nmi_pin,
                 z80Vars, cpu_nmi, slow>>

EndCycle ==
  /\ pc = "cycle"
  /\ \E kind \in CycleKinds :
       Strobes(kind) = ctrl_bus /\ ctrl_bus' = ctrl_bus \ Strobes(kind)
  /\ pc' = "own"
  /\ UNCHANGED <<caller, i, DMA_state, bus_req, nmi_pin,
                 z80Vars, cpu_nmi, slow>>

\* save_SNA returns with the bus held when the file cannot be created.
AbandonSession ==
  /\ pc = "own" /\ caller = "save_regs"
  /\ pc' = "main"
  /\ UNCHANGED <<caller, i, DMA_state, ctrl_bus, bus_req, nmi_pin,
                 z80Vars, cpu_nmi, slow>>

-----------------------------------------------------------------------------
(* DMA_stop *)
StopAlreadyDone ==
  /\ pc = "own" /\ caller \in EndsInStop /\ DMA_state = 0 /\ ~bus_ack
  /\ pc' = "main"
  /\ UNCHANGED <<caller, i, DMA_state, ctrl_bus, bus_req, nmi_pin,
                 z80Vars, cpu_nmi, slow>>

\* Mutant: DMA_stop waits without giving the bus back.
StopClear_Kept ==
  /\ pc = "own" /\ caller \in EndsInStop /\ (DMA_state = 1 \/ bus_ack)
  /\ i' = 0
  /\ pc' = "stop_poll"
  /\ UNCHANGED <<caller, DMA_state, ctrl_bus, bus_req, nmi_pin,
                 z80Vars, cpu_nmi, slow>>

StopClear ==
  /\ pc = "own" /\ caller \in EndsInStop /\ (DMA_state = 1 \/ bus_ack)
  /\ bus_req' = FALSE /\ i' = 0
  /\ pc' = "stop_poll"
  /\ UNCHANGED <<caller, DMA_state, ctrl_bus, nmi_pin, z80Vars, cpu_nmi, slow>>

\* Mutant: the failing DMA_stop does not ask for the bus again.
StopTimeOut_Dropped ==
  /\ pc = "stop_poll" /\ i >= StopTries /\ "stop" \in slow
  /\ pc' = "main"
  /\ UNCHANGED <<caller, i, DMA_state, ctrl_bus, bus_req, nmi_pin,
                 z80Vars, cpu_nmi, slow>>

StopTimeOut ==
  /\ pc = "stop_poll" /\ i >= StopTries /\ "stop" \in slow
  /\ bus_req' = TRUE
  /\ pc' = "main"
  /\ UNCHANGED <<caller, i, DMA_state, ctrl_bus, nmi_pin,
                 z80Vars, cpu_nmi, slow>>

StopPoll ==
  /\ pc = "stop_poll"
  /\ i < StopTries \/ "stop" \notin slow
  /\ i' = IF i < StopTries THEN i + 1 ELSE i
  /\ IF bus_ack
     THEN UNCHANGED <<DMA_state, pc>>
     ELSE DMA_state' = 0 /\ pc' = "main"
  /\ UNCHANGED <<caller, ctrl_bus, bus_req, nmi_pin, z80Vars, cpu_nmi, slow>>

(* DMA_stop_w_interrupt: NMI_SET, BUS_REQ_CLR, wait, NMI_CLR. *)
NmiSet ==
  /\ pc = "own" /\ caller \in EndsInNmi
  /\ nmi_pin' = TRUE /\ cpu_nmi' = Latch(TRUE, m1, cpu_nmi)
  /\ pc' = "nmi_release"
  /\ UNCHANGED <<caller, i, DMA_state, ctrl_bus, bus_req, z80Vars, slow>>

\* Mutant: the bus is not given back before the wait.
NmiReleaseBus_Kept ==
  /\ pc = "nmi_release"
  /\ pc' = "nmi_wait"
  /\ UNCHANGED <<caller, i, DMA_state, ctrl_bus, bus_req, nmi_pin,
                 z80Vars, cpu_nmi, slow>>

NmiReleaseBus ==
  /\ pc = "nmi_release"
  /\ bus_req' = FALSE
  /\ pc' = "nmi_wait"
  /\ UNCHANGED <<caller, i, DMA_state, ctrl_bus, nmi_pin,
                 z80Vars, cpu_nmi, slow>>

\* Mutant: DMA_state keeps saying that the firmware has the bus.
NmiClear_StaleRecord ==
  /\ pc = "nmi_wait" /\ ~bus_ack
  /\ nmi_pin' = FALSE /\ cpu_nmi' = Latch(FALSE, m1, cpu_nmi)
  /\ \E next \in AfterNmi(caller) :
       IF next = "main" THEN pc' = "main" /\ UNCHANGED caller
                        ELSE pc' = "between" /\ caller' = next
  /\ UNCHANGED <<i, DMA_state, ctrl_bus, bus_req, z80Vars, slow>>

\* The loop ends once BUSAK is off; the handler goes on to what follows.
NmiClear ==
  /\ pc = "nmi_wait" /\ ~bus_ack
  /\ nmi_pin' = FALSE /\ cpu_nmi' = Latch(FALSE, m1, cpu_nmi)
  /\ DMA_state' = 0
  /\ \E next \in AfterNmi(caller) :
       IF next = "main" THEN pc' = "main" /\ UNCHANGED caller
                        ELSE pc' = "between" /\ caller' = next
  /\ UNCHANGED <<i, ctrl_bus, bus_req, z80Vars, slow>>

\* Mutant: the second session of save_SNA follows at once.
NextSession_AtOnce ==
  /\ pc = "between" /\ pc' = "request"
  /\ UNCHANGED <<caller, i, DMA_state, ctrl_bus, bus_req, nmi_pin,
                 z80Vars, cpu_nmi, slow>>

\* The next session of the same handler.  save_SNA prints three lines before
\* its second request, in which the Z80 ends its instruction at least and takes
\* the NMI; the restore sessions may follow at once.
NextSession ==
  /\ pc = "between"
  /\ caller = "save_regs" => ~cpu_nmi /\ ~OldNMI /\ ~NMI_s
  /\ pc' = "request"
  /\ UNCHANGED <<caller, i, DMA_state, ctrl_bus, bus_req, nmi_pin,
                 z80Vars, cpu_nmi, slow>>

-----------------------------------------------------------------------------
(***************************************************************************)
(* The Z80.  Every clock samples BUSRQ and the NMI line; what else happens *)
(* depends on where in a machine cycle the clock falls.                    *)
(***************************************************************************)
SamplePins == /\ BusReq_s' = bus_req
              /\ OldNMI' = cpu_nmi

Edge == cpu_nmi /\ ~OldNMI

\* The Z80 leaves the fetch, or is in the middle of a machine cycle.
MidCycle ==
  /\ ~bus_ack
  /\ SamplePins /\ NMI_s' = (NMI_s \/ Edge)
  /\ m1' = FALSE /\ cpu_nmi' = Latch(nmi_pin, FALSE, cpu_nmi)
  /\ UNCHANGED <<bus_ack, fwVars, slow>>

\* Off the bus: nothing but the sampling.
Frozen ==
  /\ bus_ack /\ BusReq_s
  /\ SamplePins /\ NMI_s' = (NMI_s \/ Edge)
  /\ UNCHANGED <<bus_ack, m1, cpu_nmi, fwVars, slow>>

\* The end of a machine cycle with a request sampled: the bus is granted.
GrantBus ==
  /\ ~bus_ack /\ BusReq_s /\ ~m1
  /\ SamplePins /\ NMI_s' = (NMI_s \/ Edge)
  /\ bus_ack' = TRUE
  /\ UNCHANGED <<m1, cpu_nmi, fwVars, slow>>

\* The end of a machine cycle without one: the next cycle of the instruction.
NextCycle ==
  /\ ~BusReq_s /\ ~m1
  /\ SamplePins /\ NMI_s' = (NMI_s \/ Edge)
  /\ bus_ack' = FALSE
  /\ UNCHANGED <<m1, cpu_nmi, fwVars, slow>>

\* The end of an instruction: a pending NMI is serviced, then a new fetch.
NextInstruction ==
  /\ ~BusReq_s /\ ~m1
  /\ SamplePins
  /\ NMI_s' = (~NMI_s /\ Edge)
  /\ bus_ack' = FALSE
  /\ m1' = TRUE /\ cpu_nmi' = Latch(nmi_pin, TRUE, cpu_nmi)
  /\ UNCHANGED <<fwVars, slow>>

\* The fetch that follows a prefix: no interrupt is taken before it.
PrefixedFetch ==
  /\ ~BusReq_s /\ ~m1
  /\ SamplePins /\ NMI_s' = (NMI_s \/ Edge)
  /\ bus_ack' = FALSE
  /\ m1' = TRUE /\ cpu_nmi' = Latch(nmi_pin, TRUE, cpu_nmi)
  /\ UNCHANGED <<fwVars, slow>>

-----------------------------------------------------------------------------
(***************************************************************************)
(* KEY0 resets everything, one part after the other (top.vhd's reset       *)
(* counter): the NIOS first, whose outputs go to their reset values and    *)
(* whose DMA_init then sets the same, the Z80 some of its clocks later,    *)
(* and well before the firmware is up again.                               *)
(***************************************************************************)
ResetNios ==
  /\ pc # "reset" /\ pc' = "reset"
  /\ caller' = "write_menu" /\ i' = 0
  /\ DMA_state' = 0 /\ ctrl_bus' = {} /\ bus_req' = FALSE
  /\ nmi_pin' = FALSE /\ cpu_nmi' = Latch(FALSE, m1, cpu_nmi)
  /\ UNCHANGED <<z80Vars, slow>>

\* The Z80 forgets all but its last sample of the NMI line; the latch in
\* front of that line has no reset.
ResetZ80 ==
  /\ pc = "reset" /\ pc' = "main"
  /\ bus_ack' = FALSE /\ BusReq_s' = FALSE /\ m1' = FALSE /\ NMI_s' = FALSE
  /\ UNCHANGED <<caller, i, DMA_state, ctrl_bus, bus_req, nmi_pin,
                 OldNMI, cpu_nmi, slow>>

Request == RequestAlreadyDone \/ RequestSet \/ RequestTimeOut \/ RequestPoll
Cycle   == (\E kind \in CycleKinds : BeginCycle(kind)) \/ EndCycle
Stop    == StopAlreadyDone \/ StopClear \/ StopTimeOut \/ StopPoll
StopWithInterrupt == NmiSet \/ NmiReleaseBus \/ NmiClear \/ NextSession
Z80     == MidCycle \/ Frozen \/ GrantBus \/ NextCycle \/ NextInstruction
           \/ PrefixedFetch

Next == \/ \E c \in Handlers : StartHandler(c)
        \/ Request \/ Cycle \/ AbandonSession \/ Stop \/ StopWithInterrupt
        \/ Z80 \/ ResetNios \/ ResetZ80

Spec == Init /\ [][Next]_vars

(***************************************************************************)
(* Fairness.  The firmware is one thread that is never blocked, so it      *)
(* takes its next step; its transfers have a fixed length, so a session    *)
(* that may leave "own" again and again does so.  The Z80's clock may      *)
(* stretch but never stops for good, and an instruction has at most six    *)
(* machine cycles.  The reset counter runs out.  Nothing makes a handler   *)
(* start, and nobody has to press KEY0.                                    *)
(***************************************************************************)
LeaveOwn == AbandonSession \/ StopAlreadyDone \/ StopClear \/ NmiSet

Fairness ==
  /\ WF_vars(Request) /\ WF_vars(EndCycle) /\ SF_vars(LeaveOwn)
  /\ WF_vars(StopTimeOut \/ StopPoll)
  /\ WF_vars(NmiReleaseBus \/ NmiClear \/ NextSession)
  /\ WF_vars(MidCycle) /\ WF_vars(Frozen) /\ WF_vars(GrantBus)
  /\ SF_vars(NextInstruction)
  /\ WF_vars(ResetZ80)

FairSpec == Spec /\ Fairness

-----------------------------------------------------------------------------
(* Types of all variables; the counter stays within its loop's bound. *)
TypeOK ==
  /\ pc \in {"main", "request", "request_poll", "own", "cycle", "stop_poll",
             "nmi_release", "nmi_wait", "between", "ended", "reset"}
  /\ caller \in Callers
  /\ i \in Nat
  /\ pc = "request_poll" => i <= RequestTries
  /\ pc = "stop_poll" => i <= StopTries
  /\ DMA_state \in {0, 1}
  /\ ctrl_bus \in SUBSET {"RD", "WR", "MREQ", "IORQ"}
  /\ bus_req \in BOOLEAN /\ nmi_pin \in BOOLEAN
  /\ bus_ack \in BOOLEAN /\ BusReq_s \in BOOLEAN
  /\ m1 \in BOOLEAN /\ cpu_nmi \in BOOLEAN
  /\ OldNMI \in BOOLEAN /\ NMI_s \in BOOLEAN
  /\ slow \subseteq {"request", "stop"}

(***************************************************************************)
(* Every handler that looks at the result of DMA_request drives its        *)
(* strobes only while the Z80 is off the bus, whatever requests timed out, *)
(* were answered late or were left pending by the handlers before it       *)
(* (dma_hal.c: DMA_request, DMA_stop, read_mem .. write_io).               *)
(***************************************************************************)
CheckedCyclesOwnBus == ctrl_bus # {} /\ caller \in Checked => bus_ack

(***************************************************************************)
(* Between handlers the firmware's record agrees with the line it drives:  *)
(* DMA_request's ALREADY_DONE test (dma_hal.c:23) relies on it.  It does   *)
(* not hold after a DMA_stop that timed out.                               *)
(***************************************************************************)
RecordMatchesLine ==
  "stop" \notin slow /\ pc = "main" => (DMA_state = 1 <=> bus_req)

(***************************************************************************)
(* ALREADY_DONE (dma_hal.c:23) is only ever answered, and DMA_state only    *)
(* ever 1 between handlers, while the bus is still being asked for.        *)
(***************************************************************************)
HeldBusIsRequested == DMA_state = 1 /\ pc \in {"main", "own", "cycle"} => bus_req

(***************************************************************************)
(* The Z80 is left stopped between two handlers in two cases only: after   *)
(* save_SNA could not create its file (formats.c:318-321), and after a     *)
(* DMA_stop that timed out, whose result nobody reads (formats.c:210, 393).*)
(***************************************************************************)
StoppedOnlyAfterFailure ==
  pc = "main" /\ bus_req =>
    \/ caller = "save_regs"
    \/ "stop" \in slow /\ caller \in EndsInStop

(***************************************************************************)
(* When a session is about to raise the NMI the latch of top.vhd is clear, *)
(* so that the Z80 sees an edge (T80 reacts to falling edges only).        *)
(***************************************************************************)
NmiRearmed ==
  "stop" \notin slow /\ pc = "own" /\ caller \in EndsInNmi => ~cpu_nmi /\ ~OldNMI

(***************************************************************************)
(* The pulse of every DMA_stop_w_interrupt of a checked session reaches    *)
(* the Z80, though the firmware takes it back as soon as BUSAK is off, and *)
(* the Z80 services it, unless both are reset before.                      *)
(***************************************************************************)
NmiServiced ==
  /\ "stop" \notin slow /\ pc = "nmi_release" /\ caller \in Checked
       ~> NMI_s \/ pc = "reset"
  /\ "stop" \notin slow /\ NMI_s ~> ~NMI_s

(* A handler that asked for the bus comes back to the main loop, also when   *)
(* KEY0 strikes it down in the middle of a session.                          *)
HandlersReturn == pc = "request" ~> pc \in {"main", "ended"}

\* The refinement mapping: who is off the bus, and which cycle the strobes of
\* a checked session make.
LeaseOwner == IF bus_ack THEN "nios" ELSE "z80"
KindOf(strobes) == CHOOSE kind \in CycleKinds : Strobes(kind) = strobes
LeaseCycle ==
  IF pc = "cycle" /\ caller \in Checked THEN KindOf(ctrl_bus) ELSE "none"

Lease == INSTANCE BusLease WITH owner <- LeaseOwner, cycle <- LeaseCycle

(***************************************************************************)
(* The checked sessions implement the abstract lease of the buses.         *)
(***************************************************************************)
LeaseRefinement == Lease!LeaseSpec
=============================================================================
