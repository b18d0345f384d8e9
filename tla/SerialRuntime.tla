--------------------------- MODULE SerialRuntime ---------------------------
(***************************************************************************)
(* src/un260/app_service/app_serial_runtime.c with the two threads it runs *)
(* (protocol/protocol_rx_service.c, lv_drivers/uart_bridge_service.c), the *)
(* transmit side of lv_drivers/uart_io.c and the frame ring FrameQueue.    *)
(*                                                                         *)
(* "main" is the thread of main.c: it starts and stops the runtime, sends  *)
(* frames and pops received ones.  "rx" reads UART4 and pushes frames;     *)
(* "bridge" copies UART5 to UART4.  Received bytes are abstracted to the   *)
(* run of the runtime ("session") they were read in.                       *)
(***************************************************************************)
EXTENDS Integers, Sequences, FiniteSets

CONSTANTS
  Capacity,    \* slots of the frame ring
  MaxSession,  \* bound: how often the devices are opened
  FrameLength  \* bound: pieces write() may cut one frame into

ASSUME SerialAssumption ==
  /\ Capacity \in Nat \ {0} /\ MaxSession \in Nat \ {0} /\ FrameLength \in Nat \ {0}

Service == {"rx", "bridge"}
Thread == Service \cup {"main"}
Device == {"fd4", "fd5", "fd6"}
Session == 1 .. MaxSession

(* A received frame: the sessions its first and its last byte were read in *)
Received == [first : Session, last : Session]
NoReceived == [first |-> 0, last |-> 0]

VARIABLES
  open,      \* the devices whose descriptor is not -1
  session,   \* how often app_serial_runtime_start() has opened devices
  flag,      \* g_rx_started, g_bridge_started of app_serial_runtime.c
  g_started, \* g_started of each service
  g_running, \* g_running of each service
  pc,        \* where each thread is
  partial,   \* rx: the session of the first byte of a half-read frame, 0: none
  view,      \* rx: the frame the parser just completed
  txOwner,   \* who holds g_uart_tx_mutex
  unsent,    \* per thread: pieces of its frame uart_write_all() still has
  g_frames, g_head, g_tail, g_count, popped

serviceVars == <<flag, g_started, g_running>>
txVars == <<txOwner, unsent>>
rxVars == <<partial, view>>
queueVars == <<g_frames, g_head, g_tail, g_count, popped>>
Queue == INSTANCE FrameQueue WITH Frame <- Received, NoFrame <- NoReceived
vars == <<open, session, serviceVars, pc, rxVars, txVars, queueVars>>

Init ==
  /\ open = {}
  /\ session = 0
  /\ flag = [s \in Service |-> FALSE]
  /\ g_started = [s \in Service |-> FALSE]
  /\ g_running = [s \in Service |-> FALSE]
  /\ pc = [t \in Thread |-> IF t = "main" THEN "idle" ELSE "none"]
  /\ partial = 0
  /\ view = NoReceived
  /\ txOwner = "none"
  /\ unsent = [t \in Thread |-> 0]
  /\ Queue!Init

Goto(t, l) == pc' = [pc EXCEPT ![t] = l]

(* app_serial_runtime_is_started().                                        *)
IsStarted == flag["rx"] /\ flag["bridge"] /\ open = Device

-----------------------------------------------------------------------------
(* The main thread: start.  Opening may fail for some devices, and so may  *)
(* configuring them; both go to the clean-up of app_serial_runtime_stop(). *)
StartOpen ==
  /\ pc["main"] = "idle"
  /\ ~IsStarted /\ open = {}
  /\ session < MaxSession
  /\ session' = session + 1
  /\ \E opened \in SUBSET Device, configured \in BOOLEAN :
       /\ open' = opened
       /\ IF opened = Device /\ configured
            THEN Goto("main", "start_rx") /\ Queue!Clear
            ELSE Goto("main", "stop") /\ UNCHANGED queueVars
  /\ UNCHANGED <<serviceVars, rxVars, txVars>>

(* protocol_rx_service_start() and uart_bridge_service_start(): the thread *)
(* cannot pass its first should_run() before the state mutex is released.  *)
StartService(s, then) ==
  /\ ~g_started[s]
  /\ \E created \in BOOLEAN :
       IF created
         THEN /\ g_running' = [g_running EXCEPT ![s] = TRUE]
              /\ g_started' = [g_started EXCEPT ![s] = TRUE]
              /\ flag' = [flag EXCEPT ![s] = TRUE]
              /\ pc' = [pc EXCEPT ![s] = "check", !["main"] = then]
         ELSE /\ Goto("main", "stop")
              /\ UNCHANGED serviceVars
  /\ UNCHANGED <<open, session, txVars, queueVars>>

(* The receive thread starts with a fresh parser on its stack.             *)
StartRx_StaticParser == \* mutant: the parser outlives the thread
  /\ pc["main"] = "start_rx"
  /\ StartService("rx", "start_bridge")
  /\ UNCHANGED rxVars

StartRx ==
  /\ pc["main"] = "start_rx"
  /\ StartService("rx", "start_bridge")
  /\ partial' = 0 /\ view' = NoReceived

StartBridge ==
  /\ pc["main"] = "start_bridge"
  /\ StartService("bridge", "idle")
  /\ UNCHANGED rxVars

-----------------------------------------------------------------------------
(* The main thread: stop.                                                  *)
Stop ==
  /\ pc["main"] = "idle"
  /\ open # {}
  /\ Goto("main", "stop")
  /\ UNCHANGED <<open, session, serviceVars, rxVars, txVars, queueVars>>

(* A service's stop(): clear g_running under the mutex, join outside it.   *)
StopService_KeepsRunning(s, from, join, next) == \* mutant: never tells the thread
  /\ pc["main"] = from
  /\ Goto("main", IF flag[s] /\ g_started[s] THEN join ELSE next)
  /\ UNCHANGED <<open, session, flag, g_started, g_running, rxVars, txVars, queueVars>>

StopService(s, from, join, next) ==
  /\ pc["main"] = from
  /\ IF flag[s] /\ g_started[s]
       THEN g_running' = [g_running EXCEPT ![s] = FALSE] /\ Goto("main", join)
       ELSE UNCHANGED g_running /\ Goto("main", next)
  /\ UNCHANGED <<open, session, flag, g_started, rxVars, txVars, queueVars>>

JoinService_NoWait(s, join, next) == \* mutant: goes on before the thread ends
  /\ pc["main"] = join
  /\ Goto("main", next)
  /\ g_started' = [g_started EXCEPT ![s] = FALSE]
  /\ flag' = [flag EXCEPT ![s] = FALSE]
  /\ UNCHANGED <<open, session, g_running, rxVars, txVars, queueVars>>

JoinService_KeepsFlag(s, join, next) == \* mutant: the runtime's flag stays set
  /\ pc["main"] = join
  /\ pc[s] = "exited"
  /\ pc' = [pc EXCEPT ![s] = "none", !["main"] = next]
  /\ g_started' = [g_started EXCEPT ![s] = FALSE]
  /\ UNCHANGED <<open, session, flag, g_running, rxVars, txVars, queueVars>>

JoinService(s, join, next) ==
  /\ pc["main"] = join
  /\ pc[s] = "exited"
  /\ pc' = [pc EXCEPT ![s] = "none", !["main"] = next]
  /\ g_started' = [g_started EXCEPT ![s] = FALSE]
  /\ flag' = [flag EXCEPT ![s] = FALSE]
  /\ UNCHANGED <<open, session, g_running, rxVars, txVars, queueVars>>

StopBridge == StopService("bridge", "stop", "join_bridge", "stop_rx")
JoinBridge == JoinService("bridge", "join_bridge", "stop_rx")
StopRx == StopService("rx", "stop_rx", "join_rx", "close")
JoinRx == JoinService("rx", "join_rx", "close")

CloseDevices ==
  /\ pc["main"] = "close"
  /\ Queue!Clear
  /\ open' = {}
  /\ Goto("main", "idle")
  /\ UNCHANGED <<session, serviceVars, rxVars, txVars>>

-----------------------------------------------------------------------------
(* Transmission: uart_send() under g_uart_tx_mutex, for protocol_send() on *)
(* the main thread and for the bridge.                                     *)
SendCalled ==
  /\ pc["main"] = "idle"
  /\ "fd4" \in open
  /\ Goto("main", "lock")
  /\ UNCHANGED <<open, session, serviceVars, rxVars, txVars, queueVars>>

LockTx_NoMutex(t) == \* mutant: uart_send() without g_uart_tx_mutex
  /\ pc[t] = "lock"
  /\ txOwner' = t
  /\ unsent' = [unsent EXCEPT ![t] = FrameLength]
  /\ Goto(t, "write")
  /\ UNCHANGED <<open, session, serviceVars, rxVars, queueVars>>

LockTx(t) ==
  /\ pc[t] = "lock"
  /\ txOwner = "none"
  /\ txOwner' = t
  /\ unsent' = [unsent EXCEPT ![t] = FrameLength]
  /\ Goto(t, "write")
  /\ UNCHANGED <<open, session, serviceVars, rxVars, queueVars>>

AfterSend(t) == IF t = "main" THEN "idle" ELSE "check"

(* One write() of uart_write_all(): some of the rest, all of it, or an     *)
(* error that gives up on the rest; the mutex is released at the end only. *)
Write(t) ==
  /\ pc[t] = "write"
  /\ \E left \in 0 .. unsent[t] - 1 :
       /\ unsent' = [unsent EXCEPT ![t] = left]
       /\ IF left = 0
            THEN txOwner' = "none" /\ Goto(t, AfterSend(t))
            ELSE UNCHANGED <<txOwner, pc>>
  /\ UNCHANGED <<open, session, serviceVars, rxVars, queueVars>>

WriteFails(t) ==
  /\ pc[t] = "write"
  /\ unsent' = [unsent EXCEPT ![t] = 0]
  /\ txOwner' = "none"
  /\ Goto(t, AfterSend(t))
  /\ UNCHANGED <<open, session, serviceVars, rxVars, queueVars>>

-----------------------------------------------------------------------------
(* The service threads' loops.                                             *)
CheckRunning(s) ==
  /\ pc[s] = "check"
  /\ Goto(s, IF g_running[s] THEN "recv" ELSE "exited")
  /\ UNCHANGED <<open, session, serviceVars, rxVars, txVars, queueVars>>

(* uart_recv() timed out, failed, or read bytes that complete no frame.    *)
RecvNothing(s) ==
  /\ pc[s] = "recv"
  /\ Goto(s, "check")
  /\ UNCHANGED <<open, session, serviceVars, rxVars, txVars, queueVars>>

RxFirstByte ==
  /\ pc["rx"] = "recv"
  /\ partial = 0
  /\ partial' = session
  /\ Goto("rx", "check")
  /\ UNCHANGED <<open, session, serviceVars, view, txVars, queueVars>>

RxLastByte ==
  /\ pc["rx"] = "recv"
  /\ partial # 0
  /\ view' = [first |-> partial, last |-> session]
  /\ partial' = 0
  /\ Goto("rx", "push")
  /\ UNCHANGED <<open, session, serviceVars, txVars, queueVars>>

RxPush ==
  /\ pc["rx"] = "push"
  /\ Queue!Push(view) \/ Queue!PushRefused
  /\ Goto("rx", "check")
  /\ UNCHANGED <<open, session, serviceVars, rxVars, txVars>>

BridgeChunk ==
  /\ pc["bridge"] = "recv"
  /\ Goto("bridge", "lock")
  /\ UNCHANGED <<open, session, serviceVars, rxVars, txVars, queueVars>>

(* The main loop takes the next frame (app_command_runtime.c:138-147).     *)
PopFrame ==
  /\ pc["main"] = "idle"
  /\ Queue!Pop
  /\ UNCHANGED <<open, session, serviceVars, pc, rxVars, txVars>>

RxStep == CheckRunning("rx") \/ RecvNothing("rx") \/ RxFirstByte \/ RxLastByte \/ RxPush
BridgeStep ==
  \/ CheckRunning("bridge") \/ RecvNothing("bridge") \/ BridgeChunk
  \/ LockTx("bridge") \/ Write("bridge") \/ WriteFails("bridge")
MainStep ==
  \/ StartRx \/ StartBridge
  \/ StopBridge \/ JoinBridge \/ StopRx \/ JoinRx \/ CloseDevices
  \/ LockTx("main") \/ Write("main") \/ WriteFails("main")
Call == StartOpen \/ Stop \/ SendCalled \/ PopFrame

Next == RxStep \/ BridgeStep \/ MainStep \/ Call

(* Each thread is scheduled, and select() returns after at most its 10 ms  *)
(* or 100 ms.  Nobody has to start, stop, send or pop.                     *)
Fairness == WF_vars(RxStep) /\ WF_vars(BridgeStep) /\ WF_vars(MainStep)

Spec == Init /\ [][Next]_vars /\ Fairness

-----------------------------------------------------------------------------
Alive(s) == pc[s] \notin {"none", "exited"}

TypeOK ==
  /\ open \subseteq Device
  /\ session \in 0 .. MaxSession
  /\ flag \in [Service -> BOOLEAN]
  /\ g_started \in [Service -> BOOLEAN]
  /\ g_running \in [Service -> BOOLEAN]
  /\ pc \in [Thread -> {"none", "idle", "start_rx", "start_bridge", "stop", "join_bridge",
                        "stop_rx", "join_rx", "close", "lock", "write", "check", "recv",
                        "push", "exited"}]
  /\ partial \in 0 .. MaxSession
  /\ view \in Received \cup {NoReceived}
  /\ txOwner \in Thread \cup {"none"}
  /\ unsent \in [Thread -> 0 .. FrameLength]
  /\ Queue!TypeOK

(* No thread touches a descriptor that stop() has closed: the receive      *)
(* thread's UART4, the bridge's UART5 and UART4, and the UART6 both log to *)
(* stay open until both threads are joined (app_serial_runtime.c:114-126). *)
NoUseAfterClose == \A s \in Service : Alive(s) => open = Device

(* Frames on UART4 are not cut into each other: while one thread has       *)
(* written part of a frame no other thread has begun one (uart_io.c:67-80, *)
(* partial writes of lines 47-62 included).                                *)
OneSenderMidFrame ==
  \A t, u \in Thread :
    (t # u /\ unsent[t] \in 1 .. FrameLength - 1) => unsent[u] = 0

(* Start is all or nothing: whenever the main thread is back in its loop   *)
(* either both threads run on three open devices, or a failed or finished  *)
(* session left no thread, no device and no waiting frame behind           *)
(* (app_serial_runtime.c:69-126).                                          *)
AllOrNothing ==
  pc["main"] = "idle" =>
    \/ IsStarted /\ \A s \in Service : Alive(s) /\ g_running[s] /\ g_started[s]
    \/ /\ open = {} /\ g_count = 0
       /\ \A s \in Service : pc[s] = "none" /\ ~g_started[s] /\ ~flag[s]

(* The main loop never handles bytes of an earlier session: a frame half   *)
(* received or still waiting when the runtime stopped is not delivered     *)
(* after a restart (queue clears at app_serial_runtime.c:95, 124; parser   *)
(* on the thread's stack at protocol_rx_service.c:38-46).                  *)
OnlyThisSession ==
  [][PopFrame => popped'.first = session /\ popped'.last = session]_vars

(* stop() returns: neither join waits for a thread that waits for the main *)
(* thread (protocol_rx_service.c:157-177, uart_bridge_service.c:139-160).  *)
StopReturns == pc["main"] = "stop" ~> (pc["main"] = "idle" /\ open = {})
=============================================================================
