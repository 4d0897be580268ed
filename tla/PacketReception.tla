--------------------------- MODULE PacketReception --------------------------
(***************************************************************************)
(* The way of a packet from the link layer to an application, and the      *)
(* threads and the process it takes: raw_link_layer.py and                 *)
(* cv2x_link_layer.py of src/src/flexstack/linklayer, gn_data_indicate of  *)
(* geonet/router.py, btp/router.py, and the start of a station as in       *)
(* src/examples.                                                           *)
(*                                                                         *)
(* What the handlers of the GeoNetworking router do is in GeoBroadcast,    *)
(* PacketForwarding and LocationService; here a packet gets through them   *)
(* or not.  multiprocessing.Queue is an unbounded buffer in the process    *)
(* that puts, whose feeder thread writes to a pipe that is bounded; a      *)
(* process ends when its feeder has written all.                           *)
(***************************************************************************)
EXTENDS Integers, Sequences

CONSTANTS
  Packet,   \* the packets that are tried: see below
  PipeSize, \* packets that fit into the pipe
  Received, \* packets the radio brings, at most
  None      \* what stop puts into the queue

(* nh, ht: the next header of the basic header, the header type; sound: it *)
(* can be decoded, and its hop limit is; handler: what becomes of it in    *)
(* the handler, where forwarding may raise an OSError; btp: of BTP type A  *)
(* or B; port: an application has registered it.                           *)
PacketAssumption ==
  /\ Packet \subseteq
       [nh : {"common", "secured", "any"}, verified : BOOLEAN, sound : BOOLEAN,
        ht : {"any", "data", "beacon or LS"},
        handler : {"drop", "pass", "OSError"},
        btp : BOOLEAN, port : BOOLEAN, app : {"returns", "raises"}]
  /\ None \notin Packet /\ PipeSize \in Nat \ {0} /\ Received \in Nat

VARIABLES
  cv2x,     \* the link layer is that of C-V2X, not the raw one
  security, \* itsGnSecurity is ENABLED
  main,     \* the main thread: "register", "freeze", "start", "run", and in
            \*   stop "join", "put", "wait", "stopped"
  frozen,   \* indication_callbacks is not None
  stopping, \* stop_event
  process,  \* "none", "check" of the event, "receive", "leaving", "gone"
  buffer,   \* packets put by the process and not yet written to the pipe
  sentinel, \* None put by stop and not yet written
  pipe,     \* callback_queue
  handler,  \* the thread that calls the router: "none", "listening",
            \*   "raised", "returned"
  taken,    \* packets received from the radio
  handled   \* and that the callback has returned from

vars == <<cv2x, security, main, frozen, stopping, process, buffer, sentinel, pipe,
          handler, taken, handled>>

Setting == <<cv2x, security>>

Init ==
  /\ cv2x \in BOOLEAN /\ security \in BOOLEAN
  /\ main = "register" /\ frozen = FALSE
  /\ stopping = FALSE /\ process = "none"
  /\ buffer = <<>> /\ sentinel = FALSE /\ pipe = <<>>
  /\ handler = "none" /\ taken = 0 /\ handled = 0

-----------------------------------------------------------------------------
(* What comes of a packet: the call "returns", raises "NotImplementedError"*)
(* (which a loop of the link layer reports), or raises something "else".   *)

(* BTP: btp_data_indication and the callback of the port.                  *)
Indication(p) ==
  CASE ~p.btp \/ ~frozen -> "else"
    [] p.btp /\ frozen /\ ~p.port -> "returns"
    [] p.btp /\ frozen /\ p.port -> IF p.app = "raises" THEN "else" ELSE "returns"

(* process_common_header                                                   *)
Common(p) ==
  CASE ~p.sound -> "else"
    [] p.sound /\ p.ht = "any" -> "NotImplementedError"
    [] p.sound /\ p.ht # "any" /\ p.handler = "OSError" -> "else"
    [] p.sound /\ p.ht = "data" /\ p.handler = "pass" -> Indication(p)
    [] OTHER -> "returns"

(* process_basic_header, process_security_header                           *)
Outcome(p) ==
  CASE p.nh = "any" -> "NotImplementedError"
    [] p.nh = "common" /\ security -> "returns"
    [] p.nh = "secured" /\ ~p.verified -> "returns"
    [] OTHER -> Common(p)

(* The loop that calls gn_data_indicate goes on, or its thread ends.       *)
Call(p) ==
  IF Outcome(p) = "else"
  THEN handler' = "raised" /\ UNCHANGED handled
  ELSE handled' = handled + 1 /\ UNCHANGED handler

-----------------------------------------------------------------------------
(* The main thread.                                                        *)

(* The services register their ports.                                      *)
Register ==
  /\ main = "register" /\ ~frozen
  /\ main' = "freeze"
  /\ UNCHANGED <<Setting, frozen, stopping, process, buffer, sentinel, pipe,
                 handler, taken, handled>>

FreezeCallbacks ==
  /\ main = "freeze"
  /\ main' = "start" /\ frozen' = TRUE
  /\ UNCHANGED <<Setting, stopping, process, buffer, sentinel, pipe, handler, taken, handled>>

(* The link layer is made: its thread, or its process and thread, start.   *)
Start ==
  /\ main = "start"
  /\ main' = "run" /\ handler' = "listening"
  /\ process' = IF cv2x THEN "check" ELSE "none"
  /\ UNCHANGED <<Setting, frozen, stopping, buffer, sentinel, pipe, taken, handled>>

(* Slip: the threads are told first, and waited for after it.              *)
SetEventAndPut == stopping' = TRUE /\ sentinel' = TRUE
SetEvent == stopping' = TRUE /\ UNCHANGED sentinel

(* stop: set the event, join the process, put None, join the thread.       *)
StopSet ==
  /\ main = "run" /\ cv2x
  /\ main' = "join" /\ SetEvent
  /\ UNCHANGED <<Setting, frozen, process, buffer, pipe, handler, taken, handled>>

StopJoin ==
  /\ main = "join" /\ process = "gone"
  /\ main' = "put"
  /\ UNCHANGED <<Setting, frozen, stopping, process, buffer, sentinel, pipe,
                 handler, taken, handled>>

StopPut ==
  /\ main = "put"
  /\ main' = "wait" /\ sentinel' = TRUE
  /\ UNCHANGED <<Setting, frozen, stopping, process, buffer, pipe, handler, taken, handled>>

StopWait ==
  /\ main = "wait" /\ handler \in {"raised", "returned"}
  /\ main' = "stopped"
  /\ UNCHANGED <<Setting, frozen, stopping, process, buffer, sentinel, pipe,
                 handler, taken, handled>>

Main ==
  \/ Register \/ FreezeCallbacks \/ Start \/ StopSet \/ StopJoin \/ StopPut \/ StopWait

-----------------------------------------------------------------------------
(* The raw link layer: receive.                                            *)

RawReceive(p) ==
  /\ ~cv2x /\ handler = "listening" /\ taken < Received
  /\ taken' = taken + 1
  /\ Call(p)
  /\ UNCHANGED <<Setting, main, frozen, stopping, process, buffer, sentinel, pipe>>

(* That of C-V2X: receive_process, which looks at the event only between   *)
(* two calls to the radio; a call may bring nothing.                       *)
Check ==
  /\ process = "check"
  /\ process' = IF stopping THEN "leaving" ELSE "receive"
  /\ UNCHANGED <<Setting, main, frozen, stopping, buffer, sentinel, pipe,
                 handler, taken, handled>>

Take(p) ==
  /\ process = "receive" /\ taken < Received
  /\ process' = "check" /\ taken' = taken + 1
  /\ buffer' = Append(buffer, p)
  /\ UNCHANGED <<Setting, main, frozen, stopping, sentinel, pipe, handler, handled>>

TakeNothing ==
  /\ process = "receive"
  /\ process' = "check"
  /\ UNCHANGED <<Setting, main, frozen, stopping, buffer, sentinel, pipe,
                 handler, taken, handled>>

Leave ==
  /\ process = "leaving" /\ buffer = <<>>
  /\ process' = "gone"
  /\ UNCHANGED <<Setting, main, frozen, stopping, buffer, sentinel, pipe,
                 handler, taken, handled>>

(* The feeder threads of the process and of the main program.              *)
Feed ==
  /\ buffer # <<>> /\ Len(pipe) < PipeSize
  /\ pipe' = Append(pipe, Head(buffer)) /\ buffer' = Tail(buffer)
  /\ UNCHANGED <<Setting, main, frozen, stopping, process, sentinel, handler, taken, handled>>

FeedSentinel ==
  /\ sentinel /\ Len(pipe) < PipeSize
  /\ pipe' = Append(pipe, None) /\ sentinel' = FALSE
  /\ UNCHANGED <<Setting, main, frozen, stopping, process, buffer, handler, taken, handled>>

(* callback_handler_loop                                                   *)
Handle ==
  /\ cv2x /\ handler = "listening" /\ pipe # <<>>
  /\ pipe' = Tail(pipe)
  /\ IF Head(pipe) = None THEN handler' = "returned" /\ UNCHANGED handled
     ELSE Call(Head(pipe))
  /\ UNCHANGED <<Setting, main, frozen, stopping, process, buffer, sentinel, taken>>

Next ==
  \/ Main \/ Check \/ TakeNothing \/ Leave \/ Feed \/ FeedSentinel \/ Handle
  \/ \E p \in Packet : RawReceive(p) \/ Take(p)

Spec == Init /\ [][Next]_vars

(* Once stop has been called, every thread goes on that can, and so does   *)
(* the process.                                                            *)
FairSpec ==
  /\ Spec
  /\ WF_vars(StopJoin \/ StopPut \/ StopWait)
  /\ WF_vars(Check \/ TakeNothing \/ Leave)
  /\ WF_vars(Feed) /\ WF_vars(FeedSentinel) /\ WF_vars(Handle)

-----------------------------------------------------------------------------
(* The shape of the state.                                                 *)
TypeOK ==
  /\ {cv2x, security, frozen, stopping, sentinel} \subseteq BOOLEAN
  /\ main \in {"register", "freeze", "start", "run", "join", "put", "wait", "stopped"}
  /\ process \in {"none", "check", "receive", "leaving", "gone"}
  /\ buffer \in Seq(Packet) /\ Len(pipe) <= PipeSize
  /\ handler \in {"none", "listening", "raised", "returned"}
  /\ {taken, handled} \subseteq 0..Received

(* What the process has taken from the radio is handled before stop        *)
(* returns, wherever it is when the event is set, as long as no packet     *)
(* ends the thread (the order of the calls in stop).                       *)
HandledBeforeStop == main = "stopped" /\ handler = "returned" => handled = taken

(* stop returns, whatever is on its way when it is called, if no packet    *)
(* has ended the thread.                                                   *)
StopReturns == stopping ~> (main = "stopped" \/ handler = "raised")

(* "Stops the receive process, callback thread, and cleans up resources."  *)
(* (PythonCV2XLinkLayer.stop).                                             *)
StopStops == stopping ~> main = "stopped"
=============================================================================
