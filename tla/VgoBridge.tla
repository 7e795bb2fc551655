------------------------------ MODULE VgoBridge ------------------------------
(***************************************************************************)
(* The bridge that takes touch input to a program on the client's side:    *)
(* the UI thread puts events into the one current frame, and the bridge's  *)
(* thread sends the frame to the one connected client, 30 times a second.  *)
(* Both do so under the monitor of the frame, which the bridge keeps while *)
(* it writes to the socket.  Nobody calls VGOBridgeMarshall.Stop.          *)
(***************************************************************************)
EXTENDS Naturals, Sequences, SequencesExt

CONSTANTS MaxAdds,     \* bound: clicks and keys
          MaxShifts,   \* bound: shifts of the pointer
          MaxClients,  \* bound: clients that connect
          Capacity     \* frames that a socket takes from a client that does not read

ASSUME BoundAssumption == /\ MaxAdds \in Nat /\ MaxShifts \in Nat
                          /\ MaxClients \in Nat /\ Capacity \in Nat \ {0}

VARIABLES
  bound,    \* serverSocket is not null: the port was free
  bridge,   \* marshallThread: "accept", "frame", "header", "data", "flush", "nap"
  ui,       \* the UI thread: "idle", or which method it is in, "add" or "set"
  events,   \* currentFrame.events: the number of a click or key, 0 the shift
  shift,    \* args of the event that SetEvent looks for
  buffer,   \* what Compile has written: <<events, shift>>
  conn,     \* the socket: "none", "up", "closed" by the client, "reset"
  backlog,  \* clients that the bridge has not accepted yet
  pipe,     \* frames that the client has not read yet
  added, shifted, clients,  \* how many there have been of each
  sent,     \* history: the clicks and keys handed to sockets in whole frames
  pointed   \* history: the last shift handed to a socket

counts == <<added, shifted, clients>>
frame  == <<events, shift>>
net    == <<conn, backlog, pipe>>
vars   == <<bound, bridge, ui, frame, buffer, net, counts, sent, pointed>>

Init ==
  /\ bound \in BOOLEAN /\ bridge = "accept" /\ ui = "idle"
  /\ events = <<>> /\ shift = 0 /\ buffer = <<<<>>, 0>>
  /\ conn = "none" /\ backlog = 0 /\ pipe = 0
  /\ added = 0 /\ shifted = 0 /\ clients = 0
  /\ sent = <<>> /\ pointed = 0

\* The clicks and keys of a frame; SetEvent leaves at most one shift in it.
Keys(es) == RemoveFirst(es, 0)

\* The bridge's thread is inside synchronized(currentFrame).
Locked == bridge \in {"header", "data", "flush"}

-----------------------------------------------------------------------------
(* The UI thread. *)

\* TouchDevice calls the bridge for a button or key, or for a shift.
Touch ==
  /\ ui = "idle"
  /\ \/ added < MaxAdds /\ ui' = "add"
     \/ shifted < MaxShifts /\ ui' = "set"
  /\ UNCHANGED <<bound, bridge, frame, buffer, net, counts, sent, pointed>>

\* AddByteEvent, AddIntEvent
AddEvent ==
  /\ ui = "add" /\ ~Locked
  /\ added' = added + 1
  /\ events' = Append(events, added')
  /\ ui' = "idle"
  /\ UNCHANGED <<bound, bridge, shift, buffer, net, shifted, clients, sent, pointed>>

\* SetEvent: the shift that is in the frame already gets the new arguments.
SetEvent ==
  /\ ui = "set" /\ ~Locked
  /\ shifted' = shifted + 1
  /\ shift' = shifted'
  /\ events' = IF Contains(events, 0) THEN events ELSE Append(events, 0)
  /\ ui' = "idle"
  /\ UNCHANGED <<bound, bridge, buffer, net, added, clients, sent, pointed>>

-----------------------------------------------------------------------------
(* The bridge's thread. *)

\* TryAcceptConnection: the client may have hung up before it is accepted.
AcceptClient ==
  /\ bridge = "accept" /\ bound /\ backlog > 0
  /\ backlog' = backlog - 1 /\ pipe' = 0
  /\ conn' \in {"up", "closed"}
  /\ bridge' = "frame"
  /\ UNCHANGED <<bound, ui, frame, buffer, counts, sent, pointed>>

\* TryAcceptConnection without a serverSocket.
AcceptFails ==
  /\ bridge = "accept" /\ ~bound
  /\ bridge' = "nap"
  /\ UNCHANGED <<bound, ui, frame, buffer, net, counts, sent, pointed>>

\* HandleLoop: Compile, when the frame is not empty; otherwise it changes nothing.
Compile ==
  /\ bridge = "frame" /\ events # <<>>
  /\ buffer' = frame
  /\ bridge' = "header"
  /\ UNCHANGED <<bound, ui, frame, net, counts, sent, pointed>>

\* A write that the socket takes.  To a client that hung up it goes once or more, until
\* the reset comes back.
Taken ==
  \/ conn = "up" /\ pipe < Capacity /\ UNCHANGED conn
  \/ conn = "closed" /\ conn' \in {"closed", "reset"}

\* SendData: the length, and its flush.
WriteHeader ==
  /\ bridge = "header" /\ Taken
  /\ bridge' = "data"
  /\ UNCHANGED <<bound, ui, frame, buffer, backlog, pipe, counts, sent, pointed>>

\* SendData: the frame.
WriteData ==
  /\ bridge = "data" /\ Taken
  /\ bridge' = "flush"
  /\ pipe' = IF conn = "up" THEN pipe + 1 ELSE pipe
  /\ sent' = sent \o Keys(buffer[1])
  /\ pointed' = IF Contains(buffer[1], 0) THEN buffer[2] ELSE pointed
  /\ UNCHANGED <<bound, ui, frame, buffer, backlog, counts>>

\* VGOBridgeFrame.Flush
Flush ==
  /\ bridge = "flush"
  /\ events' = <<>> /\ buffer' = <<<<>>, 0>>
  /\ bridge' = "frame"
  /\ UNCHANGED <<bound, ui, shift, net, counts, sent, pointed>>

\* Mutant: the exception is caught within HandleLoop.
WriteIgnored ==
  /\ bridge \in {"header", "data"} /\ conn = "reset"
  /\ bridge' = "frame"
  /\ UNCHANGED <<bound, ui, frame, buffer, net, counts, sent, pointed>>

\* Mutant: the frame does not survive the client.
WriteDropsFrame ==
  /\ bridge \in {"header", "data"} /\ conn = "reset"
  /\ bridge' = "nap" /\ conn' = "none"
  /\ events' = <<>>
  /\ UNCHANGED <<bound, ui, shift, buffer, backlog, pipe, counts, sent, pointed>>

\* Mutant: SendData tries again, whatever the error.
WriteRetries ==
  /\ bridge \in {"header", "data"} /\ conn = "reset"
  /\ UNCHANGED vars

\* A write that throws leaves HandleLoop, the monitor and the socket; the frame stays.
WriteFails ==
  /\ bridge \in {"header", "data"} /\ conn = "reset"
  /\ bridge' = "nap" /\ conn' = "none"
  /\ UNCHANGED <<bound, ui, frame, buffer, backlog, pipe, counts, sent, pointed>>

\* Run: Sleep(1000), and the next connection.
NapEnds ==
  /\ bridge = "nap"
  /\ bridge' = "accept"
  /\ UNCHANGED <<bound, ui, frame, buffer, net, counts, sent, pointed>>

-----------------------------------------------------------------------------
(* Clients. *)

Connect ==
  /\ bound /\ clients < MaxClients
  /\ clients' = clients + 1 /\ backlog' = backlog + 1
  /\ UNCHANGED <<bound, bridge, ui, frame, buffer, conn, pipe, added, shifted, sent, pointed>>

Read ==
  /\ conn = "up" /\ pipe > 0
  /\ pipe' = pipe - 1
  /\ UNCHANGED <<bound, bridge, ui, frame, buffer, conn, backlog, counts, sent, pointed>>

\* The client closes its socket, at once with a reset if it has not read everything.
HangUp ==
  /\ conn = "up"
  /\ conn' = IF pipe > 0 THEN "reset" ELSE "closed"
  /\ UNCHANGED <<bound, bridge, ui, frame, buffer, backlog, pipe, counts, sent, pointed>>

Ui == AddEvent \/ SetEvent

Bridge ==
  \/ AcceptClient \/ AcceptFails \/ Compile \/ WriteHeader \/ WriteData \/ Flush
  \/ WriteFails \/ NapEnds

Next == Touch \/ Ui \/ Bridge \/ Connect \/ Read \/ HangUp

\* Both threads run; the user need not touch and clients need not read.
Spec == Init /\ [][Next]_vars /\ WF_vars(Ui) /\ WF_vars(Bridge)

-----------------------------------------------------------------------------
(* Properties *)

Pending == IF bridge = "flush" THEN <<>> ELSE Keys(events)

\* Clicks and keys are handed over once and in order, whatever clients come and go, and
\* the last shift is the one handed over last or still in the frame.
FrameKept ==
  /\ sent \o Pending = [i \in 1 .. added |-> i]
  /\ IF bridge # "flush" /\ Contains(events, 0) THEN shift = shifted ELSE pointed = shifted

\* The UI thread comes back from every call, unless the client stays and does not read.
UiReturns == []<>(ui = "idle") \/ <>[](conn = "up" /\ pipe = Capacity)

\* When a client is gone the next one is accepted, or there was nothing more to send
\* that would tell the bridge so.
NextIsAccepted == bound /\ backlog > 0 /\ conn # "up" ~> conn = "up" \/ backlog = 0 \/ events = <<>>
=============================================================================
