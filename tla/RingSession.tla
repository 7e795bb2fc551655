---------------------------- MODULE RingSession ----------------------------
(***************************************************************************)
(* One vtest session over the ring transport: a client (external, the      *)
(* virgl winsys of Mesa) sends commands, the server thread of              *)
(* vtest_renderer.c reads a header, then the command's data, then writes   *)
(* the reply of those commands that have one; a command that fails ends    *)
(* the session.  Bytes are counted in units; a header is one unit whose    *)
(* value is the command.                                                   *)
(*                                                                         *)
(* The question is progress: vtest has no timeout, so a byte that is never *)
(* noticed stops the client's process.                                     *)
(***************************************************************************)
EXTENDS Ring

CONSTANTS
  Commands,  \* command codes
  Data,      \* Data[c]: the sizes of the vtest_block_reads of the handler of c
  Reply,     \* Reply[c]: the sizes of the vtest_block_writes that answer c
  Window     \* units a client sends at most before it waits for a reply

ASSUME CommandsAssumption ==
  /\ Commands \subseteq Nat
  /\ \A c \in Commands : Data[c] \in Seq(Nat \ {0})
  /\ \A c \in Commands : Reply[c] \in Seq(Nat \ {0})
  /\ Window \in Nat

VARIABLES
  cmd,       \* cmd[p]: the command side p is working on, 0 for none
  stage,     \* stage[p]: which part of it comes next
  unread,    \* the reads of its data that the server still has to make
  unsent,    \* the writes of the reply that the server still has to make
  burst      \* units sent by the client since its last reply

sessionVars == <<vars, cmd, stage, unread, unsent, burst>>

Zeros(n) == [i \in 1..n |-> 0]

Total(s) == LET f[i \in 0..Len(s)] == IF i = 0 THEN 0 ELSE f[i - 1] + s[i]
            IN f[Len(s)]

\* How many units follow the header of c.
Payload(c) == Total(Data[c])

SInit ==
  /\ Init
  /\ cmd = [p \in Sides |-> 0]
  /\ stage = [client |-> "ready", server |-> "header"]
  /\ unread = <<>> /\ unsent = <<>>
  /\ burst = 0

At(p, s) == pc[p] = "idle" /\ stage[p] = s

Enter(p, s) == stage' = [stage EXCEPT ![p] = s]

-----------------------------------------------------------------------------
(* The client sends header and data in one piece and waits for the reply.   *)

\* Window bounds the burst; a command without a reply leaves room for one more.
SendCommand(c) ==
  /\ At("client", "ready")
  /\ burst + 1 + Payload(c) + (IF Reply[c] = <<>> THEN 1 ELSE 0) <= Window
  /\ burst' = burst + 1 + Payload(c)
  /\ BeginWrite("client", <<c>> \o Zeros(Payload(c)))
  /\ cmd' = [cmd EXCEPT !["client"] = c]
  /\ Enter("client", IF Reply[c] = <<>> THEN "ready" ELSE "reply")
  /\ UNCHANGED <<unread, unsent>>

AwaitReply ==
  /\ At("client", "reply")
  /\ BeginRead("client", Total(Reply[cmd["client"]]))
  /\ Enter("client", "answered")
  /\ UNCHANGED <<cmd, unread, unsent, burst>>

Answered ==
  /\ At("client", "answered")
  /\ Enter("client", "ready")
  /\ burst' = 0
  /\ UNCHANGED <<vars, cmd, unread, unsent>>

-----------------------------------------------------------------------------
(* renderer_loop: header, then the handler of the command.                  *)

ReadHeader ==
  /\ At("server", "header")
  /\ BeginRead("server", 1)
  /\ Enter("server", "data")
  /\ UNCHANGED <<cmd, unread, unsent, burst>>

\* The switch over header[1] calls the handler of the command.
Dispatch ==
  LET c == dst["server"][1] IN
  /\ At("server", "data")
  /\ cmd' = [cmd EXCEPT !["server"] = c]
  /\ unread' = Data[c]
  /\ unsent' = Reply[c]
  /\ Enter("server", "execute")
  /\ UNCHANGED <<vars, burst>>

\* Mutant of ReadData: the handler leaves one of its reads out.
ReadDataSkipped ==
  /\ At("server", "execute")
  /\ unread # <<>>
  /\ unread' = Tail(unread)
  /\ UNCHANGED <<vars, cmd, stage, unsent, burst>>

\* One vtest_block_read of the handler; a transfer reads its header, then its data.
ReadData ==
  /\ At("server", "execute")
  /\ unread # <<>>
  /\ BeginRead("server", Head(unread))
  /\ unread' = Tail(unread)
  /\ UNCHANGED <<cmd, stage, unsent, burst>>

WriteReply ==
  /\ At("server", "execute")
  /\ unread = <<>>
  /\ unsent # <<>>
  /\ BeginWrite("server", Zeros(Head(unsent)))
  /\ unsent' = Tail(unsent)
  /\ UNCHANGED <<cmd, stage, unread, burst>>

Again ==
  /\ At("server", "execute")
  /\ unread = <<>> /\ unsent = <<>>
  /\ Enter("server", "header")
  /\ UNCHANGED <<vars, cmd, unread, unsent, burst>>

\* The handler returns an error between two calls of the transport or after them:
\* "goto fail" closes the socket, the indices of the ring stay.
Fail ==
  /\ At("server", "execute")
  /\ alive' = [alive EXCEPT !["server"] = FALSE]
  /\ Enter("server", "gone")
  /\ UNCHANGED <<wr, rd, buf, waiting, fd, local, cmd, unread, unsent, burst>>

-----------------------------------------------------------------------------
Transport(p) == (Writing(p) \/ Reading(p)) /\ UNCHANGED <<cmd, stage, unread, unsent, burst>>

Client == Transport("client") \/ AwaitReply \/ Answered
Server == Transport("server") \/ ReadHeader \/ Dispatch \/ ReadData \/ WriteReply \/ Again

SNext == Client \/ Server \/ Fail \/ \E c \in Commands : SendCommand(c)

\* Two processes that the system schedules; the client need not send commands,
\* and no command need fail.
Fairness == WF_sessionVars(Client) /\ WF_sessionVars(Server)

SSpec == SInit /\ [][SNext]_sessionVars /\ Fairness

-----------------------------------------------------------------------------
\* Type correctness.
STypeOK ==
  /\ TypeOK
  /\ cmd \in [Sides -> Commands \cup {0}]
  /\ stage \in [Sides -> {"ready", "reply", "answered", "header", "data", "execute", "gone"}]
  /\ unread \in Seq(Nat)
  /\ unsent \in Seq(Nat)
  /\ burst \in 0..Window

\* Side p reads, and its ring holds nothing that it has not read.
Starves(p) == want[p] > 0 /\ pc[p] # "read_advance" /\ wr[Peer(p)] = rd[Peer(p)]

\* The stream never loses its framing: what the server takes for a header is
\* the header of a command that the client sent, a reply is the one to the command
\* that waits for it, and none of it is left in the ring for the next one.  So the
\* two sides never wait for each other, each in a ring_read for what nobody sent.
Framing ==
  /\ STypeOK
  /\ At("server", "data") => dst["server"][1] \in Commands
  /\ At("client", "ready") => wr["server"] = rd["server"]
  /\ At("client", "answered") =>
       /\ stage["server"] \in {"execute", "header", "data", "gone"}
       /\ cmd["server"] = cmd["client"]
  /\ \E p \in Sides : ~Starves(p)

Waiting == stage["client"] \in {"reply", "answered"}

\* vtest_protocol.h:56-58: "get caps", "0 length cmd", "resp VCMD_GET_CAPS + caps".
\* A command with a reply is answered in the end, unless a command fails and the
\* server closes the session.
ReplyArrives == Waiting ~> (~Waiting \/ stage["server"] = "gone")

\* p waits in SYNC_WHILE although its ring holds bytes, because the indices are
\* such that the condition of ring.c:120 takes the ring for empty.
Misread(p) ==
  LET q == Peer(p) IN
  /\ pc[p] \in {"read_sync", "wait_flag", "wait_post", "wait_byte", "wait_block"}
  /\ wr[q] # rd[q] /\ SeesNothing(wr[q], rd[q])

\* But for those indices every such reply arrives: a wake-up that is lost because the
\* reader had not yet raised the flag, or because the writer saw an old read
\* mark, is made up for when the writer in turn goes to sleep.
ReplyArrivesIfRead == (\A p \in Sides : []<>~Misread(p)) => ReplyArrives
=============================================================================
