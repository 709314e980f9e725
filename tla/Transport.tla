----------------------------- MODULE Transport ------------------------------
(***************************************************************************)
(* The framed transport of ipc/frame.cpp between a parent and the child it *)
(* spawned (module Subprocess), used as the tests use it: the child        *)
(* connects to the parent's listener, sends a frame and waits for the      *)
(* reply, and either side may stop at any point.                           *)
(*                                                                         *)
(* A frame travels as units, HeaderUnits for the header and one for each   *)
(* part of the payload, so that a send or a receive may be cut anywhere.   *)
(* The code looks at a frame's form only when it decodes it; the CRC is    *)
(* taken to notice every payload that is not the one it was made for.      *)
(***************************************************************************)
EXTENDS Subprocess, Sequences, FiniteSets, SequencesExt

CONSTANTS
    HeaderUnits,    \* kFrameHeaderBytes
    MaxPayload,     \* max_payload
    RawForms,       \* what send_raw() may put on the wire besides intact frames
    Capacity,       \* the units a socket buffer holds
    MaxFrames       \* bounds the frames each side sends

ASSUME TransportAssumption ==
    /\ HeaderUnits \in Nat \ {0} /\ MaxPayload \in Nat
    /\ Capacity \in Nat \ {0} /\ MaxFrames \in Nat
    /\ RawForms \subseteq {"magic", "version", "type", "length", "crc"}

Ends == {"parent", "child"}

Peer(e) == IF e = "parent" THEN "child" ELSE "parent"

VARIABLES
    listening,  \* the listener is valid
    backlog,    \* a connection waits to be accepted
    sock,       \* a side's connection: "none", "open" or "closed"
    wire,       \* the units a side has sent and its peer has not read
    ended,      \* how a side's half of the stream ends: "no", "eof" or "reset"
    op,         \* the call a side is in: [at, units], see Calls
    sent,       \* history: the frames a side has begun to send
    got,        \* history: the frames a side's receive() has returned
    failed      \* history: a side's receive() has returned an error

wireVars == <<sock, wire, ended>>
histVars == <<sent, got, failed>>
vars == <<procVars, listening, backlog, wireVars, op, histVars>>

\* accept_within() and the process_running() that follows it; send_all(); recv_all() of
\* the header and of the payload; wait_process().
Calls == {"idle", "accept", "running", "send", "header", "payload", "wait"}

Idle == [at |-> "idle", units |-> <<>>]

Init ==
    /\ ProcInit
    /\ listening = FALSE
    /\ backlog = FALSE
    /\ sock = [e \in Ends |-> "none"]
    /\ wire = [e \in Ends |-> <<>>]
    /\ ended = [e \in Ends |-> "no"]
    /\ op = [e \in Ends |-> Idle]
    /\ sent = [e \in Ends |-> <<>>]
    /\ got = [e \in Ends |-> <<>>]
    /\ failed = [e \in Ends |-> FALSE]

Alive(e) == e = "child" => child = "running"

Calling(e, at) == Alive(e) /\ op[e].at = at

Go(e, at, units) == op' = [op EXCEPT ![e] = [at |-> at, units |-> units]]

-----------------------------------------------------------------------------
(* The listener and the launch of a child *)

BindLoopback ==
    /\ Calling("parent", "idle") /\ child = "none" /\ ~listening
    /\ listening' = TRUE
    /\ UNCHANGED <<procVars, backlog, wireVars, op, histVars>>

Spawn ==
    /\ Calling("parent", "idle") /\ listening
    /\ SpawnProcess
    /\ Go("parent", "accept", <<>>)
    /\ UNCHANGED <<listening, backlog, wireVars, histVars>>

ConnectLoopback ==
    /\ Calling("child", "idle") /\ sock["child"] = "none" /\ listening
    /\ sock' = [sock EXCEPT !["child"] = "open"]
    /\ backlog' = TRUE
    /\ UNCHANGED <<procVars, listening, wire, ended, op, histVars>>

\* accept_within() with a connection, and without one until the window elapses.
Accept ==
    /\ Calling("parent", "accept") /\ backlog
    /\ backlog' = FALSE
    /\ sock' = [sock EXCEPT !["parent"] = "open"]
    /\ Go("parent", "idle", <<>>)
    /\ UNCHANGED <<procVars, listening, wire, ended, histVars>>

AcceptWindowElapses ==
    /\ Calling("parent", "accept") /\ ~backlog
    /\ Go("parent", "running", <<>>)
    /\ UNCHANGED <<procVars, listening, backlog, wireVars, histVars>>

AskRunningForNothing ==
    /\ Calling("parent", "running")
    /\ Running \/ NotRunning
    /\ Go("parent", "accept", <<>>)
    /\ UNCHANGED <<listening, backlog, wireVars, histVars>>

\* The launch goes on as long as the child runs.
AskRunning ==
    /\ Calling("parent", "running")
    /\ \/ Running /\ Go("parent", "accept", <<>>)
       \/ NotRunning /\ Go("parent", "idle", <<>>)
    /\ UNCHANGED <<listening, backlog, wireVars, histVars>>

-----------------------------------------------------------------------------
(* Frames *)

Units(f) == [i \in 1..(HeaderUnits + f.size) |-> [frame |-> f, part |-> i]]

\* The child speaks first; the parent answers what it has received.
MaySend(e) ==
    /\ Len(sent[e]) < MaxFrames
    /\ IF e = "child" THEN Len(sent[e]) = Len(got[e]) ELSE Len(sent[e]) < Len(got[e])

StartSend(e, f) ==
    /\ Calling(e, "idle") /\ sock[e] = "open"
    /\ MaySend(e)
    /\ Go(e, "send", Units(f))
    /\ sent' = [sent EXCEPT ![e] = Append(@, f)]
    /\ UNCHANGED <<procVars, listening, backlog, wireVars, got, failed>>

\* send(): encode_frame() refuses a payload above max_payload.
Send(e) ==
    \E size \in 0..MaxPayload :
        StartSend(e, [from |-> e, id |-> Len(sent[e]) + 1, size |-> size, form |-> "intact"])

SendRaw ==
    \E size \in 0..MaxPayload, form \in RawForms :
        /\ form = "crc" => size > 0
        /\ StartSend("child", [from |-> "child", id |-> Len(sent["child"]) + 1,
                               size |-> size, form |-> form])

\* One ::send() of send_all() takes as much as the buffer has room for.
SendSome(e) ==
    /\ Calling(e, "send") /\ sock[Peer(e)] # "closed" /\ ended[e] = "no"
    /\ \E n \in 1..Len(op[e].units) :
          /\ Len(wire[e]) + n <= Capacity
          /\ wire' = [wire EXCEPT ![e] = @ \o SubSeq(op[e].units, 1, n)]
          /\ LET left == SubSeq(op[e].units, n + 1, Len(op[e].units))
             IN  Go(e, IF left = <<>> THEN "idle" ELSE "send", left)
    /\ UNCHANGED <<procVars, listening, backlog, sock, ended, histVars>>

\* The peer has closed, or this side has shut down its half: ::send() fails.
SendFails(e) ==
    /\ Calling(e, "send")
    /\ sock[Peer(e)] = "closed" \/ ended[e] # "no"
    /\ Go(e, "idle", <<>>)
    /\ UNCHANGED <<procVars, listening, backlog, wireVars, histVars>>

MayReceive(e) == IF e = "child" THEN Len(sent[e]) > Len(got[e]) ELSE TRUE

Receive(e) ==
    /\ Calling(e, "idle") /\ sock[e] = "open"
    /\ MayReceive(e)
    /\ Go(e, "header", <<>>)
    /\ UNCHANGED <<procVars, listening, backlog, wireVars, histVars>>

\* The peer's units as far as they have been read.
Incoming(e) == wire[Peer(e)]

ReceiveFails(e) ==
    /\ failed' = [failed EXCEPT ![e] = TRUE]
    /\ Go(e, "idle", <<>>)
    /\ UNCHANGED <<sent, got>>

ReturnFrame(e, f) ==
    /\ got' = [got EXCEPT ![e] = Append(@, f)]
    /\ Go(e, "idle", <<>>)
    /\ UNCHANGED <<sent, failed>>

\* The units are those of one frame, from its first.
OfOneFrame(units) ==
    \A i \in DOMAIN units : units[i] = [frame |-> units[1].frame, part |-> i]

\* decode_frame_header(): the magic tells a header from what is not one.
HeaderDecodes(units) ==
    /\ OfOneFrame(units)
    /\ units[1].frame.form \notin {"magic", "version", "type", "length"}

\* The CRC over the payload that was read, against the one in the header.
PayloadUnchecked(units) == TRUE
PayloadIntact(units) == OfOneFrame(units) /\ units[1].frame.form # "crc"

\* What receive() does once recv_all() has filled its buffer with units.
Received(e, units) ==
    IF op[e].at = "header" /\ ~HeaderDecodes(units) THEN ReceiveFails(e)
    ELSE IF Len(units) < HeaderUnits + units[1].frame.size
         THEN Go(e, "payload", units) /\ UNCHANGED histVars
    ELSE IF PayloadIntact(units) THEN ReturnFrame(e, units[1].frame)
    ELSE ReceiveFails(e)

Wanted(e) ==
    IF op[e].at = "header" THEN HeaderUnits ELSE HeaderUnits + op[e].units[1].frame.size

\* One ::recv() of recv_all() returns some of what is there.
ReceiveSome(e) ==
    /\ Calling(e, "header") \/ Calling(e, "payload")
    /\ \E n \in 1..Len(Incoming(e)) :
          LET units == op[e].units \o SubSeq(Incoming(e), 1, n)
          IN  /\ Len(units) <= Wanted(e)
              /\ wire' = [wire EXCEPT ![Peer(e)] = SubSeq(@, n + 1, Len(@))]
              /\ IF Len(units) < Wanted(e)
                 THEN Go(e, op[e].at, units) /\ UNCHANGED histVars
                 ELSE Received(e, units)
    /\ UNCHANGED <<procVars, listening, backlog, sock, ended>>

ReceiveRetriesAtEnd(e) ==
    /\ Calling(e, "header") \/ Calling(e, "payload")
    /\ Incoming(e) = <<>> /\ ended[Peer(e)] # "no"
    /\ UNCHANGED vars

\* ::recv() returns 0 at the end of the stream, or fails after a reset.
ReceiveAtEnd(e) ==
    /\ Calling(e, "header") \/ Calling(e, "payload")
    /\ Incoming(e) = <<>> /\ ended[Peer(e)] # "no"
    /\ ReceiveFails(e)
    /\ UNCHANGED <<procVars, listening, backlog, wireVars>>

-----------------------------------------------------------------------------
(* The ends of a connection and of the child *)

\* A side's socket is closed: what it had sent stays readable, unless it leaves data
\* unread itself, in which case the kernel may reset the connection.
Closed(e) ==
    IF sock[e] # "open" THEN UNCHANGED wireVars
    ELSE /\ sock' = [sock EXCEPT ![e] = "closed"]
         /\ \/ /\ ended' = [ended EXCEPT ![e] = "eof"]
               /\ UNCHANGED wire
            \/ /\ Incoming(e) # <<>>
               /\ ended' = [ended EXCEPT ![e] = "reset"]
               /\ wire' = [wire EXCEPT ![e] = <<>>]

Close(e) ==
    /\ Calling(e, "idle") /\ sock[e] = "open"
    /\ Closed(e)
    /\ UNCHANGED <<procVars, listening, backlog, op, histVars>>

ShutdownSend(e) ==
    /\ Calling(e, "idle") /\ sock[e] = "open" /\ ended[e] = "no"
    /\ ended' = [ended EXCEPT ![e] = "eof"]
    /\ UNCHANGED <<procVars, listening, backlog, sock, wire, op, histVars>>

\* A connection that was not accepted is reset.
CloseListener ==
    /\ Calling("parent", "idle") /\ listening /\ child # "none"
    /\ listening' = FALSE
    /\ backlog' = FALSE
    /\ IF backlog
       THEN /\ sock' = [sock EXCEPT !["parent"] = "closed"]
            /\ ended' = [ended EXCEPT !["parent"] = "reset"]
       ELSE UNCHANGED <<sock, ended>>
    /\ UNCHANGED <<procVars, wire, op, histVars>>

ChildExits ==
    /\ Exits
    /\ Closed("child")
    /\ UNCHANGED <<listening, backlog, op, histVars>>

StartWait ==
    /\ Calling("parent", "idle") /\ handle
    /\ Go("parent", "wait", <<>>)
    /\ UNCHANGED <<procVars, listening, backlog, wireVars, histVars>>

Wait ==
    /\ Calling("parent", "wait")
    /\ WaitProcess
    /\ Go("parent", "idle", <<>>)
    /\ UNCHANGED <<listening, backlog, wireVars, histVars>>

Terminate ==
    /\ Calling("parent", "idle")
    /\ TerminateProcess
    /\ IF child = "running" THEN Closed("child") ELSE UNCHANGED wireVars
    /\ UNCHANGED <<listening, backlog, op, histVars>>

Forget ==
    /\ Calling("parent", "idle")
    /\ CloseProcess
    /\ UNCHANGED <<listening, backlog, wireVars, op, histVars>>

Poll ==
    /\ Calling("parent", "idle")
    /\ NotRunning
    /\ UNCHANGED <<listening, backlog, wireVars, op, histVars>>

Next ==
    \/ BindLoopback \/ Spawn \/ ConnectLoopback
    \/ Accept \/ AcceptWindowElapses \/ AskRunning
    \/ \E e \in Ends : Send(e) \/ SendSome(e) \/ SendFails(e)
    \/ SendRaw
    \/ \E e \in Ends : Receive(e) \/ ReceiveSome(e) \/ ReceiveAtEnd(e)
    \/ \E e \in Ends : Close(e) \/ ShutdownSend(e)
    \/ CloseListener \/ ChildExits
    \/ StartWait \/ Wait \/ Terminate \/ Forget \/ Poll

\* A call that can proceed does: the kernel delivers, select() times out, and the parent
\* goes on with its launch.
Fairness ==
    /\ WF_vars(Accept) /\ WF_vars(AcceptWindowElapses) /\ WF_vars(AskRunning)
    /\ \A e \in Ends : WF_vars(ReceiveSome(e)) /\ WF_vars(ReceiveAtEnd(e))

Spec == Init /\ [][Next]_vars /\ Fairness

-----------------------------------------------------------------------------

\* s is t with some of its elements left out.
IsSubsequence(s, t) ==
    \E at \in [DOMAIN s -> DOMAIN t] :
        /\ \A i, j \in DOMAIN s : i < j => at[i] < at[j]
        /\ \A i \in DOMAIN s : s[i] = t[at[i]]

\* However sends and receives are cut, and whatever was put on the wire or died in the
\* middle of a frame, receive() returns only intact frames the peer has sent, in their
\* order and each at most once; and until a receive() fails it skips none (frame.hpp:7-8,
\* "refuses truncated, oversized, wrong-version and integrity-failing input rather than
\* guessing").
NeverGuesses ==
    \A e \in Ends :
        /\ IsSubsequence(got[e], sent[Peer(e)])
        /\ \A f \in Range(got[e]) : f.form = "intact"
        /\ ~failed[e] => IsPrefix(got[e], sent[Peer(e)])

Receiving(e) == op[e].at \in {"header", "payload"}

\* A receive() does not outlive the peer: once the other process has died or closed its
\* socket, in the middle of a frame or not, the call returns.
ReceiveEnds ==
    \A e \in Ends :
        (Alive(e) /\ Receiving(e) /\ sock[Peer(e)] = "closed")
            ~> (~Receiving(e) \/ ~Alive(e))

Launching == op["parent"].at \in {"accept", "running"}

\* The launch of a child ends when the child has died, whether it died before or after it
\* connected (tests/test_multiprocess.cpp:206-223).
LaunchEnds == (Launching /\ child # "running") ~> ~Launching

\* wait_process() returns the exit code of the child it was given (subprocess.hpp:41,
\* "Blocking wait for termination. Returns the exit code.").
WaitReturnsExitCode == waited # "error"

=============================================================================
