---------------------------- MODULE OdinCommands ----------------------------
(***************************************************************************)
(* The Odin commands of one device (odin_cmd.cpp, pit_transfer.cpp) over   *)
(* the transports they run on: UsbFsConnection and TcpConnection of the    *)
(* command line program, AndroidUsbTransport of the app.                   *)
(*                                                                         *)
(* An operation is a script of sends and receives.  The phone is external: *)
(* it takes transfers in order, at its own pace, and answers a command as  *)
(* asked, refuses it, or says nothing.  Answers carry the id of a command's*)
(* type and not its number, so one that comes late looks like the answer   *)
(* to the command after it.  Bytes come in units: a ResponseBox is one     *)
(* unit, a part of the PIT is ChunkUnits of them, "LOKE" is (half) a unit  *)
(* received into a buffer of more.                                         *)
(***************************************************************************)
EXTENDS Integers, Sequences, FiniteSets, SequencesExt

CONSTANTS
  Transports,   \* of "usbfs", "android", "tcp"
  Plans,        \* sequences of operations as flash() issues them
  Retries,      \* the argument "retries"
  PitAttempts,  \* PIT_MAX_RETRIES
  PitUnits,     \* length of the phone's PIT
  ChunkUnits,   \* PIT_TRANSMIT_UNIT
  MaxTorn       \* bound of the model: sends that are cut short

\* The first part of a PIT (500 bytes, or a whole one) is longer than all the boxes of
\* 8 bytes that may come late, one of each attempt but the last.
ASSUME OdinAssumption ==
  /\ Retries \in Nat /\ PitAttempts \in Nat \ {0}
  /\ ChunkUnits \in Nat /\ ChunkUnits >= PitAttempts
  /\ PitUnits \in Nat /\ PitUnits >= PitAttempts
  /\ MaxTorn \in Nat

\* download_pit_bytes asks for the size and then for the table, once in a session;
\* shutdown is its end.
Ops == {"handshake", "version", "options", "total", "pit_size", "get_pit", "set_pit",
        "window", "end", "reboot"}
ASSUME PlansAssumption ==
  \A p \in Plans :
    /\ p \in Seq(Ops)
    /\ \A i \in DOMAIN p :
         /\ p[i] = "pit_size" => i + 1 \in DOMAIN p /\ p[i + 1] = "get_pit"
         /\ p[i] = "get_pit" => i - 1 \in DOMAIN p /\ p[i - 1] = "pit_size"
         /\ \A j \in DOMAIN p : p[i] = "get_pit" /\ p[j] = "get_pit" => i = j
         /\ \A j \in DOMAIN p : p[i] = "end" /\ j > i => p[j] = "reboot"
         /\ p[i] = "reboot" => i = Len(p)

VARIABLES
  transport, plan,
  connected,  \* connected_ of the transport
  done,       \* operations completed
  todo,       \* steps left of the operation in progress
  got,        \* units of the receive in progress
  tries,      \* failures of the call of the transport in progress
  attempt,    \* of get_pit_size
  size, pit,  \* the announced size and the bytes of the PIT received
  result,     \* "running", "done", "failed"
  toDev,      \* transfers on their way
  fromDev,    \* packets on their way, each a sequence of units
  notDone     \* transfers the phone refused or ignored, or got a part of

host  == <<transport, plan, connected, done, todo, got, tries, attempt, size, pit,
           result>>
vars  == <<host, toDev, fromDev, notDone>>

-----------------------------------------------------------------------------
\* The steps of a script.
Send(type, param) == [do |-> "send", type |-> type, param |-> param, part |-> 0]
PitPart(i)        == [do |-> "send", type |-> "PIT", param |-> "PART", part |-> i]
Data(what)        == [do |-> "send", type |-> "DATA", param |-> what, part |-> 0]
Recv(min, max, type, ack) ==
  [do |-> "recv", min |-> min, max |-> max, type |-> type, ack |-> ack]
Zlp == [do |-> "zlp"]

\* recv_checked_response: ack is "checked", or "out" where the caller takes it.
Answer(type, ack) == <<Recv(1, 1, type, ack)>>
Rpc(type, param, ack) == <<Send(type, param)>> \o Answer(type, ack)

\* get_pit asks for the parts in turn, each answered by its bytes and no box.
Parts == ((size - 1) \div ChunkUnits) + 1
PartLen(i) == IF size - ChunkUnits * i < ChunkUnits THEN size - ChunkUnits * i ELSE ChunkUnits
PartBytes(i) == Recv(PartLen(i), PartLen(i), "bytes", "none")
GetPit ==
  [k \in 1 .. 2 * Parts |-> IF k % 2 = 1 THEN PitPart(k \div 2) ELSE PartBytes((k \div 2) - 1)]
    \o <<Zlp>> \o Rpc("PIT", "COMPLETE", "checked")

\* The code of the last receive of set_pit is not looked at.
SetPit ==
  Rpc("PIT", "SET", "checked") \o Rpc("PIT", "START", "checked")
    \o <<Data("pit")>> \o Answer("any", "none") \o Rpc("PIT", "COMPLETE", "checked")

\* A window of the flashing step: begin_download, one packet, end_download.
Window ==
  Rpc("XMIT", "DOWNLOAD", "checked") \o Rpc("XMIT", "START", "checked")
    \o <<Data("packet")>> \o Answer("EMPTY", "checked") \o Rpc("XMIT", "COMPLETE", "checked")

\* The handshake reads into a buffer that is larger than the answer it needs.
Handshake == <<Send("PING", "ODIN"), Recv(1, 2, "LOKE", "none")>>

Script(op) ==
  CASE op = "handshake" -> Handshake
    [] op = "version"   -> Rpc("INIT", "TARGET", "out")
    [] op = "options"   -> Rpc("INIT", "PACKETSIZE", "checked")
    [] op = "total"     -> Rpc("INIT", "TOTALSIZE", "checked")
    [] op = "pit_size"  -> Rpc("PIT", "GET", "out")
    [] op = "get_pit"   -> GetPit
    [] op = "set_pit"   -> SetPit
    [] op = "window"    -> Window
    [] op = "end"       -> Rpc("CLOSE", "END", "checked")
    [] op = "reboot"    -> Rpc("CLOSE", "REBOOT", "checked")

Init ==
  /\ transport \in Transports /\ plan \in Plans
  /\ connected = TRUE /\ done = 0 /\ todo = << >> /\ got = << >>
  /\ tries = 0 /\ attempt = 0 /\ size = 0 /\ pit = << >>
  /\ result = "running"
  /\ toDev = << >> /\ fromDev = << >> /\ notDone = {}

Op == plan[done + 1]
Busy == result = "running" /\ todo # << >>
Now == Head(todo)

\* The next operation of the caller; every one asks for a connection first.
Begin ==
  /\ result = "running" /\ todo = << >> /\ done < Len(plan)
  /\ todo' = Script(Op) /\ attempt' = IF Op = "pit_size" THEN attempt + 1 ELSE attempt
  /\ UNCHANGED <<transport, plan, connected, done, got, tries, size, pit, result,
                 toDev, fromDev, notDone>>

Finish ==
  /\ result = "running" /\ todo = << >> /\ done = Len(plan)
  /\ result' = "done"
  /\ UNCHANGED <<transport, plan, connected, done, todo, got, tries, attempt, size, pit,
                 toDev, fromDev, notDone>>

-----------------------------------------------------------------------------
\* shutdown goes on after a reboot command that failed.
FailureDropped(op) == op = "reboot"

\* What a failed step does to its operation: get_pit_size starts again, up to its
\* last attempt; any other failure that counts ends the session.
Outcome(alive) ==
  /\ todo' = << >> /\ got' = << >> /\ tries' = 0 /\ connected' = alive
  /\ IF Op = "pit_size" /\ attempt < PitAttempts
     THEN UNCHANGED <<done, result>>
     ELSE IF FailureDropped(Op) THEN done' = done + 1 /\ UNCHANGED result
                           ELSE result' = "failed" /\ UNCHANGED done

Fail(alive) ==
  /\ Outcome(alive)
  /\ UNCHANGED <<transport, plan, attempt, size, pit, toDev, fromDev, notDone>>

Lost == Busy /\ ~connected /\ Fail(FALSE)

\* One step is over; with the last step of its script, the operation.
Advance ==
  /\ todo' = Tail(todo) /\ got' = << >> /\ tries' = 0
  /\ done' = IF Len(todo) = 1 THEN done + 1 ELSE done
  /\ UNCHANGED <<transport, plan, connected, attempt, result>>

-----------------------------------------------------------------------------
\* send_raw
SendWhole ==
  /\ Busy /\ connected /\ Now.do = "send"
  /\ Advance
  /\ toDev' = Append(toDev, Now)
  /\ UNCHANGED <<size, pit, fromDev, notDone>>

SendFails(alive) == Busy /\ connected /\ Now.do = "send" /\ Fail(alive)

\* The synchronous send of the app begins the buffer again after a time-out.
SendTimesOut ==
  /\ Busy /\ connected /\ Now.do = "send" /\ Now.type # "DATA" /\ transport = "android"
  /\ tries < Retries /\ tries' = tries + 1
  /\ UNCHANGED <<transport, plan, connected, done, todo, got, attempt, size, pit,
                 result, toDev, fromDev, notDone>>

\* A part of it was taken before the time-out: the phone gets that part besides the
\* buffer, a transfer that no one means, and may do with it what it may do with any.
\* TcpConnection gives up.
Torn(t) == [t EXCEPT !.param = "TORN"]
IsTorn(t) == t.param = "TORN"
SendTorn ==
  /\ Cardinality({t \in notDone : IsTorn(t)}) < MaxTorn
  /\ Busy /\ connected /\ Now.do = "send"
  /\ transport = "tcp" \/ (transport = "android" /\ Now.type # "DATA")
  /\ toDev' = Append(toDev, Torn(Now)) /\ notDone' = notDone \cup {Torn(Now)}
  /\ IF transport = "android" /\ tries < Retries
     THEN tries' = tries + 1 /\ UNCHANGED <<connected, done, todo, got, result>>
     ELSE Outcome(TRUE)
  /\ UNCHANGED <<transport, plan, attempt, size, pit, fromDev>>

-----------------------------------------------------------------------------
\* How many units a receive waits for: the transport of the app fills the
\* buffer it is given, the others return what came.
Needed == IF transport = "android" THEN Now.max ELSE Now.min
Receiving == Busy /\ connected /\ Now.do = "recv" /\ Len(got) < Needed
Room == Now.max - Len(got)

Receive(units, rest, t) ==
  /\ got' = got \o units /\ fromDev' = rest \o Tail(fromDev) /\ tries' = t
  /\ UNCHANGED <<transport, plan, connected, done, todo, attempt, size, pit, result,
                 toDev, notDone>>

\* USB: one packet, if it fits.
RecvPacket ==
  /\ Receiving /\ transport # "tcp" /\ fromDev # << >>
  /\ Len(Head(fromDev)) \in 1 .. Room
  /\ Receive(Head(fromDev), << >>, 0)

\* TCP: any part of the stream.
RecvBytes ==
  /\ Receiving /\ transport = "tcp" /\ fromDev # << >>
  /\ \E k \in 1 .. Len(Head(fromDev)) :
       /\ k <= Room
       /\ LET rest == SubSeq(Head(fromDev), k + 1, Len(Head(fromDev)))
          IN  Receive(SubSeq(Head(fromDev), 1, k), IF rest = << >> THEN << >> ELSE <<rest>>, 0)

\* USB: a packet that is larger than the room left is an error of the host
\* controller and lost; UsbFsConnection tries again after any error.
RecvOverflow ==
  /\ Receiving /\ transport # "tcp" /\ fromDev # << >>
  /\ Len(Head(fromDev)) > Room
  /\ IF transport = "usbfs" /\ tries < Retries
     THEN Receive(<< >>, << >>, tries + 1)
     ELSE /\ Outcome(TRUE) /\ fromDev' = Tail(fromDev)
          /\ UNCHANGED <<transport, plan, attempt, size, pit, toDev, notDone>>

\* USB: an empty packet.  UsbFsConnection returns 0, a failure for its caller;
\* AndroidUsbTransport looks at an errno that no call has set.
RecvEmpty ==
  /\ Receiving /\ transport # "tcp" /\ fromDev # << >> /\ Head(fromDev) = << >>
  /\ \/ /\ transport = "android" /\ tries < Retries
        /\ Receive(<< >>, << >>, tries + 1)
     \/ \E alive \in (IF transport = "android" THEN BOOLEAN ELSE {TRUE}) :
          /\ Outcome(alive) /\ fromDev' = Tail(fromDev)
          /\ UNCHANGED <<transport, plan, attempt, size, pit, toDev, notDone>>

\* Defect: a time-out is not counted.
RecvTimesOutUncounted ==
  /\ Receiving /\ fromDev = << >>
  /\ IF transport # "tcp" THEN UNCHANGED vars ELSE Fail(TRUE)

\* Nothing comes in time.  TcpConnection has no retries.
RecvTimesOut ==
  /\ Receiving /\ fromDev = << >>
  /\ IF transport # "tcp" /\ tries < Retries
     THEN /\ tries' = tries + 1
          /\ UNCHANGED <<transport, plan, connected, done, todo, got, attempt, size, pit,
                         result, toDev, fromDev, notDone>>
     ELSE Fail(TRUE)

\* The device is gone, or the socket fails.
RecvFails(alive) == Receiving /\ Fail(alive)

\* Defect: the id of an answer is not compared.
AcceptsAnyId(box) == box.kind # "box" \/ (Now.ack = "checked" => box.ok)

\* Defect: the code of an answer is never looked at.
AcceptsAnyCode(box) == Now.type = "any" \/ (box.kind = "box" /\ box.id = Now.type)

\* check_resp, and what the callers make of it.
Accepts(box) ==
  \/ Now.type = "any"
  \/ /\ box.kind = "box" /\ box.id = Now.type
     /\ Now.ack = "checked" => box.ok

Received ==
  /\ Busy /\ connected /\ Now.do = "recv" /\ Len(got) >= Needed
  /\ IF \/ Now.type = "bytes"
        \/ Now.type = "LOKE" /\ got[1].kind = "loke"
        \/ Now.type \notin {"bytes", "LOKE"} /\ Accepts(got[1]) /\ (Op = "pit_size" => got[1].size > 0)
     THEN /\ Advance
          /\ size' = IF Op = "pit_size" THEN got[1].size ELSE size
          /\ pit'  = IF Now.type = "bytes" THEN pit \o got ELSE pit
          /\ UNCHANGED <<toDev, fromDev, notDone>>
     ELSE IF Op = "pit_size" /\ Accepts(got[1])
          THEN \* download_pit_bytes refuses the size; get_pit_size did not fail
               /\ result' = "failed" /\ todo' = << >> /\ got' = << >>
               /\ UNCHANGED <<transport, plan, connected, done, tries, attempt, size, pit,
                              toDev, fromDev, notDone>>
          ELSE Fail(TRUE)

\* recv_zlp: its result is dropped; over TCP it does nothing.
RecvZlp ==
  /\ Busy /\ connected /\ Now.do = "zlp"
  /\ Advance
  /\ \/ UNCHANGED fromDev
     \/ transport # "tcp" /\ fromDev # << >> /\ fromDev' = Tail(fromDev)
  /\ UNCHANGED <<size, pit, toDev, notDone>>

HostStep ==
  \/ Begin \/ Finish \/ Lost \/ SendWhole \/ SendTimesOut \/ SendTorn
  \/ RecvPacket \/ RecvBytes \/ RecvOverflow \/ RecvEmpty \/ RecvTimesOut
  \/ Received \/ RecvZlp

-----------------------------------------------------------------------------
\* The phone.
DevicePit == [i \in 1 .. PitUnits |-> [kind |-> "pit", unit |-> i]]
Box(id, ok, n) == <<[kind |-> "box", id |-> id, ok |-> ok, size |-> n]>>
AnswerId(t) == IF t.param = "packet" THEN "EMPTY" ELSE IF t.param = "pit" THEN "PIT" ELSE t.type

\* The packets that answer transfer t as it asks; the last part of the PIT may be
\* followed by an empty packet.
Reply(t) ==
  IF t.type = "PING" THEN {<< <<[kind |-> "loke"]>> >>}
  ELSE IF t.param = "PART"
  THEN LET end   == (t.part + 1) * ChunkUnits
           bytes == SubSeq(DevicePit, t.part * ChunkUnits + 1, IF end < PitUnits THEN end ELSE PitUnits)
       IN  {<<bytes>>} \cup (IF end >= PitUnits /\ transport # "tcp" THEN {<<bytes, << >>>>} ELSE {})
  ELSE {<<Box(AnswerId(t), TRUE, PitUnits)>>}

DeviceTakes(answer, undone) ==
  /\ toDev # << >> /\ toDev' = Tail(toDev)
  /\ fromDev' = fromDev \o answer /\ notDone' = notDone \cup undone
  /\ UNCHANGED host

DeviceAnswers == toDev # << >> /\ \E a \in Reply(Head(toDev)) : DeviceTakes(a, {})

\* Refused with the id of a failure, with a code below zero (a version word has
\* none), or with a size of zero.
DeviceRefuses ==
  /\ toDev # << >>
  /\ \E a \in {Box("FAIL", FALSE, 0), Box(AnswerId(Head(toDev)), FALSE, 0)} :
       /\ Head(toDev).param = "TARGET" => a[1].id = "FAIL"
       /\ DeviceTakes(<<a>>, {Head(toDev)})

DeviceIgnores == toDev # << >> /\ DeviceTakes(<< >>, {Head(toDev)})

Next ==
  \/ HostStep
  \/ \E alive \in BOOLEAN : SendFails(alive) \/ RecvFails(alive)
  \/ DeviceAnswers \/ DeviceRefuses \/ DeviceIgnores

Spec == Init /\ [][Next]_vars

\* The calling thread runs, and a call of a transport returns by its time-out; but not
\* the asynchronous sends: REAPURB waits for the phone as long as that takes.
MayBlock == Now.do = "send" /\ (transport = "usbfs" \/ (transport = "android" /\ Now.type = "DATA"))
Blocked == Busy /\ connected /\ MayBlock
FairHost == WF_vars(~Blocked /\ HostStep)
FairSpec == Spec /\ FairHost

-----------------------------------------------------------------------------
Ended(op) == \E i \in 1 .. done : plan[i] = op

\* What may go undone in a session that succeeds: an attempt of get_pit_size, the
\* table sent by set_pit, a part of the PIT (neither's answer has a code that is
\* read), the reboot command.
MayBeLost(t) ==
  <<t.type, t.param>> \in {<<"PIT", "GET">>, <<"DATA", "pit">>, <<"PIT", "PART">>, <<"CLOSE", "REBOOT">>}

\* The bytes get_pit accepts are the phone's table, whatever answers came late, if
\* the phone refused no part of it (in the place of a part, a refusal looks like bytes)
\* and got no part of a request besides the request.
Whole == \A t \in notDone : ~IsTorn(t)
PitIntact ==
  Ended("get_pit") /\ Whole /\ (\A t \in notDone : t.param # "PART") => pit = DevicePit

\* A session that is closed with success had no command refused or ignored, and no
\* answer is left over that a later command took for its own, if no send was cut short:
\* a part of a request may have an answer of its own.
SessionSound ==
  Ended("end") /\ Whole =>
    /\ \A t \in notDone \cup ToSet(toDev) : MayBeLost(t)
    /\ \A i \in DOMAIN fromDev : fromDev[i] # << >> /\ (fromDev[i][1].kind = "box" => fromDev[i][1].id \in {"CLOSE", "FAIL"})

\* Every session comes to an end, with a phone that may fall silent at any time, but for
\* one that waits for ever in a send that the phone never takes.
SessionEnds == <>(result # "running") \/ <>[]Blocked

\* A handshake that has its answer is not failed by waiting for more.
HandshakeTakesAnswer ==
  [][ (Receiving /\ Op = "handshake" /\ got # << >> /\ got[1].kind = "loke" /\ RecvTimesOut)
        => result' = "running" ]_vars
=============================================================================
