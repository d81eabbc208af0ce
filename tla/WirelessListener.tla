-------------------------- MODULE WirelessListener --------------------------
(***************************************************************************)
(* WirelessFlashManager of the app: the main thread switches the wireless  *)
(* mode on and off; a listener thread per start owns the port, accepts     *)
(* phones and keeps the newest one.  The threads are known by the number   *)
(* of their start; stopping does not wait for a thread to end.             *)
(*                                                                         *)
(* A channel and its selector are published together, so that one number,  *)
(* that of the thread that opened them, names both.                        *)
(***************************************************************************)
EXTENDS Integers, FiniteSets

CONSTANTS
  MaxSwitches,   \* bound: calls of setEnabled
  MaxPhones      \* bound: phones that connect

ASSUME WirelessAssumption == MaxSwitches \in Nat /\ MaxPhones \in Nat

Threads == 1 .. MaxSwitches
Nobody == 0

VARIABLES
  switches,            \* calls of setEnabled left
  enabled,
  listenerThread,      \* a thread, or nobody
  listener,            \* listenerChannel and listenerSelector
  listenerAddress,     \* it is known
  connectedTransport,  \* a phone, or nobody
  status,              \* what the store shows: "none", "starting", "listening", "connected"
  stopping,            \* what stopListening has taken and closes next
  started,             \* threads started
  lpc,                 \* of each thread: where it is
  held,                \* of each thread: the phone it is busy with
  interrupted,         \* threads interrupted
  bound,               \* threads whose channel has the port
  selectors,           \* threads whose selector is open
  shut,                \* threads whose channel is closed but keeps the port for the selector
  phones,              \* phones that connected
  open,                \* connections not closed at this end
  left,                \* phones that hung up
  leaked,              \* history: connections handleAccept lost to an exception
  overlapped           \* history: a thread was started while another one lived

wirelessVars ==
  <<switches, enabled, listenerThread, listener, listenerAddress, connectedTransport, status,
    stopping, started, lpc, held, interrupted, bound, selectors, shut, phones, open, left, leaked,
    overlapped>>
manager == <<enabled, listenerThread, listener, listenerAddress, connectedTransport>>
main == <<switches, stopping, started, overlapped>>
sockets == <<bound, selectors, shut, phones, open, left, leaked>>

NotStopping == [active |-> FALSE, thread |-> Nobody, listener |-> Nobody, phone |-> Nobody]

WirelessInit(n) ==
  /\ switches = n /\ enabled = FALSE /\ listenerThread = Nobody /\ listener = Nobody
  /\ listenerAddress = FALSE /\ connectedTransport = Nobody /\ status = "none"
  /\ stopping = NotStopping /\ started = 0
  /\ lpc = [t \in Threads |-> "unborn"] /\ held = [t \in Threads |-> Nobody]
  /\ interrupted = {} /\ bound = {} /\ selectors = {} /\ shut = {}
  /\ phones = 0 /\ open = {} /\ left = {} /\ leaked = {} /\ overlapped = FALSE

Living == {t \in Threads : lpc[t] \notin {"unborn", "done"}}
Connected(c) == c \in open \ left

-----------------------------------------------------------------------------
\* The main thread.

\* startListening while the thread lives: only the status is told again.
StartAgain ==
  /\ listenerThread \in Living
  /\ status' = IF Connected(connectedTransport) THEN "connected"
               ELSE IF listenerAddress THEN "listening" ELSE "starting"
  /\ open' = open \ ({connectedTransport} \cap left)
  /\ UNCHANGED <<listenerThread, started, lpc, overlapped>>

StartThread ==
  /\ listenerThread \notin Living
  /\ started' = started + 1 /\ listenerThread' = started'
  /\ lpc' = [lpc EXCEPT ![started'] = "bind"]
  /\ overlapped' = (Living # {})
  /\ UNCHANGED <<status, open>>

StartListening ==
  /\ switches > 0 /\ ~stopping.active
  /\ switches' = switches - 1 /\ enabled' = TRUE
  /\ StartAgain \/ StartThread
  /\ UNCHANGED <<listener, listenerAddress, connectedTransport, stopping, held, interrupted,
                 bound, selectors, shut, phones, left, leaked>>

\* stopListening, under the lock...
StopListening ==
  /\ switches > 0 /\ ~stopping.active
  /\ switches' = switches - 1 /\ enabled' = FALSE
  /\ stopping' = [active |-> TRUE, thread |-> listenerThread, listener |-> listener,
                  phone |-> connectedTransport]
  /\ listenerThread' = Nobody /\ listener' = Nobody /\ connectedTransport' = Nobody
  /\ listenerAddress' = FALSE
  /\ UNCHANGED <<status, started, lpc, held, interrupted, overlapped, sockets>>

\* ... and after it.
CloseStopped ==
  /\ stopping.active /\ stopping' = NotStopping
  /\ interrupted' = interrupted \cup ({stopping.thread} \ {Nobody})
  /\ bound' = bound \ {stopping.listener} /\ selectors' = selectors \ {stopping.listener}
  /\ open' = open \ {stopping.phone}
  /\ status' = "none"
  /\ UNCHANGED <<switches, manager, started, lpc, held, shut, phones, left, leaked, overlapped>>

-----------------------------------------------------------------------------
\* A listener thread.

Move(t, from, to) == lpc[t] = from /\ lpc' = [lpc EXCEPT ![t] = to]

\* The port is free, or it is not: to another thread of ours, or to another program.
Bind(t) ==
  /\ \/ bound = {} /\ Move(t, "bind", "enter") /\ bound' = {t} /\ selectors' = selectors \cup {t}
     \/ Move(t, "bind", "finally") /\ UNCHANGED <<bound, selectors>>
  /\ UNCHANGED <<manager, main, status, held, interrupted, shut, phones, open, left, leaked>>

Enter(t) ==
  /\ \/ enabled /\ Move(t, "enter", "tell") /\ listener' = t /\ listenerAddress' = TRUE
        /\ UNCHANGED <<bound, selectors>>
     \/ /\ ~enabled /\ Move(t, "enter", "finally") /\ UNCHANGED <<listener, listenerAddress>>
        /\ bound' = bound \ {t} /\ selectors' = selectors \ {t}
  /\ UNCHANGED <<enabled, listenerThread, connectedTransport, main, status, held, interrupted,
                 shut, phones, open, left, leaked>>

\* publishListeningState.
TellListening(t) ==
  /\ Move(t, "tell", "check")
  /\ status' = IF listenerAddress THEN "listening" ELSE "starting"
  /\ UNCHANGED <<manager, main, held, interrupted, sockets>>

CheckEnabled(t) ==
  /\ Move(t, "check", IF enabled THEN "select" ELSE "finally")
  /\ UNCHANGED <<manager, main, status, held, interrupted, sockets>>

\* A closed selector throws; otherwise it returns, with a phone that waits or without,
\* and lets go of a channel that was closed.
Select(t) ==
  /\ \/ t \notin selectors /\ Move(t, "select", "finally")
     \/ t \in selectors /\ Move(t, "select", "look")
     \/ t \in (selectors \cap bound) \ shut /\ Move(t, "select", "accept")
  /\ bound' = bound \ (shut \cap {t}) /\ shut' = shut \ {t}
  /\ UNCHANGED <<manager, main, status, held, interrupted, selectors, phones, open, left, leaked>>

\* accept throws, within handleAccept, if the channel is closed; in an interrupted
\* thread it closes it and throws.
AcceptFails(t) ==
  /\ t \in interrupted \/ t \notin bound
  /\ Move(t, "accept", "look") /\ shut' = shut \cup ({t} \cap bound)
  /\ UNCHANGED <<manager, main, status, held, interrupted, bound, selectors, phones, open, left, leaked>>

HandleAccept(t) ==
  /\ t \in bound \ interrupted /\ phones < MaxPhones
  /\ phones' = phones + 1 /\ open' = open \cup {phones'}
  /\ Move(t, "accept", "install") /\ held' = [held EXCEPT ![t] = phones']
  /\ UNCHANGED <<manager, main, status, interrupted, bound, selectors, shut, left, leaked>>

\* What follows accept throws (the mode, the address, the duplicated descriptor): the
\* exception is dropped, and so is the connection, which nobody closes.
AcceptThrows(t) ==
  /\ t \in bound \ interrupted /\ phones < MaxPhones
  /\ phones' = phones + 1 /\ open' = open \cup {phones'} /\ leaked' = leaked \cup {phones'}
  /\ Move(t, "accept", "look")
  /\ UNCHANGED <<manager, main, status, held, interrupted, bound, selectors, shut, left>>

\* Nobody was there any more.
AcceptNothing(t) ==
  /\ t \in bound /\ t \notin interrupted /\ Move(t, "accept", "look")
  /\ UNCHANGED <<manager, main, status, held, interrupted, sockets>>

\* The new connection takes the place of the old one, which is closed next.
Install(t) ==
  /\ Move(t, "install", "replace")
  /\ connectedTransport' = held[t] /\ held' = [held EXCEPT ![t] = connectedTransport]
  /\ UNCHANGED <<enabled, listenerThread, listener, listenerAddress, main, status, interrupted, sockets>>

CloseReplaced(t) ==
  /\ Move(t, "replace", "look")
  /\ open' = open \ {held[t]} /\ held' = [held EXCEPT ![t] = Nobody]
  /\ status' = "connected"
  /\ UNCHANGED <<manager, main, interrupted, bound, selectors, shut, phones, left, leaked>>

\* The keys are cleared, which throws if the selector is closed; then comes the poll of
\* the existing connection...
Look(t) ==
  /\ \/ /\ t \in selectors /\ Move(t, "look", "poll")
        /\ held' = [held EXCEPT ![t] = connectedTransport]
     \/ t \notin selectors /\ Move(t, "look", "finally") /\ UNCHANGED held
  /\ UNCHANGED <<manager, main, status, interrupted, sockets>>

\* Defect: whatever is connected now is taken for the one that was looked at.
DropUnseen(t) ==
  /\ held' = [held EXCEPT ![t] = Nobody]
  /\ \/ /\ held[t] = Nobody \/ Connected(held[t])
        /\ Move(t, "poll", "check") /\ UNCHANGED <<connectedTransport, open>>
     \/ /\ held[t] # Nobody /\ ~Connected(held[t])
        /\ Move(t, "poll", "tell") /\ open' = open \ {held[t]}
        /\ connectedTransport' = Nobody
  /\ UNCHANGED <<enabled, listenerThread, listener, listenerAddress, main, status, interrupted,
                 bound, selectors, shut, phones, left, leaked>>

\* ... which closes one that its phone has left.
Drop(t) ==
  /\ held' = [held EXCEPT ![t] = Nobody]
  /\ \/ /\ held[t] = Nobody \/ Connected(held[t])
        /\ Move(t, "poll", "check") /\ UNCHANGED <<connectedTransport, open>>
     \/ /\ held[t] # Nobody /\ ~Connected(held[t])
        /\ Move(t, "poll", "tell") /\ open' = open \ {held[t]}
        /\ connectedTransport' = IF connectedTransport = held[t] THEN Nobody ELSE connectedTransport
  /\ UNCHANGED <<enabled, listenerThread, listener, listenerAddress, main, status, interrupted,
                 bound, selectors, shut, phones, left, leaked>>

\* Closes what is published, whoever published it.
EndLoop(t) ==
  /\ Move(t, "finally", "done")
  /\ bound' = bound \ {listener} /\ selectors' = selectors \ {listener} /\ listener' = Nobody
  /\ UNCHANGED <<enabled, listenerThread, listenerAddress, connectedTransport, main, status, held,
                 interrupted, shut, phones, open, left, leaked>>

ListenerStep(t) ==
  \/ Bind(t) \/ Enter(t) \/ TellListening(t) \/ CheckEnabled(t) \/ Select(t)
  \/ AcceptFails(t) \/ HandleAccept(t) \/ AcceptThrows(t) \/ AcceptNothing(t) \/ Install(t)
  \/ CloseReplaced(t) \/ Look(t) \/ Drop(t) \/ EndLoop(t)

\* A phone hangs up.
HangUp ==
  /\ \E c \in open \ left : left' = left \cup {c}
  /\ UNCHANGED <<manager, main, status, lpc, held, interrupted, bound, selectors, shut, phones, open, leaked>>

WirelessNext ==
  \/ StartListening \/ StopListening \/ CloseStopped \/ HangUp
  \/ \E t \in Threads : ListenerStep(t)

-----------------------------------------------------------------------------
\* Every connection that is open is the current one, or one a thread is about to install
\* or to close, however threads and switches overlap: the only ones forgotten are those
\* that handleAccept accepts and then drops with an exception.
ConnectionsOwned ==
  \A c \in open \ leaked :
    \/ c \in {connectedTransport, stopping.phone}
    \/ \E t \in Threads : lpc[t] \in {"install", "replace"} /\ held[t] = c

\* At most one channel has the port, and when wireless mode is off and the threads have
\* ended, none has.
PortReturned ==
  /\ Cardinality(bound) <= 1
  /\ ~enabled /\ ~stopping.active /\ Living = {} => bound = {}

\* A thread that had no other one beside it listens until it is stopped (one that
\* outlived a stop may close the channel of the next), and until the mode is first
\* switched off the store shows what is there (a late thread may leave a connection).
InLoop(t) == lpc[t] \in {"check", "select", "accept", "install", "replace", "look", "poll"}
ListensOn ==
  enabled => \A t \in {listenerThread} \cap Living :
    /\ InLoop(t) /\ ~overlapped => listener = t /\ bound = {t} /\ t \notin shut
    /\ lpc[t] = "select" /\ started = 1 =>
         IF connectedTransport = Nobody THEN status = "listening"
         ELSE status = "connected" \/ connectedTransport \in left

ListenerSound == ConnectionsOwned /\ PortReturned /\ ListensOn
=============================================================================
