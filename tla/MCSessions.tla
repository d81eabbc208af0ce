----------------------------- MODULE MCSessions -----------------------------
(* A session of the app, with up to three start commands, or a session with *)
(* a device.  They do not interact: the thread of the first waits in the    *)
(* native call for the second, which ends in some way or does not.          *)
EXTENDS MCFlashSession, MCOdinCommands

VARIABLE part   \* which of the two: "app", "device"

\* A session with a device that is over.
Over ==
  /\ transport = "android" /\ plan = <<"pit_size", "get_pit">> /\ result = "done"
  /\ connected = TRUE /\ done = Len(plan) /\ todo = << >> /\ got = << >>
  /\ tries = 0 /\ attempt = 1 /\ size = PitUnits /\ pit = DevicePit
  /\ toDev = << >> /\ fromDev = << >> /\ notDone = {}

MCInit ==
  /\ SessionInit
  /\ \/ part = "app" /\ Over
     \/ part = "device" /\ Init

MCNext ==
  /\ UNCHANGED part
  /\ \/ part = "app" /\ SessionNext /\ UNCHANGED vars
     \/ part = "device" /\ Next /\ UNCHANGED sessionVars

MCSpec == MCInit /\ [][MCNext]_<<part, sessionVars, vars>> /\ FairThreads /\ FairLooper /\ FairHost
=============================================================================
