----------------------------- MODULE NativeBridge -----------------------------
(***************************************************************************)
(* The app's way into the engine: EkoNativeBridge.runSession and the       *)
(* functions of native-lib.cpp it calls, on the flash thread of            *)
(* FlashService.  The files were checked and opened there; here they are   *)
(* archives by name or not.                                                *)
(***************************************************************************)
EXTENDS FlashRun

CONSTANT AppJobs   \* sequences of files

ASSUME JobsAssumption == \A files \in AppJobs : files \in Seq(InputFiles)

VARIABLES
  job,       \* the files
  bpc,       \* where runSession is
  session,   \* the NativeSession: "none", "live", "freed"
  told       \* what the callbacks said, in order: "error", "ok", "failed"

bridgeVars == <<job, bpc, session, told>>

BridgeInit(at, jobs) ==
  /\ job \in jobs /\ bpc = at /\ session = "none" /\ told = << >>

Go(from, to) == bpc = from /\ bpc' = to

\* nativeCreateSession.
CreateSession ==
  /\ Go("create", "run") /\ session' = "live"
  /\ UNCHANGED <<job, told, flashVars>>

\* Defect: an error says it all.
GiveUpSilently(from) ==
  /\ Go(from, "return") /\ told' = Append(told, "error")
  /\ UNCHANGED <<job, session>>

\* cb_error, cb_finished and the return that follows.
GiveUp(from) ==
  /\ Go(from, "return") /\ told' = told \o <<"error", "failed">>
  /\ UNCHANGED <<job, session>>

\* nativeRunSession: no files, no transport, or one without the fields it reads.  Files
\* whose descriptor is not valid are skipped later, without an error.
Extract ==
  /\ \/ /\ job # << >> /\ Go("run", "expand") /\ UNCHANGED <<session, told>>
        /\ \E valid \in SUBSET DOMAIN job : job' = Picked(job, valid)
     \/ GiveUp("run")
  /\ UNCHANGED flashVars

\* run_usb_flash: the images, the PIT (an unreadable one is passed over), the end
\* points and the transport, which cannot fail.
Prepare ==
  bpc = "expand" /\ \E s \in {AppExpand(job)} :
    IF s.ok /\ s.specs # << >>
    THEN Go("expand", "flash") /\ FlashBegin(s.specs) /\ UNCHANGED <<job, session, told>>
    ELSE GiveUp("expand") /\ UNCHANGED flashVars

RunFlash == bpc = "flash" /\ FlashStep /\ UNCHANGED bridgeVars

\* flash() has returned.
Report ==
  /\ outcome \in {"ok", "failed"}
  /\ IF outcome = "ok"
     THEN Go("flash", "return") /\ told' = Append(told, "ok") /\ UNCHANGED <<job, session>>
     ELSE GiveUp("flash")
  /\ UNCHANGED flashVars

\* nativeDestroySession.
DestroySession ==
  /\ Go("return", "done") /\ session' = "freed"
  /\ UNCHANGED <<job, told, flashVars>>

BridgeNext == CreateSession \/ Extract \/ Prepare \/ RunFlash \/ Report \/ DestroySession

-----------------------------------------------------------------------------
\* A session gives one verdict, as the last thing it says and before it is freed; a
\* bad one comes after an error.
Answered == bpc \in {"return", "done"}
BridgeAnswers ==
  /\ Answered <=> told # << >>
  /\ \A i \in DOMAIN told : told[i] = "error" <=> i < Len(told)
  /\ Answered /\ Last(told) = "failed" => Len(told) > 1
  /\ told # << >> /\ bpc # "done" => session = "live"
=============================================================================
