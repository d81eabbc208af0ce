------------------------------ MODULE FrontEnds ------------------------------
(***************************************************************************)
(* The two programs around the engine: the command line program, in        *)
(* several processes, or the app.  Each reads its files, chooses images    *)
(* among them and flashes these.  The app also listens for phones in its   *)
(* wireless mode, with no session of the engine behind it.                 *)
(***************************************************************************)
EXTENDS CliProgram, NativeBridge, WirelessListener

vars == <<cliVars, bridgeVars, flashVars, wirelessVars>>

Init ==
  /\ FlashIdle
  /\ \/ CliInit("start") /\ BridgeInit("off", {<< >>}) /\ WirelessInit(0)
     \/ CliInit("off") /\ BridgeInit("create", AppJobs) /\ WirelessInit(0)
     \/ CliInit("off") /\ BridgeInit("off", {<< >>}) /\ WirelessInit(MaxSwitches)

\* All is over; nothing else may stand still.
Ended ==
  /\ \A p \in Procs : pc[p] \in {"done", "off"}
  /\ bpc \in {"done", "off"}
  /\ Living = {} /\ ~stopping.active
  /\ UNCHANGED vars

Next ==
  \/ CliNext /\ UNCHANGED <<bridgeVars, wirelessVars>>
  \/ BridgeNext /\ UNCHANGED <<cliVars, wirelessVars>>
  \/ WirelessNext /\ UNCHANGED <<cliVars, bridgeVars, flashVars>>
  \/ Ended

Spec == Init /\ [][Next]_vars

-----------------------------------------------------------------------------
\* An archive that is about to be read gives back the members it was made of, with
\* their own data, whichever way their names and sizes were recorded; a damaged or
\* shortened one is refused (io/tar.cpp).
ArchiveRead ==
  bpc = "expand" => \A i \in DOMAIN job, validate \in BOOLEAN :
    ReadsBack(job[i].members, validate) /\ Refuses(job[i].members, validate)

\* What the command line program takes from several archives and files is the last
\* image of each name that the lists allow (flash.cpp).  Where all files are archives,
\* to their first block, and no list, no empty image and no bad checksum is in play, the
\* app, which leaves the choice to map_to_pit, ends with the same images.
CliChoosesWell(files, tars, given) ==
  given.ok => ChoiceSound(files, WithList(files, tars), ToSet(Candidates(files, tars)), given.specs)
Alike(files, tars, cli, app) ==
  /\ cli.ok /\ app.ok /\ Archives(files) = DOMAIN files /\ WithList(files, tars) = {}
  /\ \A c \in ToSet(Candidates(files, tars)) : c.size > 0 /\ c.name.base # ListName.base
SameInTheApp(files, tars, cli, app) ==
  Alike(files, tars, cli, app) => Finally(cli.specs) = Finally(app.specs)
ImagesChosen ==
  /\ \A p \in Procs : pc[p] = "expand" =>
       CliChoosesWell(args[p].files, Opened(args[p].files, TRUE), Expand(args[p].files))
  /\ bpc = "expand" => SameInTheApp(job, Opened(job, TRUE), Expand(job), AppExpand(job))

\* The table that was read from the phone is laid out without overlap or gap (pit.cpp),
\* and no partition is written twice (map_to_pit).
PitLaid ==
  item = 0 =>
  /\ LaidOut(pit_table)
  /\ \A k, m \in DOMAIN items : k # m => items[k].part # items[m].part

\* A flash that is reported as done, by exit code 0 or by a good verdict of the app, has
\* written every image whole.  Three things are known to break it and are left out: a
\* source that could not be read, whose error flash() drops; a compressed image whose
\* blocks are not those its header gives room for; and one of up to a MiB in blocks that
\* are smaller, of which a compressed download sends the first (Regular, FlashRun).
SuccessTrue ==
  [][ /\ \A p \in Procs : pc[p] = "shielded" /\ pc'[p] = "leave" /\ code'[p] = "0" => AllWritten \/ broken
      /\ bpc = "flash" /\ bpc' = "return" /\ Last(told') = "ok" => AllWritten \/ broken ]_vars

\* A compressed image that the header check accepted, with blocks as the header gives
\* room for, is written whole when the app reports success: what lz4_frame.cpp says of
\* the sizes of blocks, that only content of more than a MiB needs blocks of a MiB.
AcceptedWritten ==
  [][ bpc = "flash" /\ bpc' = "return" /\ Last(told') = "ok" /\ ~broken =>
        \A k \in DOMAIN written : LET s == items[k].spec
          IN  s.lz4 /\ WellFormed(s.frame) => written[k] = ContentOf(s) ]_vars
=============================================================================
