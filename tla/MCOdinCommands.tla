--------------------------- MODULE MCOdinCommands --------------------------
(* The sessions of flash(): with and without a PIT to upload, an old phone  *)
(* without options, nothing to write; and reading the PIT alone, as         *)
(* nativeReadPit does.  A PIT of three parts, the last one short.           *)
EXTENDS OdinCommands

MCPlans ==
  {<<"handshake", "version", "options", "set_pit", "pit_size", "get_pit", "total",
     "window", "window", "end", "reboot">>,
   <<"handshake", "version", "pit_size", "get_pit", "end">>,
   <<"pit_size", "get_pit">>}
=============================================================================
