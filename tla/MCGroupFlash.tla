---------------------------- MODULE MCGroupFlash ----------------------------
(* Three devices, two sources; PITs that agree, miss an entry, map both     *)
(* sources to one partition, or differ in the device type only.             *)
EXTENDS GroupFlash

E(i, t) == [id |-> i, dev |-> t]

\* Rows of PITs over the sources, cut to the number of sources.
MCPitTables ==
  {[s \in Sources |-> r[s]] :
     r \in {<<E("p", "emmc"), E("q", "emmc")>>, <<E("p", "emmc"), NoEntry>>,
            <<E("p", "emmc"), E("p", "emmc")>>, <<E("p", "emmc"), E("q", "ufs")>>}}
=============================================================================
