---------------------------- MODULE MCBoltWriter ----------------------------
(* TLC instance of BoltWriter.                                             *)
EXTENDS BoltWriter, TLC

\* The calls that stand in line for the slot.
Queued == {"write", "auto", "grouped"}

\* Queue mode with both timeouts, and with one of them only, so that neither
\* stands in for the other; queue mode with readers, who do not stand in line;
\* optimistic mode.
Settings ==
    {[queue |-> TRUE, waits |-> TRUE, idles |-> TRUE, kinds |-> Queued],
     [queue |-> TRUE, waits |-> FALSE, idles |-> TRUE, kinds |-> Queued],
     [queue |-> TRUE, waits |-> TRUE, idles |-> FALSE, kinds |-> Queued],
     [queue |-> TRUE, waits |-> FALSE, idles |-> FALSE, kinds |-> {"write", "read"}],
     [queue |-> FALSE, waits |-> FALSE, idles |-> FALSE, kinds |-> Kinds]}
=============================================================================
