----------------------------- MODULE MCMonitor -----------------------------
(***************************************************************************)
(* Monitor on chunks that cut frames at every kind of place: before and    *)
(* after a header, in a stream, in a frame that goes bad.                  *)
(***************************************************************************)
EXTENDS Monitor

MCChunks ==
    { [from |-> ToDevice, bytes |-> <<FEND, 20>>],      \* SF, interface 1
      [from |-> ToDevice, bytes |-> <<7, FEND>>],
      [from |-> ToDevice, bytes |-> <<0, 9, FEND, 15>>],\* DATA; READY begins
      [from |-> ToDevice, bytes |-> <<BAD>>],
      [from |-> ToHost,   bytes |-> <<FEND, 35>>],      \* STAT_RSSI, interface 2
      [from |-> ToHost,   bytes |-> <<200, FEND, 1>>],  \* STAT_RX begins
      [from |-> ToHost,   bytes |-> <<BAD, FEND>>] }

MCArguments ==
    { [tty |-> TRUE,  record |-> TRUE,  replay |-> FALSE],
      [tty |-> TRUE,  record |-> FALSE, replay |-> FALSE],
      [tty |-> TRUE,  record |-> FALSE, replay |-> TRUE],
      [tty |-> FALSE, record |-> TRUE,  replay |-> TRUE] }

=============================================================================
