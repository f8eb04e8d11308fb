--------------------------- MODULE MCEventDecoder ---------------------------
(***************************************************************************)
(* EventDecoder on a small device: both streams, a signed event, an        *)
(* unsigned one, the empty one and one of the opcodes the decoder does     *)
(* not know.                                                               *)
(***************************************************************************)
EXTENDS EventDecoder

MCHeaders == { 33,   \* STAT_RX, interface 2
               2,    \* STAT_TX, interface 0
               19,   \* STAT_RSSI, interface 1
               40,   \* PLATFORM, interface 2
               0,    \* BLINK
               5 }   \* the nibble of RESET
MCPayload == {1, 255}

\* every callback; one stream only; no error
\* callback; a receiver that does not want the bytes of a stream
MCCallbackSets == { EventNames,
                    EventNames \ TxNames,
                    EventNames \ ({"error"} \cup RxNames),
                    EventNames \ {"stat_rx_data"} }

\* receivers that take the data but have no use for the start
MCNoStart == { EventNames \ {"stat_rx_start"} }

=============================================================================
