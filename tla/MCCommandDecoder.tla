-------------------------- MODULE MCCommandDecoder --------------------------
(***************************************************************************)
(* CommandDecoder on a small host: one header per kind of opcode, on three *)
(* interfaces, and two payload bytes that tell every argument check apart  *)
(* (0x73 is valid for DETECT only, 0xFF for RADIO_STATE only).             *)
(***************************************************************************)
EXTENDS CommandDecoder

MCHeaders == { 0,    \* DATA, interface 0
               33,   \* FREQUENCY, interface 2
               22,   \* RADIO_STATE, interface 1
               8,    \* DETECT
               15,   \* READY
               25 }  \* 9, which no command has
MCPayload == {115, 255}

\* every callback; none of the optional transmit ones; no error callback
MCCallbackSets == { CallbackNames,
                    CallbackNames \ {"tx_start", "tx_data"},
                    CallbackNames \ {"error", "tx_end"} }

=============================================================================
