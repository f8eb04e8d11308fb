--------------------------- MODULE MCCommandLink ---------------------------
(***************************************************************************)
(* CommandLink with commands of different lengths, and two frames that are *)
(* sent through the encoder directly and mean nothing to the device: one   *)
(* of an unknown opcode and one that is too long.                          *)
(***************************************************************************)
EXTENDS CommandLink

Unknown == Request(1, 9, << >>, << >>)
TooLong == Request(1, DETECT, <<0, 0, 0, 0, 115>>, << >>)

MCRequests == { SetTxPower(1, -2), SetFrequency(1, <<0, 1, 128, 255>>), Ready, Unknown, TooLong }
MCInterfaces == {1}
MCPayload == {115}
MCCallbackSets == { {"start", "put", "end"} }

=============================================================================
