-------------------------- MODULE MCCommandEncoder --------------------------
(***************************************************************************)
(* CommandEncoder with a caller for every wrapper.  Interface 18 does not  *)
(* fit a header's nibble; -2 and 115 exercise the sign of a byte.          *)
(***************************************************************************)
EXTENDS CommandEncoder

MCRequests ==
    { SetFrequency(1, <<0, 1, 128, 255>>), SetBandwidth(18, <<1, 2, 3, 4>>),
      SetTxPower(2, -2), SetTxPower(0, 115),
      SetSpreadingFactor(15, 7), SetCodingRate(1, 5),
      SetRadioState(1, RADIO_STATE_OFF), SetRadioState(1, RADIO_STATE_ON),
      SetRadioState(18, RADIO_STATE_ASK),
      SetRadioLock(3, 1), Detect, Ready, Leave }
MCInterfaces == {0, 18}
MCPayload == {0, 115}
MCCallbackSets == { {"start", "put", "end"}, {"put"}, {"start", "end"} }

=============================================================================
