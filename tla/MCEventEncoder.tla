--------------------------- MODULE MCEventEncoder ---------------------------
(***************************************************************************)
(* EventEncoder with a caller for every wrapper, payloads of none, one and *)
(* two bytes where the caller chooses the length.                          *)
(***************************************************************************)
EXTENDS EventEncoder

MCBytes == { << >>, <<7>>, <<0, 255>> }
MCRequests ==
    { EventRssi(1, -42), EventSnr(18, 11), EventBlink(4), EventRandom(5, 66),
      EventPlatform(6, 17), EventMcu(7, 34), EventFwVersion(8, 1, 2),
      EventError(1, 3) }
        \cup { EventStatRx(2, p) : p \in MCBytes }
        \cup { EventStatTx(3, p) : p \in MCBytes }
        \cup { EventRomRead(1, p) : p \in MCBytes }
        \cup { EventReset(1, p) : p \in MCBytes }
        \cup { EventInterfaces(0, p) : p \in MCBytes }
MCInterfaces == {0, 18}
MCPayload == {0, 115}
MCCallbackSets == { {"start", "put", "end"}, {"put"} }

=============================================================================
