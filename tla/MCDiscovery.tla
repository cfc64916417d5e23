---------------------------- MODULE MCDiscovery ----------------------------
(***************************************************************************)
(* Small instances of Discovery for TLC.  The stray frames are the one the *)
(* "came back to power" branch accepts, the same frame from a station, and *)
(* an identify response from the multicast address, which check() refuses  *)
(* after the first.                                                        *)
(***************************************************************************)
EXTENDS Discovery

MistakenHello(m) ==
  Frame(PF_DCP_SERVICE_HELLO, PF_DCP_SERVICE_HELLO, PF_DCP_SERVICE_TYPE_SUCCESS, m)

MCStray ==
  {MistakenHello(McAddr), IdentifyResponse(McAddr),
   MistakenHello(CHOOSE m \in Stations : TRUE)}

MCStrayFew == {MistakenHello(McAddr)}

=============================================================================
