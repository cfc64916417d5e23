\* The configuration, then texts and lengths with the buffers' real sizes.
SPECIFICATION TextsSpec
CONSTANTS
  Files <- MCFiles
  Names = {"enp2s0", "eth0"}
  Requests <- MCRequests
  Responses <- MCResponses
  AddressLengths <- MCAddressLengths
INVARIANTS
  SettingsAreTheLast
  RecordIsRequest
  ReplyReadsBack
  OverrunAtLimitOnly
CHECK_DEADLOCK FALSE
