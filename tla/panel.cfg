SPECIFICATION PanelSpec
CONSTANTS
  MaxCmds = 2
  MaxFaults = 1
  MaxNotes = 2
  Batch = 2
INVARIANTS PanelTypeOK NotificationsShownOnce OffIsQuiet
PROPERTIES BridgeImplementsRequest NoticesSettle
CHECK_DEADLOCK FALSE
