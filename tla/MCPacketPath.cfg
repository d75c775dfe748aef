\* Every payload with and without tags; every frame with up to two tags, with 28
\* and with 29, and up to four pushes in any order.
SPECIFICATION MCSpec
CONSTANTS
  VlanPushes <- MCVlanPushes
  MplsPushes <- MCMplsPushes
  ReceivedTags <- MCReceivedTags
  Received <- MCReceived
  MaxHeadroom = 3
  MaxPushes = 4
  Payloads <- MCPayloads
  Stale <- MCStale
CHECK_DEADLOCK FALSE
INVARIANTS PushesComposed TextTold OrderIrrelevant RtpAsDesigned TagsDontMatter
