\* Three bytes in chunks of up to two, a window and a tail of two bytes.
SPECIFICATION FairSpec
CONSTANTS
  MaxBuffered = 2
  StreamLen = 3
  MaxData = 2
  ResendBufferBytes = 2
  ResendMaxFrames = 2
  InboxCap = 1
  InputCap = 1
INVARIANTS DeliveredIsPrefix WindowAccounting TailServesHole DrainIsTheLoop
 
CHECK_DEADLOCK FALSE
