\* Transports: two bytes or datagrams, two addresses and timeouts of up to two
\* ticks; HTTP with timeouts, delays and policies whose ticks fit its clock.
\* Cameras: three V4L2 buffers and reads longer than one poll() can wait, three
\* libcamera requests.
SPECIFICATION DevicesSpec
CONSTANTS
  MaxTimeout = 2
  MaxBytes = 2
  MaxAddresses = 2
  WordMax = 15
  PerMillisecond = 1
  Timeouts = {0, 2, 7}
  Delays = {0, 2, 3}
  MaxAttempts = 3
  MaxNow = 8
  MaxBuffers = 3
  MaxCapture = 3
  IntMax = 1
  Buffers = 3
INVARIANTS
  NativeOwned
  TransferExact
  CancelHeeded
  FramesOwned
  BetweenCalls
PROPERTIES
  OwnerKept
  RetryAuthorized
  KeepsContract
  CallsReturn
