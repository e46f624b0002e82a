\* Two clients; two loops of the picture at one time, or one and the audio thread.
SPECIFICATION Spec
CONSTANTS
  Loops = {l1, l2}
  RxTypes = {remote_audio_rx}
  MaxTries = 2
  MaxThreads = 2
INVARIANT SessionInv
PROPERTIES StreamsEnd PendingAnswered
CHECK_DEADLOCK FALSE
