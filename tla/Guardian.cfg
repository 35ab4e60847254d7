\* Two frames in the hands of two handler threads, one worker, two resolvers, and a lock wait as long as the replay window.
SPECIFICATION FairSpec
CONSTANTS
  Frames = {f1, f2}
  Handlers = {t1, t2}
  Resolvers = {r1, r2}
  Workers = 1
  Window = 1
  Stamps = {0, 2}
  MaxTime = 5
  MaxLockWait = 1
  None = None
INVARIANTS TypeOK OncePerFrame
PROPERTIES EveryFrameAnswered
CHECK_DEADLOCK FALSE
