SPECIFICATION Spec
CONSTANTS
  k1 = k1
  k2 = k2
  k3 = k3
  Key = {k1, k2, k3}
  Value = {v1, v2}
  NULL = NULL
  Hash <- HashMC
  DICT_HT_INITIAL_SIZE = 1
  dict_force_resize_ratio = 1
  REDIS_HT_MINFILL = 40
  Obj = {1, 2, 3}
  Score = {1, 2}
  ZSKIPLIST_MAXLEVEL = 3
  t1 = t1
  t2 = t2
  t3 = t3
  none = none
  two = two
  big = big
  Str = {t1, t2, t3, none, two, big}
  StrLen <- StrLenMC
  ZKey = {t1, t2, t3}
  ZIPMAP_BIGLEN = 2
  INTBYTES = 2
  ZIPMAP_VALUE_MAX_FREE = 3
  ZEND = 255
  Junk = Junk
  MaxFd = 2
  MaxClients = 3
  Second = 2
  CronPeriod = 1
  MaxTimers = 2
  MaxLate = 2
SYMMETRY ValueSymmetry
INVARIANTS
  DictSound IterationComplete
  SortedSetSound ZipmapSound EventLoopSound
PROPERTY ImplementsMap
