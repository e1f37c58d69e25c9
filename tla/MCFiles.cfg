SPECIFICATION PartSpec
CONSTANTS
  Heaps = {13, 16, 19, 32}
  Requests = {1, 17, 48, 128}
  MaxHeld = 3
  Actors = {a1, a2}
  Others = {o1, o2}
  First = p0
  NotCached = NotCached
  Nobody = Nobody
SYMMETRY Symmetry
INVARIANTS BuddySafe  LinksDurable NeverPanics MemorySafe
