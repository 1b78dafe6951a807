SPECIFICATION Spec
CONSTANTS
  Keys = {"a", "del", "lshift", "rctl", "lalt", "caps"}
  Bytes = {0, 50}
  CONSBUFSIZE = 3
  MaxUnread = 2
  KbdFifo = 3
VIEW UpToReadSlots
INVARIANTS
  InputIsTyped
  ShiftFollowsKeys
