SPECIFICATION Spec
CONSTANTS
  Servers = {"declared", "shipped"}
  Charts = {"a"}
  TagOf <- MCTagOf
  Configs = {"ir"}
  NewFiles = {"n"}
  MaxPoints = 1
  ChartSlots = {s1, s2}
  FileSlots = {f1, f2}
  UploadSlots = {u1, u2}
SYMMETRY SlotSymmetry
INVARIANTS
  AnswersFit
  OneTimer
  FolderIsWatched
