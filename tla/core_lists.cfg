SPECIFICATION Spec
CONSTANTS
  Classes = {"Ports", "Connections", "Channels", "PortTransforms", "Waveform", "DeviceVoltageStates", "CoupledLabelledDomain"}
  Vars = {x}
  Names = {m, n}
  Messages = {r}
  Objs = {o1, o2, o3, o4}
  Lists = {c1, c2, c3}
  Values = {v, w}
  MaxLen = 2
SYMMETRY Interchangeable
INVARIANTS TypeOK WrittenInOnePlace
PROPERTIES ListsAreValues
CHECK_DEADLOCK FALSE
