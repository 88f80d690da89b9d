SPECIFICATION Spec
CONSTANTS
  Devices = {d1}
  Keys = {k1, k2}
  Dirs = {rx, tx}
  NoKey = NoKey
  MaxFlow = 4
PROPERTY RebaselinesOnReset
