CONSTANTS
  CvMin = 3
  CvEoc = 5
  CvCeil = 6
  Band = 1
  Slope = 1
  IbatFloor <- TestIbatFloor
  Dod = 1
  Vmax = 4
  Fallback = 3
  Offset = 1
  NCells = 1
  CeilReq = 2
  FloorReq = 2
  GlideTime = 2
  MostAh = 2
  Cells = {1, 3, 4, 6}
  Currents <- TestCurrents
  Charges <- TestCharges
  Packs = {2, 4}
  Cold = Cold
SPECIFICATION MemorySpec
PROPERTY FloatHolds
