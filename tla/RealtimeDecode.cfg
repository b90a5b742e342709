SPECIFICATION Spec
CONSTANTS
  Packages <- Lists3
  Bytes = {60, 128}
  Alarms <- OneAtATime
  Speed = "speed"
  FastAbove = 14961
  None = None
INVARIANTS TypeOK ReadAsTheCoreAssumes AlertsNotHidden RaisesWhenTooWide
