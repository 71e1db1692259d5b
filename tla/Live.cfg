CONSTANTS
  None = None
  ReconcileTick = ReconcileTick
  NoJob = NoJob
  OneShape = OneShape  OtherShape = OtherShape
  Handed = {"windows", "obs"}
  MaxNoise = 1
SPECIFICATION AllFairSpec
PROPERTIES ImplementsOnePicture RuntimeComesToRest BodiesGetThere SensorsComeToRest
CHECK_DEADLOCK FALSE
