CONSTANTS
  Agents = {a1, a2}
  Browsers = {b}
  Agent = Agent  Extension = Extension  Web = Web
  Windows = Windows  Screen = Screen  Files = Files  Page = Page  Tabs = Tabs
  MaxSensors = 2
  MaxOutbox = 2
  MaxStarts = 4
  MaxNodes = 200
  Unsaved = Unsaved  Never = Never  Nobody = Nobody
  Cooldown = 1
  MajorDwell = 2
  MajorShare = 2
  Hosts = {"h1", "h2"}
  Things = {"a", "b"}
SPECIFICATION AllSpec
INVARIANTS IndicatorIsTrue PatchesLand
PROPERTIES BeliefIsSound MorphsAreSafe
CHECK_DEADLOCK FALSE
