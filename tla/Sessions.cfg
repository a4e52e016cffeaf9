SPECIFICATION Spec
CONSTANTS
  Claude = {c1}
  Codex = {x1}
  Insides = {{}, {x1}}
  Hour = 2
  AgentHour = 3
  Fresh = 1
  Back = 2
  Acts = 4
  Faults = 1
INVARIANTS AliveIsShown AskingIsShown BuriedStaysBuried KilledIsDropped AgentsAreCounted
