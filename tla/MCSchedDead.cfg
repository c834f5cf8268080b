SPECIFICATION Spec
CONSTANTS
    MaxTasks = 3
    SwitchTick = 2
    Boot = Boot
    NoTask = NoTask
    Junk = Junk
PROPERTIES
    DeadStayOff
