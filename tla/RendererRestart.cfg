SPECIFICATION RendererSpec
CONSTANTS
    Window = {"w1", "w2"}
    MaxErrorTimes = 1
    MaxVersionMismatchNums = 2
PROPERTIES
    RestartStartsRenderer
\* With nothing to show and no renderer to come the client may rest.
CHECK_DEADLOCK FALSE
