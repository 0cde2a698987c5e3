\* Two command lines of one or two stages, in the foreground or background; a
\* pipe that holds one item and a first stage that writes two.
CONSTANTS
    MaxLines = 2
    Cap = 1
    Items = 2
SPECIFICATION Spec
INVARIANTS TerminalAgrees DescriptorsAccounted PipelineEnds
CHECK_DEADLOCK FALSE
