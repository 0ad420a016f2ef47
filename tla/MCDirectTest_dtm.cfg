SPECIFICATION Spec
CONSTANTS
  Commands <- MCCommands
INVARIANTS ReplyIsRight
PROPERTIES AirIsAsTold EveryCommandAnswered
