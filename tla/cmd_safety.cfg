\* Two commands of up to two items: an agent that sends them at any time, with
\* acknowledgements that cannot be built, or one that lets the plugIN get back to
\* polling; registration that comes and goes.
SPECIFICATION FairSpec
CONSTANTS
  Commands = {c1, c2}
  NoCommand = null
  MaxItems = 2
  Agents = {"eager", "patient"}
CHECK_DEADLOCK FALSE
INVARIANTS
  TypeOK
  NoUseAfterDelete
  SlotNotDeleted
  ExecutedOnceInOrder
  OutcomeAfterAcceptance
PROPERTIES
  CommandAnswered
