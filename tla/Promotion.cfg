SPECIFICATION PermissionsSpec
CONSTANTS
  Restrictions = {{}, {"manage_topics"}}
  Rights = {{"delete_messages", "pin_messages"}}
  Unnamed = unnamed
  MaxChanges = 1
CHECK_DEADLOCK FALSE
INVARIANT UnknownIsOmitted
