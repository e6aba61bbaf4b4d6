SPECIFICATION SettingsSpec
CONSTANTS
  MaxCommands = 2
  MaxChanges = 2
PROPERTIES
  LaunchKeeps
CHECK_DEADLOCK FALSE
