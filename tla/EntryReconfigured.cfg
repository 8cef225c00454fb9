CONSTANTS
    NoConfig = NoConfig
    Forms <- TwoForms
SPECIFICATION EntrySpec
CHECK_DEADLOCK FALSE
PROPERTY ReconfigureTakesEffect
