SPECIFICATION Spec
CONSTANT QuickTaps = FALSE
INVARIANTS AllAgree SwitchTells
PROPERTY BootApplies
