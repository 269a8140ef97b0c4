---------------------------- MODULE MCRelayOutputs ----------------------------
EXTENDS RelayOutputs
\* Every polarity, every combination of assigned and unassigned pins.
AllHardware == HardwareConfig
==============================================================================
