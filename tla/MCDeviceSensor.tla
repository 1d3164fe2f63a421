-------------------------- MODULE MCDeviceSensor --------------------------
\* DeviceSensor for TLC: three ordinary temperatures, the device's own name.
EXTENDS DeviceSensor

Range15To17 == 15 .. 17

=============================================================================
