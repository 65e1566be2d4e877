------------------------------ MODULE MCCDDrive ------------------------------
\* Model-checking instance of CDDrive.
EXTENDS CDDrive

AllBits == {Bits}
=============================================================================
