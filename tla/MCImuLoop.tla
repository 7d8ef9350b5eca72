----------------------------- MODULE MCImuLoop -----------------------------
EXTENDS ImuLoop

BothAddresses == {ADDR_GND, ADDR_VCC}
=============================================================================
