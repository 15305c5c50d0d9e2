------------------------------ MODULE MC_Errors ------------------------------
EXTENDS Errors

MCIds == {"svc", "go.micro.client"}
MCSources == {"user"}
MCDetails == {"not found", "context canceled", "boom"}
MCCodes == {500, 599}

=============================================================================
