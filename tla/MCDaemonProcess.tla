---------------------------- MODULE MCDaemonProcess ----------------------------
EXTENDS DaemonProcessProperties
=============================================================================
