---------------------------- MODULE MCIapDialogs ----------------------------
EXTENDS IapDialogs

MCAutoConnect == {<<"GPRS">>}
=============================================================================
