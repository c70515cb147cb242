-------------------------- MODULE MCAlertDispatch --------------------------
EXTENDS AlertDispatch
=============================================================================
