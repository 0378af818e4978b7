-------------------------- MODULE MCRestartBackoff --------------------------
EXTENDS RestartBackoff
=============================================================================
