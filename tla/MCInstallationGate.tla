------------------------ MODULE MCInstallationGate ------------------------
EXTENDS InstallationGate
=============================================================================
