------------------------------ MODULE MCLauncher ------------------------------
EXTENDS Launcher
=============================================================================
