------------------------------ MODULE MCZapret ------------------------------
EXTENDS Zapret
\* A complete installation, one that never had a hostlist, one without its config.
MCMissing == {{}, {"hostlist"}, {"config"}}
=============================================================================
