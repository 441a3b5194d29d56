-------------------------- MODULE MCNetworkClients --------------------------
\* Instances of NetworkClients for TLC.
EXTENDS NetworkClients

CONSTANTS main, worker, token

\* The server's root, and a URL that is absolute.
MCUrl == {<<>>, <<"http">>}
=============================================================================
