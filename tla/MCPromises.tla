----------------------------- MODULE MCPromises -----------------------------
EXTENDS Promises

CONSTANTS v1

MCValues == {v1}
\* then(f), and catch(r).
MCHandlers == {<<TRUE, FALSE>>, <<FALSE, TRUE>>}
=============================================================================
