-------------------------- MODULE MCDataEnrichment --------------------------
EXTENDS DataEnrichment
=============================================================================
