----------------------- MODULE MCProductIntelligence -----------------------
EXTENDS ProductIntelligence
=============================================================================
