--------------------------- MODULE MCCatalogScreen ---------------------------
(* CatalogScreen while nobody signs in or out and no membership changes.    *)
EXTENDS CatalogScreen

SteadyNext == ScreenNext /\ UNCHANGED <<session, members>>
SteadySpec == ScreenInit /\ [][SteadyNext]_screenVars
=============================================================================
