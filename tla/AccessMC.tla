------------------------------- MODULE AccessMC -------------------------------
\* The instances of Access that TLC checks.
EXTENDS AccessClaims
=============================================================================
