------------------------------- MODULE UserMC -------------------------------
\* The instances of UserAccounts that TLC checks.
EXTENDS UserClaims
=============================================================================
