----------------------------- MODULE UserClaims -----------------------------
(***************************************************************************)
(* A statement of the guides about users that the code does not keep.      *)
(***************************************************************************)
EXTENDS UserAccounts

(* "The platform validates that the userId is not already in use"           *)
(* (docs/admin/user-management.md:103), before it does anything else: a     *)
(* user nobody is working on keeps a login.  The check is the last step,    *)
(* and what it finds is undone by deleting the login of the existing user.  *)
ExistingUsersKeepTheirLogin ==
    \A u \in Users : Exists(u) /\ ~Busy(u) => HasLogin(u)
=============================================================================
