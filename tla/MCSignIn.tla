----------------------------- MODULE MCSignIn -----------------------------
EXTENDS SignIn

\* A device at home, the same one abroad, and another one abroad.
MCDevice ==
  {[country |-> "home", agent |-> "a"], [country |-> "abroad", agent |-> "a"],
   [country |-> "abroad", agent |-> "b"]}
=============================================================================
