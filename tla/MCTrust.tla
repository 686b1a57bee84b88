-------------------------------- MODULE MCTrust --------------------------------
(***************************************************************************)
(* Phones, staff sessions and logins, web sessions, provider verification, *)
(* authority risk and the response report, for TLC.  They share no state: a*)
(* behaviour is one of one part, with the others at rest, so that the      *)
(* states of the parts add up and do not multiply.                         *)
(***************************************************************************)
EXTENDS PhoneOwnership, StaffSessions, StaffLogin, WebSessions, ProviderVerification, AuthorityRisk, Analytics, TLC
VARIABLE part

sessionVars == <<staffVars, loginVars, webVars>>
otherVars == <<phoneVars, verificationVars, authorityVars, reportVars>>

Init ==
  /\ part \in {"PHONE", "SESSION", "LOGIN", "WEB", "VERIFICATION", "AUTHORITY", "REPORT"}
  /\ PhoneInit /\ StaffInit /\ LoginInit /\ WebInit /\ VerificationInit /\ AuthorityInit
  /\ ReportInit
  /\ part # "LOGIN" => ahead = 0

Phone ==
  /\ part = "PHONE" /\ PhoneNext
  /\ UNCHANGED <<part, sessionVars, verificationVars, authorityVars, reportVars>>

Session ==
  /\ part = "SESSION" /\ StaffNext
  /\ UNCHANGED <<part, loginVars, webVars, otherVars>>

Login ==
  /\ part = "LOGIN" /\ LoginNext
  /\ UNCHANGED <<part, staffVars, webVars, otherVars>>

Web ==
  /\ part = "WEB" /\ WebNext
  /\ UNCHANGED <<part, staffVars, loginVars, otherVars>>

Verification ==
  /\ part = "VERIFICATION" /\ VerificationNext
  /\ UNCHANGED <<part, sessionVars, phoneVars, authorityVars, reportVars>>

Authority ==
  /\ part = "AUTHORITY" /\ AuthorityNext
  /\ UNCHANGED <<part, sessionVars, phoneVars, verificationVars, reportVars>>

Reporting ==
  /\ part = "REPORT" /\ ReportNext
  /\ UNCHANGED <<part, sessionVars, phoneVars, verificationVars, authorityVars>>

Next == Phone \/ Session \/ Login \/ Web \/ Verification \/ Authority \/ Reporting

Spec == Init /\ [][Next]_<<part, sessionVars, otherVars>>

\* The model values of Users and Staff stand for the members of other sets too.
Symmetry == Permutations(Users) \cup Permutations(Staff)
=============================================================================
