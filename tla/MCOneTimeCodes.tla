------------------------------ MODULE MCOneTimeCodes ------------------------------
(* The codes of one address, of the devices and of Google sign-in share no   *)
(* state: a behaviour of this module is one of one of them, `part`.          *)
EXTENDS OtpCodes, RegistrationCodes, GoogleSignIn, TLC

VARIABLE part

allVars == <<otpVars, regVars, gVars, part>>

CodesInit ==
    /\ OtpInit /\ RegInit /\ GoogleInit
    /\ part \in {"otp", "registration", "google"}

CodesNext ==
    /\ UNCHANGED part
    /\ \/ part = "otp" /\ OtpNext /\ UNCHANGED <<regVars, gVars>>
       \/ part = "registration" /\ RegNext /\ UNCHANGED <<otpVars, gVars>>
       \/ part = "google" /\ GoogleNext /\ UNCHANGED <<otpVars, regVars>>

CodesSpec == CodesInit /\ [][CodesNext]_allVars

\* The three sets of requests have the same elements.
CodesSymmetry == Permutations(OtpRequests) \cup Permutations(GoogleUsers)

\* Documents and requests of the three parts have the fields and refer to the documents
\* the code gives them.
CodesTypeOK == OtpTypeOK /\ RegTypeOK /\ GoogleTypeOK

==============================================================================
